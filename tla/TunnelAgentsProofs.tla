-------------------------- MODULE TunnelAgentsProofs --------------------------
(***************************************************************************)
(* What TunnelAgents keeps for any number of clients, addresses,           *)
(* connections, payloads and restarts: the connection limiter's count, the *)
(* agreement of counters and custody, what the quarantine holds, that the  *)
(* responses tell the truth about the chain of custody, and that what a    *)
(* client waits for is there; and, for one dial, what a rekey loses.       *)
(***************************************************************************)
EXTENDS TunnelAgents, PipelineProofs

HandlerStates == {"none", "accepted", "handshaking", "serving", "closing", "done"}
CountedStates == {"handshaking", "serving", "closing"}

\* The connections that hold a slot of address ip, given who dialled them
\* and where their handlers are.
Holders(own, hd, ip) == {d \in DOMAIN own : IpOf[own[d]] = ip /\ hd[d] \in CountedStates}

\* The limiter's books, as a fact about the three variables they consist of.
Books(own, hd, counts) ==
    /\ own \in Seq(Clients) /\ Len(own) <= MaxDials
    /\ hd \in [Dials -> HandlerStates]
    /\ counts \in [Ips -> Nat]
    /\ \A ip \in Ips :
          counts[ip] = Cardinality(Holders(own, hd, ip)) /\ counts[ip] <= MaxConns

SlotsInv == Books(owner, handler, active_ip_counts)

-----------------------------------------------------------------------------
(* The connection limiter.                                                 *)

LEMMA HoldersFinite ==
    ASSUME NEW own \in Seq(Clients), NEW hd, NEW ip
    PROVE  IsFiniteSet(Holders(own, hd, ip)) /\ Cardinality(Holders(own, hd, ip)) \in Nat
<1>1. DOMAIN own = 1 .. Len(own) /\ Len(own) \in Nat
  OBVIOUS
<1>2. IsFiniteSet(1 .. Len(own))
  BY <1>1, FS_Interval
<1>3. IsFiniteSet(Holders(own, hd, ip))
  BY <1>1, <1>2, FS_Subset DEF Holders
<1> QED BY <1>3, FS_CardinalityType

\* A handler moves within the states that hold a slot, or within those that
\* do not.
LEMMA SlotKept ==
    ASSUME NEW own, NEW hd, NEW counts, Books(own, hd, counts),
           NEW d \in Dials, NEW v \in HandlerStates,
           hd[d] \in CountedStates <=> v \in CountedStates
    PROVE  Books(own, [hd EXCEPT ![d] = v], counts)
<1>1. hd \in [Dials -> HandlerStates]
  BY DEF Books
<1>2. DOMAIN own \subseteq Dials
  BY AgentsAssumption DEF Books, Dials
<1>3. \A ip \in Ips : Holders(own, [hd EXCEPT ![d] = v], ip) = Holders(own, hd, ip)
  BY <1>1, <1>2 DEF Holders
<1> QED BY <1>1, <1>3 DEF Books

LEMMA SlotTaken ==
    ASSUME NEW own, NEW hd, NEW counts, Books(own, hd, counts),
           NEW d \in DOMAIN own, NEW v \in CountedStates,
           hd[d] \notin CountedStates, counts[IpOf[own[d]]] < MaxConns
    PROVE  Books(own, [hd EXCEPT ![d] = v], [counts EXCEPT ![IpOf[own[d]]] = @ + 1])
<1> DEFINE here == IpOf[own[d]]
           then == [hd EXCEPT ![d] = v]
<1>1. /\ own \in Seq(Clients) /\ hd \in [Dials -> HandlerStates] /\ counts \in [Ips -> Nat]
      /\ DOMAIN own \subseteq Dials /\ MaxConns \in Nat
  BY AgentsAssumption DEF Books, Dials
<1>2. here \in Ips
  BY <1>1 DEF Ips
<1>3. then \in [Dials -> HandlerStates]
  BY <1>1 DEF CountedStates, HandlerStates
<1>4. Holders(own, then, here) = Holders(own, hd, here) \cup {d} /\ d \notin Holders(own, hd, here)
  BY <1>1 DEF Holders
<1>5. \A ip \in Ips \ {here} : Holders(own, then, ip) = Holders(own, hd, ip)
  BY <1>1 DEF Holders
<1>6. Cardinality(Holders(own, then, here)) = counts[here] + 1
  <2>1. IsFiniteSet(Holders(own, hd, here)) /\ counts[here] = Cardinality(Holders(own, hd, here))
    BY <1>1, <1>2, HoldersFinite DEF Books
  <2> HIDE DEF here, then
  <2> QED BY <1>4, <2>1, FS_AddElement
<1> HIDE DEF then, here
<1>7. Books(own, then, [counts EXCEPT ![here] = @ + 1])
  <2>1. [counts EXCEPT ![here] = @ + 1] \in [Ips -> Nat]
    BY <1>1, <1>2
  <2>2. counts[here] < MaxConns
    BY DEF here
  <2>3. ASSUME NEW ip \in Ips
        PROVE  LET after == [counts EXCEPT ![here] = @ + 1]
               IN  after[ip] = Cardinality(Holders(own, then, ip)) /\ after[ip] <= MaxConns
    BY <1>1, <1>2, <1>5, <1>6, <2>2 DEF Books
  <2> QED BY <1>1, <1>3, <2>1, <2>3 DEF Books
<1> QED BY <1>7 DEF then, here

LEMMA SlotReleased ==
    ASSUME NEW own, NEW hd, NEW counts, Books(own, hd, counts),
           NEW d \in DOMAIN own, hd[d] \in CountedStates
    PROVE  Books(own, [hd EXCEPT ![d] = "done"],
                 [counts EXCEPT ![IpOf[own[d]]] = IF @ > 0 THEN @ - 1 ELSE 0])
<1> DEFINE here == IpOf[own[d]]
           then == [hd EXCEPT ![d] = "done"]
<1>1. /\ own \in Seq(Clients) /\ hd \in [Dials -> HandlerStates] /\ counts \in [Ips -> Nat]
      /\ DOMAIN own \subseteq Dials /\ MaxConns \in Nat
  BY AgentsAssumption DEF Books, Dials
<1>2. here \in Ips
  BY <1>1 DEF Ips
<1>3. then \in [Dials -> HandlerStates]
  BY <1>1 DEF HandlerStates
<1>4. Holders(own, then, here) = Holders(own, hd, here) \ {d} /\ d \in Holders(own, hd, here)
  BY <1>1 DEF Holders, CountedStates
<1>5. \A ip \in Ips \ {here} : Holders(own, then, ip) = Holders(own, hd, ip)
  BY <1>1 DEF Holders
<1>6. /\ Cardinality(Holders(own, then, here)) = counts[here] - 1
      /\ Cardinality(Holders(own, then, here)) \in Nat
  <2>1. IsFiniteSet(Holders(own, hd, here)) /\ counts[here] = Cardinality(Holders(own, hd, here))
    BY <1>1, <1>2, HoldersFinite DEF Books
  <2>2. Cardinality(Holders(own, then, here)) \in Nat
    BY <1>1, HoldersFinite
  <2> HIDE DEF here, then
  <2> QED BY <1>4, <2>1, <2>2, FS_RemoveElement
<1> HIDE DEF then, here
<1>7. Books(own, then, [counts EXCEPT ![here] = IF @ > 0 THEN @ - 1 ELSE 0])
  <2>1. counts[here] \in Nat /\ counts[here] > 0
    BY <1>1, <1>2, <1>6
  <2>2. [counts EXCEPT ![here] = IF @ > 0 THEN @ - 1 ELSE 0] = [counts EXCEPT ![here] = @ - 1]
    BY <2>1
  <2>3. [counts EXCEPT ![here] = @ - 1] \in [Ips -> Nat]
    BY <1>1, <1>2, <2>1
  <2>4. ASSUME NEW ip \in Ips
        PROVE  LET after == [counts EXCEPT ![here] = @ - 1]
               IN  after[ip] = Cardinality(Holders(own, then, ip)) /\ after[ip] <= MaxConns
    BY <1>1, <1>2, <1>5, <1>6, <2>1 DEF Books
  <2>5. Books(own, then, [counts EXCEPT ![here] = @ - 1])
    BY <1>1, <1>3, <2>3, <2>4 DEF Books
  <2> QED BY <2>2, <2>5
<1> QED BY <1>7 DEF then, here

LEMMA SlotDialled ==
    ASSUME NEW own, NEW hd, NEW counts, Books(own, hd, counts),
           NEW c \in Clients, Len(own) + 1 \in Dials
    PROVE  Books(Append(own, c), [hd EXCEPT ![Len(own) + 1] = "accepted"], counts)
<1> DEFINE d == Len(own) + 1
           then == [hd EXCEPT ![d] = "accepted"]
           more == Append(own, c)
<1>1. /\ own \in Seq(Clients) /\ hd \in [Dials -> HandlerStates]
      /\ Len(own) \in Nat /\ MaxDials \in Nat
  BY AgentsAssumption DEF Books
<1>2. /\ more \in Seq(Clients) /\ Len(more) = d /\ DOMAIN more = 1 .. d
      /\ \A e \in DOMAIN own : more[e] = own[e]
      /\ DOMAIN own = 1 .. Len(own)
  BY <1>1, AppendProperties
<1>3. then \in [Dials -> HandlerStates] /\ then[d] \notin CountedStates
      /\ \A e \in DOMAIN own : e \in Dials /\ e # d /\ then[e] = hd[e]
  BY <1>1, <1>2 DEF HandlerStates, CountedStates, Dials
<1>4. d <= MaxDials
  BY <1>1 DEF Dials
<1> HIDE DEF then, more
<1>5. \A e : e \in DOMAIN more <=> e \in DOMAIN own \/ e = d
  BY <1>1, <1>2
<1>6. \A ip \in Ips : Holders(more, then, ip) = Holders(own, hd, ip)
  BY <1>2, <1>3, <1>5 DEF Holders
<1>7. Books(more, then, counts)
  BY <1>2, <1>3, <1>4, <1>6 DEF Books
<1> QED BY <1>7 DEF then, more

\* The finally block of a handler that holds a slot.
LEMMA FinishKeepsBooks ==
    ASSUME SlotsInv, NEW d \in DOMAIN owner, handler[d] \in CountedStates,
           Finish(d), owner' = owner
    PROVE  SlotsInv'
<1>1. /\ handler' = [handler EXCEPT ![d] = "done"]
      /\ active_ip_counts' =
            [active_ip_counts EXCEPT ![IpOf[owner[d]]] = IF @ > 0 THEN @ - 1 ELSE 0]
  BY DEF Finish, ReleaseSlot, Ip
<1> QED BY <1>1, SlotReleased DEF SlotsInv

LEMMA HandlerKeepsBooks ==
    ASSUME SlotsInv, NEW d \in DOMAIN owner, HandlerStep(d)
    PROVE  SlotsInv'
<1>1. owner' = owner
  BY DEF HandlerStep, Refuse, Admit, FinishHandshake, GiveUpHandshake, FinishClosing, Serve,
         Disconnected
<1>2. d \in Dials
  BY AgentsAssumption DEF SlotsInv, Books, Dials
<1>3. CASE Refuse(d)
  <2>1. /\ handler[d] \notin CountedStates /\ handler' = [handler EXCEPT ![d] = "done"]
        /\ active_ip_counts' = active_ip_counts
    BY <1>3 DEF Refuse, CountedStates
  <2> QED BY <1>1, <1>2, <2>1, SlotKept DEF SlotsInv, HandlerStates, CountedStates
<1>4. CASE Admit(d)
  <2>1. /\ handler[d] \notin CountedStates /\ "handshaking" \in CountedStates
        /\ active_ip_counts[IpOf[owner[d]]] < MaxConns
        /\ handler' = [handler EXCEPT ![d] = "handshaking"]
        /\ active_ip_counts' = [active_ip_counts EXCEPT ![IpOf[owner[d]]] = @ + 1]
    BY <1>4 DEF Admit, Ip, CountedStates
  <2> QED BY <1>1, <2>1, SlotTaken DEF SlotsInv
<1>5. CASE FinishHandshake(d)
  <2>1. handler[d] \in CountedStates
    BY <1>5 DEF FinishHandshake, CountedStates
  <2>2. CASE is_running
    <3>1. handler' = [handler EXCEPT ![d] = "serving"] /\ active_ip_counts' = active_ip_counts
      BY <1>5, <2>2 DEF FinishHandshake
    <3> QED BY <1>1, <1>2, <2>1, <3>1, SlotKept DEF SlotsInv, HandlerStates, CountedStates
  <2>3. CASE ~ is_running
    <3>1. Finish(d)
      BY <1>5, <2>3 DEF FinishHandshake
    <3> QED BY <1>1, <2>1, <3>1, FinishKeepsBooks
  <2> QED BY <2>2, <2>3
<1>6. CASE GiveUpHandshake(d)
  <2>1. /\ handler[d] \in CountedStates /\ handler' = [handler EXCEPT ![d] = "closing"]
        /\ active_ip_counts' = active_ip_counts
    BY <1>6 DEF GiveUpHandshake, CountedStates
  <2> QED BY <1>1, <1>2, <2>1, SlotKept DEF SlotsInv, HandlerStates, CountedStates
<1>7. CASE FinishClosing(d) \/ Disconnected(d)
  <2>1. handler[d] \in CountedStates /\ Finish(d)
    BY <1>7 DEF FinishClosing, Disconnected, CountedStates
  <2> QED BY <1>1, <2>1, FinishKeepsBooks
<1>8. CASE Serve(d)
  <2>1. handler[d] \in CountedStates
    BY <1>8 DEF Serve, CountedStates
  <2>2. CASE is_running
    BY <1>1, <1>8, <2>2 DEF Serve, SlotsInv
  <2>3. CASE ~ is_running
    <3>1. Finish(d)
      BY <1>8, <2>3 DEF Serve
    <3> QED BY <1>1, <2>1, <3>1, FinishKeepsBooks
  <2> QED BY <2>2, <2>3
<1> QED BY <1>3, <1>4, <1>5, <1>6, <1>7, <1>8 DEF HandlerStep

LEMMA DialKeepsBooks ==
    ASSUME SlotsInv, NEW c \in Clients, Dial(c)
    PROVE  SlotsInv'
<1>1. /\ Len(owner) + 1 \in Dials /\ owner' = Append(owner, c)
      /\ handler' = [handler EXCEPT ![Len(owner) + 1] = "accepted"]
      /\ active_ip_counts' = active_ip_counts
  BY DEF Dial
<1> QED BY <1>1, SlotDialled DEF SlotsInv

\* No step of a client but dialling, nor the clock, touches the limiter.
LEMMA OthersKeepBooks ==
    ASSUME SlotsInv,
           \/ Tick \/ Stop \/ UNCHANGED vars
           \/ \E c \in Clients : ClientWakes(c) \/ Close(c) \/ Restart(c)
           \/ \E c \in Clients, kind \in Kinds : Send(c, kind)
           \/ \E d \in DOMAIN owner : DropAbandoned(d)
    PROVE  SlotsInv'
<1>1. UNCHANGED <<owner, handler, active_ip_counts>>
  BY DEF Tick, Stop, vars, serverVars, netVars, ClientWakes, ClientHandshake, ConnectFails,
         Receive, ReceiveFails, Close, Restart, Send, DropAbandoned
<1> QED BY <1>1 DEF SlotsInv

THEOREM SlotsInvariant == Spec => []SlotsInv
<1>1. Init => SlotsInv
  <2> SUFFICES ASSUME Init PROVE SlotsInv
    OBVIOUS
  <2>1. owner = << >> /\ handler = [d \in Dials |-> "none"]
        /\ active_ip_counts = [ip \in Ips |-> 0]
    BY DEF Init
  <2>2. owner \in Seq(Clients) /\ Len(owner) = 0 /\ DOMAIN owner = {}
    BY <2>1
  <2>3. \A ip \in Ips : Cardinality(Holders(owner, handler, ip)) = 0
    BY <2>2, FS_EmptySet DEF Holders
  <2> QED BY <2>1, <2>2, <2>3, AgentsAssumption DEF SlotsInv, Books, HandlerStates
<1>2. SlotsInv /\ [Next]_vars => SlotsInv'
  <2> SUFFICES ASSUME SlotsInv, [Next]_vars PROVE SlotsInv'
    OBVIOUS
  <2>1. CASE \E c \in Clients : Dial(c)
    BY <2>1, DialKeepsBooks
  <2>2. CASE \E d \in DOMAIN owner : HandlerStep(d)
    BY <2>2, HandlerKeepsBooks
  <2>3. CASE \/ Tick \/ Stop \/ UNCHANGED vars
             \/ \E c \in Clients : ClientWakes(c) \/ Close(c) \/ Restart(c)
             \/ \E c \in Clients, kind \in Kinds : Send(c, kind)
             \/ \E d \in DOMAIN owner : DropAbandoned(d)
    BY <2>3, OthersKeepBooks
  <2> QED BY <2>1, <2>2, <2>3 DEF Next
<1> QED BY <1>1, <1>2, PTL DEF Spec

\* server_agent.py:25-34 and 80-82: on every path through handle_client, for
\* any number of connections, the count of an address is its handlers.
THEOREM LimiterIsExact == Spec => []SlotsMatchHandlers
<1>1. SlotsInv => SlotsMatchHandlers
  BY DEF SlotsInv, Books, Holders, SlotsMatchHandlers, Ip, Counted, CountedStates
<1> QED BY <1>1, SlotsInvariant, PTL

-----------------------------------------------------------------------------
(* Counters and custody.                                                   *)

\* A harness whose counters and chain tell the same story.
InAgreement(h) ==
    /\ DOMAIN h = HarnessFields
    /\ h.packets_received \in Nat /\ h.packets_blocked \in Nat
    /\ IsSequence(h.chain)
    /\ h.packets_received - h.packets_blocked = Len(h.chain)

HarnessesInv ==
    /\ InAgreement(server)
    /\ DOMAIN harness = Clients
    /\ \A c \in Clients : InAgreement(harness[c])

LEMMA NewAgrees ==
    ASSUME NEW id
    PROVE  InAgreement(NewHarness(id))
<1>1. IsSequence(<< >>) /\ Len(<< >>) = 0
  BY EmptySeq DEF IsSequence
<1> QED BY <1>1, NewEffect DEF InAgreement

LEMMA WrapAgrees ==
    ASSUME NEW h, InAgreement(h)
    PROVE  /\ InAgreement(WrapPayload(h))
           /\ WrapPayload(h).seq_counter = h.seq_counter + 1
           /\ WrapPayload(h).id = h.id /\ WrapPayload(h).chain = h.chain
<1> DEFINE v == WrapPayload(h)
<1>1. /\ DOMAIN v = HarnessFields /\ v.seq_counter = h.seq_counter + 1
      /\ \A field \in HarnessFields \ {"seq_counter", "session_key"} : v[field] = h[field]
  BY WrapEffect DEF InAgreement
<1> HIDE DEF v
<1>2. /\ v.packets_received = h.packets_received /\ v.packets_blocked = h.packets_blocked
      /\ v.chain = h.chain /\ v.id = h.id
  BY <1>1 DEF HarnessFields
<1> QED BY <1>1, <1>2 DEF InAgreement, v

LEMMA HandshakeAgrees ==
    ASSUME NEW h, InAgreement(h), NEW bytes, NEW expected
    PROVE  /\ InAgreement(CompleteHandshake(h, bytes, expected))
           /\ CompleteHandshake(h, bytes, expected).seq_counter = h.seq_counter
           /\ CompleteHandshake(h, bytes, expected).id = h.id
           /\ CompleteHandshake(h, bytes, expected).chain = h.chain
<1> DEFINE v == CompleteHandshake(h, bytes, expected)
<1>1. /\ DOMAIN v = HarnessFields
      /\ v.session_key = [secret |-> {h.id, bytes.keys}, ratchet |-> 0]
      /\ \A field \in HarnessFields \ {"session_key", "peer_signing_pubkey", "peer_connected"} :
            v[field] = h[field]
  <2>1. DOMAIN h = HarnessFields
    BY DEF InAgreement
  <2> QED BY <2>1, HandshakeEffect
<1> HIDE DEF v
<1>2. /\ v.packets_received = h.packets_received /\ v.packets_blocked = h.packets_blocked
      /\ v.chain = h.chain /\ v.seq_counter = h.seq_counter /\ v.id = h.id
  BY <1>1 DEF HarnessFields
<1> QED BY <1>1, <1>2 DEF InAgreement, v

LEMMA ProcessAgrees ==
    ASSUME NEW h, InAgreement(h), NEW f, NEW t
    PROVE  /\ InAgreement(ProcessFrame(h, f, t))
           /\ ProcessFrame(h, f, t).seq_counter = h.seq_counter
           /\ ProcessFrame(h, f, t).id = h.id
           /\ ProcessFrame(h, f, t).chain =
                 IF Accepts(h, f, t) THEN Append(h.chain, f.payload) ELSE h.chain
<1> DEFINE v == ProcessFrame(h, f, t)
<1>1. /\ DOMAIN v = HarnessFields
      /\ \A field \in {"id", "seq_counter", "session_key",
                       "peer_signing_pubkey", "peer_connected"} : v[field] = h[field]
      /\ v.chain = IF Accepts(h, f, t) THEN Append(h.chain, f.payload) ELSE h.chain
      /\ v.packets_received =
             IF Parsable(f) THEN h.packets_received + 1 ELSE h.packets_received
      /\ v.packets_blocked =
             IF Parsable(f) /\ ~ Accepts(h, f, t) THEN h.packets_blocked + 1
                                                  ELSE h.packets_blocked
  BY ProcessEffect DEF InAgreement
<1>2. /\ h.packets_received \in Nat /\ h.packets_blocked \in Nat
      /\ IsSequence(h.chain) /\ h.packets_received - h.packets_blocked = Len(h.chain)
  BY DEF InAgreement
<1>3. /\ IsSequence(Append(h.chain, f.payload))
      /\ Len(h.chain) \in Nat /\ Len(Append(h.chain, f.payload)) = Len(h.chain) + 1
  BY <1>2, Appended
<1>4. Accepts(h, f, t) => Parsable(f)
  BY AcceptedIsSealed
<1> HIDE DEF v
<1>5. CASE Accepts(h, f, t)
  <2>1. /\ v.chain = Append(h.chain, f.payload)
        /\ v.packets_received = h.packets_received + 1 /\ v.packets_blocked = h.packets_blocked
    BY <1>1, <1>4, <1>5
  <2>2. /\ v.packets_received \in Nat /\ v.packets_blocked \in Nat
        /\ v.packets_received - v.packets_blocked = Len(Append(h.chain, f.payload))
    BY <1>2, <1>3, <2>1
  <2> QED BY <1>1, <1>2, <1>3, <2>1, <2>2 DEF InAgreement, v
<1>6. CASE ~ Accepts(h, f, t)
  <2>1. v.chain = h.chain
    BY <1>1, <1>6
  <2>2. \/ v.packets_received = h.packets_received + 1 /\ v.packets_blocked = h.packets_blocked + 1
        \/ v.packets_received = h.packets_received /\ v.packets_blocked = h.packets_blocked
    BY <1>1, <1>6
  <2>3. /\ v.packets_received \in Nat /\ v.packets_blocked \in Nat
        /\ v.packets_received - v.packets_blocked = Len(h.chain)
    <3>1. /\ h.packets_received \in Nat /\ h.packets_blocked \in Nat
          /\ h.packets_received - h.packets_blocked = Len(h.chain)
      BY <1>2
    <3> QED BY <2>2, <3>1
  <2> QED BY <1>1, <1>2, <2>1, <2>3 DEF InAgreement, v
<1> QED BY <1>5, <1>6

\* A client's step changes that client's harness at most.
LEMMA OneHarness ==
    ASSUME HarnessesInv, NEW c \in Clients, NEW h, InAgreement(h),
           harness' = [harness EXCEPT ![c] = h], server' = server
    PROVE  HarnessesInv'
BY DEF HarnessesInv

THEOREM HarnessesInvariant == Spec => []HarnessesInv
<1>1. Init => HarnessesInv
  BY NewAgrees DEF Init, HarnessesInv
<1>2. HarnessesInv /\ [Next]_vars => HarnessesInv'
  <2> SUFFICES ASSUME HarnessesInv, [Next]_vars PROVE HarnessesInv'
    OBVIOUS
  <2>1. InAgreement(server) /\ \A c \in Clients : InAgreement(harness[c])
    BY DEF HarnessesInv
  <2>2. ASSUME NEW c \in Clients, ClientHandshake(c) PROVE HarnessesInv'
    <3>1. /\ harness' = [harness EXCEPT ![c] =
                            CompleteHandshake(harness[c], Head(down[conn[c]]), Expected[c])]
          /\ server' = server
      BY <2>2 DEF ClientHandshake, serverVars
    <3>2. InAgreement(CompleteHandshake(harness[c], Head(down[conn[c]]), Expected[c]))
      BY <2>1, HandshakeAgrees
    <3> QED BY <3>1, <3>2, OneHarness
  <2>3. ASSUME NEW c \in Clients, NEW kind \in Kinds, Send(c, kind) PROVE HarnessesInv'
    <3>1. harness' = [harness EXCEPT ![c] = WrapPayload(harness[c])] /\ server' = server
      BY <2>3 DEF Send, serverVars
    <3>2. InAgreement(WrapPayload(harness[c]))
      BY <2>1, WrapAgrees
    <3> QED BY <3>1, <3>2, OneHarness
  <2>4. ASSUME NEW c \in Clients, Receive(c) PROVE HarnessesInv'
    <3> DEFINE h == ProcessFrame(harness[c], Head(down[conn[c]]), now)
    <3>1. harness' = [harness EXCEPT ![c] = h] /\ server' = server
      BY <2>4 DEF Receive, serverVars
    <3>2. InAgreement(h)
      BY <2>1, ProcessAgrees
    <3> HIDE DEF h
    <3> QED BY <3>1, <3>2, OneHarness
  <2>5. ASSUME NEW c \in Clients, Restart(c) PROVE HarnessesInv'
    <3> DEFINE h == NewHarness(<<c, harness[c].id[2] + 1>>)
    <3>1. harness' = [harness EXCEPT ![c] = h] /\ server' = server
      BY <2>5 DEF Restart, serverVars, HarnessesInv
    <3>2. InAgreement(h)
      BY NewAgrees
    <3> HIDE DEF h
    <3> QED BY <3>1, <3>2, OneHarness
  <2>6. ASSUME NEW d \in DOMAIN owner, FinishHandshake(d) PROVE HarnessesInv'
    <3>1. server' = CompleteHandshake(server, Head(up[d]), NoPeer) /\ harness' = harness
      BY <2>6 DEF FinishHandshake, clientVars
    <3>2. InAgreement(server')
      BY <2>1, <3>1, HandshakeAgrees
    <3> QED BY <3>1, <3>2 DEF HarnessesInv
  <2>7. ASSUME NEW d \in DOMAIN owner, Serve(d) PROVE HarnessesInv'
    <3>1. server' = WrapPayload(ProcessFrame(server, Head(up[d]), now)) /\ harness' = harness
      BY <2>7 DEF Serve, clientVars
    <3>2. InAgreement(server')
      BY <2>1, <3>1, ProcessAgrees, WrapAgrees
    <3> QED BY <3>1, <3>2 DEF HarnessesInv
  <2>8. CASE \/ Tick \/ Stop \/ UNCHANGED vars
             \/ \E c \in Clients : Dial(c) \/ ConnectFails(c) \/ ReceiveFails(c) \/ Close(c)
             \/ \E d \in DOMAIN owner :
                   \/ DropAbandoned(d) \/ Refuse(d) \/ Admit(d) \/ GiveUpHandshake(d)
                   \/ FinishClosing(d) \/ Disconnected(d)
    <3>1. UNCHANGED <<server, harness>>
      BY <2>8 DEF Tick, Stop, vars, serverVars, netVars, clientVars, Dial, ConnectFails,
                  ReceiveFails, Close, DropAbandoned, Refuse, Admit, GiveUpHandshake,
                  FinishClosing, Disconnected
    <3> QED BY <3>1 DEF HarnessesInv
  <2> QED BY <2>2, <2>3, <2>4, <2>5, <2>6, <2>7, <2>8 DEF Next, ClientWakes, HandlerStep
<1> QED BY <1>1, <1>2, PTL DEF Spec

\* tunnel.py:273 and dynamic_tracer.py:28: on every harness, received less
\* blocked is the length of the chain of custody.
THEOREM CountersTellCustody == Spec => []CustodyMatchesTraffic
<1>1. HarnessesInv => CustodyMatchesTraffic
  BY DEF HarnessesInv, InAgreement, CustodyMatchesTraffic
<1> QED BY <1>1, HarnessesInvariant, PTL

-----------------------------------------------------------------------------
(* The quarantine.                                                         *)

Latest(R) == CHOOSE v \in R : \A w \in R : w.served <= v.served

LEMMA NewestIsLatest ==
    ASSUME NEW R, NEW v, v.served \in Nat,
           \A w \in R : w.served \in Nat /\ w.served < v.served
    PROVE  Latest(R \cup {v}) = v
<1>1. v \in R \cup {v} /\ \A w \in R \cup {v} : w.served <= v.served
  OBVIOUS
<1>2. ASSUME NEW u \in R \cup {v}, \A w \in R \cup {v} : w.served <= u.served
      PROVE  u = v
  BY <1>2
<1>3. /\ Latest(R \cup {v}) \in R \cup {v}
      /\ \A w \in R \cup {v} : w.served <= Latest(R \cup {v}).served
  BY <1>1 DEF Latest
<1> QED BY <1>2, <1>3

Refused(kind) == {v \in verdicts : v.verdict = kind}

QuarantineInv ==
    /\ server.seq_counter \in Nat
    /\ DOMAIN sandbox = {Inspection[k] : k \in DOMAIN Inspection}
    /\ \A v \in verdicts : v.served \in Nat /\ v.served <= server.seq_counter
    /\ \A kind \in DOMAIN Inspection :
          sandbox[Inspection[kind]] =
              IF Refused(kind) = {} THEN NoPeer ELSE Latest(Refused(kind)).payload

\* The only step that decides on a frame.
LEMMA ServeKeepsQuarantine ==
    ASSUME HarnessesInv, QuarantineInv, NEW d, Serve(d)
    PROVE  QuarantineInv'
<1> DEFINE f       == Head(up[d])
           verdict == Verdict(server, f, now)
           v == [payload |-> f.payload, verdict |-> verdict, served |-> server'.seq_counter]
<1>1. /\ server' = WrapPayload(ProcessFrame(server, f, now))
      /\ sandbox' = Quarantine(sandbox, server, f, now)
      /\ verdicts' = verdicts \cup {v}
  BY DEF Serve
<1>2. server'.seq_counter = server.seq_counter + 1 /\ server.seq_counter \in Nat
  BY <1>1, ProcessAgrees, WrapAgrees DEF HarnessesInv, QuarantineInv
<1>3. sandbox' = IF verdict \in DOMAIN Inspection
                 THEN [sandbox EXCEPT ![Inspection[verdict]] = f.payload] ELSE sandbox
  BY <1>1 DEF Quarantine
<1>4. /\ v.payload = f.payload /\ v.verdict = verdict /\ v.served = server.seq_counter + 1
  BY <1>2
<1> HIDE DEF f, verdict, v
<1>5. \A w \in verdicts : w.served \in Nat /\ w.served < v.served
  BY <1>2, <1>4 DEF QuarantineInv
<1>6. \A w \in verdicts' : w.served \in Nat /\ w.served <= server'.seq_counter
  BY <1>1, <1>2, <1>4, <1>5
<1>7. DOMAIN sandbox' = {Inspection[k] : k \in DOMAIN Inspection}
  BY <1>3 DEF QuarantineInv
<1>8. ASSUME NEW kind \in DOMAIN Inspection
      PROVE  sandbox'[Inspection[kind]] =
                IF Refused(kind)' = {} THEN NoPeer ELSE Latest(Refused(kind)').payload
  <2>1. CASE kind = verdict
    <3>1. Refused(kind)' = Refused(kind) \cup {v}
      BY <1>1, <1>4, <2>1 DEF Refused
    <3>2. Latest(Refused(kind) \cup {v}) = v
      <4>1. v.served \in Nat /\ \A w \in Refused(kind) : w.served \in Nat /\ w.served < v.served
        BY <1>2, <1>4, <1>5 DEF Refused
      <4> QED BY <4>1, NewestIsLatest
    <3>3. sandbox'[Inspection[kind]] = f.payload
      BY <1>3, <2>1 DEF QuarantineInv
    <3>4. Refused(kind)' # {}
      BY <3>1
    <3> QED BY <1>4, <3>1, <3>2, <3>3, <3>4
  <2>2. CASE kind # verdict
    <3>1. Refused(kind)' = Refused(kind)
      BY <1>1, <1>4, <2>2 DEF Refused
    <3>2. verdict \in DOMAIN Inspection => Inspection[kind] # Inspection[verdict]
      BY <2>2 DEF Inspection
    <3>3. sandbox'[Inspection[kind]] = sandbox[Inspection[kind]]
      BY <1>3, <3>2 DEF QuarantineInv
    <3> QED BY <3>1, <3>3 DEF QuarantineInv
  <2> QED BY <2>1, <2>2
<1> QED BY <1>2, <1>6, <1>7, <1>8 DEF QuarantineInv

THEOREM QuarantineInvariant == Spec => []QuarantineInv
<1>1. Init => QuarantineInv
  <2> SUFFICES ASSUME Init PROVE QuarantineInv
    OBVIOUS
  <2>1. server.seq_counter = 0 /\ verdicts = {}
    BY NewEffect DEF Init
  <2>2. \A kind \in DOMAIN Inspection : Refused(kind) = {}
    BY <2>1 DEF Refused
  <2>3. sandbox = [file \in {Inspection[k] : k \in DOMAIN Inspection} |-> NoPeer]
    BY DEF Init
  <2> QED BY <2>1, <2>2, <2>3 DEF QuarantineInv
<1>2. QuarantineInv /\ HarnessesInv /\ [Next]_vars => QuarantineInv'
  <2> SUFFICES ASSUME QuarantineInv, HarnessesInv, [Next]_vars PROVE QuarantineInv'
    OBVIOUS
  <2>1. ASSUME NEW d \in DOMAIN owner, Serve(d) PROVE QuarantineInv'
    BY <2>1, ServeKeepsQuarantine
  <2>2. ASSUME NEW d \in DOMAIN owner, FinishHandshake(d) PROVE QuarantineInv'
    <3>1. /\ server' = CompleteHandshake(server, Head(up[d]), NoPeer)
          /\ UNCHANGED <<sandbox, verdicts>>
      BY <2>2 DEF FinishHandshake
    <3>2. server'.seq_counter = server.seq_counter
      BY <3>1, HandshakeAgrees DEF HarnessesInv
    <3> QED BY <3>1, <3>2 DEF QuarantineInv, Refused
  <2>3. CASE \/ Tick \/ Stop \/ UNCHANGED vars
             \/ \E c \in Clients :
                   Dial(c) \/ ClientWakes(c) \/ Close(c) \/ Restart(c)
             \/ \E c \in Clients, kind \in Kinds : Send(c, kind)
             \/ \E d \in DOMAIN owner :
                   \/ DropAbandoned(d) \/ Refuse(d) \/ Admit(d) \/ GiveUpHandshake(d)
                   \/ FinishClosing(d) \/ Disconnected(d)
    <3>1. UNCHANGED <<server, sandbox, verdicts>>
      BY <2>3 DEF Tick, Stop, vars, serverVars, Dial, ClientWakes, ClientHandshake,
                  ConnectFails, Receive, ReceiveFails, Send, Close, Restart, DropAbandoned,
                  Refuse, Admit, GiveUpHandshake, FinishClosing, Disconnected
    <3> QED BY <3>1 DEF QuarantineInv, Refused
  <2> QED BY <2>1, <2>2, <2>3 DEF Next, HandlerStep
<1> QED BY <1>1, <1>2, HarnessesInvariant, PTL DEF Spec

\* tunnel.py:251 and sandbox.py:23: whatever the handlers interleave, the file
\* of a reason holds the payload refused last for it.
THEOREM QuarantineIsLatest == Spec => []QuarantineHoldsLatest
<1>1. QuarantineInv => QuarantineHoldsLatest
  BY DEF QuarantineInv, QuarantineHoldsLatest, Refused, Latest
<1> QED BY <1>1, QuarantineInvariant, PTL

-----------------------------------------------------------------------------
(* Custody and replies.  A payload is known by its sender and number.  At  *)
(* any moment it is in one stream at most, or the server has answered it;  *)
(* and a client waits for the answer to the last payload of its own.       *)

Answered == {v.payload : v \in verdicts}

SameKey(p, q) == p.from = q.from /\ p.num = q.num

\* The payloads in a stream u whose handler is at hd: the client's keys come
\* first, until the handler has read them.
Carried(hd, u) == {u[i].payload : i \in {j \in DOMAIN u : hd = "serving" \/ j > 1}}

InTransit(d) == Carried(handler[d], up[d])

\* Payload p was sent by a process of some client that is over, or by the
\* present one and with a number it has reached.
Past(p) ==
    /\ p.num \in Nat
    /\ \E c \in Clients, n \in Nat :
          /\ p.from = <<c, n>> /\ n <= harness[c].id[2]
          /\ n = harness[c].id[2] => p.num <= harness[c].seq_counter

\* The reply is about p, and says of p what the chain of custody says.
Settles(reply, p) ==
    /\ reply.about = p /\ p \in Answered
    /\ reply.kind = "ack" <=> p \in Custody

ClientInv(c) ==
    /\ harness[c].id = <<c, harness[c].id[2]>> /\ harness[c].id[2] \in Nat
    /\ harness[c].seq_counter \in Nat
    /\ conn[c] # 0 => conn[c] \in Dials \cap DOMAIN owner /\ owner[conn[c]] = c
    /\ connected[c] \/ busy[c] = "connecting" => conn[c] # 0
    /\ busy[c] = "waiting" =>
          /\ connected[c]
          /\ pending[c].from = harness[c].id /\ pending[c].num = harness[c].seq_counter

ClientsInv ==
    /\ DOMAIN conn = Clients /\ DOMAIN connected = Clients
    /\ DOMAIN busy = Clients /\ DOMAIN pending = Clients
    /\ \A c \in Clients : ClientInv(c)

StreamInv(d) ==
    /\ IsSequence(up[d]) /\ IsSequence(down[d])
    /\ server_open[d] <=> handler[d] \in {"accepted", "handshaking", "serving"}
    /\ handler[d] \notin {"handshaking", "serving"} => up[d] = << >>
    /\ handler[d] = "handshaking" => Len(up[d]) <= 2
    /\ handler[d] = "serving" => Len(up[d]) <= 1
    /\ d \notin DOMAIN owner => handler[d] = "none" /\ down[d] = << >>

StreamsInv ==
    /\ DOMAIN up = Dials /\ DOMAIN down = Dials
    /\ DOMAIN server_open = Dials /\ DOMAIN handler = Dials
    /\ \A d \in Dials : StreamInv(d)

\* What a client's connection holds, by what the client is doing.
Connecting(c) ==
    /\ ~ connected[c]
    /\ handler[conn[c]] # "serving" /\ up[conn[c]] = << >>
    /\ handler[conn[c]] = "accepted" => down[conn[c]] = << >>
    /\ Len(down[conn[c]]) <= 1

Idle(c) == InTransit(conn[c]) = {} /\ down[conn[c]] = << >>

Waiting(c) ==
    /\ \A p \in InTransit(conn[c]) : p = pending[c] /\ down[conn[c]] = << >>
    /\ Len(down[conn[c]]) <= 1
    /\ \A i \in DOMAIN down[conn[c]] : Settles(down[conn[c]][i].payload, pending[c])

LinkInv(c) ==
    /\ busy[c] = "connecting" => Connecting(c)
    /\ connected[c] =>
          /\ handler[conn[c]] # "accepted"
          /\ handler[conn[c]] = "handshaking" => Len(up[conn[c]]) >= 1 /\ down[conn[c]] = << >>
          /\ busy[c] = "waiting" => Waiting(c)
          /\ busy[c] # "waiting" => Idle(c)

LinksInv == \A c \in Clients : LinkInv(c)

FlightInv ==
    /\ \A p \in Answered : Past(p)
    /\ \A d \in Dials : \A p \in InTransit(d) :
          /\ Past(p)
          /\ \A q \in Answered : ~ SameKey(p, q)
          /\ \A e \in Dials \ {d} : \A q \in InTransit(e) : ~ SameKey(p, q)
    /\ \A i \in DOMAIN server.chain : server.chain[i] \in Answered
    /\ \A i, j \in DOMAIN server.chain : SameKey(server.chain[i], server.chain[j]) => i = j

RepliesInv ==
    /\ \A r \in replies : Settles(r.reply, r.to)
    /\ CustodyInOrder

CustodyInv == ClientsInv /\ StreamsInv /\ LinksInv /\ FlightInv /\ RepliesInv

-----------------------------------------------------------------------------
(* Streams.                                                                *)

LEMMA Stream ==
    ASSUME NEW s, IsSequence(s)
    PROVE  /\ Len(s) \in Nat /\ DOMAIN s = 1 .. Len(s)
           /\ s = << >> <=> Len(s) = 0
BY EmptySeq DEF IsSequence

LEMMA NoStream == IsSequence(<< >>) /\ Len(<< >>) = 0 /\ DOMAIN << >> = {}
BY EmptySeq DEF IsSequence

LEMMA HeadTaken ==
    ASSUME NEW s, IsSequence(s), s # << >>
    PROVE  /\ Len(s) >= 1 /\ Head(s) = s[1]
           /\ IsSequence(Tail(s)) /\ Len(Tail(s)) = Len(s) - 1
           /\ DOMAIN Tail(s) = 1 .. Len(s) - 1
           /\ \A i \in DOMAIN Tail(s) : Tail(s)[i] = s[i + 1]
<1>1. PICK S : s \in Seq(S)
  BY DEF IsSequence
<1>2. /\ Tail(s) \in Seq(S) /\ Len(Tail(s)) = Len(s) - 1
      /\ \A i \in 1 .. Len(Tail(s)) : Tail(s)[i] = s[i + 1]
  BY <1>1, HeadTailProperties
<1>3. Len(s) >= 1 /\ Head(s) = s[1]
  BY <1>1, Stream
<1>4. DOMAIN Tail(s) = 1 .. Len(s) - 1
  BY <1>2
<1> QED BY <1>2, <1>3, <1>4 DEF IsSequence

LEMMA PerhapsAppended ==
    ASSUME NEW s, IsSequence(s), NEW e, NEW t, t = s \/ t = Append(s, e)
    PROVE  /\ IsSequence(t)
           /\ s = << >> => Len(t) <= 1
<1>1. CASE t = s
  BY <1>1, NoStream
<1>2. CASE t = Append(s, e)
  <2>1. IsSequence(t) /\ Len(t) = Len(s) + 1
    BY <1>2, Appended
  <2> QED BY <2>1, NoStream
<1> QED BY <1>1, <1>2

LEMMA NothingCarried ==
    ASSUME NEW hd
    PROVE  Carried(hd, << >>) = {}
BY NoStream DEF Carried

\* Reading the keys changes no payload's place.
LEMMA KeysRead ==
    ASSUME NEW u, IsSequence(u), u # << >>
    PROVE  Carried("serving", Tail(u)) = Carried("handshaking", u)
<1>1. /\ DOMAIN Tail(u) = 1 .. Len(u) - 1 /\ DOMAIN u = 1 .. Len(u) /\ Len(u) \in Nat
      /\ \A i \in DOMAIN Tail(u) : Tail(u)[i] = u[i + 1]
  BY HeadTaken, Stream
<1>2. ASSUME NEW p \in Carried("serving", Tail(u))
      PROVE  p \in Carried("handshaking", u)
  <2>1. PICK i \in DOMAIN Tail(u) : p = Tail(u)[i].payload
    BY DEF Carried
  <2>2. i + 1 \in DOMAIN u /\ i + 1 > 1 /\ p = u[i + 1].payload
    BY <1>1, <2>1
  <2> QED BY <2>2 DEF Carried
<1>3. ASSUME NEW p \in Carried("handshaking", u)
      PROVE  p \in Carried("serving", Tail(u))
  <2>1. PICK i \in DOMAIN u : i > 1 /\ p = u[i].payload
    BY DEF Carried
  <2>2. i - 1 \in DOMAIN Tail(u) /\ (i - 1) + 1 = i
    BY <1>1, <2>1
  <2>3. p = Tail(u)[i - 1].payload
    BY <1>1, <2>1, <2>2
  <2> QED BY <2>2, <2>3 DEF Carried
<1> QED BY <1>2, <1>3

\* A stream that carries nothing, after a payload is written to it.
LEMMA OneCarried ==
    ASSUME NEW hd, NEW u, IsSequence(u), Carried(hd, u) = {},
           \/ hd = "serving"
           \/ hd = "handshaking" /\ Len(u) >= 1,
           NEW m
    PROVE  /\ Carried(hd, Append(u, m)) = {m.payload}
           /\ hd = "serving" => Len(u) = 0
           /\ hd = "handshaking" => Len(u) = 1
<1>1. /\ Len(u) \in Nat /\ DOMAIN u = 1 .. Len(u)
      /\ DOMAIN Append(u, m) = 1 .. Len(u) + 1
      /\ Append(u, m)[Len(u) + 1] = m
  BY Appended
<1>2. ASSUME NEW j \in DOMAIN u, hd = "serving" \/ j > 1
      PROVE  FALSE
  <2>1. u[j].payload \in Carried(hd, u)
    BY <1>2 DEF Carried
  <2> QED BY <2>1
<1>3. hd = "serving" => Len(u) = 0
  <2>1. SUFFICES ASSUME hd = "serving", Len(u) # 0 PROVE FALSE
    OBVIOUS
  <2>2. 1 \in DOMAIN u
    BY <1>1, <2>1
  <2> QED BY <1>2, <2>1, <2>2
<1>4. hd = "handshaking" => Len(u) = 1
  <2>1. SUFFICES ASSUME hd = "handshaking", Len(u) > 1 PROVE FALSE
    BY <1>1
  <2>2. 2 \in DOMAIN u
    BY <1>1, <2>1
  <2> QED BY <1>2, <2>2
<1>5. {j \in DOMAIN Append(u, m) : hd = "serving" \/ j > 1} = {Len(u) + 1}
  BY <1>1, <1>3, <1>4
<1> QED BY <1>1, <1>3, <1>4, <1>5 DEF Carried

LEMMA OneServed ==
    ASSUME NEW u, IsSequence(u), u # << >>, Len(u) <= 1
    PROVE  /\ Carried("serving", u) = {Head(u).payload}
           /\ Tail(u) = << >>
<1>0. Len(u) >= 1 /\ Len(u) \in Nat /\ DOMAIN u = 1 .. Len(u) /\ Head(u) = u[1]
  BY HeadTaken, Stream
<1>1. Len(u) = 1 /\ DOMAIN u = 1 .. 1 /\ Head(u) = u[1]
  BY <1>0
<1>2. DOMAIN u = {1}
  BY <1>1
<1>3. IsSequence(Tail(u)) /\ Len(Tail(u)) = 0
  BY <1>1, HeadTaken
<1> QED BY <1>1, <1>2, <1>3, Stream DEF Carried

-----------------------------------------------------------------------------
(* What keeps the parts of the invariant.                                  *)

\* Clients' processes and numbers only move on.
LEMMA PastKept ==
    ASSUME \A c \in Clients :
              /\ harness[c].id[2] \in Nat /\ harness[c].seq_counter \in Nat
              /\ harness'[c].id[2] \in Nat /\ harness'[c].seq_counter \in Nat
              /\ \/ harness'[c].id[2] > harness[c].id[2]
                 \/ /\ harness'[c].id[2] = harness[c].id[2]
                    /\ harness'[c].seq_counter >= harness[c].seq_counter,
           NEW p, Past(p)
    PROVE  Past(p)'
<1>1. PICK c \in Clients, n \in Nat :
          /\ p.from = <<c, n>> /\ n <= harness[c].id[2]
          /\ n = harness[c].id[2] => p.num <= harness[c].seq_counter
  BY DEF Past
<1>2. p.num \in Nat
  BY DEF Past
<1>3. /\ n <= harness'[c].id[2]
      /\ n = harness'[c].id[2] => p.num <= harness'[c].seq_counter
  BY <1>1, <1>2
<1> QED BY <1>1, <1>2, <1>3 DEF Past

\* Payloads leave the streams, and nothing is answered.
LEMMA FlightShrinks ==
    ASSUME FlightInv, \A d \in Dials : InTransit(d)' \subseteq InTransit(d),
           \A p : Past(p) => Past(p)',
           server'.chain = server.chain, verdicts' = verdicts
    PROVE  FlightInv'
<1>1. Answered' = Answered
  BY DEF Answered
<1>2. ASSUME NEW d \in Dials, NEW p \in InTransit(d)'
      PROVE  /\ Past(p)'
             /\ \A q \in Answered' : ~ SameKey(p, q)
             /\ \A e \in Dials \ {d} : \A q \in InTransit(e)' : ~ SameKey(p, q)
  <2>1. p \in InTransit(d)
    OBVIOUS
  <2> QED BY <1>1, <2>1 DEF FlightInv
<1>3. \A p \in Answered' : Past(p)'
  BY <1>1 DEF FlightInv
<1> QED BY <1>1, <1>2, <1>3 DEF FlightInv, SameKey

LEMMA RepliesKept ==
    ASSUME RepliesInv, server'.chain = server.chain, verdicts' = verdicts, replies' = replies
    PROVE  RepliesInv'
BY DEF RepliesInv, CustodyInOrder, Settles, Answered, Custody

LEMMA SettledKept ==
    ASSUME server'.chain = server.chain, verdicts' = verdicts
    PROVE  \A x, p : Settles(x, p) => Settles(x, p)'
BY DEF Settles, Answered, Custody

\* A client whose connection nothing happens to.
LEMMA LinkKept ==
    ASSUME NEW c, LinkInv(c),
           conn'[c] = conn[c], connected'[c] = connected[c],
           busy'[c] = busy[c], pending'[c] = pending[c],
           connected[c] \/ busy[c] = "connecting" =>
              /\ handler'[conn[c]] = handler[conn[c]]
              /\ up'[conn[c]] = up[conn[c]] /\ down'[conn[c]] = down[conn[c]],
           \A x, p : Settles(x, p) => Settles(x, p)'
    PROVE  LinkInv(c)'
<1>1. CASE ~ (connected[c] \/ busy[c] = "connecting")
  BY <1>1 DEF LinkInv
<1>2. CASE connected[c] \/ busy[c] = "connecting"
  <2>1. InTransit(conn[c])' = InTransit(conn[c])
    BY <1>2 DEF InTransit
  <2>2. Connecting(c) => Connecting(c)'
    BY <1>2 DEF Connecting
  <2>3. Idle(c) => Idle(c)'
    BY <1>2, <2>1 DEF Idle, InTransit
  <2>4. Waiting(c) => Waiting(c)'
    BY <1>2, <2>1 DEF Waiting, InTransit
  <2> QED BY <1>2, <2>2, <2>3, <2>4 DEF LinkInv
<1> QED BY <1>1, <1>2

-----------------------------------------------------------------------------
(* The steps of the server.                                                *)

\* A handler ends, or gives up, and closes its end.
LEMMA ShutDownKeeps ==
    ASSUME CustodyInv, NEW d \in Dials, d \in DOMAIN owner,
           NEW hd \in {"closing", "done"},
           handler' = [handler EXCEPT ![d] = hd], ShutDown(d),
           UNCHANGED <<owner, down, harness, conn, connected, busy, pending, verdicts, replies>>,
           server'.chain = server.chain
    PROVE  CustodyInv'
<1>1. /\ server_open' = [server_open EXCEPT ![d] = FALSE]
      /\ up' = [up EXCEPT ![d] = << >>]
      /\ ClientsInv /\ StreamsInv /\ LinksInv /\ FlightInv /\ RepliesInv
  BY DEF ShutDown, CustodyInv
<1>2. ClientsInv'
  BY <1>1 DEF ClientsInv, ClientInv
<1>3. /\ handler'[d] = hd /\ up'[d] = << >> /\ ~ server_open'[d]
      /\ \A e \in Dials \ {d} : /\ handler'[e] = handler[e] /\ up'[e] = up[e]
                                /\ server_open'[e] = server_open[e]
  BY <1>1 DEF StreamsInv
<1>4. StreamsInv'
  <2>1. ASSUME NEW e \in Dials PROVE StreamInv(e)'
    <3>1. CASE e = d
      BY <1>1, <1>3, <3>1, NoStream DEF StreamsInv, StreamInv
    <3>2. CASE e # d
      BY <1>1, <1>3, <3>2 DEF StreamsInv, StreamInv
    <3> QED BY <3>1, <3>2
  <2> QED BY <1>1, <2>1 DEF StreamsInv
<1>5. InTransit(d)' = {} /\ \A e \in Dials \ {d} : InTransit(e)' = InTransit(e)
  BY <1>3, NothingCarried DEF InTransit
<1>6. FlightInv'
  <2>1. \A e \in Dials : InTransit(e)' \subseteq InTransit(e)
    BY <1>5
  <2>2. \A p : Past(p) => Past(p)'
    BY DEF Past
  <2> QED BY <1>1, <2>1, <2>2, FlightShrinks
<1>7. RepliesInv'
  BY <1>1, RepliesKept
<1>8. ASSUME NEW c \in Clients PROVE LinkInv(c)'
  <2>1. LinkInv(c) /\ ClientInv(c)
    BY <1>1 DEF LinksInv, ClientsInv
  <2>2. \A x, p : Settles(x, p) => Settles(x, p)'
    BY SettledKept
  <2>3. CASE conn[c] # d
    <3>1. connected[c] \/ busy[c] = "connecting" => conn[c] \in Dials \ {d}
      BY <2>1, <2>3 DEF ClientInv
    <3> QED BY <1>3, <2>1, <2>2, <3>1, LinkKept
  <2>4. CASE conn[c] = d
    <3>1. Connecting(c) => Connecting(c)'
      BY <1>3, <2>4 DEF Connecting
    <3>2. Idle(c) => Idle(c)'
      BY <1>5, <2>4 DEF Idle, InTransit
    <3>3. Waiting(c) => Waiting(c)'
      BY <1>5, <2>2, <2>4 DEF Waiting, InTransit
    <3> QED BY <1>3, <2>1, <2>4, <3>1, <3>2, <3>3 DEF LinkInv
  <2> QED BY <2>3, <2>4
<1> QED BY <1>2, <1>4, <1>6, <1>7, <1>8 DEF CustodyInv, LinksInv

\* The connection is counted, and the keys are written to it.
LEMMA AdmitKeeps ==
    ASSUME CustodyInv, NEW d \in Dials, d \in DOMAIN owner, Admit(d)
    PROVE  CustodyInv'
<1> DEFINE keys == HandshakeBytes(server)
<1>1. /\ handler[d] = "accepted" /\ handler' = [handler EXCEPT ![d] = "handshaking"]
      /\ down' = [down EXCEPT ![d] = Append(@, keys)] \/ down' = down
      /\ UNCHANGED <<owner, up, server_open, server, harness, conn, connected, busy, pending,
                     verdicts, replies>>
      /\ ClientsInv /\ StreamsInv /\ LinksInv /\ FlightInv /\ RepliesInv
  BY DEF Admit, Answering, clientVars, CustodyInv
<1> HIDE DEF keys
<1>2. ClientsInv'
  BY <1>1 DEF ClientsInv, ClientInv
<1>3. /\ handler'[d] = "handshaking" /\ down'[d] \in {down[d], Append(down[d], keys)}
      /\ up[d] = << >>
      /\ \A e \in Dials \ {d} : handler'[e] = handler[e] /\ down'[e] = down[e]
  <2>1. up[d] = << >>
    BY <1>1 DEF StreamsInv, StreamInv
  <2>2. DOMAIN down = Dials /\ DOMAIN handler = Dials
    BY <1>1 DEF StreamsInv
  <2> QED BY <1>1, <2>1, <2>2
<1>4. IsSequence(down'[d]) /\ (down[d] = << >> => Len(down'[d]) <= 1)
  <2>1. IsSequence(down[d])
    BY <1>1 DEF StreamsInv, StreamInv
  <2> QED BY <1>3, <2>1, PerhapsAppended
<1>5. StreamsInv'
  <2>1. ASSUME NEW e \in Dials PROVE StreamInv(e)'
    <3>1. CASE e = d
      BY <1>1, <1>3, <1>4, <3>1, NoStream DEF StreamsInv, StreamInv
    <3>2. CASE e # d
      BY <1>1, <1>3, <3>2 DEF StreamsInv, StreamInv
    <3> QED BY <3>1, <3>2
  <2>2. DOMAIN down' = Dials /\ DOMAIN handler' = Dials
    BY <1>1 DEF StreamsInv
  <2> QED BY <1>1, <2>1, <2>2 DEF StreamsInv
<1>6. FlightInv'
  <2>1. \A e \in Dials : InTransit(e)' \subseteq InTransit(e)
    BY <1>1, <1>3, NothingCarried DEF InTransit
  <2>2. \A p : Past(p) => Past(p)'
    BY <1>1 DEF Past
  <2> QED BY <1>1, <2>1, <2>2, FlightShrinks
<1>7. RepliesInv'
  BY <1>1, RepliesKept
<1>8. ASSUME NEW c \in Clients PROVE LinkInv(c)'
  <2>1. LinkInv(c) /\ ClientInv(c)
    BY <1>1 DEF LinksInv, ClientsInv
  <2>2. \A x, p : Settles(x, p) => Settles(x, p)'
    BY <1>1, SettledKept
  <2>3. CASE conn[c] # d
    <3>1. connected[c] \/ busy[c] = "connecting" => conn[c] \in Dials \ {d}
      BY <2>1, <2>3 DEF ClientInv
    <3> QED BY <1>1, <1>3, <2>1, <2>2, <3>1, LinkKept
  <2>4. CASE conn[c] = d
    <3>1. ~ connected[c]
      BY <1>1, <2>1, <2>4 DEF LinkInv
    <3>2. Connecting(c) => Connecting(c)'
      BY <1>1, <1>3, <1>4, <2>4, NoStream DEF Connecting
    <3> QED BY <1>1, <2>1, <3>1, <3>2 DEF LinkInv
  <2> QED BY <2>3, <2>4
<1> QED BY <1>2, <1>5, <1>6, <1>7, <1>8 DEF CustodyInv, LinksInv

\* The handler has read the client's keys and goes on to serve.
LEMMA HandshakeKeeps ==
    ASSUME CustodyInv, NEW d \in Dials, d \in DOMAIN owner,
           handler[d] = "handshaking", up[d] # << >>,
           handler' = [handler EXCEPT ![d] = "serving"],
           up' = [up EXCEPT ![d] = Tail(@)],
           UNCHANGED <<owner, down, server_open, harness, conn, connected, busy, pending,
                       verdicts, replies>>,
           server'.chain = server.chain
    PROVE  CustodyInv'
<1>1. ClientsInv /\ StreamsInv /\ LinksInv /\ FlightInv /\ RepliesInv
  BY DEF CustodyInv
<1>2. ClientsInv'
  BY <1>1 DEF ClientsInv, ClientInv
<1>3. /\ handler'[d] = "serving" /\ up'[d] = Tail(up[d])
      /\ \A e \in Dials \ {d} : handler'[e] = handler[e] /\ up'[e] = up[e]
  BY <1>1 DEF StreamsInv
<1>4. /\ IsSequence(up[d]) /\ Len(up[d]) \in Nat /\ Len(up[d]) <= 2
      /\ IsSequence(Tail(up[d])) /\ Len(Tail(up[d])) = Len(up[d]) - 1
  <2>1. IsSequence(up[d]) /\ Len(up[d]) <= 2
    BY <1>1 DEF StreamsInv, StreamInv
  <2> QED BY <2>1, Stream, HeadTaken
<1>5. StreamsInv'
  <2>1. ASSUME NEW e \in Dials PROVE StreamInv(e)'
    <3>1. CASE e = d
      BY <1>1, <1>3, <1>4, <3>1 DEF StreamsInv, StreamInv
    <3>2. CASE e # d
      BY <1>1, <1>3, <3>2 DEF StreamsInv, StreamInv
    <3> QED BY <3>1, <3>2
  <2> QED BY <1>1, <2>1 DEF StreamsInv
<1>6. \A e \in Dials : InTransit(e)' = InTransit(e)
  <2>1. InTransit(d)' = InTransit(d)
    BY <1>3, <1>4, KeysRead DEF InTransit
  <2> QED BY <1>3, <2>1 DEF InTransit
<1>7. FlightInv'
  <2>1. \A p : Past(p) => Past(p)'
    BY DEF Past
  <2> QED BY <1>1, <1>6, <2>1, FlightShrinks
<1>8. RepliesInv'
  BY <1>1, RepliesKept
<1>9. ASSUME NEW c \in Clients PROVE LinkInv(c)'
  <2>1. LinkInv(c) /\ ClientInv(c)
    BY <1>1 DEF LinksInv, ClientsInv
  <2>2. \A x, p : Settles(x, p) => Settles(x, p)'
    BY SettledKept
  <2>3. CASE conn[c] # d
    <3>1. connected[c] \/ busy[c] = "connecting" => conn[c] \in Dials \ {d}
      BY <2>1, <2>3 DEF ClientInv
    <3> QED BY <1>3, <2>1, <2>2, <3>1, LinkKept
  <2>4. CASE conn[c] = d
    <3>1. busy[c] # "connecting"
      BY <2>1, <2>4 DEF LinkInv, Connecting
    <3>2. Idle(c) => Idle(c)'
      BY <1>6, <2>4 DEF Idle, InTransit
    <3>3. Waiting(c) => Waiting(c)'
      BY <1>6, <2>2, <2>4 DEF Waiting, InTransit
    <3> QED BY <1>3, <2>1, <2>4, <3>1, <3>2, <3>3 DEF LinkInv
  <2> QED BY <2>3, <2>4
<1> QED BY <1>2, <1>5, <1>7, <1>8, <1>9 DEF CustodyInv, LinksInv

\* Payload p leaves the stream it came by and is answered.
LEMMA AnswerKeeps ==
    ASSUME CustodyInv, NEW d \in Dials, d \in DOMAIN owner,
           NEW p, NEW verdict, NEW answer,
           handler[d] = "serving", up[d] # << >>, p = Head(up[d]).payload,
           answer.payload.about = p,
           answer.payload.kind = "ack" <=> verdict = "accepted",
           IsSequence(server.chain),
           server'.chain = IF verdict = "accepted" THEN Append(server.chain, p)
                                                   ELSE server.chain,
           Answered' = Answered \cup {p},
           down' = [down EXCEPT ![d] = Append(@, answer)] \/ down' = down,
           up' = [up EXCEPT ![d] = << >>],
           \/ UNCHANGED <<handler, server_open>>
           \/ /\ handler' = [handler EXCEPT ![d] = "done"]
              /\ server_open' = [server_open EXCEPT ![d] = FALSE],
           UNCHANGED <<owner, harness, conn, connected, busy, pending, replies>>
    PROVE  CustodyInv'
<1>0. ClientsInv /\ StreamsInv /\ LinksInv /\ FlightInv /\ RepliesInv
  BY DEF CustodyInv
<1>4. Len(up[d]) <= 1 /\ IsSequence(up[d]) /\ IsSequence(down[d])
  BY <1>0 DEF StreamsInv, StreamInv
<1>5. InTransit(d) = {p}
  BY <1>4, OneServed DEF InTransit
<1>7. /\ DOMAIN up = Dials /\ DOMAIN down = Dials
      /\ DOMAIN handler = Dials /\ DOMAIN server_open = Dials
  BY <1>0 DEF StreamsInv
<1>8. /\ up'[d] = << >> /\ down'[d] \in {down[d], Append(down[d], answer)}
      /\ handler'[d] \in {"serving", "done"}
      /\ server_open'[d] = IF handler'[d] = "done" THEN FALSE ELSE server_open[d]
      /\ \A e \in Dials \ {d} : /\ handler'[e] = handler[e] /\ server_open'[e] = server_open[e]
                                /\ up'[e] = up[e] /\ down'[e] = down[e]
  BY <1>7
<1>9. ClientsInv'
  BY <1>0 DEF ClientsInv, ClientInv
<1>10. StreamsInv'
  <2>1. IsSequence(down'[d])
    BY <1>4, <1>8, PerhapsAppended
  <2>2. ASSUME NEW e \in Dials PROVE StreamInv(e)'
    <3>1. CASE e = d
      BY <1>0, <1>8, <2>1, <3>1, NoStream DEF StreamsInv, StreamInv
    <3>2. CASE e # d
      BY <1>0, <1>8, <3>2 DEF StreamsInv, StreamInv
    <3> QED BY <3>1, <3>2
  <2> QED BY <1>7, <2>2 DEF StreamsInv
<1>11. InTransit(d)' = {} /\ \A e \in Dials \ {d} : InTransit(e)' = InTransit(e)
  BY <1>8, NothingCarried DEF InTransit
<1>12. /\ Past(p) /\ \A q \in Answered : ~ SameKey(p, q)
       /\ \A e \in Dials \ {d} : \A q \in InTransit(e) : ~ SameKey(p, q)
  BY <1>0, <1>5 DEF FlightInv
<1>13. p \notin Answered
  BY <1>12 DEF SameKey
<1>14. /\ IsSequence(server.chain) /\ Len(server.chain) \in Nat
       /\ DOMAIN server.chain = 1 .. Len(server.chain)
       /\ \A i \in DOMAIN server.chain : server.chain[i] \in Answered
  BY <1>0, Stream DEF FlightInv, HarnessesInv, InAgreement
<1>15. /\ DOMAIN server.chain \subseteq DOMAIN server'.chain
       /\ \A i \in DOMAIN server.chain : server'.chain[i] = server.chain[i]
       /\ \A i \in DOMAIN server'.chain \ DOMAIN server.chain :
             /\ server'.chain[i] = p /\ i = Len(server.chain) + 1
             /\ verdict = "accepted"
       /\ verdict = "accepted" => \E i \in DOMAIN server'.chain : server'.chain[i] = p
  <2>1. CASE verdict = "accepted"
    <3>1. /\ DOMAIN server'.chain = 1 .. Len(server.chain) + 1
          /\ \A i \in DOMAIN server.chain : server'.chain[i] = server.chain[i]
          /\ server'.chain[Len(server.chain) + 1] = p
      BY <1>14, <2>1, Appended
    <3> QED BY <1>14, <2>1, <3>1
  <2>2. CASE verdict # "accepted"
    BY <2>2
  <2> QED BY <2>1, <2>2
<1>16. \A q : q \in Custody' <=> q \in Custody \/ (q = p /\ verdict = "accepted")
  BY <1>15 DEF Custody, Range
<1>17. p \notin Custody
  BY <1>13, <1>14 DEF Custody, Range
<1>18. \A x, q : Settles(x, q) => Settles(x, q)'
  BY <1>13, <1>16 DEF Settles
<1>19. Settles(answer.payload, p)'
  BY <1>16, <1>17 DEF Settles
<1>20. \A q : Past(q) => Past(q)'
  BY DEF Past
<1>21. FlightInv'
  <2>1. \A q \in Answered' : Past(q)'
    BY <1>0, <1>12, <1>20 DEF FlightInv
  <2>2. ASSUME NEW e \in Dials, NEW q \in InTransit(e)'
        PROVE  /\ Past(q)' /\ \A r \in Answered' : ~ SameKey(q, r)
               /\ \A g \in Dials \ {e} : \A r \in InTransit(g)' : ~ SameKey(q, r)
    <3>1. e # d /\ q \in InTransit(e)
      BY <1>11
    <3>2. /\ Past(q) /\ \A r \in Answered : ~ SameKey(q, r)
          /\ \A g \in Dials \ {e} : \A r \in InTransit(g) : ~ SameKey(q, r)
      BY <1>0, <3>1 DEF FlightInv
    <3>3. ~ SameKey(q, p)
      BY <1>12, <3>1 DEF SameKey
    <3>4. \A g \in Dials : InTransit(g)' \subseteq InTransit(g)
      BY <1>11
    <3> QED BY <1>20, <3>2, <3>3, <3>4
  <2>3. \A i \in DOMAIN server'.chain : server'.chain[i] \in Answered'
    BY <1>14, <1>15
  <2>4. ASSUME NEW i \in DOMAIN server'.chain, NEW j \in DOMAIN server'.chain,
               SameKey(server'.chain[i], server'.chain[j])
        PROVE  i = j
    <3>1. CASE i \in DOMAIN server.chain /\ j \in DOMAIN server.chain
      BY <1>0, <1>15, <2>4, <3>1 DEF FlightInv
    <3>2. CASE i \notin DOMAIN server.chain /\ j \notin DOMAIN server.chain
      BY <1>15, <3>2
    <3>3. CASE i \in DOMAIN server.chain /\ j \notin DOMAIN server.chain
      BY <1>12, <1>14, <1>15, <2>4, <3>3 DEF SameKey
    <3>4. CASE i \notin DOMAIN server.chain /\ j \in DOMAIN server.chain
      BY <1>12, <1>14, <1>15, <2>4, <3>4
    <3> QED BY <3>1, <3>2, <3>3, <3>4
  <2> QED BY <2>1, <2>2, <2>3, <2>4 DEF FlightInv, SameKey
<1>22. RepliesInv'
  <2>1. \A r \in replies : Settles(r.reply, r.to)' /\ r.to # p
    BY <1>0, <1>13, <1>18 DEF RepliesInv, Settles
  <2>2. ASSUME NEW i \in DOMAIN server'.chain, NEW j \in DOMAIN server'.chain, i < j,
               server'.chain[i].from = server'.chain[j].from,
               server'.chain[i].num >= server'.chain[j].num
        PROVE  /\ server'.chain[i] # server'.chain[j]
               /\ \A r \in replies : r.to # server'.chain[j]
    <3>1. server'.chain[i] # server'.chain[j]
      <4>1. \A a, b \in DOMAIN server'.chain : SameKey(server'.chain[a], server'.chain[b]) => a = b
        BY <1>21 DEF FlightInv, SameKey
      <4>2. i # j
        BY <1>14, <1>15, <2>2
      <4> QED BY <4>1, <4>2 DEF SameKey
    <3>2. CASE j \in DOMAIN server.chain
      <4>1. i \in DOMAIN server.chain
        BY <1>14, <1>15, <2>2, <3>2
      <4> QED BY <1>0, <1>15, <2>2, <3>1, <3>2, <4>1 DEF RepliesInv, CustodyInOrder
    <3>3. CASE j \notin DOMAIN server.chain
      BY <1>15, <2>1, <3>1, <3>3
    <3> QED BY <3>2, <3>3
  <2> QED BY <2>1, <2>2 DEF RepliesInv, CustodyInOrder
<1>23. ASSUME NEW c \in Clients PROVE LinkInv(c)'
  <2>1. LinkInv(c) /\ ClientInv(c)
    BY <1>0 DEF LinksInv, ClientsInv
  <2>2. CASE conn[c] # d
    <3>1. connected[c] \/ busy[c] = "connecting" => conn[c] \in Dials \ {d}
      BY <2>1, <2>2 DEF ClientInv
    <3> QED BY <1>8, <1>18, <2>1, <3>1, LinkKept
  <2>3. CASE conn[c] = d
    <3>1. busy[c] # "connecting"
      BY <2>1, <2>3 DEF LinkInv, Connecting
    <3>2. ASSUME connected[c] PROVE busy[c] = "waiting" /\ Waiting(c)'
      <4>1. busy[c] = "waiting" /\ Waiting(c)
        BY <1>5, <2>1, <2>3, <3>2 DEF LinkInv, Idle
      <4>2. p = pending[c] /\ down[d] = << >>
        BY <1>5, <2>3, <4>1 DEF Waiting
      <4>3. /\ Len(down'[d]) <= 1
            /\ \A i \in DOMAIN down'[d] : down'[d][i] = answer
        <5>1. CASE down'[d] = down[d]
          BY <4>2, <5>1, NoStream
        <5>2. CASE down'[d] = Append(down[d], answer)
          <6>1. /\ Len(down[d]) = 0
                /\ Len(down'[d]) = Len(down[d]) + 1 /\ DOMAIN down'[d] = 1 .. Len(down[d]) + 1
                /\ down'[d][Len(down[d]) + 1] = answer
            BY <1>4, <4>2, <5>2, Appended, NoStream
          <6> QED BY <6>1
        <5> QED BY <1>8, <5>1, <5>2
      <4>4. \A i \in DOMAIN down'[d] : Settles(down[d][i].payload, pending[c])'
        BY <1>19, <4>2, <4>3 DEF Settles
      <4>5. InTransit(conn[c])' = {} /\ conn'[c] = d /\ pending'[c] = pending[c]
        BY <1>11, <2>3
      <4> QED BY <4>1, <4>3, <4>4, <4>5 DEF Waiting
    <3>3. handler'[conn'[c]] \notin {"accepted", "handshaking"}
      BY <1>8, <2>3
    <3>4. connected'[c] = connected[c] /\ busy'[c] = busy[c]
      OBVIOUS
    <3> QED BY <3>1, <3>2, <3>3, <3>4 DEF LinkInv
  <2> QED BY <2>2, <2>3
<1> QED BY <1>9, <1>10, <1>21, <1>22, <1>23 DEF CustodyInv, LinksInv

LEMMA ServeKeeps ==
    ASSUME CustodyInv, HarnessesInv, NEW d \in Dials, d \in DOMAIN owner, Serve(d)
    PROVE  CustodyInv'
<1> DEFINE f        == Head(up[d])
           p        == f.payload
           verdict  == Verdict(server, f, now)
           received == ProcessFrame(server, f, now)
           answer   == FrameOf(server', Response(verdict, p), TYPE_DATA, now)
<1>1. handler[d] = "serving" /\ up[d] # << >>
  BY DEF Serve
<1>2. Answered' = Answered \cup {p}
  <2>1. \E v : v.payload = p /\ verdicts' = verdicts \cup {v}
    BY DEF Serve
  <2> QED BY <2>1 DEF Answered
<1>3. server' = WrapPayload(received)
  BY DEF Serve
<1>4. down' = [down EXCEPT ![d] = Append(@, answer)] \/ down' = down
  BY <1>3 DEF Serve, Answering
<1>5. UNCHANGED <<owner, harness, conn, connected, busy, pending, replies>>
  BY DEF Serve, clientVars
<1>6. /\ answer.payload.about = p
      /\ answer.payload.kind = "ack" <=> verdict = "accepted"
  BY DEF FrameOf, Response
<1>7. /\ IsSequence(server.chain)
      /\ server'.chain = IF verdict = "accepted" THEN Append(server.chain, p) ELSE server.chain
  <2>1. /\ InAgreement(received)
        /\ received.chain = IF Accepts(server, f, now) THEN Append(server.chain, p) ELSE server.chain
    BY ProcessAgrees DEF HarnessesInv
  <2>2. WrapPayload(received).chain = received.chain
    BY <2>1, WrapAgrees
  <2>3. Accepts(server, f, now) <=> verdict = "accepted"
    BY DEF Accepts
  <2>4. IsSequence(server.chain)
    BY DEF HarnessesInv, InAgreement
  <2> HIDE DEF received, verdict, f
  <2> QED BY <1>3, <2>1, <2>2, <2>3, <2>4
<1>8. /\ up' = [up EXCEPT ![d] = << >>]
      /\ \/ UNCHANGED <<handler, server_open>>
         \/ /\ handler' = [handler EXCEPT ![d] = "done"]
            /\ server_open' = [server_open EXCEPT ![d] = FALSE]
  <2>1. Tail(up[d]) = << >>
    <3>1. Len(up[d]) <= 1 /\ IsSequence(up[d])
      BY <1>1 DEF CustodyInv, StreamsInv, StreamInv
    <3> QED BY <1>1, <3>1, OneServed
  <2>2. CASE is_running
    BY <2>1, <2>2 DEF Serve
  <2>3. CASE ~ is_running
    BY <2>3 DEF Serve, Finish, ShutDown
  <2> QED BY <2>2, <2>3
<1> HIDE DEF verdict, answer, received
<1> QED BY <1>1, <1>2, <1>4, <1>5, <1>6, <1>7, <1>8, AnswerKeeps

-----------------------------------------------------------------------------
(* The steps of the clients.                                               *)

\* Streams are emptied, and clients give up what they were waiting for: a
\* client closes, or starts anew, or an abandoned connection is dropped.
LEMMA LeavingKeeps ==
    ASSUME CustodyInv,
           UNCHANGED <<owner, handler, server_open, server, verdicts, replies>>,
           DOMAIN up' = Dials, DOMAIN down' = Dials,
           \A d \in Dials : /\ up'[d] = up[d] \/ up'[d] = << >>
                            /\ down'[d] = down[d] \/ down'[d] = << >>,
           DOMAIN conn' = Clients, DOMAIN connected' = Clients,
           DOMAIN busy' = Clients, DOMAIN pending' = Clients,
           \A c \in Clients :
              \/ /\ ~ connected'[c] /\ busy'[c] = "no" /\ conn'[c] \in {conn[c], 0}
              \/ /\ conn'[c] = conn[c] /\ connected'[c] = connected[c]
                 /\ busy'[c] = busy[c] /\ pending'[c] = pending[c]
                 /\ harness'[c] = harness[c]
                 /\ conn[c] # 0 => up'[conn[c]] = up[conn[c]] /\ down'[conn[c]] = down[conn[c]],
           \A c \in Clients :
              /\ harness'[c].id = <<c, harness'[c].id[2]>>
              /\ harness'[c].id[2] \in Nat /\ harness'[c].seq_counter \in Nat
              /\ \/ harness'[c].id[2] > harness[c].id[2]
                 \/ /\ harness'[c].id[2] = harness[c].id[2]
                    /\ harness'[c].seq_counter >= harness[c].seq_counter
    PROVE  CustodyInv'
<1>1. ClientsInv /\ StreamsInv /\ LinksInv /\ FlightInv /\ RepliesInv
  BY DEF CustodyInv
<1>2. ClientsInv'
  <2>1. ASSUME NEW c \in Clients PROVE ClientInv(c)'
    <3>1. ClientInv(c)
      BY <1>1 DEF ClientsInv
    <3>2. CASE ~ connected'[c] /\ busy'[c] = "no" /\ conn'[c] \in {conn[c], 0}
      BY <3>1, <3>2 DEF ClientInv
    <3>3. CASE /\ conn'[c] = conn[c] /\ connected'[c] = connected[c]
               /\ busy'[c] = busy[c] /\ pending'[c] = pending[c]
               /\ harness'[c] = harness[c]
      BY <3>1, <3>3 DEF ClientInv
    <3> QED BY <3>2, <3>3
  <2> QED BY <2>1 DEF ClientsInv
<1>3. StreamsInv'
  <2>1. ASSUME NEW d \in Dials PROVE StreamInv(d)'
    BY <1>1, NoStream DEF StreamsInv, StreamInv
  <2> QED BY <1>1, <2>1 DEF StreamsInv
<1>4. FlightInv'
  <2>1. \A d \in Dials : InTransit(d)' \subseteq InTransit(d)
    BY NothingCarried DEF InTransit
  <2>2. \A p : Past(p) => Past(p)'
    <3>1. \A c \in Clients : harness[c].id[2] \in Nat /\ harness[c].seq_counter \in Nat
      BY <1>1 DEF ClientsInv, ClientInv
    <3> QED BY <3>1, PastKept
  <2> QED BY <1>1, <2>1, <2>2, FlightShrinks
<1>5. RepliesInv'
  BY <1>1, RepliesKept
<1>6. ASSUME NEW c \in Clients PROVE LinkInv(c)'
  <2>1. LinkInv(c) /\ ClientInv(c)
    BY <1>1 DEF LinksInv, ClientsInv
  <2>2. \A x, p : Settles(x, p) => Settles(x, p)'
    BY SettledKept
  <2>3. CASE ~ connected'[c] /\ busy'[c] = "no"
    BY <2>3 DEF LinkInv
  <2>4. CASE /\ conn'[c] = conn[c] /\ connected'[c] = connected[c]
             /\ busy'[c] = busy[c] /\ pending'[c] = pending[c]
             /\ conn[c] # 0 => up'[conn[c]] = up[conn[c]] /\ down'[conn[c]] = down[conn[c]]
    <3>1. connected[c] \/ busy[c] = "connecting" => conn[c] # 0
      BY <2>1 DEF ClientInv
    <3> QED BY <2>1, <2>2, <2>4, <3>1, LinkKept
  <2> QED BY <2>3, <2>4
<1> QED BY <1>2, <1>3, <1>4, <1>5, <1>6 DEF CustodyInv, LinksInv

\* What closing the end of a connection does to the streams.
LEMMA HangUpEffect ==
    ASSUME StreamsInv, NEW d \in Dials, HangUp(d)
    PROVE  /\ DOMAIN up' = Dials /\ DOMAIN down' = Dials
           /\ up'[d] = up[d] \/ up'[d] = << >>
           /\ down'[d] = << >>
           /\ \A e \in Dials \ {d} : up'[e] = up[e] /\ down'[e] = down[e]
<1>1. up' = up \/ up' = [up EXCEPT ![d] = << >>]
  BY DEF HangUp
<1>2. down' = [down EXCEPT ![d] = << >>]
  BY DEF HangUp
<1>3. DOMAIN up = Dials /\ DOMAIN down = Dials
  BY DEF StreamsInv
<1> QED BY <1>1, <1>2, <1>3

LEMMA CloseKeeps ==
    ASSUME CustodyInv, HarnessesInv, NEW c \in Clients, Close(c)
    PROVE  CustodyInv'
<1>1. ClientsInv /\ StreamsInv
  BY DEF CustodyInv
<1>2. conn[c] # 0 /\ HangUp(conn[c])
  BY DEF Close
<1>3. /\ connected' = [connected EXCEPT ![c] = FALSE]
      /\ conn' = [conn EXCEPT ![c] = 0]
      /\ busy' = [busy EXCEPT ![c] = "no"]
      /\ pending' = [pending EXCEPT ![c] = NoPeer]
  BY DEF Close
<1>4. UNCHANGED <<owner, handler, server_open, server, verdicts, replies, harness>>
  BY DEF Close, serverVars
<1>5. /\ DOMAIN conn = Clients /\ DOMAIN connected = Clients
      /\ DOMAIN busy = Clients /\ DOMAIN pending = Clients
      /\ \A b \in Clients : ClientInv(b)
  BY <1>1 DEF ClientsInv
<1>6. conn[c] \in Dials /\ owner[conn[c]] = c
  BY <1>2, <1>5 DEF ClientInv
<1>7. /\ DOMAIN up' = Dials /\ DOMAIN down' = Dials
      /\ up'[conn[c]] = up[conn[c]] \/ up'[conn[c]] = << >>
      /\ down'[conn[c]] = << >>
      /\ \A e \in Dials \ {conn[c]} : up'[e] = up[e] /\ down'[e] = down[e]
  BY <1>1, <1>2, <1>6, HangUpEffect
<1>8. /\ DOMAIN conn' = Clients /\ DOMAIN connected' = Clients
      /\ DOMAIN busy' = Clients /\ DOMAIN pending' = Clients
  BY <1>3, <1>5
<1>9. ASSUME NEW b \in Clients
      PROVE  \/ /\ ~ connected'[b] /\ busy'[b] = "no" /\ conn'[b] \in {conn[b], 0}
             \/ /\ conn'[b] = conn[b] /\ connected'[b] = connected[b]
                /\ busy'[b] = busy[b] /\ pending'[b] = pending[b]
                /\ harness'[b] = harness[b]
                /\ conn[b] # 0 => up'[conn[b]] = up[conn[b]] /\ down'[conn[b]] = down[conn[b]]
  <2>1. CASE b = c
    BY <1>3, <1>5, <2>1
  <2>2. CASE b # c
    <3>1. conn[b] # 0 => conn[b] \in Dials \ {conn[c]}
      BY <1>5, <1>6, <2>2 DEF ClientInv
    <3> QED BY <1>3, <1>4, <1>5, <1>7, <2>2, <3>1
  <2> QED BY <2>1, <2>2
<1>10. \A b \in Clients :
          /\ harness'[b].id = <<b, harness'[b].id[2]>>
          /\ harness'[b].id[2] \in Nat /\ harness'[b].seq_counter \in Nat
          /\ harness'[b].id[2] = harness[b].id[2]
          /\ harness'[b].seq_counter >= harness[b].seq_counter
  BY <1>4, <1>5 DEF ClientInv
<1>11. \A d \in Dials : /\ up'[d] = up[d] \/ up'[d] = << >>
                        /\ down'[d] = down[d] \/ down'[d] = << >>
  BY <1>7
<1> QED BY <1>4, <1>7, <1>8, <1>9, <1>10, <1>11, LeavingKeeps

LEMMA RestartKeeps ==
    ASSUME CustodyInv, HarnessesInv, NEW c \in Clients, Restart(c)
    PROVE  CustodyInv'
<1>1. ClientsInv /\ StreamsInv
  BY DEF CustodyInv
<1>2. /\ connected' = [connected EXCEPT ![c] = FALSE]
      /\ conn' = [conn EXCEPT ![c] = 0]
      /\ busy' = [busy EXCEPT ![c] = "no"]
      /\ pending' = [pending EXCEPT ![c] = NoPeer]
  BY DEF Restart
<1>3. UNCHANGED <<owner, handler, server_open, server, verdicts, replies>>
  BY DEF Restart, serverVars
<1>4. /\ DOMAIN conn = Clients /\ DOMAIN connected = Clients
      /\ DOMAIN busy = Clients /\ DOMAIN pending = Clients
      /\ \A b \in Clients : ClientInv(b)
  BY <1>1 DEF ClientsInv
<1>5. conn[c] # 0 => conn[c] \in Dials /\ owner[conn[c]] = c
  BY <1>4 DEF ClientInv
<1>6. /\ DOMAIN up' = Dials /\ DOMAIN down' = Dials
      /\ \A d \in Dials : /\ up'[d] = up[d] \/ up'[d] = << >>
                          /\ down'[d] = down[d] \/ down'[d] = << >>
                          /\ d # conn[c] => up'[d] = up[d] /\ down'[d] = down[d]
  <2>1. CASE conn[c] # 0 /\ HangUp(conn[c])
    BY <1>1, <1>5, <2>1, HangUpEffect
  <2>2. CASE UNCHANGED <<up, down>>
    BY <1>1, <2>2 DEF StreamsInv
  <2> QED BY <2>1, <2>2 DEF Restart
<1>7. /\ DOMAIN conn' = Clients /\ DOMAIN connected' = Clients
      /\ DOMAIN busy' = Clients /\ DOMAIN pending' = Clients
  BY <1>2, <1>4
<1>8. /\ harness'[c].id = <<c, harness[c].id[2] + 1>> /\ harness'[c].seq_counter = 0
      /\ \A b \in Clients \ {c} : harness'[b] = harness[b]
  <2>1. harness' = [harness EXCEPT ![c] = NewHarness(<<c, harness[c].id[2] + 1>>)]
    BY DEF Restart, HarnessesInv
  <2> QED BY <2>1, NewEffect DEF HarnessesInv
<1>9. ASSUME NEW b \in Clients
      PROVE  \/ /\ ~ connected'[b] /\ busy'[b] = "no" /\ conn'[b] \in {conn[b], 0}
             \/ /\ conn'[b] = conn[b] /\ connected'[b] = connected[b]
                /\ busy'[b] = busy[b] /\ pending'[b] = pending[b]
                /\ harness'[b] = harness[b]
                /\ conn[b] # 0 => up'[conn[b]] = up[conn[b]] /\ down'[conn[b]] = down[conn[b]]
  <2>1. CASE b = c
    BY <1>2, <1>4, <2>1
  <2>2. CASE b # c
    <3>1. conn[b] # 0 => conn[b] \in Dials /\ conn[b] # conn[c]
      BY <1>4, <1>5, <2>2 DEF ClientInv
    <3> QED BY <1>2, <1>4, <1>6, <1>8, <2>2, <3>1
  <2> QED BY <2>1, <2>2
<1>10. ASSUME NEW b \in Clients
       PROVE  /\ harness'[b].id = <<b, harness'[b].id[2]>>
              /\ harness'[b].id[2] \in Nat /\ harness'[b].seq_counter \in Nat
              /\ \/ harness'[b].id[2] > harness[b].id[2]
                 \/ /\ harness'[b].id[2] = harness[b].id[2]
                    /\ harness'[b].seq_counter >= harness[b].seq_counter
  <2>1. /\ harness[b].id = <<b, harness[b].id[2]>>
        /\ harness[b].id[2] \in Nat /\ harness[b].seq_counter \in Nat
    BY <1>4 DEF ClientInv
  <2>2. CASE b = c
    BY <1>8, <2>1, <2>2
  <2>3. CASE b # c
    BY <1>8, <2>1, <2>3
  <2> QED BY <2>2, <2>3
<1> QED BY <1>3, <1>6, <1>7, <1>9, <1>10, LeavingKeeps

LEMMA DropKeeps ==
    ASSUME CustodyInv, HarnessesInv, NEW d \in Dials, d \in DOMAIN owner, DropAbandoned(d)
    PROVE  CustodyInv'
<1>1. ClientsInv /\ StreamsInv
  BY DEF CustodyInv
<1>2. HangUp(d) /\ conn[owner[d]] # d
  BY DEF DropAbandoned
<1>3. UNCHANGED <<owner, handler, server_open, server, verdicts, replies,
                  harness, conn, connected, busy, pending>>
  BY DEF DropAbandoned, serverVars, clientVars
<1>4. /\ DOMAIN conn = Clients /\ DOMAIN connected = Clients
      /\ DOMAIN busy = Clients /\ DOMAIN pending = Clients
      /\ \A b \in Clients : ClientInv(b)
  BY <1>1 DEF ClientsInv
<1>5. /\ DOMAIN up' = Dials /\ DOMAIN down' = Dials
      /\ \A e \in Dials : /\ up'[e] = up[e] \/ up'[e] = << >>
                          /\ down'[e] = down[e] \/ down'[e] = << >>
                          /\ e # d => up'[e] = up[e] /\ down'[e] = down[e]
  BY <1>1, <1>2, HangUpEffect
<1>6. ASSUME NEW b \in Clients
      PROVE  /\ conn'[b] = conn[b] /\ connected'[b] = connected[b]
             /\ busy'[b] = busy[b] /\ pending'[b] = pending[b]
             /\ harness'[b] = harness[b]
             /\ conn[b] # 0 => up'[conn[b]] = up[conn[b]] /\ down'[conn[b]] = down[conn[b]]
  <2>1. conn[b] # 0 => conn[b] \in Dials /\ conn[b] # d
    BY <1>2, <1>4 DEF ClientInv
  <2> QED BY <1>3, <1>5, <2>1
<1>7. ASSUME NEW b \in Clients
      PROVE  /\ harness'[b].id = <<b, harness'[b].id[2]>>
             /\ harness'[b].id[2] \in Nat /\ harness'[b].seq_counter \in Nat
             /\ harness'[b].id[2] = harness[b].id[2]
             /\ harness'[b].seq_counter >= harness[b].seq_counter
  BY <1>3, <1>4 DEF ClientInv
<1> QED BY <1>3, <1>4, <1>5, <1>6, <1>7, LeavingKeeps

\* connect() returns without having read the server's keys.
LEMMA ConnectFailsKeeps ==
    ASSUME CustodyInv, HarnessesInv, NEW c \in Clients, ConnectFails(c)
    PROVE  CustodyInv'
<1>1. ClientsInv /\ StreamsInv /\ LinksInv
  BY DEF CustodyInv
<1>2. busy[c] = "connecting" /\ busy' = [busy EXCEPT ![c] = "no"]
  BY DEF ConnectFails
<1>3. UNCHANGED <<owner, handler, server_open, server, verdicts, replies,
                  up, down, harness, conn, connected, pending>>
  BY DEF ConnectFails, serverVars, netVars
<1>4. /\ DOMAIN conn = Clients /\ DOMAIN connected = Clients
      /\ DOMAIN busy = Clients /\ DOMAIN pending = Clients
      /\ \A b \in Clients : ClientInv(b)
  BY <1>1 DEF ClientsInv
<1>5. ~ connected[c]
  BY <1>1, <1>2 DEF LinksInv, LinkInv, Connecting
<1>6. ASSUME NEW b \in Clients
      PROVE  \/ /\ ~ connected'[b] /\ busy'[b] = "no" /\ conn'[b] \in {conn[b], 0}
             \/ /\ conn'[b] = conn[b] /\ connected'[b] = connected[b]
                /\ busy'[b] = busy[b] /\ pending'[b] = pending[b]
                /\ harness'[b] = harness[b]
                /\ conn[b] # 0 => up'[conn[b]] = up[conn[b]] /\ down'[conn[b]] = down[conn[b]]
  <2>1. CASE b = c
    BY <1>2, <1>3, <1>4, <1>5, <2>1
  <2>2. CASE b # c
    BY <1>2, <1>3, <1>4, <2>2
  <2> QED BY <2>1, <2>2
<1>7. ASSUME NEW b \in Clients
      PROVE  /\ harness'[b].id = <<b, harness'[b].id[2]>>
             /\ harness'[b].id[2] \in Nat /\ harness'[b].seq_counter \in Nat
             /\ harness'[b].id[2] = harness[b].id[2]
             /\ harness'[b].seq_counter >= harness[b].seq_counter
  BY <1>3, <1>4 DEF ClientInv
<1>8. /\ DOMAIN up' = Dials /\ DOMAIN down' = Dials /\ DOMAIN busy' = Clients
  BY <1>1, <1>2, <1>3, <1>4 DEF StreamsInv
<1> QED BY <1>3, <1>4, <1>6, <1>7, <1>8, LeavingKeeps

\* The end of the stream comes instead of a response.
LEMMA ReceiveFailsKeeps ==
    ASSUME CustodyInv, HarnessesInv, NEW c \in Clients, ReceiveFails(c)
    PROVE  CustodyInv'
<1>1. ClientsInv /\ StreamsInv /\ LinksInv /\ FlightInv /\ RepliesInv
  BY DEF CustodyInv
<1>2. /\ busy[c] = "waiting" /\ down[conn[c]] = << >> /\ ~ server_open[conn[c]]
      /\ busy' = [busy EXCEPT ![c] = "no"]
      /\ pending' = [pending EXCEPT ![c] = NoPeer]
  BY DEF ReceiveFails
<1>3. UNCHANGED <<owner, handler, server_open, server, verdicts, replies,
                  up, down, harness, conn, connected>>
  BY DEF ReceiveFails, serverVars, netVars
<1>4. /\ DOMAIN busy = Clients /\ DOMAIN pending = Clients
      /\ ClientInv(c) /\ LinkInv(c)
  BY <1>1 DEF ClientsInv, LinksInv
<1>5. connected[c] /\ conn[c] \in Dials
  BY <1>2, <1>4 DEF ClientInv
<1>6. ClientsInv'
  <2>1. ASSUME NEW b \in Clients PROVE ClientInv(b)'
    <3>1. ClientInv(b)
      BY <1>1 DEF ClientsInv
    <3>2. CASE b = c
      BY <1>2, <1>3, <1>4, <3>1, <3>2 DEF ClientInv
    <3>3. CASE b # c
      BY <1>2, <1>3, <1>4, <3>1, <3>3 DEF ClientInv
    <3> QED BY <3>2, <3>3
  <2> QED BY <1>1, <1>2, <1>3, <2>1 DEF ClientsInv
<1>7. StreamsInv'
  BY <1>1, <1>3 DEF StreamsInv, StreamInv
<1>8. \A d \in Dials : InTransit(d)' = InTransit(d)
  BY <1>3 DEF InTransit
<1>9. FlightInv'
  <2>1. \A p : Past(p) => Past(p)'
    BY <1>3 DEF Past
  <2> QED BY <1>1, <1>3, <1>8, <2>1, FlightShrinks
<1>10. RepliesInv'
  BY <1>1, <1>3, RepliesKept
<1>11. ASSUME NEW b \in Clients PROVE LinkInv(b)'
  <2>1. LinkInv(b)
    BY <1>1 DEF LinksInv
  <2>2. \A x, p : Settles(x, p) => Settles(x, p)'
    BY <1>3, SettledKept
  <2>3. CASE b # c
    BY <1>2, <1>3, <1>4, <2>1, <2>2, <2>3, LinkKept
  <2>4. CASE b = c
    <3>1. up[conn[c]] = << >> /\ handler[conn[c]] # "handshaking"
      BY <1>1, <1>2, <1>5 DEF StreamsInv, StreamInv
    <3>2. Idle(c)'
      BY <1>2, <1>3, <3>1, NothingCarried DEF Idle, InTransit
    <3>3. busy'[c] = "no" /\ handler[conn[c]] # "accepted"
      BY <1>2, <1>4, <1>5 DEF LinkInv
    <3> QED BY <1>3, <2>4, <3>1, <3>2, <3>3 DEF LinkInv
  <2> QED BY <2>3, <2>4
<1> QED BY <1>6, <1>7, <1>9, <1>10, <1>11 DEF CustodyInv, LinksInv

\* A new connection: nothing has been written to it.
LEMMA DialKeeps ==
    ASSUME CustodyInv, SlotsInv, NEW c \in Clients, Dial(c)
    PROVE  CustodyInv'
<1> DEFINE d == Len(owner) + 1
<1>1. ClientsInv /\ StreamsInv /\ LinksInv /\ FlightInv /\ RepliesInv
  BY DEF CustodyInv
<1>2. /\ d \in Dials /\ ~ connected[c]
      /\ owner' = Append(owner, c)
      /\ handler' = [handler EXCEPT ![d] = "accepted"]
      /\ server_open' = [server_open EXCEPT ![d] = TRUE]
      /\ conn' = [conn EXCEPT ![c] = d]
      /\ busy' = [busy EXCEPT ![c] = "connecting"]
  BY DEF Dial
<1>3. UNCHANGED <<server, verdicts, replies, up, down, harness, connected, pending>>
  BY DEF Dial
<1>4. /\ d \notin DOMAIN owner /\ d \in DOMAIN owner'
      /\ \A e \in DOMAIN owner : e \in DOMAIN owner' /\ owner'[e] = owner[e]
      /\ owner'[d] = c
  <2>1. owner \in Seq(Clients)
    BY DEF SlotsInv, Books
  <2> QED BY <1>2, <2>1, AppendProperties
<1> HIDE DEF d
<1>5. up[d] = << >> /\ down[d] = << >>
  BY <1>1, <1>2, <1>4 DEF StreamsInv, StreamInv
<1>6. /\ DOMAIN conn = Clients /\ DOMAIN busy = Clients
      /\ DOMAIN handler = Dials /\ DOMAIN server_open = Dials
  BY <1>1 DEF ClientsInv, StreamsInv
<1>7. d # 0
  BY <1>2 DEF Dials
<1>8. ClientsInv'
  <2>1. ASSUME NEW b \in Clients PROVE ClientInv(b)'
    <3>1. ClientInv(b)
      BY <1>1 DEF ClientsInv
    <3>2. CASE b = c
      BY <1>2, <1>3, <1>4, <1>6, <1>7, <3>1, <3>2 DEF ClientInv
    <3>3. CASE b # c
      BY <1>2, <1>3, <1>4, <1>6, <3>1, <3>3 DEF ClientInv
    <3> QED BY <3>2, <3>3
  <2> QED BY <1>1, <1>2, <1>3, <2>1 DEF ClientsInv
<1>9. StreamsInv'
  <2>1. ASSUME NEW e \in Dials PROVE StreamInv(e)'
    <3>1. StreamInv(e)
      BY <1>1 DEF StreamsInv
    <3>2. CASE e = d
      BY <1>2, <1>3, <1>4, <1>5, <1>6, <3>1, <3>2 DEF StreamInv
    <3>3. CASE e # d
      BY <1>2, <1>3, <1>4, <1>6, <3>1, <3>3 DEF StreamInv
    <3> QED BY <3>2, <3>3
  <2> QED BY <1>1, <1>2, <1>3, <2>1 DEF StreamsInv
<1>10. FlightInv'
  <2>1. \A e \in Dials : InTransit(e)' \subseteq InTransit(e)
    <3>1. \A e \in Dials \ {d} : handler'[e] = handler[e] /\ up'[e] = up[e]
      BY <1>2, <1>3, <1>6
    <3>2. up'[d] = << >>
      BY <1>3, <1>5
    <3> QED BY <3>1, <3>2, NothingCarried DEF InTransit
  <2>2. \A p : Past(p) => Past(p)'
    BY <1>3 DEF Past
  <2> QED BY <1>1, <1>3, <2>1, <2>2, FlightShrinks
<1>11. RepliesInv'
  BY <1>1, <1>3, RepliesKept
<1>12. ASSUME NEW b \in Clients PROVE LinkInv(b)'
  <2>1. LinkInv(b) /\ ClientInv(b)
    BY <1>1 DEF LinksInv, ClientsInv
  <2>2. \A x, p : Settles(x, p) => Settles(x, p)'
    BY <1>3, SettledKept
  <2>3. CASE b # c
    <3>1. connected[b] \/ busy[b] = "connecting" => conn[b] \in Dials /\ conn[b] # d
      BY <1>4, <2>1 DEF ClientInv
    <3>2. connected[b] \/ busy[b] = "connecting" => handler'[conn[b]] = handler[conn[b]]
      BY <1>2, <1>6, <3>1
    <3> QED BY <1>2, <1>3, <1>6, <2>1, <2>2, <2>3, <3>2, LinkKept
  <2>4. CASE b = c
    <3>1. conn'[c] = d /\ handler'[d] = "accepted" /\ up'[d] = << >> /\ down'[d] = << >>
      BY <1>2, <1>3, <1>5, <1>6
    <3>2. ~ connected'[c]
      BY <1>2, <1>3
    <3> QED BY <2>4, <3>1, <3>2, NoStream DEF LinkInv, Connecting
  <2> QED BY <2>3, <2>4
<1> QED BY <1>8, <1>9, <1>10, <1>11, <1>12 DEF CustodyInv, LinksInv

\* The client reads the server's keys and writes its own.
LEMMA ClientHandshakeKeeps ==
    ASSUME CustodyInv, HarnessesInv, NEW c \in Clients, ClientHandshake(c)
    PROVE  CustodyInv'
<1> DEFINE d == conn[c]
           h == CompleteHandshake(harness[c], Head(down[d]), Expected[c])
           keys == HandshakeBytes(h)
<1>1. ClientsInv /\ StreamsInv /\ LinksInv /\ FlightInv /\ RepliesInv
  BY DEF CustodyInv
<1>2. /\ busy[c] = "connecting" /\ down[d] # << >>
      /\ harness' = [harness EXCEPT ![c] = h]
      /\ up' = IF server_open[d] THEN [up EXCEPT ![d] = Append(@, keys)] ELSE up
      /\ down' = [down EXCEPT ![d] = Tail(@)]
      /\ busy' = [busy EXCEPT ![c] = "no"]
  BY DEF ClientHandshake, Arriving
<1>3. \E pinned : connected' = [connected EXCEPT ![c] = pinned]
  BY DEF ClientHandshake
<1>4. UNCHANGED <<owner, handler, server_open, server, verdicts, replies, conn, pending>>
  BY DEF ClientHandshake, serverVars
<1>5. h.id = harness[c].id /\ h.seq_counter = harness[c].seq_counter
  BY HandshakeAgrees DEF HarnessesInv
<1>6. /\ DOMAIN harness = Clients /\ DOMAIN busy = Clients /\ DOMAIN connected = Clients
      /\ DOMAIN up = Dials /\ DOMAIN down = Dials
      /\ ClientInv(c) /\ LinkInv(c)
  BY <1>1 DEF ClientsInv, StreamsInv, LinksInv, HarnessesInv
<1> HIDE DEF h, keys
<1>7. \A b \in Clients : /\ harness'[b].id = harness[b].id
                         /\ harness'[b].seq_counter = harness[b].seq_counter
  BY <1>2, <1>5, <1>6
<1>8. d \in Dials /\ Connecting(c)
  BY <1>2, <1>6 DEF ClientInv, LinkInv
<1>9. /\ up[d] = << >> /\ handler[d] \notin {"accepted", "serving"}
      /\ Len(down[d]) <= 1 /\ IsSequence(down[d])
  BY <1>1, <1>2, <1>8 DEF Connecting, StreamsInv, StreamInv
<1>10. Tail(down[d]) = << >>
  BY <1>2, <1>9, OneServed
<1>11. /\ up'[d] = IF server_open[d] THEN Append(<< >>, keys) ELSE << >>
       /\ down'[d] = << >>
       /\ \A e \in Dials \ {d} : up'[e] = up[e] /\ down'[e] = down[e]
  BY <1>2, <1>6, <1>8, <1>9, <1>10
<1>12. /\ IsSequence(Append(<< >>, keys)) /\ Len(Append(<< >>, keys)) = 1
       /\ DOMAIN Append(<< >>, keys) = 1 .. 1
  <2>1. /\ IsSequence(Append(<< >>, keys)) /\ Len(Append(<< >>, keys)) = Len(<< >>) + 1
        /\ DOMAIN Append(<< >>, keys) = 1 .. Len(<< >>) + 1
    BY NoStream, Appended
  <2>2. Len(<< >>) + 1 = 1
    BY NoStream
  <2> QED BY <2>1, <2>2
<1>13. server_open[d] <=> handler[d] = "handshaking"
  BY <1>1, <1>8, <1>9 DEF StreamsInv, StreamInv
<1>14. ClientsInv'
  <2>1. ASSUME NEW b \in Clients PROVE ClientInv(b)'
    <3>1. ClientInv(b)
      BY <1>1 DEF ClientsInv
    <3>2. CASE b = c
      BY <1>2, <1>4, <1>6, <1>7, <3>1, <3>2 DEF ClientInv
    <3>3. CASE b # c
      <4>1. connected'[b] = connected[b]
        BY <1>3, <1>6, <3>3
      <4> QED BY <1>2, <1>4, <1>6, <1>7, <3>1, <3>3, <4>1 DEF ClientInv
    <3> QED BY <3>2, <3>3
  <2> QED BY <1>1, <1>2, <1>3, <1>4, <2>1 DEF ClientsInv
<1>15. StreamsInv'
  <2>1. ASSUME NEW e \in Dials PROVE StreamInv(e)'
    <3>1. StreamInv(e)
      BY <1>1 DEF StreamsInv
    <3>2. CASE e = d
      <4> HIDE DEF d
      <4>1. CASE server_open[d]
        <5>1. up'[d] = Append(<< >>, keys) /\ handler[d] = "handshaking"
          BY <1>11, <1>13, <4>1
        <5>2. /\ IsSequence(up'[d]) /\ Len(up'[d]) = 1
              /\ IsSequence(down'[d]) /\ down'[d] = << >>
          BY <1>11, <1>12, <5>1, NoStream
        <5> QED BY <1>4, <3>1, <3>2, <4>1, <5>1, <5>2 DEF StreamInv
      <4>2. CASE ~ server_open[d]
        <5>1. up'[d] = << >> /\ down'[d] = << >> /\ handler[d] # "handshaking"
          BY <1>11, <1>13, <4>2
        <5> QED BY <1>4, <1>9, <3>1, <3>2, <4>2, <5>1, NoStream DEF StreamInv
      <4> QED BY <4>1, <4>2
    <3>3. CASE e # d
      <4> HIDE DEF d
      <4> QED BY <1>4, <1>11, <3>1, <3>3 DEF StreamInv
    <3> QED BY <3>2, <3>3
  <2>2. DOMAIN up' = Dials /\ DOMAIN down' = Dials
    BY <1>2, <1>6
  <2> QED BY <1>1, <1>4, <2>1, <2>2 DEF StreamsInv
<1>16. /\ Carried(handler[d], Append(<< >>, keys)) = {}
       /\ Carried(handler[d], << >>) = {}
  BY <1>9, <1>12, NothingCarried DEF Carried
<1>17. \A e \in Dials : InTransit(e)' \subseteq InTransit(e)
  <2>1. Carried(handler[d], up'[d]) = {}
    BY <1>11, <1>16
  <2>2. ASSUME NEW e \in Dials PROVE Carried(handler[e], up'[e]) \subseteq Carried(handler[e], up[e])
    <3>1. CASE e = d
      BY <2>1, <3>1
    <3>2. CASE e # d
      BY <1>11, <3>2
    <3> QED BY <3>1, <3>2
  <2> QED BY <1>4, <2>2 DEF InTransit
<1>18. FlightInv'
  <2>1. \A p : Past(p) => Past(p)'
    <3>1. \A b \in Clients : harness[b].id[2] \in Nat /\ harness[b].seq_counter \in Nat
      BY <1>1 DEF ClientsInv, ClientInv
    <3> QED BY <1>7, <3>1, PastKept
  <2> QED BY <1>1, <1>4, <1>17, <2>1, FlightShrinks
<1>19. RepliesInv'
  BY <1>1, <1>4, RepliesKept
<1>20. ASSUME NEW b \in Clients PROVE LinkInv(b)'
  <2>1. LinkInv(b) /\ ClientInv(b)
    BY <1>1 DEF LinksInv, ClientsInv
  <2>2. \A x, p : Settles(x, p) => Settles(x, p)'
    BY <1>4, SettledKept
  <2>3. CASE b # c
    <3>1. connected[b] \/ busy[b] = "connecting" => conn[b] \in Dials /\ conn[b] # d
      BY <1>2, <1>6, <2>1, <2>3 DEF ClientInv
    <3>2. connected'[b] = connected[b] /\ busy'[b] = busy[b]
      BY <1>2, <1>3, <1>6, <2>3
    <3> HIDE DEF d
    <3> QED BY <1>4, <1>11, <2>1, <2>2, <3>1, <3>2, LinkKept
  <2>4. CASE b = c
    <3>1. conn'[c] = d /\ handler' = handler /\ busy'[c] = "no"
      BY <1>2, <1>4, <1>6
    <3>2. Idle(c)'
      <4>1. Carried(handler[d], up'[d]) = {}
        BY <1>11, <1>16
      <4> QED BY <1>11, <3>1, <4>1 DEF Idle, InTransit
    <3>3. handler[d] = "handshaking" => Len(up'[d]) >= 1
      BY <1>11, <1>12, <1>13
    <3> QED BY <1>9, <1>11, <2>4, <3>1, <3>2, <3>3 DEF LinkInv
  <2> QED BY <2>3, <2>4
<1> QED BY <1>14, <1>15, <1>18, <1>19, <1>20 DEF CustodyInv, LinksInv

\* A payload with a new number enters a stream that carries none.
LEMMA PayloadSent ==
    ASSUME CustodyInv, NEW c \in Clients, NEW p, NEW m,
           connected[c], busy[c] = "no",
           m.payload = p, p.from = harness[c].id, p.num = harness[c].seq_counter + 1,
           harness'[c].id = harness[c].id,
           harness'[c].seq_counter = harness[c].seq_counter + 1,
           \A b \in Clients \ {c} : harness'[b] = harness[b],
           up' = IF server_open[conn[c]] THEN [up EXCEPT ![conn[c]] = Append(@, m)] ELSE up,
           pending' = [pending EXCEPT ![c] = p],
           busy' = [busy EXCEPT ![c] = "waiting"],
           UNCHANGED <<owner, handler, server_open, server, verdicts, replies, down, conn,
                       connected>>
    PROVE  CustodyInv'
<1> DEFINE d == conn[c]
<1>1. ClientsInv /\ StreamsInv /\ LinksInv /\ FlightInv /\ RepliesInv
  BY DEF CustodyInv
<1>2. /\ DOMAIN busy = Clients /\ DOMAIN pending = Clients
      /\ DOMAIN up = Dials
      /\ \A b \in Clients : ClientInv(b) /\ LinkInv(b)
  BY <1>1 DEF ClientsInv, StreamsInv, LinksInv
<1>3. /\ d \in Dials /\ d # 0
      /\ Carried(handler[d], up[d]) = {} /\ down[d] = << >>
      /\ handler[d] # "accepted"
      /\ handler[d] = "handshaking" => Len(up[d]) >= 1
  BY <1>2 DEF ClientInv, LinkInv, Idle, InTransit
<1>4. /\ IsSequence(up[d])
      /\ server_open[d] <=> handler[d] \in {"handshaking", "serving"}
  BY <1>1, <1>3 DEF StreamsInv, StreamInv
<1>5. \A e \in Dials \ {d} : up'[e] = up[e]
  BY <1>2, <1>3
<1>6. /\ IsSequence(up'[d]) /\ Carried(handler[d], up'[d]) \subseteq {p}
      /\ ~ server_open[d] => up'[d] = up[d]
      /\ handler[d] = "handshaking" => Len(up'[d]) = 2
      /\ handler[d] = "serving" => Len(up'[d]) = 1
  <2>1. CASE server_open[d]
    <3>1. up'[d] = Append(up[d], m)
      BY <1>2, <1>3, <2>1
    <3>2. /\ Carried(handler[d], Append(up[d], m)) = {m.payload}
          /\ handler[d] = "serving" => Len(up[d]) = 0
          /\ handler[d] = "handshaking" => Len(up[d]) = 1
      <4>1. \/ handler[d] = "serving"
            \/ handler[d] = "handshaking" /\ Len(up[d]) >= 1
        BY <1>3, <1>4, <2>1
      <4>2. IsSequence(up[d]) /\ Carried(handler[d], up[d]) = {}
        BY <1>3, <1>4
      <4> HIDE DEF d
      <4> QED BY <4>1, <4>2, OneCarried
    <3>3. IsSequence(Append(up[d], m)) /\ Len(Append(up[d], m)) = Len(up[d]) + 1
      BY <1>4, Appended
    <3> HIDE DEF d
    <3>4. IsSequence(up'[d]) /\ Len(up'[d]) = Len(up[d]) + 1
      BY <3>1, <3>3
    <3>5. Carried(handler[d], up'[d]) = {p}
      BY <3>1, <3>2
    <3>6. /\ handler[d] = "serving" => Len(up'[d]) = 1
          /\ handler[d] = "handshaking" => Len(up'[d]) = 2
      <4>1. Len(up[d]) = 0 => Len(up'[d]) = 1
        BY <3>4
      <4>2. Len(up[d]) = 1 => Len(up'[d]) = 2
        BY <3>4
      <4> QED BY <3>2, <4>1, <4>2
    <3> QED BY <2>1, <3>4, <3>5, <3>6
  <2>2. CASE ~ server_open[d]
    BY <1>3, <1>4, <2>2
  <2> QED BY <2>1, <2>2
<1>7. ASSUME NEW b \in Clients
      PROVE  /\ harness[b].id = <<b, harness[b].id[2]>>
             /\ harness[b].id[2] \in Nat /\ harness[b].seq_counter \in Nat
             /\ harness'[b].id = harness[b].id
             /\ harness'[b].seq_counter \in Nat
             /\ harness'[b].seq_counter >= harness[b].seq_counter
  <2>1. /\ harness[b].id = <<b, harness[b].id[2]>>
        /\ harness[b].id[2] \in Nat /\ harness[b].seq_counter \in Nat
    BY <1>2 DEF ClientInv
  <2>2. CASE b = c
    BY <2>1, <2>2
  <2>3. CASE b # c
    BY <2>1, <2>3
  <2> QED BY <2>2, <2>3
<1>8. ClientsInv'
  <2>1. ASSUME NEW b \in Clients PROVE ClientInv(b)'
    <3>1. ClientInv(b)
      BY <1>2
    <3>2. CASE b = c
      <4>1. busy'[c] = "waiting" /\ pending'[c] = p
        BY <1>2
      <4>2. p.from = harness'[c].id /\ p.num = harness'[c].seq_counter
        OBVIOUS
      <4> QED BY <1>7, <3>1, <3>2, <4>1, <4>2 DEF ClientInv
    <3>3. CASE b # c
      <4>1. busy'[b] = busy[b] /\ pending'[b] = pending[b] /\ harness'[b] = harness[b]
        BY <1>2, <3>3
      <4> QED BY <3>1, <4>1 DEF ClientInv
    <3> QED BY <3>2, <3>3
  <2> QED BY <1>1, <2>1 DEF ClientsInv
<1> HIDE DEF d
<1>9. StreamsInv'
  <2>1. ASSUME NEW e \in Dials PROVE StreamInv(e)'
    <3>1. StreamInv(e)
      BY <1>1 DEF StreamsInv
    <3>2. CASE e = d
      BY <1>4, <1>6, <3>1, <3>2 DEF StreamInv
    <3>3. CASE e # d
      BY <1>5, <3>1, <3>3 DEF StreamInv
    <3> QED BY <3>2, <3>3
  <2>2. DOMAIN up' = Dials
    BY <1>2
  <2> QED BY <1>1, <2>1, <2>2 DEF StreamsInv
<1>10. /\ \A e \in Dials \ {d} : InTransit(e)' = InTransit(e)
       /\ Carried(handler[d], up'[d]) \subseteq {p}
  BY <1>5, <1>6 DEF InTransit
<1>11. \A q : Past(q) => Past(q)' /\ ~ SameKey(p, q) /\ ~ SameKey(q, p)
  <2>1. \A q : Past(q) => Past(q)'
    BY <1>7, PastKept
  <2>2. ASSUME NEW q, Past(q), q.from = p.from, q.num = p.num PROVE FALSE
    <3>1. PICK b \in Clients, n \in Nat :
              /\ q.from = <<b, n>> /\ n <= harness[b].id[2]
              /\ n = harness[b].id[2] => q.num <= harness[b].seq_counter
      BY <2>2 DEF Past
    <3>2. b = c /\ n = harness[c].id[2]
      BY <1>7, <2>2, <3>1
    <3>3. q.num <= harness[c].seq_counter
      BY <3>1, <3>2
    <3> QED BY <1>7, <2>2, <3>3
  <2> QED BY <2>1, <2>2 DEF SameKey
<1>12. Past(p)'
  <2>1. /\ harness'[c].id[2] \in Nat /\ p.from = <<c, harness'[c].id[2]>>
        /\ p.num = harness'[c].seq_counter /\ p.num \in Nat
    BY <1>7
  <2>2. harness'[c].id[2] <= harness'[c].id[2] /\ p.num <= harness'[c].seq_counter
    BY <2>1
  <2> QED BY <2>1, <2>2 DEF Past
<1>13. \A e \in Dials : \A q : q \in InTransit(e)' =>
          (e # d /\ q \in InTransit(e)) \/ (e = d /\ q = p)
  <2>1. \A q : q \in Carried(handler[d], up'[d]) => q = p
    BY <1>10
  <2>2. ASSUME NEW e \in Dials, NEW q \in InTransit(e)'
        PROVE  (e # d /\ q \in InTransit(e)) \/ (e = d /\ q = p)
    <3>1. q \in Carried(handler[e], up'[e])
      BY <2>2 DEF InTransit
    <3>2. CASE e = d
      BY <2>1, <3>1, <3>2
    <3>3. CASE e # d
      BY <1>10, <2>2, <3>3
    <3> QED BY <3>2, <3>3
  <2> QED BY <2>2
<1>14. FlightInv'
  <2>1. Answered' = Answered /\ (\A q \in Answered : Past(q))
    BY <1>1 DEF Answered, FlightInv
  <2>2. \A e \in Dials : \A q \in InTransit(e) : Past(q)
    BY <1>1 DEF FlightInv
  <2>3. ASSUME NEW e \in Dials, NEW q \in InTransit(e)'
        PROVE  /\ Past(q)'
               /\ \A r \in Answered' : ~ SameKey(q, r)
               /\ \A g \in Dials \ {e} : \A r \in InTransit(g)' : ~ SameKey(q, r)
    <3>1. CASE e = d
      <4>1. q = p
        BY <1>13, <2>3, <3>1
      <4> QED BY <1>11, <1>12, <1>13, <2>1, <2>2, <3>1, <4>1
    <3>2. CASE e # d
      <4>1. q \in InTransit(e)
        BY <1>13, <2>3, <3>2
      <4>2. /\ Past(q)
            /\ \A r \in Answered : ~ SameKey(q, r)
            /\ \A g \in Dials \ {e} : \A r \in InTransit(g) : ~ SameKey(q, r)
        BY <1>1, <4>1 DEF FlightInv
      <4> QED BY <1>11, <1>13, <2>1, <3>2, <4>2
    <3> QED BY <3>1, <3>2
  <2>4. \A q \in Answered' : Past(q)'
    BY <1>11, <2>1
  <2> QED BY <1>1, <2>1, <2>3, <2>4 DEF FlightInv, SameKey
<1>15. RepliesInv'
  BY <1>1, RepliesKept
<1>16. ASSUME NEW b \in Clients PROVE LinkInv(b)'
  <2>1. LinkInv(b) /\ ClientInv(b) /\ ClientInv(c)
    BY <1>2
  <2>2. \A x, q : Settles(x, q) => Settles(x, q)'
    BY SettledKept
  <2>3. CASE b # c
    <3>1. connected[b] \/ busy[b] = "connecting" => conn[b] \in Dials /\ conn[b] # d
      BY <1>3, <2>1, <2>3 DEF ClientInv, d
    <3>2. busy'[b] = busy[b] /\ pending'[b] = pending[b]
      BY <1>2, <2>3
    <3> QED BY <1>5, <2>1, <2>2, <3>1, <3>2, LinkKept
  <2>4. CASE b = c
    <3>1. conn'[c] = d /\ busy'[c] = "waiting" /\ pending'[c] = p
      BY <1>2 DEF d
    <3>2. Waiting(c)'
      <4>1. /\ \A q \in Carried(handler[d], up'[d]) : q = p
            /\ down'[d] = << >>
        BY <1>3, <1>10
      <4> QED BY <3>1, <4>1, NoStream DEF Waiting, InTransit
    <3>3. handler[d] = "handshaking" => Len(up'[d]) >= 1
      BY <1>6
    <3> QED BY <1>3, <2>4, <3>1, <3>2, <3>3 DEF LinkInv
  <2> QED BY <2>3, <2>4
<1> QED BY <1>8, <1>9, <1>14, <1>15, <1>16 DEF CustodyInv, LinksInv

LEMMA SendKeeps ==
    ASSUME CustodyInv, HarnessesInv, NEW c \in Clients, NEW kind \in Kinds, Send(c, kind)
    PROVE  CustodyInv'
<1> DEFINE h == WrapPayload(harness[c])
           p == [kind |-> kind, from |-> h.id, num |-> h.seq_counter]
           m == FrameOf(h, p, TYPE_DATA, now)
<1>1. connected[c] /\ busy[c] = "no"
  BY DEF Send
<1>2. /\ harness' = [harness EXCEPT ![c] = h]
      /\ up' = IF server_open[conn[c]] THEN [up EXCEPT ![conn[c]] = Append(@, m)] ELSE up
      /\ pending' = [pending EXCEPT ![c] = p]
      /\ busy' = [busy EXCEPT ![c] = "waiting"]
  BY DEF Send, Arriving
<1>3. UNCHANGED <<owner, handler, server_open, server, verdicts, replies, down, conn, connected>>
  BY DEF Send, serverVars
<1>4. h.id = harness[c].id /\ h.seq_counter = harness[c].seq_counter + 1
  BY WrapAgrees DEF HarnessesInv
<1>5. m.payload = p /\ p.from = h.id /\ p.num = h.seq_counter
  BY DEF FrameOf
<1>6. DOMAIN harness = Clients
  BY DEF HarnessesInv
<1> HIDE DEF h, p, m
<1>7. harness'[c] = h /\ \A b \in Clients \ {c} : harness'[b] = harness[b]
  BY <1>2, <1>6
<1> QED BY <1>1, <1>2, <1>3, <1>4, <1>5, <1>7, PayloadSent

\* A response is read: what it settles is the last payload of its client.
LEMMA ResponseRead ==
    ASSUME CustodyInv, NEW c \in Clients, NEW r,
           IsSequence(server.chain),
           busy[c] = "waiting", down[conn[c]] # << >>,
           r.to = pending[c], r.reply = Head(down[conn[c]]).payload,
           replies' = replies \cup {r},
           \A b \in Clients : /\ harness'[b].id = harness[b].id
                              /\ harness'[b].seq_counter = harness[b].seq_counter,
           down' = [down EXCEPT ![conn[c]] = Tail(@)],
           busy' = [busy EXCEPT ![c] = "no"],
           pending' = [pending EXCEPT ![c] = NoPeer],
           UNCHANGED <<owner, handler, server_open, server, verdicts, up, conn, connected>>
    PROVE  CustodyInv'
<1> DEFINE d == conn[c]
<1>1. ClientsInv /\ StreamsInv /\ LinksInv /\ FlightInv /\ RepliesInv
  BY DEF CustodyInv
<1>2. /\ DOMAIN busy = Clients /\ DOMAIN pending = Clients /\ DOMAIN down = Dials
      /\ \A b \in Clients : ClientInv(b) /\ LinkInv(b)
  BY <1>1 DEF ClientsInv, StreamsInv, LinksInv
<1>3. connected[c] /\ d \in Dials /\ d # 0 /\ Waiting(c)
  BY <1>2 DEF ClientInv, LinkInv
<1>4. /\ IsSequence(down[d]) /\ Len(down[d]) <= 1
  BY <1>1, <1>3 DEF StreamsInv, StreamInv, Waiting
<1>5. /\ Tail(down[d]) = << >> /\ 1 \in DOMAIN down[d] /\ Head(down[d]) = down[d][1]
  <2>1. Len(down[d]) >= 1 /\ Len(down[d]) \in Nat /\ DOMAIN down[d] = 1 .. Len(down[d])
        /\ Head(down[d]) = down[d][1]
    BY <1>4, HeadTaken, Stream
  <2>2. Tail(down[d]) = << >>
    BY <1>4, OneServed
  <2> QED BY <2>1, <2>2
<1>6. Settles(r.reply, r.to) /\ InTransit(d) = {}
  BY <1>3, <1>5 DEF Waiting
<1>7. /\ down'[d] = << >>
      /\ \A e \in Dials \ {d} : down'[e] = down[e]
  BY <1>2, <1>3, <1>5
<1>8. ClientsInv'
  <2>1. ASSUME NEW b \in Clients PROVE ClientInv(b)'
    <3>1. ClientInv(b)
      BY <1>2
    <3>2. CASE b = c
      BY <1>2, <3>1, <3>2 DEF ClientInv
    <3>3. CASE b # c
      BY <1>2, <3>1, <3>3 DEF ClientInv
    <3> QED BY <3>2, <3>3
  <2> QED BY <1>1, <2>1 DEF ClientsInv
<1>9. handler[d] # "accepted" /\ (handler[d] = "handshaking" => Len(up[d]) >= 1)
  BY <1>2, <1>3 DEF LinkInv
<1>10. r.to.from = harness[c].id /\ r.to.num = harness[c].seq_counter
  BY <1>2 DEF ClientInv
<1> HIDE DEF d
<1>11. StreamsInv'
  <2>1. ASSUME NEW e \in Dials PROVE StreamInv(e)'
    <3>1. StreamInv(e)
      BY <1>1 DEF StreamsInv
    <3>2. CASE e = d
      BY <1>7, <3>1, <3>2, NoStream DEF StreamInv
    <3>3. CASE e # d
      BY <1>7, <3>1, <3>3 DEF StreamInv
    <3> QED BY <3>2, <3>3
  <2>2. DOMAIN down' = Dials
    BY <1>2
  <2> QED BY <1>1, <2>1, <2>2 DEF StreamsInv
<1>12. FlightInv'
  <2>1. \A p : Past(p) => Past(p)'
    <3>1. \A b \in Clients : harness[b].id[2] \in Nat /\ harness[b].seq_counter \in Nat
      BY <1>2 DEF ClientInv
    <3> QED BY <3>1, PastKept
  <2>2. \A e \in Dials : InTransit(e)' \subseteq InTransit(e)
    BY DEF InTransit
  <2> QED BY <1>1, <2>1, <2>2, FlightShrinks
<1>13. \A x, p : Settles(x, p) => Settles(x, p)'
  BY SettledKept
<1>14. RepliesInv'
  <2>1. \A q \in replies' : Settles(q.reply, q.to)'
    BY <1>1, <1>6, <1>13 DEF RepliesInv
  <2>2. ASSUME NEW i \in DOMAIN server.chain, NEW j \in DOMAIN server.chain, i < j,
               server.chain[i].from = server.chain[j].from,
               server.chain[i].num >= server.chain[j].num
        PROVE  r.to # server.chain[j]
    <3>1. SUFFICES ASSUME r.to = server.chain[j] PROVE FALSE
      OBVIOUS
    <3>2. /\ Past(server.chain[i]) /\ Past(server.chain[j])
          /\ SameKey(server.chain[i], server.chain[j]) => i = j
      BY <1>1 DEF FlightInv
    <3>3. PICK b \in Clients, n \in Nat :
              /\ server.chain[i].from = <<b, n>> /\ n <= harness[b].id[2]
              /\ n = harness[b].id[2] => server.chain[i].num <= harness[b].seq_counter
      BY <3>2 DEF Past
    <3>4. harness[c].id = <<c, harness[c].id[2]>> /\ harness[c].seq_counter \in Nat
      BY <1>2 DEF ClientInv
    <3>5. <<b, n>> = <<c, harness[c].id[2]>>
      BY <1>10, <2>2, <3>1, <3>3, <3>4
    <3>6. server.chain[i].num <= harness[c].seq_counter
      BY <3>3, <3>5
    <3>7. server.chain[i].num \in Nat
      BY <3>2 DEF Past
    <3>8. server.chain[i].num = server.chain[j].num
      BY <1>10, <2>2, <3>1, <3>4, <3>6, <3>7
    <3>9. i \in Nat /\ j \in Nat /\ i # j
      <4>1. Len(server.chain) \in Nat /\ DOMAIN server.chain = 1 .. Len(server.chain)
        BY Stream
      <4> QED BY <2>2, <4>1
    <3> QED BY <2>2, <3>2, <3>8, <3>9 DEF SameKey
  <2>3. server'.chain = server.chain
    OBVIOUS
  <2> QED BY <1>1, <2>1, <2>2, <2>3 DEF RepliesInv, CustodyInOrder
<1>15. ASSUME NEW b \in Clients PROVE LinkInv(b)'
  <2>1. LinkInv(b) /\ ClientInv(b) /\ ClientInv(c)
    BY <1>2
  <2>2. CASE b # c
    <3>1. connected[b] \/ busy[b] = "connecting" => conn[b] \in Dials /\ conn[b] # d
      BY <1>3, <2>1, <2>2 DEF ClientInv, d
    <3>2. busy'[b] = busy[b] /\ pending'[b] = pending[b]
      BY <1>2, <2>2
    <3> QED BY <1>7, <1>13, <2>1, <3>1, <3>2, LinkKept
  <2>3. CASE b = c
    <3>1. conn'[c] = d /\ busy'[c] = "no"
      BY <1>2 DEF d
    <3>2. Idle(c)'
      <4>1. Carried(handler[d], up[d]) = {}
        BY <1>6 DEF InTransit
      <4> QED BY <1>7, <3>1, <4>1 DEF Idle, InTransit
    <3> QED BY <1>7, <1>9, <2>3, <3>1, <3>2 DEF LinkInv
  <2> QED BY <2>2, <2>3
<1> QED BY <1>8, <1>11, <1>12, <1>14, <1>15 DEF CustodyInv, LinksInv

LEMMA ReceiveKeeps ==
    ASSUME CustodyInv, HarnessesInv, NEW c \in Clients, Receive(c)
    PROVE  CustodyInv'
<1> DEFINE f == Head(down[conn[c]])
           h == ProcessFrame(harness[c], f, now)
           r == [ to      |-> pending[c],
                  verdict |-> Verdict(harness[c], f, now),
                  reply   |-> f.payload ]
<1>1. /\ busy[c] = "waiting" /\ down[conn[c]] # << >>
      /\ harness' = [harness EXCEPT ![c] = h]
      /\ replies' = replies \cup {r}
      /\ down' = [down EXCEPT ![conn[c]] = Tail(@)]
      /\ busy' = [busy EXCEPT ![c] = "no"]
      /\ pending' = [pending EXCEPT ![c] = NoPeer]
  BY DEF Receive
<1>2. UNCHANGED <<owner, handler, server_open, server, verdicts, up, conn, connected>>
  BY DEF Receive, serverVars
<1>3. r.to = pending[c] /\ r.reply = f.payload
  OBVIOUS
<1>4. h.id = harness[c].id /\ h.seq_counter = harness[c].seq_counter
  BY ProcessAgrees DEF HarnessesInv
<1>5. DOMAIN harness = Clients /\ IsSequence(server.chain)
  BY DEF HarnessesInv, InAgreement
<1> HIDE DEF h, r
<1>6. \A b \in Clients : /\ harness'[b].id = harness[b].id
                         /\ harness'[b].seq_counter = harness[b].seq_counter
  BY <1>1, <1>4, <1>5
<1> QED BY <1>1, <1>2, <1>3, <1>5, <1>6, ResponseRead

LEMMA HandlerKeepsCustody ==
    ASSUME CustodyInv, HarnessesInv, NEW d \in Dials, d \in DOMAIN owner, HandlerStep(d)
    PROVE  CustodyInv'
<1> DEFINE Untouched == UNCHANGED <<owner, down, harness, conn, connected, busy, pending,
                                    verdicts, replies>>
<1>1. CASE Serve(d)
  BY <1>1, ServeKeeps
<1>2. CASE Admit(d)
  BY <1>2, AdmitKeeps
<1>3. CASE FinishHandshake(d)
  <2>1. Untouched /\ handler[d] = "handshaking" /\ up[d] # << >>
    BY <1>3 DEF FinishHandshake, clientVars
  <2>2. server'.chain = server.chain
    <3>1. server' = CompleteHandshake(server, Head(up[d]), NoPeer)
      BY <1>3 DEF FinishHandshake
    <3> QED BY <3>1, HandshakeAgrees DEF HarnessesInv
  <2>3. CASE is_running
    <3>1. /\ handler' = [handler EXCEPT ![d] = "serving"]
          /\ up' = [up EXCEPT ![d] = Tail(@)] /\ server_open' = server_open
      BY <1>3, <2>3 DEF FinishHandshake
    <3> QED BY <2>1, <2>2, <3>1, HandshakeKeeps
  <2>4. CASE ~ is_running
    <3>1. handler' = [handler EXCEPT ![d] = "done"] /\ ShutDown(d)
      BY <1>3, <2>4 DEF FinishHandshake, Finish
    <3> QED BY <2>1, <2>2, <3>1, ShutDownKeeps
  <2> QED BY <2>3, <2>4
<1>4. CASE Refuse(d) \/ GiveUpHandshake(d) \/ FinishClosing(d) \/ Disconnected(d)
  <2>1. Untouched /\ server' = server
    BY <1>4 DEF Refuse, GiveUpHandshake, FinishClosing, Disconnected, clientVars
  <2>2. ShutDown(d)
    BY <1>4 DEF Refuse, GiveUpHandshake, FinishClosing, Disconnected, Finish
  <2>3. PICK hd \in {"closing", "done"} : handler' = [handler EXCEPT ![d] = hd]
    BY <1>4 DEF Refuse, GiveUpHandshake, FinishClosing, Disconnected, Finish
  <2> QED BY <2>1, <2>2, <2>3, ShutDownKeeps
<1> QED BY <1>1, <1>2, <1>3, <1>4 DEF HandlerStep

LEMMA NothingKeeps ==
    ASSUME CustodyInv, Tick \/ Stop \/ UNCHANGED vars
    PROVE  CustodyInv'
<1>1. UNCHANGED <<server, verdicts, handler, owner, up, down, server_open, harness, conn,
                  connected, busy, pending, replies>>
  BY DEF Tick, Stop, vars, serverVars, netVars, clientVars
<1>2. ClientsInv /\ StreamsInv /\ LinksInv /\ FlightInv /\ RepliesInv
  BY DEF CustodyInv
<1>3. ClientsInv' /\ StreamsInv'
  BY <1>1, <1>2 DEF ClientsInv, ClientInv, StreamsInv, StreamInv
<1>4. LinksInv'
  <2>1. ASSUME NEW c \in Clients PROVE LinkInv(c)'
    <3>1. LinkInv(c) /\ \A x, p : Settles(x, p) => Settles(x, p)'
      BY <1>1, <1>2, SettledKept DEF LinksInv
    <3> QED BY <1>1, <3>1, LinkKept
  <2> QED BY <2>1 DEF LinksInv
<1>5. FlightInv'
  <2>1. \A d \in Dials : InTransit(d)' \subseteq InTransit(d)
    BY <1>1 DEF InTransit
  <2>2. \A p : Past(p) => Past(p)'
    BY <1>1 DEF Past
  <2> QED BY <1>1, <1>2, <2>1, <2>2, FlightShrinks
<1>6. RepliesInv'
  BY <1>1, <1>2, RepliesKept
<1> QED BY <1>3, <1>4, <1>5, <1>6 DEF CustodyInv

THEOREM CustodyInvariant == Spec => []CustodyInv
<1>1. Init => CustodyInv
  <2> SUFFICES ASSUME Init PROVE CustodyInv
    OBVIOUS
  <2>1. /\ server.chain = << >> /\ verdicts = {} /\ replies = {}
        /\ \A c \in Clients : /\ harness[c].id = <<c, 1>> /\ harness[c].seq_counter = 0
                              /\ conn[c] = 0 /\ ~ connected[c] /\ busy[c] = "no"
    BY NewEffect DEF Init
  <2>2. /\ owner = << >> /\ DOMAIN owner = {}
        /\ \A d \in Dials : /\ up[d] = << >> /\ down[d] = << >>
                            /\ handler[d] = "none" /\ ~ server_open[d]
    BY NoStream DEF Init
  <2>3. ClientsInv
    BY <2>1 DEF Init, ClientsInv, ClientInv
  <2>4. StreamsInv
    BY <2>2, NoStream DEF Init, StreamsInv, StreamInv
  <2>5. LinksInv
    BY <2>1 DEF LinksInv, LinkInv
  <2>6. Answered = {} /\ \A d \in Dials : InTransit(d) = {}
    BY <2>1, <2>2, NothingCarried DEF Answered, InTransit
  <2>7. FlightInv
    BY <2>1, <2>6, NoStream DEF FlightInv
  <2>8. RepliesInv
    BY <2>1, NoStream DEF RepliesInv, CustodyInOrder
  <2> QED BY <2>3, <2>4, <2>5, <2>7, <2>8 DEF CustodyInv
<1>2. CustodyInv /\ HarnessesInv /\ SlotsInv /\ [Next]_vars => CustodyInv'
  <2> SUFFICES ASSUME CustodyInv, HarnessesInv, SlotsInv, [Next]_vars PROVE CustodyInv'
    OBVIOUS
  <2>1. DOMAIN owner \subseteq Dials
    BY AgentsAssumption DEF SlotsInv, Books, Dials
  <2>2. ASSUME NEW c \in Clients, Dial(c) \/ ClientWakes(c) \/ Close(c) \/ Restart(c)
        PROVE  CustodyInv'
    BY <2>2, DialKeeps, ClientHandshakeKeeps, ConnectFailsKeeps, ReceiveKeeps,
       ReceiveFailsKeeps, CloseKeeps, RestartKeeps DEF ClientWakes
  <2>3. ASSUME NEW c \in Clients, NEW kind \in Kinds, Send(c, kind) PROVE CustodyInv'
    BY <2>3, SendKeeps
  <2>4. ASSUME NEW d \in DOMAIN owner, HandlerStep(d) \/ DropAbandoned(d) PROVE CustodyInv'
    BY <2>1, <2>4, HandlerKeepsCustody, DropKeeps
  <2>5. CASE Tick \/ Stop \/ UNCHANGED vars
    BY <2>5, NothingKeeps
  <2> QED BY <2>2, <2>3, <2>4, <2>5 DEF Next
<1> QED BY <1>1, <1>2, HarnessesInvariant, SlotsInvariant, PTL DEF Spec

\* client_agent.py:55 and server_agent.py:70-73: the response a request
\* returns is about that request and says what became of its payload, over
\* any number of clients, connections, restarts and abandoned requests.
THEOREM RepliesAreTrue == Spec => []ReplyTellsTheTruth
<1>1. CustodyInv => ReplyTellsTheTruth
  BY DEF CustodyInv, RepliesInv, Settles, ReplyTellsTheTruth
<1> QED BY <1>1, CustodyInvariant, PTL

\* tunnel.py:270 over a server that serves many connections on one chain: a
\* payload is in the chain once, and late only if its caller did not wait.
THEOREM CustodyKeepsOrder == Spec => []CustodyInOrder
<1>1. CustodyInv => CustodyInOrder
  BY DEF CustodyInv, RepliesInv
<1> QED BY <1>1, CustodyInvariant, PTL

-----------------------------------------------------------------------------
(* Types.  What is read as a public key is one: the keys come first in     *)
(* either stream.                                                          *)

FlagsInv ==
    /\ now \in Time /\ is_running \in BOOLEAN
    /\ client_open \in [Dials -> BOOLEAN] /\ server_open \in [Dials -> BOOLEAN]
    /\ conn \in [Clients -> Dials \cup {0}]
    /\ connected \in [Clients -> BOOLEAN]
    /\ busy \in [Clients -> {"no", "connecting", "waiting"}]

LEMMA FlagsKept ==
    ASSUME FlagsInv, SlotsInv, CustodyInv, [Next]_vars
    PROVE  FlagsInv'
<1> USE DEF FlagsInv
<1>0. /\ DOMAIN owner \subseteq Dials
      /\ \A c \in Clients : connected[c] \/ busy[c] = "connecting" => conn[c] \in Dials
  <2>1. DOMAIN owner \subseteq Dials
    BY AgentsAssumption DEF SlotsInv, Books, Dials
  <2> QED BY <2>1 DEF CustodyInv, ClientsInv, ClientInv
<1>1. CASE Tick
  <2>1. now' \in Time
    BY <1>1, TimeAssumption DEF Tick, Time
  <2> QED BY <1>1, <2>1 DEF Tick, serverVars, netVars, clientVars
<1>2. CASE Stop
  BY <1>2 DEF Stop, netVars, clientVars
<1>3. CASE UNCHANGED vars
  BY <1>3 DEF vars, serverVars, netVars, clientVars
<1>4. ASSUME NEW c \in Clients, Dial(c) PROVE FlagsInv'
  BY <1>4 DEF Dial
<1>5. ASSUME NEW c \in Clients, ClientHandshake(c) PROVE FlagsInv'
  <2>1. connected' \in [Clients -> BOOLEAN]
    BY <1>5 DEF ClientHandshake, Pinned
  <2> QED BY <1>5, <2>1 DEF ClientHandshake, serverVars
<1>6. ASSUME NEW c \in Clients, NEW kind \in Kinds, Send(c, kind) PROVE FlagsInv'
  BY <1>6 DEF Send, serverVars
<1>7. ASSUME NEW c \in Clients, ConnectFails(c) \/ ReceiveFails(c) PROVE FlagsInv'
  BY <1>7 DEF ConnectFails, ReceiveFails, serverVars, netVars
<1>8. ASSUME NEW c \in Clients, Receive(c) PROVE FlagsInv'
  BY <1>8 DEF Receive, serverVars
<1>9. ASSUME NEW c \in Clients, Close(c) PROVE FlagsInv'
  <2>1. client_open' \in [Dials -> BOOLEAN]
    BY <1>9 DEF Close, HangUp
  <2> QED BY <1>9, <2>1 DEF Close, serverVars
<1>10. ASSUME NEW c \in Clients, Restart(c) PROVE FlagsInv'
  <2>1. client_open' \in [Dials -> BOOLEAN]
    BY <1>10 DEF Restart, HangUp
  <2> QED BY <1>10, <2>1 DEF Restart, serverVars
<1>11. ASSUME NEW d \in DOMAIN owner, DropAbandoned(d) PROVE FlagsInv'
  <2>1. client_open' \in [Dials -> BOOLEAN]
    BY <1>11 DEF DropAbandoned, HangUp
  <2> QED BY <1>11, <2>1 DEF DropAbandoned, serverVars, clientVars
<1>12. ASSUME NEW d \in DOMAIN owner, HandlerStep(d) PROVE FlagsInv'
  <2>1. UNCHANGED <<now, is_running, client_open, conn, connected, busy>>
    BY <1>12 DEF HandlerStep, Refuse, Admit, FinishHandshake, GiveUpHandshake, FinishClosing,
                 Serve, Disconnected, clientVars
  <2>2. server_open' = server_open \/ server_open' = [server_open EXCEPT ![d] = FALSE]
    BY <1>12 DEF HandlerStep, Refuse, Admit, FinishHandshake, GiveUpHandshake, FinishClosing,
                 Serve, Disconnected, Finish, ShutDown
  <2> QED BY <2>1, <2>2
<1> QED BY <1>1, <1>2, <1>3, <1>4, <1>5, <1>6, <1>7, <1>8, <1>9, <1>10, <1>11, <1>12
        DEF Next, ClientWakes

\* The parts of a harness that its other invariants leave open.
KeyOK(h) ==
    /\ h.session_key \in [secret : SUBSET Ids, ratchet : Nat]
    /\ h.peer_signing_pubkey \in Ids \cup {NoPeer}
    /\ h.peer_connected \in BOOLEAN
    /\ h.seq_counter \in Nat

KeyedInv ==
    /\ server.id = <<Server, 0>> /\ KeyOK(server)
    /\ \A c \in Clients : harness[c].id \in Ids /\ KeyOK(harness[c])

\* What a handler, or a connecting client, is about to read as keys.
UpKeys(d) ==
    handler[d] = "handshaking" /\ up[d] # << >> => Head(up[d]).keys \in Ids

DownKeys(c) ==
    busy[c] = "connecting" /\ down[conn[c]] # << >> => Head(down[conn[c]]).keys \in Ids

KeysInv == (\A d \in Dials : UpKeys(d)) /\ (\A c \in Clients : DownKeys(c))

LEMMA NewKeyOK ==
    ASSUME NEW id
    PROVE  NewHarness(id).id = id /\ KeyOK(NewHarness(id))
BY DEF NewHarness, KeyOK, InitialKey

LEMMA WrapKeyOK ==
    ASSUME NEW h, InAgreement(h), KeyOK(h)
    PROVE  KeyOK(WrapPayload(h))
<1>1. DOMAIN h = HarnessFields
  BY DEF InAgreement
<1>2. WrapPayload(h).session_key \in {h.session_key, Rekeyed(h.session_key)}
  BY <1>1 DEF WrapPayload, HarnessFields
<1>3. Rekeyed(h.session_key) \in [secret : SUBSET Ids, ratchet : Nat]
  BY DEF Rekeyed, KeyOK
<1>4. LET v == WrapPayload(h)
      IN  /\ v.seq_counter = h.seq_counter + 1
          /\ v.peer_signing_pubkey = h.peer_signing_pubkey /\ v.peer_connected = h.peer_connected
  BY <1>1, WrapEffect DEF HarnessFields
<1> QED BY <1>2, <1>3, <1>4 DEF KeyOK

LEMMA HandshakeKeyOK ==
    ASSUME NEW h, InAgreement(h), KeyOK(h), h.id \in Ids,
           NEW bytes, bytes.keys \in Ids, NEW expected
    PROVE  KeyOK(CompleteHandshake(h, bytes, expected))
<1> DEFINE v == CompleteHandshake(h, bytes, expected)
           derived == DeriveSessionKey(h, bytes)
<1>1. DOMAIN h = HarnessFields
  BY DEF InAgreement
<1>2. /\ DOMAIN derived = HarnessFields
      /\ derived.session_key = [secret |-> {h.id, bytes.keys}, ratchet |-> 0]
      /\ derived.peer_signing_pubkey = bytes.keys
      /\ derived.peer_connected = h.peer_connected /\ derived.seq_counter = h.seq_counter
  BY <1>1 DEF DeriveSessionKey, HarnessFields
<1>3. v = derived \/ v = [derived EXCEPT !.peer_connected = TRUE]
  BY DEF CompleteHandshake
<1> HIDE DEF v, derived
<1>4. /\ v.session_key = derived.session_key /\ v.seq_counter = derived.seq_counter
      /\ v.peer_signing_pubkey = derived.peer_signing_pubkey
      /\ v.peer_connected \in {TRUE, derived.peer_connected}
  BY <1>2, <1>3 DEF HarnessFields
<1>5. derived.session_key \in [secret : SUBSET Ids, ratchet : Nat]
  BY <1>2
<1> QED BY <1>2, <1>4, <1>5 DEF KeyOK, v

LEMMA ProcessKeyOK ==
    ASSUME NEW h, InAgreement(h), KeyOK(h), NEW f, NEW t
    PROVE  KeyOK(ProcessFrame(h, f, t))
BY ProcessEffect DEF InAgreement, KeyOK

LEMMA KeyedKept ==
    ASSUME KeyedInv, KeysInv, HarnessesInv, CustodyInv, SlotsInv, [Next]_vars
    PROVE  KeyedInv'
<1>0. /\ HarnessesInv /\ DOMAIN owner \subseteq Dials /\ <<Server, 0>> \in Ids
      /\ \A c \in Clients : harness[c].id = <<c, harness[c].id[2]>> /\ harness[c].id[2] \in Nat
  BY AgentsAssumption DEF SlotsInv, Books, Dials, Ids, CustodyInv, ClientsInv, ClientInv
<1>1. ASSUME NEW c \in Clients, NEW h, h.id \in Ids, KeyOK(h),
             harness' = [harness EXCEPT ![c] = h], server' = server
      PROVE  KeyedInv'
  BY <1>0, <1>1 DEF KeyedInv, HarnessesInv
<1>2. ASSUME NEW c \in Clients, ClientHandshake(c) PROVE KeyedInv'
  <2> DEFINE h == CompleteHandshake(harness[c], Head(down[conn[c]]), Expected[c])
  <2>1. /\ harness' = [harness EXCEPT ![c] = h] /\ server' = server
        /\ busy[c] = "connecting" /\ down[conn[c]] # << >>
    BY <1>2 DEF ClientHandshake, serverVars
  <2>2. Head(down[conn[c]]).keys \in Ids
    BY <2>1 DEF KeysInv, DownKeys
  <2>3. InAgreement(harness[c]) /\ KeyOK(harness[c]) /\ harness[c].id \in Ids
    BY DEF HarnessesInv, KeyedInv
  <2>4. h.id \in Ids /\ KeyOK(h)
    BY <2>2, <2>3, HandshakeKeyOK, HandshakeAgrees
  <2> HIDE DEF h
  <2> QED BY <1>1, <2>1, <2>4
<1>3. ASSUME NEW c \in Clients, NEW kind \in Kinds, Send(c, kind) PROVE KeyedInv'
  <2> DEFINE h == WrapPayload(harness[c])
  <2>1. harness' = [harness EXCEPT ![c] = h] /\ server' = server
    BY <1>3 DEF Send, serverVars
  <2>2. h.id \in Ids /\ KeyOK(h)
    BY WrapKeyOK, WrapAgrees DEF HarnessesInv, KeyedInv
  <2> HIDE DEF h
  <2> QED BY <1>1, <2>1, <2>2
<1>4. ASSUME NEW c \in Clients, Receive(c) PROVE KeyedInv'
  <2> DEFINE h == ProcessFrame(harness[c], Head(down[conn[c]]), now)
  <2>1. harness' = [harness EXCEPT ![c] = h] /\ server' = server
    BY <1>4 DEF Receive, serverVars
  <2>2. h.id \in Ids /\ KeyOK(h)
    BY ProcessKeyOK, ProcessAgrees DEF HarnessesInv, KeyedInv
  <2> HIDE DEF h
  <2> QED BY <1>1, <2>1, <2>2
<1>5. ASSUME NEW c \in Clients, Restart(c) PROVE KeyedInv'
  <2> DEFINE n == harness[c].id[2] + 1
             h == NewHarness(<<c, n>>)
  <2>1. /\ harness' = [harness EXCEPT ![c] = h] /\ server' = server
        /\ harness[c].id[2] <= MaxRestarts
    BY <1>5 DEF Restart, serverVars, HarnessesInv
  <2>2. n \in 1 .. MaxRestarts + 1
    BY <1>0, <2>1, AgentsAssumption
  <2> HIDE DEF n
  <2>3. h.id \in Ids /\ KeyOK(h)
    BY <2>2, NewKeyOK DEF Ids
  <2> HIDE DEF h
  <2> QED BY <1>1, <2>1, <2>3
<1>6. ASSUME NEW d \in DOMAIN owner, FinishHandshake(d) PROVE KeyedInv'
  <2>1. /\ server' = CompleteHandshake(server, Head(up[d]), NoPeer) /\ harness' = harness
        /\ handler[d] = "handshaking" /\ up[d] # << >>
    BY <1>6 DEF FinishHandshake, clientVars
  <2>2. Head(up[d]).keys \in Ids
    BY <1>0, <2>1 DEF KeysInv, UpKeys
  <2>3. server'.id = server.id /\ KeyOK(server')
    BY <1>0, <2>1, <2>2, HandshakeKeyOK, HandshakeAgrees DEF HarnessesInv, KeyedInv
  <2> QED BY <2>1, <2>3 DEF KeyedInv
<1>7. ASSUME NEW d \in DOMAIN owner, Serve(d) PROVE KeyedInv'
  <2> DEFINE p == ProcessFrame(server, Head(up[d]), now)
  <2>1. server' = WrapPayload(p) /\ harness' = harness
    BY <1>7 DEF Serve, clientVars
  <2>2. InAgreement(p) /\ p.id = server.id /\ KeyOK(p)
    BY ProcessKeyOK, ProcessAgrees DEF HarnessesInv, KeyedInv
  <2> HIDE DEF p
  <2>3. server'.id = server.id /\ KeyOK(server')
    BY <2>1, <2>2, WrapKeyOK, WrapAgrees
  <2> QED BY <2>1, <2>3 DEF KeyedInv
<1>8. CASE \/ Tick \/ Stop \/ UNCHANGED vars
           \/ \E c \in Clients : Dial(c) \/ ConnectFails(c) \/ ReceiveFails(c) \/ Close(c)
           \/ \E d \in DOMAIN owner :
                 \/ DropAbandoned(d) \/ Refuse(d) \/ Admit(d) \/ GiveUpHandshake(d)
                 \/ FinishClosing(d) \/ Disconnected(d)
  <2>1. UNCHANGED <<server, harness>>
    BY <1>8 DEF Tick, Stop, vars, serverVars, netVars, clientVars, Dial, ConnectFails,
                ReceiveFails, Close, DropAbandoned, Refuse, Admit, GiveUpHandshake,
                FinishClosing, Disconnected
  <2> QED BY <2>1 DEF KeyedInv
<1> QED BY <1>2, <1>3, <1>4, <1>5, <1>6, <1>7, <1>8 DEF Next, ClientWakes, HandlerStep

\* Nothing changes the keys at the head of a stream but what empties it.
LEMMA HeadStays ==
    ASSUME NEW u, IsSequence(u), NEW e
    PROVE  Head(Append(u, e)) = IF u = << >> THEN e ELSE Head(u)
<1>1. PICK S : u \in Seq(S)
  BY DEF IsSequence
<1> QED BY <1>1

LEMMA KeysKept ==
    ASSUME KeyedInv, KeysInv, HarnessesInv, CustodyInv, SlotsInv, [Next]_vars
    PROVE  KeysInv'
<1>0. /\ ClientsInv /\ StreamsInv /\ LinksInv /\ DOMAIN owner \subseteq Dials
      /\ <<Server, 0>> \in Ids /\ server.id \in Ids
  BY AgentsAssumption DEF SlotsInv, Books, Dials, CustodyInv, Ids, KeyedInv
<1>1. CASE Tick \/ Stop \/ UNCHANGED vars
  <2>1. UNCHANGED <<handler, up, down, busy, conn>>
    BY <1>1 DEF Tick, Stop, vars, serverVars, netVars, clientVars
  <2> QED BY <2>1 DEF KeysInv, UpKeys, DownKeys
<1>2. ASSUME NEW c \in Clients, Dial(c) PROVE KeysInv'
  <2> DEFINE d == Len(owner) + 1
  <2>1. /\ handler' = [handler EXCEPT ![d] = "accepted"] /\ UNCHANGED <<up, down>>
        /\ conn' = [conn EXCEPT ![c] = d] /\ busy' = [busy EXCEPT ![c] = "connecting"]
        /\ d \in Dials /\ owner \in Seq(Clients)
    BY <1>2 DEF Dial, SlotsInv, Books
  <2>2. d \notin DOMAIN owner
    BY <2>1
  <2> HIDE DEF d
  <2>3. down[d] = << >>
    BY <1>0, <2>1, <2>2 DEF StreamsInv, StreamInv
  <2>4. \A e \in Dials : UpKeys(e)'
    BY <1>0, <2>1 DEF KeysInv, UpKeys, StreamsInv
  <2>5. \A b \in Clients : DownKeys(b)'
    BY <1>0, <2>1, <2>3 DEF KeysInv, DownKeys, ClientsInv
  <2> QED BY <2>4, <2>5 DEF KeysInv
<1>3. ASSUME NEW c \in Clients, ClientHandshake(c) PROVE KeysInv'
  <2> DEFINE d == conn[c]
             h == CompleteHandshake(harness[c], Head(down[d]), Expected[c])
             keys == HandshakeBytes(h)
  <2>1. /\ busy[c] = "connecting" /\ busy' = [busy EXCEPT ![c] = "no"]
        /\ up' = up \/ up' = [up EXCEPT ![d] = Append(@, keys)]
        /\ down' = [down EXCEPT ![d] = Tail(@)]
        /\ UNCHANGED <<handler, conn>>
    BY <1>3 DEF ClientHandshake, Arriving, serverVars
  <2>2. keys.keys \in Ids
    BY HandshakeAgrees DEF HarnessesInv, KeyedInv, HandshakeBytes
  <2> HIDE DEF keys, h
  <2>3. d \in Dials /\ up[d] = << >> /\ owner[d] = c
    BY <1>0, <2>1 DEF ClientsInv, ClientInv, LinksInv, LinkInv, Connecting
  <2>4. \A e \in Dials : UpKeys(e)'
    <3>1. IsSequence(up[d]) => Head(Append(up[d], keys)) = keys
      BY <2>3, HeadStays
    <3> QED BY <1>0, <2>1, <2>2, <2>3, <3>1 DEF KeysInv, UpKeys, StreamsInv, StreamInv
  <2>5. ASSUME NEW b \in Clients PROVE DownKeys(b)'
    <3>1. busy'[b] = "connecting" => b # c /\ busy[b] = "connecting"
      BY <1>0, <2>1 DEF ClientsInv
    <3>2. busy[b] = "connecting" /\ b # c => conn[b] \in Dials \ {d}
      BY <1>0, <2>3 DEF ClientsInv, ClientInv
    <3> QED BY <1>0, <2>1, <3>1, <3>2 DEF KeysInv, DownKeys, StreamsInv
  <2> QED BY <2>4, <2>5 DEF KeysInv
<1>4. ASSUME NEW c \in Clients, ConnectFails(c) \/ ReceiveFails(c) PROVE KeysInv'
  <2>1. busy' = [busy EXCEPT ![c] = "no"] /\ UNCHANGED <<handler, up, down, conn>>
    BY <1>4 DEF ConnectFails, ReceiveFails, serverVars, netVars
  <2> QED BY <1>0, <2>1 DEF KeysInv, UpKeys, DownKeys, ClientsInv
<1>5. ASSUME NEW c \in Clients, NEW kind \in Kinds, Send(c, kind) PROVE KeysInv'
  <2> DEFINE d == conn[c]
             m == FrameOf(WrapPayload(harness[c]),
                          [kind |-> kind, from |-> WrapPayload(harness[c]).id,
                           num |-> WrapPayload(harness[c]).seq_counter], TYPE_DATA, now)
  <2>1. /\ connected[c] /\ busy' = [busy EXCEPT ![c] = "waiting"]
        /\ up' = up \/ up' = [up EXCEPT ![d] = Append(@, m)]
        /\ UNCHANGED <<handler, conn, down>>
    BY <1>5 DEF Send, Arriving, serverVars
  <2> HIDE DEF m
  <2>2. /\ d \in Dials
        /\ handler[d] = "handshaking" => up[d] # << >>
    BY <1>0, <2>1, NoStream DEF ClientsInv, ClientInv, LinksInv, LinkInv
  <2>3. IsSequence(up[d])
    BY <1>0, <2>2 DEF StreamsInv, StreamInv
  <2>4. \A e \in Dials : UpKeys(e)'
    BY <1>0, <2>1, <2>2, <2>3, HeadStays DEF KeysInv, UpKeys, StreamsInv
  <2>5. \A b \in Clients : DownKeys(b)'
    BY <1>0, <2>1 DEF KeysInv, DownKeys, ClientsInv
  <2> QED BY <2>4, <2>5 DEF KeysInv
<1>6. ASSUME NEW c \in Clients, Receive(c) PROVE KeysInv'
  <2> DEFINE d == conn[c]
  <2>1. /\ busy[c] = "waiting" /\ busy' = [busy EXCEPT ![c] = "no"]
        /\ down' = [down EXCEPT ![d] = Tail(@)] /\ UNCHANGED <<handler, conn, up>>
    BY <1>6 DEF Receive, serverVars
  <2>2. owner[d] = c
    BY <1>0, <2>1 DEF ClientsInv, ClientInv
  <2>3. \A e \in Dials : UpKeys(e)'
    BY <2>1 DEF KeysInv, UpKeys
  <2>4. ASSUME NEW b \in Clients PROVE DownKeys(b)'
    <3>1. busy'[b] = "connecting" => b # c /\ busy[b] = "connecting"
      BY <1>0, <2>1 DEF ClientsInv
    <3>2. busy[b] = "connecting" /\ b # c => conn[b] \in Dials \ {d}
      BY <1>0, <2>2 DEF ClientsInv, ClientInv
    <3> QED BY <1>0, <2>1, <3>1, <3>2 DEF KeysInv, DownKeys, StreamsInv
  <2> QED BY <2>3, <2>4 DEF KeysInv
\* An end that closes empties its streams or leaves them.
<1>7. ASSUME NEW d \in Dials, HangUp(d) \/ UNCHANGED <<up, down>>, handler' = handler,
             \A c \in Clients : busy'[c] = "connecting" =>
                                   busy[c] = "connecting" /\ conn'[c] = conn[c]
      PROVE  KeysInv'
  <2>1. \A e \in Dials : /\ up'[e] \in {up[e], << >>}
                         /\ down'[e] \in {down[e], << >>}
    BY <1>0, <1>7 DEF HangUp, StreamsInv
  <2>2. \A e \in Dials : UpKeys(e)'
    BY <1>7, <2>1 DEF KeysInv, UpKeys
  <2>3. ASSUME NEW c \in Clients PROVE DownKeys(c)'
    <3>1. busy'[c] = "connecting" =>
             busy[c] = "connecting" /\ conn'[c] = conn[c] /\ conn[c] \in Dials
      BY <1>0, <1>7 DEF ClientsInv, ClientInv
    <3> QED BY <2>1, <3>1 DEF KeysInv, DownKeys
  <2> QED BY <2>2, <2>3 DEF KeysInv
<1>8. ASSUME NEW c \in Clients, Close(c) \/ Restart(c) PROVE KeysInv'
  <2>1. /\ handler' = handler /\ conn' = [conn EXCEPT ![c] = 0]
        /\ busy' = [busy EXCEPT ![c] = "no"]
        /\ (HangUp(conn[c]) /\ conn[c] # 0) \/ UNCHANGED <<up, down>>
    BY <1>0, <1>8 DEF Close, Restart, serverVars, ClientsInv, ClientInv
  <2>2. \A b \in Clients : busy'[b] = "connecting" =>
           busy[b] = "connecting" /\ conn'[b] = conn[b]
    BY <1>0, <2>1 DEF ClientsInv
  <2>3. CASE HangUp(conn[c]) /\ conn[c] # 0
    <3>1. conn[c] \in Dials
      BY <1>0, <2>3 DEF ClientsInv, ClientInv
    <3> QED BY <1>7, <2>1, <2>2, <2>3, <3>1
  <2>4. CASE UNCHANGED <<up, down>>
    BY <1>0, <2>1, <2>2, <2>4 DEF KeysInv, UpKeys, DownKeys
  <2> QED BY <2>1, <2>3, <2>4
<1>9. ASSUME NEW d \in DOMAIN owner, DropAbandoned(d) PROVE KeysInv'
  <2>1. HangUp(d) /\ UNCHANGED <<handler, conn, busy>>
    BY <1>9 DEF DropAbandoned, serverVars, clientVars
  <2> QED BY <1>0, <1>7, <2>1
<1>10. ASSUME NEW d \in DOMAIN owner, Admit(d) PROVE KeysInv'
  <2> DEFINE keys == HandshakeBytes(server)
  <2>1. /\ handler[d] = "accepted" /\ handler' = [handler EXCEPT ![d] = "handshaking"]
        /\ down' = [down EXCEPT ![d] = Append(@, keys)] \/ down' = down
        /\ UNCHANGED <<up, conn, busy>>
    BY <1>10 DEF Admit, Answering, clientVars
  <2>2. keys.keys \in Ids
    BY <1>0 DEF HandshakeBytes
  <2> HIDE DEF keys
  <2>3. up[d] = << >> /\ IsSequence(down[d]) /\ d \in Dials
    BY <1>0, <2>1 DEF StreamsInv, StreamInv
  <2>4. \A e \in Dials : UpKeys(e)'
    BY <1>0, <2>1, <2>3 DEF KeysInv, UpKeys, StreamsInv
  <2>5. \A c \in Clients : DownKeys(c)'
    <3>1. \A c \in Clients : busy[c] = "connecting" /\ conn[c] = d => down[d] = << >>
      BY <1>0, <2>1 DEF LinksInv, LinkInv, Connecting
    <3>2. down[d] = << >> => Head(Append(down[d], keys)) = keys
      BY <2>3, HeadStays
    <3>3. ASSUME NEW c \in Clients PROVE DownKeys(c)'
      <4>1. busy[c] = "connecting" => conn[c] \in Dials
        BY <1>0 DEF ClientsInv, ClientInv
      <4>2. CASE conn[c] = d
        BY <1>0, <2>1, <2>2, <2>3, <3>1, <3>2, <4>2 DEF KeysInv, DownKeys, StreamsInv
      <4>3. CASE conn[c] # d
        <5>1. busy[c] = "connecting" => down'[conn[c]] = down[conn[c]]
          BY <1>0, <2>1, <4>1, <4>3 DEF StreamsInv
        <5> QED BY <2>1, <5>1 DEF KeysInv, DownKeys
      <4> QED BY <4>2, <4>3
    <3> QED BY <3>3
  <2> QED BY <2>4, <2>5 DEF KeysInv
<1>11. ASSUME NEW d \in DOMAIN owner, Serve(d) PROVE KeysInv'
  <2>1. /\ handler[d] = "serving"
        /\ \E m : down' = [down EXCEPT ![d] = Append(@, m)] \/ down' = down
        /\ UNCHANGED <<conn, busy>>
        /\ \/ handler' = handler /\ up' = [up EXCEPT ![d] = Tail(@)]
           \/ handler' = [handler EXCEPT ![d] = "done"] /\ up' = [up EXCEPT ![d] = << >>]
    BY <1>11 DEF Serve, Answering, Finish, ShutDown, clientVars
  <2>2. /\ handler'[d] # "handshaking"
        /\ \A e \in Dials \ {d} : /\ handler'[e] = handler[e] /\ up'[e] = up[e]
                                  /\ down'[e] = down[e]
    BY <1>0, <2>1 DEF StreamsInv
  <2>3. \A e \in Dials : UpKeys(e)'
    BY <2>2 DEF KeysInv, UpKeys
  <2>4. \A c \in Clients : busy[c] = "connecting" => conn[c] \in Dials \ {d}
    BY <1>0, <2>1 DEF ClientsInv, ClientInv, LinksInv, LinkInv, Connecting
  <2>5. \A c \in Clients : DownKeys(c)'
    BY <2>1, <2>2, <2>4 DEF KeysInv, DownKeys
  <2> QED BY <2>3, <2>5 DEF KeysInv
<1>12. ASSUME NEW d \in DOMAIN owner,
              \/ FinishHandshake(d) \/ Refuse(d) \/ GiveUpHandshake(d) \/ FinishClosing(d)
              \/ Disconnected(d)
       PROVE  KeysInv'
  <2>1. /\ UNCHANGED <<down, conn, busy>>
        /\ \E hd \in {"serving", "closing", "done"} : handler' = [handler EXCEPT ![d] = hd]
        /\ \E s : up' = [up EXCEPT ![d] = s]
    BY <1>12 DEF FinishHandshake, Refuse, GiveUpHandshake, FinishClosing, Disconnected, Finish,
                 ShutDown, clientVars
  <2>2. /\ handler'[d] # "handshaking"
        /\ \A e \in Dials \ {d} : handler'[e] = handler[e] /\ up'[e] = up[e]
    BY <1>0, <2>1 DEF StreamsInv
  <2>3. \A e \in Dials : UpKeys(e)'
    BY <2>2 DEF KeysInv, UpKeys
  <2> QED BY <2>1, <2>3 DEF KeysInv, DownKeys
<1> QED BY <1>1, <1>2, <1>3, <1>4, <1>5, <1>6, <1>8, <1>9, <1>10, <1>11, <1>12
        DEF Next, ClientWakes, HandlerStep

TypesInv == FlagsInv /\ KeyedInv /\ KeysInv

THEOREM TypesInvariant == Spec => []TypesInv
<1>1. Init => TypesInv
  <2> SUFFICES ASSUME Init PROVE TypesInv
    OBVIOUS
  <2>1. FlagsInv
    BY TimeAssumption, AgentsAssumption DEF Init, FlagsInv, Time
  <2>2. KeyedInv
    BY NewKeyOK, AgentsAssumption DEF Init, KeyedInv, Ids
  <2>3. KeysInv
    BY DEF Init, KeysInv, UpKeys, DownKeys
  <2> QED BY <2>1, <2>2, <2>3 DEF TypesInv
<1>2. TypesInv /\ CustodyInv /\ HarnessesInv /\ SlotsInv /\ [Next]_vars => TypesInv'
  BY FlagsKept, KeyedKept, KeysKept DEF TypesInv
<1> QED BY <1>1, <1>2, CustodyInvariant, HarnessesInvariant, SlotsInvariant, PTL DEF Spec

\* Every field of both agents and of the connection between them has its
\* type: what a side reads as public keys is a pair of public keys, and a
\* session key combines identities only.
THEOREM AgentsTyped == Spec => []TypeOK
<1>1. TypesInv /\ HarnessesInv /\ SlotsInv => TypeOK
  <2> SUFFICES ASSUME TypesInv, HarnessesInv, SlotsInv PROVE TypeOK
    OBVIOUS
  <2>1. \A h : InAgreement(h) /\ KeyOK(h) /\ h.id \in Ids => HarnessOK(h)
    BY DEF InAgreement, KeyOK, HarnessOK
  <2>2. HarnessOK(server) /\ \A c \in Clients : HarnessOK(harness[c])
    BY <2>1, AgentsAssumption DEF TypesInv, KeyedInv, HarnessesInv, Ids
  <2> QED BY <2>2 DEF TypesInv, FlagsInv, SlotsInv, Books, HandlerStates, TypeOK
<1> QED BY <1>1, TypesInvariant, HarnessesInvariant, SlotsInvariant, PTL

-----------------------------------------------------------------------------
(* Waiting.  The end a client holds is open, and what it waits for is      *)
(* there: a payload counts as being there once the keys are before it.     *)

Waits(c) ==
    /\ connected[c] \/ busy[c] = "connecting" => client_open[conn[c]]
    /\ busy[c] = "connecting" =>
          \/ down[conn[c]] # << >> \/ ~ server_open[conn[c]]
          \/ handler[conn[c]] = "accepted"
    /\ busy[c] = "waiting" =>
          \/ down[conn[c]] # << >> \/ ~ server_open[conn[c]]
          \/ InTransit(conn[c]) # {}

WaitsInv == \A c \in Clients : Waits(c)

\* A client to whose connection nothing happens.
LEMMA WaitKept ==
    ASSUME NEW c, Waits(c), busy[c] = "waiting" => connected[c],
           conn'[c] = conn[c], connected'[c] = connected[c], busy'[c] = busy[c],
           connected[c] \/ busy[c] = "connecting" =>
              /\ handler'[conn[c]] = handler[conn[c]]
              /\ up'[conn[c]] = up[conn[c]] /\ down'[conn[c]] = down[conn[c]]
              /\ server_open'[conn[c]] = server_open[conn[c]]
              /\ client_open'[conn[c]] = client_open[conn[c]]
    PROVE  Waits(c)'
<1>1. CASE ~ (connected[c] \/ busy[c] = "connecting")
  BY <1>1 DEF Waits
<1>2. CASE connected[c] \/ busy[c] = "connecting"
  BY <1>2 DEF Waits, InTransit
<1> QED BY <1>1, <1>2

\* Connection d changes, its handler taking the step, and its client sees
\* what it waits for still there.
LEMMA WaitServed ==
    ASSUME WaitsInv, CustodyInv, NEW d \in Dials,
           UNCHANGED <<conn, connected, busy, client_open>>,
           \A e \in Dials \ {d} : /\ handler'[e] = handler[e] /\ up'[e] = up[e]
                                  /\ down'[e] = down[e] /\ server_open'[e] = server_open[e],
           \A c \in Clients :
              /\ conn[c] = d /\ busy[c] = "connecting" =>
                    down'[d] # << >> \/ ~ server_open'[d] \/ handler'[d] = "accepted"
              /\ conn[c] = d /\ busy[c] = "waiting" =>
                    down'[d] # << >> \/ ~ server_open'[d] \/ InTransit(d)' # {}
    PROVE  WaitsInv'
<1>1. ASSUME NEW c \in Clients PROVE Waits(c)'
  <2>1. ClientInv(c) /\ Waits(c)
    BY DEF CustodyInv, ClientsInv, WaitsInv
  <2>2. CASE conn[c] = d
    BY <2>1, <2>2 DEF Waits, InTransit
  <2>3. CASE conn[c] # d
    <3>1. connected[c] \/ busy[c] = "connecting" => conn[c] \in Dials \ {d}
      BY <2>1, <2>3 DEF ClientInv
    <3> QED BY <2>1, <3>1, WaitKept DEF ClientInv
  <2> QED BY <2>2, <2>3
<1> QED BY <1>1 DEF WaitsInv

LEMMA HandlerKeepsWaits ==
    ASSUME WaitsInv, CustodyInv, SlotsInv, NEW d \in DOMAIN owner, HandlerStep(d)
    PROVE  WaitsInv'
<1>0. /\ d \in Dials /\ DOMAIN handler = Dials /\ DOMAIN up = Dials /\ DOMAIN down = Dials
      /\ DOMAIN server_open = Dials /\ StreamInv(d)
  BY AgentsAssumption DEF SlotsInv, Books, Dials, CustodyInv, StreamsInv
<1>1. UNCHANGED <<conn, connected, busy, client_open>>
  BY DEF HandlerStep, Refuse, Admit, FinishHandshake, GiveUpHandshake, FinishClosing, Serve,
         Disconnected, clientVars
<1>2. \A c \in Clients : ClientInv(c) /\ LinkInv(c) /\ Waits(c)
  BY DEF CustodyInv, ClientsInv, LinksInv, WaitsInv
<1>3. ASSUME NEW hd, handler' = [handler EXCEPT ![d] = hd], ShutDown(d),
             \A e \in Dials \ {d} : down'[e] = down[e]
      PROVE  WaitsInv'
  <2>1. /\ ~ server_open'[d]
        /\ \A e \in Dials \ {d} : /\ handler'[e] = handler[e] /\ up'[e] = up[e]
                                  /\ server_open'[e] = server_open[e]
    BY <1>0, <1>3 DEF ShutDown
  <2> QED BY <1>0, <1>1, <1>3, <2>1, WaitServed
<1>4. CASE Refuse(d) \/ GiveUpHandshake(d) \/ FinishClosing(d) \/ Disconnected(d)
  <2>1. /\ ShutDown(d) /\ down' = down
        /\ \E hd : handler' = [handler EXCEPT ![d] = hd]
    BY <1>4 DEF Refuse, GiveUpHandshake, FinishClosing, Disconnected, Finish
  <2> QED BY <1>3, <2>1
<1>5. CASE Admit(d)
  <2> DEFINE keys == HandshakeBytes(server)
  <2>1. /\ handler[d] = "accepted" /\ handler' = [handler EXCEPT ![d] = "handshaking"]
        /\ down' = IF client_open[d] THEN [down EXCEPT ![d] = Append(@, keys)] ELSE down
        /\ UNCHANGED <<up, server_open>>
    BY <1>5 DEF Admit, Answering
  <2> HIDE DEF keys
  <2>2. ASSUME NEW c \in Clients, conn[c] = d, busy[c] = "connecting"
        PROVE  down'[d] # << >>
    <3>1. down'[d] = Append(down[d], keys)
      BY <1>0, <1>2, <2>1, <2>2 DEF Waits
    <3>2. IsSequence(down[d])
      BY <1>0 DEF StreamInv
    <3>3. Len(Append(down[d], keys)) # 0
      BY <3>2, Appended
    <3> QED BY <3>1, <3>3, NoStream
  <2>3. ASSUME NEW c \in Clients, conn[c] = d, busy[c] = "waiting"
        PROVE  FALSE
    BY <1>2, <2>1, <2>3 DEF ClientInv, LinkInv
  <2>4. \A e \in Dials \ {d} : handler'[e] = handler[e] /\ down'[e] = down[e]
    BY <1>0, <2>1
  <2> QED BY <1>0, <1>1, <2>1, <2>2, <2>3, <2>4, WaitServed
<1>6. CASE FinishHandshake(d)
  <2>1. /\ handler[d] = "handshaking" /\ up[d] # << >> /\ down' = down
    BY <1>6 DEF FinishHandshake
  <2>2. CASE ~ is_running
    BY <1>3, <1>6, <2>1, <2>2 DEF FinishHandshake, Finish
  <2>3. CASE is_running
    <3>1. /\ handler' = [handler EXCEPT ![d] = "serving"] /\ up' = [up EXCEPT ![d] = Tail(@)]
          /\ server_open' = server_open
      BY <1>6, <2>3 DEF FinishHandshake
    <3>2. InTransit(d)' = InTransit(d)
      <4>1. Carried("serving", Tail(up[d])) = Carried("handshaking", up[d])
        BY <1>0, <2>1, KeysRead DEF StreamInv
      <4> QED BY <1>0, <2>1, <3>1, <4>1 DEF InTransit
    <3>3. \A e \in Dials \ {d} : handler'[e] = handler[e] /\ up'[e] = up[e]
      BY <1>0, <3>1
    <3>4. \A c \in Clients :
             /\ conn[c] = d /\ busy[c] = "connecting" => down'[d] # << >> \/ ~ server_open'[d]
             /\ conn[c] = d /\ busy[c] = "waiting" =>
                   down'[d] # << >> \/ ~ server_open'[d] \/ InTransit(d)' # {}
      BY <1>2, <2>1, <3>1, <3>2 DEF Waits
    <3> QED BY <1>0, <1>1, <2>1, <3>1, <3>3, <3>4, WaitServed
  <2> QED BY <2>2, <2>3
<1>7. CASE Serve(d)
  <2>1. /\ handler[d] = "serving" /\ up[d] # << >>
        /\ \E m : down' = IF client_open[d] THEN [down EXCEPT ![d] = Append(@, m)] ELSE down
    BY <1>7 DEF Serve, Answering
  <2>2. \A e \in Dials \ {d} : down'[e] = down[e]
    BY <1>0, <2>1
  <2>3. CASE ~ is_running
    BY <1>3, <1>7, <2>2, <2>3 DEF Serve, Finish
  <2>4. CASE is_running
    <3>1. /\ up' = [up EXCEPT ![d] = Tail(@)] /\ UNCHANGED <<handler, server_open>>
      BY <1>7, <2>4 DEF Serve
    <3>2. ASSUME NEW c \in Clients, conn[c] = d, busy[c] = "waiting"
          PROVE  down'[d] # << >>
      <4>1. client_open[d]
        BY <1>2, <3>2 DEF Waits, ClientInv
      <4>2. PICK m : down'[d] = Append(down[d], m)
        BY <1>0, <2>1, <4>1
      <4>3. Len(Append(down[d], m)) # 0
        BY <1>0, Appended DEF StreamInv
      <4> QED BY <4>2, <4>3, NoStream
    <3>3. ASSUME NEW c \in Clients, conn[c] = d, busy[c] = "connecting"
          PROVE  FALSE
      BY <1>2, <2>1, <3>3 DEF LinkInv, Connecting
    <3>4. \A e \in Dials \ {d} : up'[e] = up[e]
      BY <1>0, <3>1
    <3> QED BY <1>0, <1>1, <2>2, <3>1, <3>2, <3>3, <3>4, WaitServed
  <2> QED BY <2>3, <2>4
<1> QED BY <1>4, <1>5, <1>6, <1>7 DEF HandlerStep

\* What client c does with its own connection concerns no other client.
LEMMA WaitOwn ==
    ASSUME WaitsInv, CustodyInv, NEW c \in Clients, Waits(c)',
           \A b \in Clients \ {c} : /\ conn'[b] = conn[b] /\ connected'[b] = connected[b]
                                    /\ busy'[b] = busy[b],
           \A e \in Dials \cap DOMAIN owner : owner[e] # c =>
              /\ handler'[e] = handler[e] /\ up'[e] = up[e] /\ down'[e] = down[e]
              /\ server_open'[e] = server_open[e] /\ client_open'[e] = client_open[e]
    PROVE  WaitsInv'
<1>1. ASSUME NEW b \in Clients \ {c} PROVE Waits(b)'
  <2>1. ClientInv(b) /\ Waits(b)
    BY DEF CustodyInv, ClientsInv, WaitsInv
  <2>2. connected[b] \/ busy[b] = "connecting" =>
           conn[b] \in Dials \cap DOMAIN owner /\ owner[conn[b]] # c
    BY <2>1 DEF ClientInv
  <2> QED BY <2>1, <2>2, WaitKept DEF ClientInv
<1> QED BY <1>1 DEF WaitsInv

LEMMA ClientKeepsWaits ==
    ASSUME WaitsInv, CustodyInv, SlotsInv, TypesInv, NEW c \in Clients,
           \/ Dial(c) \/ ClientWakes(c) \/ Close(c) \/ Restart(c)
           \/ \E kind \in Kinds : Send(c, kind)
    PROVE  WaitsInv'
<1> DEFINE d == conn[c]
<1>0. /\ DOMAIN handler = Dials /\ DOMAIN up = Dials /\ DOMAIN down = Dials
      /\ DOMAIN server_open = Dials /\ DOMAIN client_open = Dials
      /\ DOMAIN conn = Clients /\ DOMAIN connected = Clients /\ DOMAIN busy = Clients
      /\ ClientInv(c) /\ LinkInv(c) /\ Waits(c) /\ \A e \in Dials : StreamInv(e)
  BY DEF TypesInv, FlagsInv, CustodyInv, ClientsInv, StreamsInv, LinksInv, WaitsInv
<1>1. CASE Dial(c)
  <2> DEFINE n == Len(owner) + 1
  <2>1. /\ n \in Dials /\ owner \in Seq(Clients)
        /\ handler' = [handler EXCEPT ![n] = "accepted"]
        /\ client_open' = [client_open EXCEPT ![n] = TRUE]
        /\ server_open' = [server_open EXCEPT ![n] = TRUE]
        /\ conn' = [conn EXCEPT ![c] = n] /\ busy' = [busy EXCEPT ![c] = "connecting"]
        /\ UNCHANGED <<connected, up, down>>
    BY <1>1 DEF Dial, SlotsInv, Books
  <2>2. n \notin DOMAIN owner
    BY <2>1
  <2> HIDE DEF n
  <2>3. Waits(c)'
    BY <1>0, <2>1 DEF Waits
  <2>4. \A e \in Dials \cap DOMAIN owner :
           /\ handler'[e] = handler[e] /\ up'[e] = up[e] /\ down'[e] = down[e]
           /\ server_open'[e] = server_open[e] /\ client_open'[e] = client_open[e]
    BY <1>0, <2>1, <2>2
  <2> QED BY <1>0, <2>1, <2>3, <2>4, WaitOwn
<1>2. CASE ClientHandshake(c)
  <2>1. /\ busy[c] = "connecting" /\ busy' = [busy EXCEPT ![c] = "no"]
        /\ \E m : up' = IF server_open[d] THEN [up EXCEPT ![d] = Append(@, m)] ELSE up
        /\ down' = [down EXCEPT ![d] = Tail(@)]
        /\ \E b \in BOOLEAN : connected' = [connected EXCEPT ![c] = b]
        /\ UNCHANGED <<handler, conn, client_open, server_open>>
    BY <1>2 DEF ClientHandshake, Arriving, serverVars, Pinned
  <2>2. d \in Dials /\ owner[d] = c
    BY <1>0, <2>1 DEF ClientInv
  <2>3. Waits(c)'
    BY <1>0, <2>1 DEF Waits
  <2>4. \A e \in Dials : owner[e] # c => up'[e] = up[e] /\ down'[e] = down[e]
    BY <1>0, <2>1, <2>2
  <2>5. \A b \in Clients \ {c} : connected'[b] = connected[b] /\ busy'[b] = busy[b]
    BY <1>0, <2>1
  <2> QED BY <2>1, <2>3, <2>4, <2>5, WaitOwn
<1>3. CASE ConnectFails(c) \/ ReceiveFails(c)
  <2>1. /\ busy' = [busy EXCEPT ![c] = "no"]
        /\ busy[c] = "connecting" \/ busy[c] = "waiting"
        /\ UNCHANGED <<handler, up, down, conn, connected, client_open, server_open>>
    BY <1>3 DEF ConnectFails, ReceiveFails, serverVars, netVars
  <2>2. Waits(c)'
    BY <1>0, <2>1 DEF Waits
  <2> QED BY <1>0, <2>1, <2>2, WaitOwn
<1>4. CASE Receive(c)
  <2>1. /\ busy[c] = "waiting" /\ busy' = [busy EXCEPT ![c] = "no"]
        /\ down' = [down EXCEPT ![d] = Tail(@)]
        /\ UNCHANGED <<handler, up, conn, connected, client_open, server_open>>
    BY <1>4 DEF Receive, serverVars
  <2>2. d \in Dials /\ owner[d] = c
    BY <1>0, <2>1 DEF ClientInv
  <2>3. Waits(c)'
    BY <1>0, <2>1 DEF Waits
  <2>4. \A e \in Dials : owner[e] # c => down'[e] = down[e]
    BY <1>0, <2>1, <2>2
  <2> QED BY <1>0, <2>1, <2>3, <2>4, WaitOwn
<1>5. CASE Close(c) \/ Restart(c)
  <2>1. /\ connected' = [connected EXCEPT ![c] = FALSE] /\ conn' = [conn EXCEPT ![c] = 0]
        /\ busy' = [busy EXCEPT ![c] = "no"] /\ UNCHANGED <<handler, server_open>>
        /\ (HangUp(d) /\ d # 0) \/ UNCHANGED <<client_open, down, up>>
    BY <1>0, <1>5 DEF Close, Restart, serverVars, ClientInv
  <2>2. Waits(c)'
    BY <1>0, <2>1 DEF Waits
  <2>3. \A e \in Dials \cap DOMAIN owner : owner[e] # c =>
           up'[e] = up[e] /\ down'[e] = down[e] /\ client_open'[e] = client_open[e]
    BY <1>0, <2>1 DEF HangUp, ClientInv
  <2> QED BY <1>0, <2>1, <2>2, <2>3, WaitOwn
<1>6. CASE \E kind \in Kinds : Send(c, kind)
  <2>1. /\ connected[c] /\ busy' = [busy EXCEPT ![c] = "waiting"] /\ busy[c] = "no"
        /\ \E m : up' = IF server_open[d] THEN [up EXCEPT ![d] = Append(@, m)] ELSE up
        /\ UNCHANGED <<handler, down, conn, connected, client_open, server_open>>
    BY <1>6 DEF Send, Arriving, serverVars
  <2>2. d \in Dials /\ owner[d] = c
    BY <1>0, <2>1 DEF ClientInv
  <2>3. ASSUME server_open[d] PROVE InTransit(d)' # {}
    <3>1. PICK m : up'[d] = Append(up[d], m)
      BY <1>0, <2>1, <2>2, <2>3
    <3>2. \/ handler[d] = "serving"
          \/ handler[d] = "handshaking" /\ Len(up[d]) >= 1
      BY <1>0, <2>1, <2>2, <2>3 DEF StreamInv, LinkInv
    <3>3. IsSequence(up[d]) /\ Carried(handler[d], up[d]) = {}
      BY <1>0, <2>1, <2>2 DEF LinkInv, Idle, InTransit, StreamInv
    <3>4. Carried(handler[d], Append(up[d], m)) = {m.payload}
      BY <3>2, <3>3, OneCarried
    <3>5. InTransit(d)' = {m.payload}
      BY <2>1, <3>1, <3>4 DEF InTransit
    <3> QED BY <3>5
  <2>4. Waits(c)'
    BY <1>0, <2>1, <2>3 DEF Waits, InTransit
  <2>5. \A e \in Dials : owner[e] # c => up'[e] = up[e]
    BY <1>0, <2>1, <2>2
  <2> QED BY <1>0, <2>1, <2>4, <2>5, WaitOwn
<1> QED BY <1>1, <1>2, <1>3, <1>4, <1>5, <1>6 DEF ClientWakes

THEOREM WaitsInvariant == Spec => []WaitsInv
<1>1. Init => WaitsInv
  BY DEF Init, WaitsInv, Waits
<1>2. WaitsInv /\ CustodyInv /\ SlotsInv /\ TypesInv /\ [Next]_vars => WaitsInv'
  <2> SUFFICES ASSUME WaitsInv, CustodyInv, SlotsInv, TypesInv, [Next]_vars PROVE WaitsInv'
    OBVIOUS
  <2>1. CASE Tick \/ Stop \/ UNCHANGED vars
    <3>1. UNCHANGED <<conn, connected, busy, handler, up, down, server_open, client_open>>
      BY <2>1 DEF Tick, Stop, vars, serverVars, netVars, clientVars
    <3> QED BY <3>1 DEF WaitsInv, Waits, InTransit
  <2>2. ASSUME NEW c \in Clients,
               \/ Dial(c) \/ ClientWakes(c) \/ Close(c) \/ Restart(c)
               \/ \E kind \in Kinds : Send(c, kind)
        PROVE  WaitsInv'
    BY <2>2, ClientKeepsWaits
  <2>3. ASSUME NEW d \in DOMAIN owner, HandlerStep(d) PROVE WaitsInv'
    BY <2>3, HandlerKeepsWaits
  <2>4. ASSUME NEW d \in DOMAIN owner, DropAbandoned(d) PROVE WaitsInv'
    <3>1. /\ conn[owner[d]] # d /\ HangUp(d) /\ d \in Dials
          /\ UNCHANGED <<conn, connected, busy, handler, server_open>>
      BY <2>4, AgentsAssumption DEF DropAbandoned, serverVars, clientVars, SlotsInv, Books, Dials
    <3>2. \A e \in Dials \ {d} :
             up'[e] = up[e] /\ down'[e] = down[e] /\ client_open'[e] = client_open[e]
      BY <3>1 DEF HangUp, CustodyInv, StreamsInv, TypesInv, FlagsInv
    <3>3. ASSUME NEW c \in Clients PROVE Waits(c)'
      <4>1. Waits(c) /\ ClientInv(c)
        BY DEF WaitsInv, CustodyInv, ClientsInv
      <4>2. connected[c] \/ busy[c] = "connecting" => conn[c] \in Dials \ {d}
        BY <3>1, <4>1 DEF ClientInv
      <4> QED BY <3>1, <3>2, <4>1, <4>2, WaitKept DEF ClientInv
    <3> QED BY <3>3 DEF WaitsInv
  <2> QED BY <2>1, <2>2, <2>3, <2>4 DEF Next
<1> QED BY <1>1, <1>2, CustodyInvariant, SlotsInvariant, TypesInvariant, PTL DEF Spec

\* client_agent.py:22 and 43-45 wait without a time-out: over any number of
\* clients, connections, aborts, restarts and a stop, what they wait for is
\* there, or the end of the stream is.
THEOREM NoVainWait == Spec => []NobodyWaitsInVain
<1>1. WaitsInv /\ CustodyInv => NobodyWaitsInVain
  <2> SUFFICES ASSUME WaitsInv, CustodyInv, NEW c \in Clients
               PROVE  /\ busy[c] = "connecting" => \/ down[conn[c]] # << >>
                                                   \/ ~ server_open[conn[c]]
                                                   \/ handler[conn[c]] = "accepted"
                      /\ busy[c] = "waiting" => \/ down[conn[c]] # << >>
                                                \/ ~ server_open[conn[c]]
                                                \/ up[conn[c]] # << >> /\ Counted(conn[c])
    BY DEF NobodyWaitsInVain
  <2>1. Waits(c) /\ ClientInv(c)
    BY DEF WaitsInv, CustodyInv, ClientsInv
  <2>2. ASSUME busy[c] = "waiting", InTransit(conn[c]) # {}
        PROVE  up[conn[c]] # << >> /\ Counted(conn[c])
    <3>1. conn[c] \in Dials
      BY <2>1, <2>2 DEF ClientInv
    <3>2. up[conn[c]] # << >>
      BY <2>2, NothingCarried DEF InTransit
    <3> QED BY <3>1, <3>2 DEF CustodyInv, StreamsInv, StreamInv, Counted
  <2> QED BY <2>1, <2>2 DEF Waits
<1> QED BY <1>1, WaitsInvariant, CustodyInvariant, PTL

-----------------------------------------------------------------------------
(* One session.  The numbers on both sides determine the keys: after k     *)
(* frames of a harness its key has been ratcheted k \div RekeyInterval     *)
(* times.  A client's key is at the number of its last request, the        *)
(* server's at the number of its last response, and a stream holds one     *)
(* frame at most between the two.  That an engine refused a frame for its  *)
(* age or a flood changes none of this: each side counts and seals all the *)
(* same, and the engine has then heard one frame less.                     *)

SID == <<Server, 0>>

\* The session key of two identities when k frames have been counted.
KeyAt(a, b, k) == [secret |-> {a, b}, ratchet |-> k \div RekeyInterval]

\* The k-th frame that "by" seals for "to".
Sealed(f, by, to, k) ==
    /\ f.seq_num = k /\ f.timestamp \in Time /\ f.auth_tag = <<by, k>>
    /\ f.msg_type = TYPE_DATA /\ f.sealed = KeyAt(by, to, k) /\ f.signer = by
    /\ f.wire = "whole" /\ f.covered

Request(f, by, k) == Sealed(f, by, SID, k) /\ f.payload.num = k

Reply(f, to, k) == Sealed(f, SID, to, k) /\ f.payload.kind \in {"ack", "nack"}

\* An engine that has heard no more than the first k frames of "by".
Heard(e, by, k) ==
    /\ DOMAIN e = EngineFields /\ ~ e.session_closed
    /\ e.last_seq_num \in 0 .. k
    /\ e.seen_seq_nums \subseteq 1 .. k
    /\ e.seen_signatures \subseteq {<<by, j>> : j \in 1 .. k}

Unused(h) == h.seq_counter = 0 /\ h.anti_interference = NewEngine

\* The server: not yet used, or in step with the one peer it has.
ServerSide ==
    /\ handler[1] \in {"none", "accepted", "handshaking"} => Unused(server)
    /\ handler[1] = "handshaking" =>
          \A i \in DOMAIN up[1] : i = 2 => Request(up[1][2], up[1][1].keys, 1)
    /\ handler[1] = "serving" =>
          /\ server.session_key = KeyAt(SID, server.peer_signing_pubkey, server.seq_counter)
          /\ Heard(server.anti_interference, server.peer_signing_pubkey, server.seq_counter)
          /\ \A i \in DOMAIN up[1] :
                Request(up[1][i], server.peer_signing_pubkey, server.seq_counter + 1)

\* A client that is about to shake hands, and one that has.
Dialling(c) ==
    busy[c] = "connecting" =>
        /\ Unused(harness[c])
        /\ down[1] # << >> => down[1][1].keys = SID

Joined(h) ==
    /\ h.session_key = KeyAt(h.id, SID, h.seq_counter)
    /\ h.peer_signing_pubkey = SID

InStepWith(h) ==
    /\ handler[1] = "handshaking" =>
          up[1][1].keys = h.id /\ h.seq_counter = Len(up[1]) - 1
    /\ handler[1] = "serving" =>
          server.peer_signing_pubkey = h.id /\ h.seq_counter = server.seq_counter + Len(up[1])
    /\ down[1] # << >> =>
          /\ Reply(down[1][1], h.id, h.seq_counter)
          /\ Heard(h.anti_interference, SID, h.seq_counter - 1)
    /\ handler[1] \in {"handshaking", "serving"} /\ down[1] = << >> =>
          Heard(h.anti_interference, SID, server.seq_counter)

InSession(c) == connected[c] => Joined(harness[c]) /\ InStepWith(harness[c])

Undialled == owner = << >> => \A c \in Clients : Unused(harness[c])

\* What the server decided and what the clients could read.
Decided ==
    /\ \A v \in verdicts : v.payload.kind = "clean" =>
          IF v.payload.num % RekeyInterval = 0 THEN v.verdict \in {"hmac", "interference"}
                                               ELSE v.verdict \in {"accepted", "interference"}
    /\ \A r \in replies : r.verdict \in {"accepted", "interference"}

SessionInv ==
    /\ ServerSide /\ Undialled /\ Decided
    /\ \A c \in Clients : Dialling(c) /\ InSession(c)

\* There is only one connection.
OneSession == MaxDials = 1

LEMMA RatchetMoves ==
    ASSUME NEW k \in Nat
    PROVE  /\ k \div RekeyInterval \in Nat
           /\ (k + 1) \div RekeyInterval =
                 IF (k + 1) % RekeyInterval = 0 THEN k \div RekeyInterval + 1
                                                ELSE k \div RekeyInterval
<1> DEFINE R == RekeyInterval
           q == k \div R
           r == k % R
           p == (k + 1) \div R
           s == (k + 1) % R
           x == p - q
<1>1. R \in Nat /\ R >= 1
  BY RekeyAssumption
<1>2. /\ k = R * q + r /\ r \in 0 .. R - 1 /\ q \in Nat
      /\ k + 1 = R * p + s /\ s \in 0 .. R - 1 /\ p \in Nat
  BY <1>1
<1> HIDE DEF q, r, p, s, R
<1>3. x \in Int /\ R * x = r + 1 - s
  <2>1. R * x = R * p - R * q
    BY <1>1, <1>2
  <2> QED BY <1>1, <1>2, <2>1
<1> HIDE DEF x
<1>4. x \in {0, 1}
  <2>1. ASSUME x <= -1 PROVE FALSE
    <3>1. R * x <= -R
      BY <1>1, <1>3, <2>1
    <3> QED BY <1>1, <1>2, <1>3, <3>1
  <2>2. ASSUME x >= 2 PROVE FALSE
    <3>1. R * x >= 2 * R
      BY <1>1, <1>3, <2>2
    <3> QED BY <1>1, <1>2, <1>3, <3>1
  <2> QED BY <1>3, <2>1, <2>2
<1>5. x = IF s = 0 THEN 1 ELSE 0
  <2>1. CASE x = 0
    <3>1. R * x = 0
      BY <1>1, <2>1
    <3> QED BY <1>1, <1>2, <1>3, <2>1, <3>1
  <2>2. CASE x = 1
    <3>1. R * x = R
      BY <1>1, <2>2
    <3> QED BY <1>1, <1>2, <1>3, <2>2, <3>1
  <2> QED BY <1>4, <2>1, <2>2
<1>6. p = q + x
  BY <1>2 DEF x
<1> QED BY <1>2, <1>5, <1>6 DEF q, p, s, R

\* The keys of one pair of identities are told apart by the ratchet alone.
LEMMA KeysDiffer ==
    ASSUME NEW a, NEW b, NEW k \in Nat
    PROVE  /\ KeyAt(a, b, k) = KeyAt(b, a, k)
           /\ KeyAt(a, b, k) = KeyAt(b, a, k + 1) <=> (k + 1) % RekeyInterval # 0
           /\ KeyAt(a, b, 0) = [secret |-> {a, b}, ratchet |-> 0]
<1>1. {a, b} = {b, a}
  OBVIOUS
<1>2. 0 \div RekeyInterval = 0
  BY RekeyAssumption
<1>3. KeyAt(a, b, k) = KeyAt(b, a, k + 1) <=> k \div RekeyInterval = (k + 1) \div RekeyInterval
  BY <1>1 DEF KeyAt
<1>4. k \div RekeyInterval # k \div RekeyInterval + 1
  BY RatchetMoves
<1> QED BY <1>1, <1>2, <1>3, <1>4, RatchetMoves DEF KeyAt

-----------------------------------------------------------------------------
(* The engine.                                                             *)

LEMMA HeardMore ==
    ASSUME NEW e, NEW by, NEW k \in Nat, NEW m \in Nat, k <= m, Heard(e, by, k)
    PROVE  Heard(e, by, m)
<1>1. 0 .. k \subseteq 0 .. m /\ 1 .. k \subseteq 1 .. m
  OBVIOUS
<1>2. {<<by, j>> : j \in 1 .. k} \subseteq {<<by, j>> : j \in 1 .. m}
  BY <1>1
<1> QED BY <1>1, <1>2 DEF Heard

LEMMA HeardNothing ==
    ASSUME NEW by
    PROVE  Heard(NewEngine, by, 0)
<1>1. /\ DOMAIN NewEngine = EngineFields /\ NewEngine.session_closed = FALSE
      /\ NewEngine.last_seq_num = 0 /\ NewEngine.seen_seq_nums = {}
      /\ NewEngine.seen_signatures = {}
  BY DEF NewEngine, EngineFields
<1>2. 0 \in 0 .. 0
  OBVIOUS
<1> QED BY <1>1, <1>2 DEF Heard

\* Only its age or a flood can keep the next frame from passing.
LEMMA HeardPasses ==
    ASSUME NEW e, NEW by, NEW to, NEW k \in Nat, Heard(e, by, k),
           NEW f, Sealed(f, by, to, k + 1), NEW t, ~ Drifted(f, t), ~ Flooded(e, t)
    PROVE  Passed(e, f, t)
<1>1. f.seq_num = k + 1 /\ f.auth_tag = <<by, k + 1>>
  BY DEF Sealed
<1>2. /\ ~ e.session_closed
      /\ e.last_seq_num \in 0 .. k /\ e.seen_seq_nums \subseteq 1 .. k
      /\ e.seen_signatures \subseteq {<<by, j>> : j \in 1 .. k}
  BY DEF Heard
<1>3. ~ Replayed(e, f) /\ ~ OutOfWindow(e, f)
  BY <1>1, <1>2, WindowAssumption DEF Replayed, OutOfWindow
<1>4. ~ DuplicateTag(e, f)
  <2>1. <<by, k + 1>> \notin {<<by, j>> : j \in 1 .. k}
    OBVIOUS
  <2> QED BY <1>1, <1>2, <2>1 DEF DuplicateTag
<1> QED BY <1>2, <1>3, <1>4 DEF Passed

\* Passed or not, the next frame is then among those that may be remembered.
LEMMA HeardNext ==
    ASSUME NEW e, NEW by, NEW to, NEW k \in Nat, Heard(e, by, k),
           NEW f, Sealed(f, by, to, k + 1), NEW t
    PROVE  Heard(VerifyPacket(e, f, t), by, k + 1)
<1> DEFINE o == Observe(e, f, t)
           v == Commit(o, f)
<1>1. f.seq_num = k + 1 /\ f.auth_tag = <<by, k + 1>> /\ f.msg_type # TYPE_CLOSE
  BY DEF Sealed, TYPE_DATA, TYPE_CLOSE
<1>2. /\ DOMAIN e = EngineFields /\ ~ e.session_closed
      /\ e.last_seq_num \in 0 .. k /\ e.seen_seq_nums \subseteq 1 .. k
      /\ e.seen_signatures \subseteq {<<by, j>> : j \in 1 .. k}
  BY DEF Heard
<1>3. /\ DOMAIN o = EngineFields /\ ~ o.session_closed
      /\ o.last_seq_num = e.last_seq_num /\ o.seen_seq_nums = e.seen_seq_nums
      /\ o.seen_signatures = e.seen_signatures
  BY <1>1, <1>2 DEF Observe, EngineFields
<1>4. VerifyPacket(e, f, t) \in {o, v}
  BY DEF VerifyPacket
<1> HIDE DEF o
<1>5. /\ DOMAIN v = EngineFields /\ v.session_closed = o.session_closed
      /\ v.last_seq_num = Highest(o.last_seq_num, f.seq_num)
      /\ v.seen_seq_nums = TrimSeen(o.seen_seq_nums \cup {f.seq_num}, v.last_seq_num)
      /\ v.seen_signatures = TrimSignatures(o.seen_signatures \cup ({f.auth_tag} \ {ZeroTag}))
  BY <1>3 DEF Commit, EngineFields
<1> HIDE DEF v
<1>6. v.last_seq_num \in 0 .. k + 1
  BY <1>1, <1>2, <1>3, <1>5 DEF Highest
<1>7. 1 .. k \subseteq 1 .. k + 1 /\ k + 1 \in 1 .. k + 1 /\ 0 .. k \subseteq 0 .. k + 1
  OBVIOUS
<1>8. v.seen_seq_nums \subseteq 1 .. k + 1
  <2>1. v.seen_seq_nums \subseteq e.seen_seq_nums \cup {k + 1}
    BY <1>1, <1>3, <1>5 DEF TrimSeen
  <2> QED BY <1>2, <1>7, <2>1
<1>9. v.seen_signatures \subseteq {<<by, j>> : j \in 1 .. k + 1}
  <2>1. v.seen_signatures \subseteq e.seen_signatures \cup {<<by, k + 1>>}
    BY <1>1, <1>3, <1>5 DEF TrimSignatures
  <2>2. {<<by, j>> : j \in 1 .. k} \subseteq {<<by, j>> : j \in 1 .. k + 1}
    BY <1>7
  <2> QED BY <1>2, <1>7, <2>1, <2>2
<1>10. Heard(v, by, k + 1)
  BY <1>3, <1>5, <1>6, <1>8, <1>9 DEF Heard
<1>11. Heard(o, by, k + 1)
  <2>1. Heard(o, by, k)
    BY <1>2, <1>3 DEF Heard
  <2> QED BY <2>1, HeardMore
<1> QED BY <1>4, <1>10, <1>11

-----------------------------------------------------------------------------
(* The harness.                                                            *)

\* Counting a frame moves the key to that frame's.
LEMMA WrapMovesKey ==
    ASSUME NEW h, DOMAIN h = HarnessFields, NEW a, NEW b, h.seq_counter \in Nat,
           h.session_key = KeyAt(a, b, h.seq_counter)
    PROVE  LET v == WrapPayload(h)
           IN  /\ DOMAIN v = HarnessFields /\ v.seq_counter = h.seq_counter + 1
               /\ v.session_key = KeyAt(a, b, h.seq_counter + 1)
               /\ v.id = h.id /\ v.peer_signing_pubkey = h.peer_signing_pubkey
               /\ v.anti_interference = h.anti_interference
<1> DEFINE v == WrapPayload(h)
           k == h.seq_counter
<1>1. /\ DOMAIN v = HarnessFields /\ v.seq_counter = k + 1
      /\ v.id = h.id /\ v.peer_signing_pubkey = h.peer_signing_pubkey
      /\ v.anti_interference = h.anti_interference
  BY WrapEffect DEF HarnessFields
<1>2. v.session_key = IF (k + 1) % RekeyInterval = 0 THEN Rekeyed(h.session_key)
                                                     ELSE h.session_key
  BY DEF WrapPayload, HarnessFields
<1>3. k \in Nat /\ h.session_key = KeyAt(a, b, k)
  OBVIOUS
<1> HIDE DEF v, k
<1>4. Rekeyed(KeyAt(a, b, k)) = [secret |-> {a, b}, ratchet |-> k \div RekeyInterval + 1]
  BY DEF Rekeyed, KeyAt
<1>5. v.session_key = KeyAt(a, b, k + 1)
  BY <1>2, <1>3, <1>4, RatchetMoves DEF KeyAt
<1> QED BY <1>1, <1>5 DEF v, k

\* A handshake binds the harness to the keys it read and starts the ratchet.
LEMMA HandshakeJoins ==
    ASSUME NEW h, DOMAIN h = HarnessFields, NEW bytes, NEW expected
    PROVE  LET v == CompleteHandshake(h, bytes, expected)
           IN  /\ v.peer_signing_pubkey = bytes.keys
               /\ v.session_key = KeyAt(h.id, bytes.keys, 0)
               /\ v.id = h.id /\ v.seq_counter = h.seq_counter
               /\ v.anti_interference = h.anti_interference
<1> DEFINE d == DeriveSessionKey(h, bytes)
           v == CompleteHandshake(h, bytes, expected)
<1>1. /\ DOMAIN d = HarnessFields /\ d.peer_signing_pubkey = bytes.keys
  BY DEF DeriveSessionKey, HarnessFields
<1>2. v \in {d, [d EXCEPT !.peer_connected = TRUE]}
  BY DEF CompleteHandshake
<1>3. v.peer_signing_pubkey = bytes.keys
  <2> HIDE DEF d, v
  <2> QED BY <1>1, <1>2 DEF HarnessFields
<1>4. /\ v.session_key = [secret |-> {h.id, bytes.keys}, ratchet |-> 0]
      /\ v.id = h.id /\ v.seq_counter = h.seq_counter
      /\ v.anti_interference = h.anti_interference
  BY HandshakeEffect DEF HarnessFields
<1>5. KeyAt(h.id, bytes.keys, 0) = [secret |-> {h.id, bytes.keys}, ratchet |-> 0]
  BY KeysDiffer
<1> HIDE DEF v
<1> QED BY <1>3, <1>4, <1>5 DEF v

\* A whole frame from the right peer that the engine passes is judged by its
\* key and then by its content.
LEMMA NextVerdict ==
    ASSUME NEW h, DOMAIN h = HarnessFields, NEW by, NEW to,
           NEW k \in Nat, Heard(h.anti_interference, by, k),
           NEW f, Sealed(f, by, to, k + 1), NEW t, h.peer_signing_pubkey = by
    PROVE  /\ Verdict(h, f, t) =
                 IF ~ Passed(h.anti_interference, f, t) THEN "interference"
                 ELSE IF KeyAt(by, to, k + 1) # h.session_key THEN "hmac"
                 ELSE IF f.payload.kind \in DOMAIN Inspection THEN f.payload.kind
                 ELSE "accepted"
           /\ Heard(ProcessFrame(h, f, t).anti_interference, by, k + 1)
<1>1. Heard(VerifyPacket(h.anti_interference, f, t), by, k + 1)
  BY HeardNext
<1>2. Heard(h.anti_interference, by, k + 1)
  BY HeardMore
<1>3. Heard(ProcessFrame(h, f, t).anti_interference, by, k + 1)
  <2>1. ProcessFrame(h, f, t).anti_interference
           \in {h.anti_interference, VerifyPacket(h.anti_interference, f, t)}
    BY ProcessEffect
  <2> QED BY <1>1, <1>2, <2>1
<1>4. /\ f.wire = "whole" /\ f.covered /\ f.sealed = KeyAt(by, to, k + 1) /\ f.signer = by
  BY DEF Sealed
<1>5. Verdict(h, f, t) =
         IF ~ Passed(h.anti_interference, f, t) THEN "interference"
         ELSE IF f.sealed # h.session_key THEN "hmac"
         ELSE IF f.payload.kind \in DOMAIN Inspection THEN f.payload.kind
         ELSE "accepted"
  BY <1>4 DEF Verdict, Parsable, WellShaped, HmacValid, Decrypts, SignatureValid
<1> QED BY <1>3, <1>4, <1>5

-----------------------------------------------------------------------------
(* The steps of a session.                                                 *)

Known == SessionInv /\ SlotsInv /\ HarnessesInv /\ CustodyInv /\ TypesInv

\* There is one connection, so one client that has it.
LEMMA OneDial ==
    ASSUME OneSession, Known
    PROVE  /\ Dials = {1} /\ DOMAIN owner \subseteq {1}
           /\ \A c \in Clients :
                 /\ conn[c] # 0 => conn[c] = 1 /\ owner[1] = c /\ 1 \in DOMAIN owner
                 /\ connected[c] \/ busy[c] = "connecting" => conn[c] # 0
                 /\ LinkInv(c) /\ InAgreement(harness[c]) /\ DOMAIN harness[c] = HarnessFields
                 /\ harness[c].seq_counter \in Nat
           /\ DOMAIN up = {1} /\ DOMAIN down = {1} /\ DOMAIN handler = {1} /\ StreamInv(1)
           /\ DOMAIN harness = Clients /\ DOMAIN server = HarnessFields /\ InAgreement(server)
           /\ server.seq_counter \in Nat /\ server.id = SID /\ now \in Time
           /\ conn \in [Clients -> {0, 1}] /\ connected \in [Clients -> BOOLEAN]
           /\ busy \in [Clients -> {"no", "connecting", "waiting"}]
<1>1. Dials = {1}
  BY DEF OneSession, Dials
<1>2. DOMAIN owner \subseteq {1}
  BY <1>1, AgentsAssumption DEF Known, SlotsInv, Books, Dials, OneSession
<1>3. ASSUME NEW c \in Clients
      PROVE  /\ conn[c] # 0 => conn[c] = 1 /\ owner[1] = c /\ 1 \in DOMAIN owner
             /\ connected[c] \/ busy[c] = "connecting" => conn[c] # 0
             /\ LinkInv(c) /\ InAgreement(harness[c]) /\ DOMAIN harness[c] = HarnessFields
             /\ harness[c].seq_counter \in Nat
  <2>1. ClientInv(c) /\ LinkInv(c) /\ InAgreement(harness[c])
    BY DEF Known, CustodyInv, ClientsInv, LinksInv, HarnessesInv
  <2> QED BY <1>1, <2>1 DEF ClientInv, InAgreement
<1>4. /\ DOMAIN up = {1} /\ DOMAIN down = {1} /\ DOMAIN handler = {1} /\ StreamInv(1)
  BY <1>1 DEF Known, CustodyInv, StreamsInv
<1>5. /\ DOMAIN harness = Clients /\ DOMAIN server = HarnessFields /\ InAgreement(server)
  BY DEF Known, HarnessesInv, InAgreement
<1>6. server.seq_counter \in Nat /\ server.id = SID
  BY DEF Known, TypesInv, KeyedInv, KeyOK, SID
<1>7. /\ now \in Time /\ conn \in [Clients -> {0, 1}] /\ connected \in [Clients -> BOOLEAN]
      /\ busy \in [Clients -> {"no", "connecting", "waiting"}]
  <2>1. Dials \cup {0} = {0, 1}
    BY <1>1
  <2> QED BY <2>1 DEF Known, TypesInv, FlagsInv
<1> QED BY <1>1, <1>2, <1>3, <1>4, <1>5, <1>6, <1>7

\* Nothing the session depends on has changed, but perhaps what a client
\* waits for.
LEMMA SessionStays ==
    ASSUME SessionInv, UNCHANGED <<server, handler, owner, up, down, harness, connected, verdicts,
                                   replies>>,
           \A c \in Clients : busy'[c] = "connecting" => busy[c] = "connecting"
    PROVE  SessionInv'
<1>1. ServerSide' /\ Undialled' /\ Decided'
  BY DEF SessionInv, ServerSide, Undialled, Decided
<1>2. ASSUME NEW c \in Clients PROVE Dialling(c)' /\ InSession(c)'
  BY DEF SessionInv, Dialling, InSession, InStepWith
<1> QED BY <1>1, <1>2 DEF SessionInv

\* The server's end of the connection closes; its harness no longer counts.
LEMMA SessionShut ==
    ASSUME OneSession, Known, handler'[1] \in {"closing", "done"}, ShutDown(1),
           UNCHANGED <<owner, down, harness, connected, busy, verdicts, replies>>
    PROVE  SessionInv'
<1>1. ServerSide' /\ Undialled' /\ Decided'
  BY DEF Known, SessionInv, ServerSide, Undialled, Decided
<1>2. ASSUME NEW c \in Clients PROVE Dialling(c)' /\ InSession(c)'
  BY DEF Known, SessionInv, Dialling, InSession, InStepWith
<1> QED BY <1>1, <1>2 DEF SessionInv

\* The client's end closes, or is already closed, and no client is left that
\* is connected or about to be.
LEMMA SessionLeft ==
    ASSUME OneSession, Known, UNCHANGED <<server, handler, owner, verdicts, replies>>,
           up'[1] \in {up[1], << >>},
           \A c \in Clients : /\ ~ connected'[c] /\ busy'[c] # "connecting"
                              /\ Unused(harness[c]) => Unused(harness'[c])
    PROVE  SessionInv'
<1>1. ServerSide'
  <2>1. DOMAIN << >> = {}
    BY NoStream
  <2>2. CASE up'[1] = up[1]
    BY <2>2 DEF Known, SessionInv, ServerSide
  <2>3. CASE up'[1] = << >>
    BY <2>1, <2>3 DEF Known, SessionInv, ServerSide
  <2> QED BY <2>2, <2>3
<1>2. Undialled' /\ Decided'
  BY DEF Known, SessionInv, Undialled, Decided, Unused
<1>3. ASSUME NEW c \in Clients PROVE Dialling(c)' /\ InSession(c)'
  BY DEF Dialling, InSession
<1> QED BY <1>1, <1>2, <1>3 DEF SessionInv

LEMMA SessionClosed ==
    ASSUME OneSession, Known, NEW c \in Clients, Close(c) \/ Restart(c)
    PROVE  SessionInv'
<1>0. /\ Dials = {1} /\ DOMAIN up = {1}
      /\ \A b \in Clients :
            /\ conn[b] # 0 => conn[b] = 1 /\ owner[1] = b
            /\ connected[b] \/ busy[b] = "connecting" => conn[b] # 0
      /\ DOMAIN connected = Clients /\ DOMAIN busy = Clients /\ DOMAIN harness = Clients
  BY OneDial
<1>1. /\ UNCHANGED <<server, handler, owner, verdicts, replies>>
      /\ connected' = [connected EXCEPT ![c] = FALSE] /\ busy' = [busy EXCEPT ![c] = "no"]
      /\ \/ harness' = harness
         \/ \E id : harness' = [harness EXCEPT ![c] = NewHarness(id)]
  BY <1>0 DEF Close, Restart, serverVars
<1>2. \A id : Unused(NewHarness(id))
  BY NewEffect DEF Unused
<1>3. \A b \in Clients : Unused(harness[b]) => Unused(harness'[b])
  BY <1>0, <1>1, <1>2
<1>4. CASE conn[c] # 0
  <2>1. up'[1] \in {up[1], << >>}
    BY <1>0, <1>4 DEF Close, Restart, HangUp
  <2>2. \A b \in Clients : ~ connected'[b] /\ busy'[b] # "connecting"
    BY <1>0, <1>1, <1>4
  <2> QED BY <1>1, <1>3, <2>1, <2>2, SessionLeft
<1>5. CASE conn[c] = 0
  <2>1. ~ connected[c] /\ busy[c] # "connecting"
    BY <1>0, <1>5
  <2>2. up' = up /\ down' = down
    BY <1>5, <2>1 DEF Close, Restart
  <2>3. ServerSide' /\ Undialled' /\ Decided'
    BY <1>1, <1>3, <2>2 DEF Known, SessionInv, ServerSide, Undialled, Decided
  <2>4. ASSUME NEW b \in Clients PROVE Dialling(b)' /\ InSession(b)'
    <3>1. CASE b = c
      BY <1>0, <1>1, <3>1 DEF Dialling, InSession
    <3>2. CASE b # c
      <4>1. /\ harness'[b] = harness[b] /\ connected'[b] = connected[b] /\ busy'[b] = busy[b]
        BY <1>0, <1>1, <3>2
      <4> QED BY <1>1, <2>2, <4>1 DEF Known, SessionInv, Dialling, InSession, InStepWith
    <3> QED BY <3>1, <3>2
  <2> QED BY <2>3, <2>4 DEF SessionInv
<1> QED BY <1>4, <1>5

LEMMA SessionDropped ==
    ASSUME OneSession, Known, NEW d \in DOMAIN owner, DropAbandoned(d)
    PROVE  SessionInv'
<1>0. /\ d = 1 /\ DOMAIN up = {1}
      /\ \A b \in Clients :
            /\ conn[b] # 0 => conn[b] = 1 /\ owner[1] = b
            /\ connected[b] \/ busy[b] = "connecting" => conn[b] # 0
  BY OneDial
<1>1. /\ UNCHANGED <<server, handler, owner, verdicts, replies, harness, connected, busy>>
      /\ conn[owner[1]] # 1 /\ HangUp(1)
  BY <1>0 DEF DropAbandoned, serverVars, clientVars
<1>2. \A b \in Clients : ~ connected'[b] /\ busy'[b] # "connecting"
  BY <1>0, <1>1
<1>3. up'[1] \in {up[1], << >>}
  BY <1>0, <1>1 DEF HangUp
<1> QED BY <1>1, <1>2, <1>3, SessionLeft

LEMMA SessionDialled ==
    ASSUME OneSession, Known, NEW c \in Clients, Dial(c)
    PROVE  SessionInv'
<1>0. /\ Dials = {1} /\ DOMAIN handler = {1} /\ StreamInv(1)
      /\ \A b \in Clients :
            /\ conn[b] # 0 => 1 \in DOMAIN owner
            /\ connected[b] \/ busy[b] = "connecting" => conn[b] # 0
      /\ DOMAIN busy = Clients
  BY OneDial
<1>1. /\ Len(owner) + 1 \in Dials /\ owner \in Seq(Clients)
      /\ owner' = Append(owner, c) /\ handler' = [handler EXCEPT ![Len(owner) + 1] = "accepted"]
      /\ UNCHANGED <<server, up, down, harness, connected, verdicts, replies>>
      /\ busy' = [busy EXCEPT ![c] = "connecting"]
  BY DEF Dial, Known, SlotsInv, Books
<1>2. Len(owner) + 1 = 1 /\ DOMAIN owner = {} /\ owner = << >> /\ owner' # << >>
  BY <1>0, <1>1
<1>3. handler[1] = "none" /\ down[1] = << >> /\ handler'[1] = "accepted"
  BY <1>0, <1>1, <1>2 DEF StreamInv
<1>4. ServerSide' /\ Undialled' /\ Decided'
  BY <1>1, <1>2, <1>3 DEF Known, SessionInv, ServerSide, Undialled, Decided
<1>5. ASSUME NEW b \in Clients PROVE Dialling(b)' /\ InSession(b)'
  BY <1>0, <1>1, <1>2, <1>3 DEF Known, SessionInv, Undialled, Dialling, InSession, Unused
<1> QED BY <1>4, <1>5 DEF SessionInv

\* The client reads the server's keys and answers with its own.
LEMMA SessionJoined ==
    ASSUME OneSession, Known, NEW c \in Clients, ClientHandshake(c)
    PROVE  SessionInv'
<1> DEFINE h == CompleteHandshake(harness[c], Head(down[1]), Expected[c])
           keys == HandshakeBytes(h)
<1>0. /\ DOMAIN up = {1} /\ DOMAIN down = {1} /\ StreamInv(1)
      /\ \A b \in Clients :
            /\ conn[b] # 0 => conn[b] = 1 /\ owner[1] = b
            /\ connected[b] \/ busy[b] = "connecting" => conn[b] # 0
      /\ DOMAIN connected = Clients /\ DOMAIN busy = Clients /\ DOMAIN harness = Clients
      /\ LinkInv(c) /\ DOMAIN harness[c] = HarnessFields
  BY OneDial
<1>1. /\ busy[c] = "connecting" /\ conn[c] = 1 /\ down[1] # << >>
      /\ harness' = [harness EXCEPT ![c] = h]
      /\ up' = IF server_open[1] THEN [up EXCEPT ![1] = Append(@, keys)] ELSE up
      /\ down' = [down EXCEPT ![1] = Tail(@)] /\ busy' = [busy EXCEPT ![c] = "no"]
      /\ \A b \in Clients \ {c} : connected'[b] = connected[b]
      /\ UNCHANGED <<server, handler, owner, verdicts, replies>>
  BY <1>0 DEF ClientHandshake, Arriving, serverVars
<1>2. /\ handler[1] # "serving" /\ up[1] = << >> /\ down'[1] = << >>
      /\ handler[1] # "accepted"
  <2>1. Connecting(c)
    BY <1>0, <1>1 DEF LinkInv
  <2>2. IsSequence(down[1]) /\ Len(down[1]) <= 1
    BY <1>0, <1>1, <2>1 DEF Connecting, StreamInv
  <2>3. Tail(down[1]) = << >>
    BY <1>1, <2>2, HeadTaken, Stream
  <2> QED BY <1>0, <1>1, <2>1, <2>3 DEF Connecting
<1>3. /\ Unused(harness[c]) /\ Head(down[1]).keys = SID
  <2>1. Dialling(c) /\ IsSequence(down[1])
    BY <1>0 DEF Known, SessionInv, StreamInv
  <2>2. Head(down[1]) = down[1][1]
    BY <1>1, <2>1, HeadTaken
  <2> QED BY <1>1, <2>1, <2>2 DEF Dialling
<1>4. /\ h.peer_signing_pubkey = SID /\ h.id = harness[c].id
      /\ h.session_key = KeyAt(h.id, SID, 0) /\ Unused(h)
  BY <1>0, <1>3, HandshakeJoins DEF Unused
<1>5. keys.keys = h.id
  BY DEF HandshakeBytes
<1> HIDE DEF h, keys
<1>6. handler[1] = "handshaking" =>
         /\ IsSequence(up'[1]) /\ Len(up'[1]) = 1 /\ up'[1][1] = keys /\ DOMAIN up'[1] = {1}
  <2>1. SUFFICES ASSUME handler[1] = "handshaking"
                 PROVE  /\ IsSequence(up'[1]) /\ Len(up'[1]) = 1 /\ up'[1][1] = keys
                        /\ DOMAIN up'[1] = {1}
    OBVIOUS
  <2>2. up'[1] = Append(<< >>, keys)
    BY <1>0, <1>1, <1>2, <2>1 DEF StreamInv
  <2>3. /\ IsSequence(Append(<< >>, keys)) /\ Len(Append(<< >>, keys)) = 0 + 1
        /\ DOMAIN Append(<< >>, keys) = 1 .. 0 + 1 /\ Append(<< >>, keys)[0 + 1] = keys
    BY NoStream, Appended
  <2> QED BY <2>2, <2>3
<1>7. ServerSide'
  BY <1>1, <1>2, <1>6 DEF Known, SessionInv, ServerSide
<1>8. Undialled' /\ Decided'
  <2>1. \A b \in Clients : Unused(harness[b]) => Unused(harness'[b])
    BY <1>0, <1>1, <1>4
  <2> QED BY <1>1, <2>1 DEF Known, SessionInv, Undialled, Decided
<1>9. ASSUME NEW b \in Clients PROVE Dialling(b)' /\ InSession(b)'
  <2>1. CASE b # c
    BY <1>0, <1>1, <2>1 DEF Dialling, InSession
  <2>2. CASE b = c
    <3>1. harness'[c] = h /\ busy'[c] = "no"
      BY <1>0, <1>1
    <3>2. Joined(h)
      BY <1>4 DEF Joined, Unused
    <3>3. handler[1] = "handshaking" => server.seq_counter = 0
      BY DEF Known, SessionInv, ServerSide, Unused
    <3>4. Heard(h.anti_interference, SID, 0) /\ h.seq_counter = 0
      BY <1>4, HeardNothing DEF Unused
    <3>5. InStepWith(harness[c])'
      BY <1>1, <1>2, <1>5, <1>6, <3>1, <3>3, <3>4 DEF InStepWith
    <3>6. Joined(harness'[c])
      BY <3>1, <3>2
    <3> QED BY <2>2, <3>1, <3>5, <3>6 DEF Dialling, InSession, Joined
  <2> QED BY <2>1, <2>2
<1> QED BY <1>7, <1>8, <1>9 DEF SessionInv

\* The client sends its next request.
LEMMA SessionSent ==
    ASSUME OneSession, Known, NEW c \in Clients, NEW kind \in Kinds, Send(c, kind)
    PROVE  SessionInv'
<1> DEFINE g == harness[c]
           h == WrapPayload(g)
           payload == [kind |-> kind, from |-> h.id, num |-> h.seq_counter]
           f == FrameOf(h, payload, TYPE_DATA, now)
           k == g.seq_counter
<1>0. /\ DOMAIN up = {1} /\ StreamInv(1) /\ now \in Time /\ SID = <<Server, 0>>
      /\ \A b \in Clients :
            /\ conn[b] # 0 => conn[b] = 1 /\ owner[1] = b
            /\ connected[b] \/ busy[b] = "connecting" => conn[b] # 0
      /\ DOMAIN connected = Clients /\ DOMAIN busy = Clients /\ DOMAIN harness = Clients
      /\ LinkInv(c) /\ DOMAIN g = HarnessFields /\ k \in Nat /\ 1 \in DOMAIN owner
      /\ server.seq_counter \in Nat
  <2>1. connected[c]
    BY DEF Send
  <2> QED BY <2>1, OneDial DEF SID
<1>1. /\ connected[c] /\ busy[c] = "no" /\ conn[c] = 1
      /\ harness' = [harness EXCEPT ![c] = h]
      /\ up' = IF server_open[1] THEN [up EXCEPT ![1] = Append(@, f)] ELSE up
      /\ busy' = [busy EXCEPT ![c] = "waiting"]
      /\ UNCHANGED <<server, handler, owner, down, connected, verdicts, replies>>
  BY <1>0 DEF Send, Arriving, serverVars
<1>2. Joined(g) /\ InStepWith(g) /\ Idle(c)
  BY <1>0, <1>1 DEF Known, SessionInv, InSession, LinkInv
<1>3. /\ h.seq_counter = k + 1 /\ h.session_key = KeyAt(g.id, SID, k + 1) /\ h.id = g.id
      /\ h.peer_signing_pubkey = SID /\ h.anti_interference = g.anti_interference
  BY <1>0, <1>2, WrapMovesKey DEF Joined
<1> HIDE DEF h
<1>4. Request(f, g.id, k + 1)
  BY <1>0, <1>3 DEF Request, Sealed, FrameOf
<1>5. Joined(h)
  BY <1>3 DEF Joined
<1> HIDE DEF f, payload
<1>6. down[1] = << >> /\ Carried(handler[1], up[1]) = {}
  BY <1>1, <1>2 DEF Idle, InTransit
<1>7. handler[1] \in {"handshaking", "serving"} => up'[1] = Append(up[1], f)
  BY <1>0, <1>1 DEF StreamInv
<1>8. IsSequence(up[1])
  BY <1>0 DEF StreamInv
<1>9. ServerSide' /\ InStepWith(harness[c])'
  <2>1. CASE handler[1] = "handshaking"
    <3>1. Len(up[1]) >= 1
      BY <1>0, <1>1, <2>1 DEF LinkInv
    <3>2. Len(up[1]) = 1
      BY <1>6, <1>8, <2>1, <3>1, OneCarried
    <3>3. up[1][1].keys = g.id /\ k = 0 /\ Heard(g.anti_interference, SID, server.seq_counter)
      BY <1>2, <1>6, <2>1, <3>2 DEF InStepWith
    <3>4. /\ DOMAIN up[1] = 1 .. 1 /\ Len(up'[1]) = 1 + 1 /\ DOMAIN up'[1] = 1 .. 1 + 1
          /\ up'[1][1] = up[1][1] /\ up'[1][1 + 1] = f
      <4>1. up'[1] = Append(up[1], f)
        BY <1>7, <2>1
      <4>2. /\ DOMAIN up[1] = 1 .. Len(up[1]) /\ Len(Append(up[1], f)) = Len(up[1]) + 1
            /\ DOMAIN Append(up[1], f) = 1 .. Len(up[1]) + 1
            /\ \A i \in DOMAIN up[1] : Append(up[1], f)[i] = up[1][i]
            /\ Append(up[1], f)[Len(up[1]) + 1] = f
        BY <1>8, Appended
      <4> QED BY <3>2, <4>1, <4>2
    <3>5. Unused(server)
      BY <2>1 DEF Known, SessionInv, ServerSide
    <3>6. ServerSide'
      <4>1. Request(up'[1][2], up'[1][1].keys, 1)
        BY <1>4, <3>3, <3>4
      <4> QED BY <1>1, <2>1, <3>5, <4>1 DEF ServerSide
    <3>7. InStepWith(harness[c])'
      <4>1. harness'[c] = h
        BY <1>0, <1>1
      <4> QED BY <1>1, <1>3, <1>6, <2>1, <3>3, <3>4, <4>1 DEF InStepWith
    <3> QED BY <3>6, <3>7
  <2>2. CASE handler[1] = "serving"
    <3>1. Len(up[1]) = 0 /\ up[1] = << >>
      BY <1>6, <1>8, <2>2, OneCarried, Stream
    <3>2. server.peer_signing_pubkey = g.id /\ k = server.seq_counter
          /\ Heard(g.anti_interference, SID, server.seq_counter)
      BY <1>0, <1>2, <1>6, <2>2, <3>1 DEF InStepWith
    <3>3. /\ Len(up'[1]) = 0 + 1 /\ DOMAIN up'[1] = 1 .. 0 + 1 /\ up'[1][0 + 1] = f
      <4>1. up'[1] = Append(up[1], f)
        BY <1>7, <2>2
      <4>2. /\ Len(Append(up[1], f)) = Len(up[1]) + 1
            /\ DOMAIN Append(up[1], f) = 1 .. Len(up[1]) + 1
            /\ Append(up[1], f)[Len(up[1]) + 1] = f
        BY <1>8, Appended
      <4> QED BY <3>1, <4>1, <4>2
    <3>4. ServerSide'
      BY <1>1, <1>4, <2>2, <3>2, <3>3 DEF Known, SessionInv, ServerSide
    <3>5. InStepWith(harness[c])'
      <4>1. harness'[c] = h
        BY <1>0, <1>1
      <4>2. /\ server.peer_signing_pubkey = h.id
            /\ h.seq_counter = server.seq_counter + Len(up'[1])
            /\ Heard(h.anti_interference, SID, server.seq_counter)
        BY <1>3, <3>2, <3>3
      <4>3. handler'[1] = "serving" /\ down'[1] = << >> /\ server' = server
        BY <1>1, <1>6, <2>2
      <4> QED BY <4>1, <4>2, <4>3 DEF InStepWith
    <3> QED BY <3>4, <3>5
  <2>3. CASE handler[1] \notin {"handshaking", "serving"}
    <3>1. ServerSide'
      BY <1>1, <2>3 DEF Known, SessionInv, ServerSide
    <3>2. InStepWith(harness[c])'
      BY <1>1, <1>6, <2>3 DEF InStepWith
    <3> QED BY <3>1, <3>2
  <2> QED BY <2>1, <2>2, <2>3
<1>10. Undialled' /\ Decided'
  BY <1>0, <1>1 DEF Known, SessionInv, Undialled, Decided
<1>11. ASSUME NEW b \in Clients PROVE Dialling(b)' /\ InSession(b)'
  <2>1. CASE b # c
    BY <1>0, <1>1, <2>1 DEF Dialling, InSession
  <2>2. CASE b = c
    <3>1. harness'[c] = h /\ busy'[c] = "waiting"
      BY <1>0, <1>1
    <3> QED BY <1>5, <1>9, <2>2, <3>1 DEF Dialling, InSession, Joined
  <2> QED BY <2>1, <2>2
<1> QED BY <1>9, <1>10, <1>11 DEF SessionInv

\* The client reads the response, which its own harness accepts unless its
\* engine interferes.
LEMMA SessionAnswered ==
    ASSUME OneSession, Known, NEW c \in Clients, Receive(c)
    PROVE  SessionInv'
<1> DEFINE g == harness[c]
           f == Head(down[1])
           h == ProcessFrame(g, f, now)
           k == g.seq_counter
           n == k - 1
<1>0. /\ DOMAIN up = {1} /\ DOMAIN down = {1} /\ StreamInv(1) /\ now \in Time
      /\ \A b \in Clients :
            /\ conn[b] # 0 => conn[b] = 1 /\ owner[1] = b /\ 1 \in DOMAIN owner
            /\ connected[b] \/ busy[b] = "connecting" => conn[b] # 0
      /\ DOMAIN connected = Clients /\ DOMAIN busy = Clients /\ DOMAIN harness = Clients
      /\ LinkInv(c) /\ DOMAIN g = HarnessFields /\ k \in Nat /\ server.seq_counter \in Nat
  BY OneDial
<1>1. busy[c] = "waiting" /\ connected[c] /\ conn[c] = 1
  <2>1. ClientInv(c)
    BY DEF Known, CustodyInv, ClientsInv
  <2> QED BY <1>0, <2>1 DEF Receive, ClientInv
<1>2. /\ down[1] # << >> /\ harness' = [harness EXCEPT ![c] = h]
      /\ replies' = replies \cup {[to |-> pending[c], verdict |-> Verdict(g, f, now),
                                    reply |-> f.payload]}
      /\ down' = [down EXCEPT ![1] = Tail(@)] /\ busy' = [busy EXCEPT ![c] = "no"]
      /\ UNCHANGED <<server, handler, owner, up, connected, verdicts>>
  BY <1>0, <1>1 DEF Receive, serverVars
<1>3. Joined(g) /\ InStepWith(g) /\ Waiting(c)
  BY <1>0, <1>1 DEF Known, SessionInv, InSession, LinkInv
<1>4. f = down[1][1] /\ down'[1] = << >> /\ IsSequence(up[1])
  <2>1. IsSequence(down[1]) /\ IsSequence(up[1]) /\ Len(down[1]) <= 1
    BY <1>1, <1>3 , <1>0 DEF Waiting, StreamInv
  <2>2. f = down[1][1] /\ Tail(down[1]) = << >>
    BY <1>2, <2>1, HeadTaken, Stream
  <2> QED BY <1>0, <1>2, <2>1, <2>2
<1>5. Reply(f, g.id, k) /\ Heard(g.anti_interference, SID, n)
  BY <1>2, <1>3, <1>4 DEF InStepWith
<1>6. n \in Nat /\ n + 1 = k
  <2>1. \E i : i \in 0 .. n
    BY <1>5 DEF Heard
  <2> QED BY <1>0, <2>1
<1> HIDE DEF n, f, h
<1>7. /\ Verdict(g, f, now) = IF ~ Passed(g.anti_interference, f, now) THEN "interference"
                               ELSE IF KeyAt(SID, g.id, n + 1) # g.session_key THEN "hmac"
                               ELSE IF f.payload.kind \in DOMAIN Inspection THEN f.payload.kind
                               ELSE "accepted"
      /\ Heard(h.anti_interference, SID, n + 1)
  <2>1. Sealed(f, SID, g.id, n + 1) /\ g.peer_signing_pubkey = SID
    BY <1>3, <1>5, <1>6 DEF Reply, Joined
  <2>2. DOMAIN g = HarnessFields
    BY <1>0
  <2> HIDE DEF g
  <2> QED BY <1>5, <1>6, <2>1, <2>2, NextVerdict DEF h
<1>8. Verdict(g, f, now) \in {"accepted", "interference"}
  <2>1. KeyAt(SID, g.id, n + 1) = g.session_key
    BY <1>0, <1>3, <1>6, KeysDiffer DEF Joined
  <2>2. f.payload.kind \notin DOMAIN Inspection
    BY <1>5 DEF Reply, Inspection
  <2> QED BY <1>7, <2>1, <2>2
<1>9. /\ h.seq_counter = k /\ h.id = g.id /\ h.session_key = g.session_key
      /\ h.peer_signing_pubkey = g.peer_signing_pubkey
  <2>1. DOMAIN g = HarnessFields
    BY <1>0
  <2> HIDE DEF g
  <2>2. LET v == ProcessFrame(g, f, now)
        IN  \A field \in {"id", "seq_counter", "session_key",
                          "peer_signing_pubkey", "peer_connected"} : v[field] = g[field]
    BY <2>1, ProcessEffect
  <2> QED BY <2>2 DEF h, k
<1>10. harness'[c] = h /\ busy'[c] = "no"
  BY <1>0, <1>2
<1>11. Joined(harness'[c])
  BY <1>3, <1>9, <1>10 DEF Joined
<1>12. InStepWith(harness[c])'
  <2>1. CASE handler[1] = "handshaking"
    BY <1>0, <1>1, <1>2, <2>1 DEF LinkInv
  <2>2. CASE handler[1] = "serving"
    <3>1. up[1] = << >> /\ Len(up[1]) = 0
      <4>1. InTransit(1) = {}
        BY <1>1, <1>2, <1>3 DEF Waiting
      <4>2. SUFFICES ASSUME up[1] # << >> PROVE FALSE
        BY NoStream
      <4>3. Len(up[1]) <= 1
        BY <1>0, <2>2 DEF StreamInv
      <4>4. Carried("serving", up[1]) # {}
        BY <1>4, <4>2, <4>3, OneServed
      <4> QED BY <2>2, <4>1, <4>4 DEF InTransit
    <3>2. server.peer_signing_pubkey = g.id /\ k = server.seq_counter
      BY <1>0, <1>3, <2>2, <3>1 DEF InStepWith
    <3> QED BY <1>2, <1>4, <1>6, <1>7, <1>9, <1>10, <2>2, <3>1, <3>2 DEF InStepWith
  <2>3. CASE handler[1] \notin {"handshaking", "serving"}
    BY <1>2, <1>4, <2>3 DEF InStepWith
  <2> QED BY <2>1, <2>2, <2>3
<1>13. ServerSide' /\ Undialled' /\ Decided'
  <2>1. ServerSide' /\ Undialled'
    BY <1>0, <1>1, <1>2 DEF Known, SessionInv, ServerSide, Undialled
  <2>2. Decided'
    BY <1>2, <1>8 DEF Known, SessionInv, Decided
  <2> QED BY <2>1, <2>2
<1>14. ASSUME NEW b \in Clients PROVE Dialling(b)' /\ InSession(b)'
  <2>1. CASE b # c
    BY <1>0, <1>1, <1>2, <2>1 DEF Dialling, InSession
  <2>2. CASE b = c
    BY <1>10, <1>11, <1>12, <2>2 DEF Dialling, InSession, Joined
  <2> QED BY <2>1, <2>2
<1> QED BY <1>13, <1>14 DEF SessionInv

\* The server sends its keys.
LEMMA SessionAdmitted ==
    ASSUME OneSession, Known, Admit(1)
    PROVE  SessionInv'
<1> DEFINE keys == HandshakeBytes(server)
<1>0. /\ DOMAIN up = {1} /\ DOMAIN down = {1} /\ DOMAIN handler = {1} /\ StreamInv(1)
      /\ server.id = SID
      /\ \A b \in Clients :
            /\ conn[b] # 0 => conn[b] = 1
            /\ connected[b] \/ busy[b] = "connecting" => conn[b] # 0
            /\ LinkInv(b)
  BY OneDial
<1>1. /\ handler[1] = "accepted" /\ handler' = [handler EXCEPT ![1] = "handshaking"]
      /\ down' = IF client_open[1] THEN [down EXCEPT ![1] = Append(@, keys)] ELSE down
      /\ UNCHANGED <<server, owner, up, harness, connected, busy, verdicts, replies>>
  BY DEF Admit, Answering, clientVars
<1>2. keys.keys = SID
  BY <1>0 DEF HandshakeBytes
<1> HIDE DEF keys
<1>3. up[1] = << >> /\ handler'[1] = "handshaking"
  BY <1>0, <1>1 DEF StreamInv
<1>4. ServerSide' /\ Undialled' /\ Decided'
  <2>1. DOMAIN << >> = {}
    BY NoStream
  <2>2. Unused(server)
    BY <1>1 DEF Known, SessionInv, ServerSide
  <2> QED BY <1>1, <1>3, <2>1, <2>2 DEF Known, SessionInv, ServerSide, Undialled, Decided
<1>5. ASSUME NEW b \in Clients PROVE Dialling(b)' /\ InSession(b)'
  <2>1. ~ connected[b]
    BY <1>0, <1>1 DEF LinkInv
  <2>2. ASSUME busy[b] = "connecting", down'[1] # << >>
        PROVE  down'[1][1].keys = SID
    <3>1. down[1] = << >>
      BY <1>0, <1>1, <2>2 DEF LinkInv, Connecting
    <3>2. down'[1] = Append(<< >>, keys)
      BY <1>0, <1>1, <2>2, <3>1
    <3>3. Append(<< >>, keys)[0 + 1] = keys
      BY NoStream, Appended
    <3> QED BY <1>2, <3>2, <3>3
  <2> QED BY <1>1, <2>1, <2>2 DEF Known, SessionInv, Dialling, InSession
<1> QED BY <1>4, <1>5 DEF SessionInv

\* The server reads the client's keys, and counts from nothing.
LEMMA SessionAgreed ==
    ASSUME OneSession, Known, FinishHandshake(1)
    PROVE  SessionInv'
<1> DEFINE peer == up[1][1].keys
<1>0. /\ DOMAIN up = {1} /\ DOMAIN down = {1} /\ DOMAIN handler = {1} /\ StreamInv(1)
      /\ server.id = SID /\ DOMAIN server = HarnessFields
      /\ \A b \in Clients :
            /\ conn[b] # 0 => conn[b] = 1
            /\ connected[b] \/ busy[b] = "connecting" => conn[b] # 0
            /\ LinkInv(b)
  BY OneDial
<1>1. /\ handler[1] = "handshaking" /\ up[1] # << >>
      /\ server' = CompleteHandshake(server, Head(up[1]), NoPeer)
      /\ UNCHANGED <<owner, down, harness, connected, busy, verdicts, replies>>
  BY DEF FinishHandshake, clientVars
<1>2. CASE ~ is_running
  <2>1. handler'[1] = "done" /\ ShutDown(1)
    BY <1>0, <1>2 DEF FinishHandshake, Finish
  <2> QED BY <1>1, <2>1, SessionShut
<1>3. CASE is_running
  <2>1. handler'[1] = "serving" /\ up'[1] = Tail(up[1])
    BY <1>0, <1>3 DEF FinishHandshake
  <2>2. /\ IsSequence(up[1]) /\ Len(up[1]) <= 2 /\ Len(up[1]) \in Nat /\ Len(up[1]) >= 1
        /\ Head(up[1]) = up[1][1] /\ DOMAIN up[1] = 1 .. Len(up[1])
        /\ Len(up'[1]) = Len(up[1]) - 1 /\ DOMAIN up'[1] = 1 .. Len(up[1]) - 1
        /\ \A i \in DOMAIN up'[1] : up'[1][i] = up[1][i + 1]
    BY <1>0, <1>1, <2>1, HeadTaken, Stream DEF StreamInv
  <2>3. Unused(server)
    BY <1>1 DEF Known, SessionInv, ServerSide
  <2>4. /\ server'.peer_signing_pubkey = peer /\ server'.session_key = KeyAt(SID, peer, 0)
        /\ server'.seq_counter = 0 /\ server'.anti_interference = NewEngine
    BY <1>0, <1>1, <2>2, <2>3, HandshakeJoins DEF Unused
  <2>5. ServerSide'
    <3>1. Heard(server'.anti_interference, server'.peer_signing_pubkey, server'.seq_counter)
      BY <2>4, HeardNothing
    <3>2. ASSUME NEW i \in DOMAIN up'[1]
          PROVE  Request(up'[1][i], peer, 1)
      <4>1. i = 1 /\ 2 \in DOMAIN up[1] /\ up'[1][i] = up[1][2]
        BY <2>2
      <4> QED BY <1>1, <4>1 DEF Known, SessionInv, ServerSide
    <3>3. \A i \in DOMAIN up'[1] :
             Request(up'[1][i], server'.peer_signing_pubkey, server'.seq_counter + 1)
      <4>1. 0 + 1 = 1
        OBVIOUS
      <4> QED BY <2>4, <3>2, <4>1
    <3>4. server'.session_key = KeyAt(SID, server'.peer_signing_pubkey, server'.seq_counter)
      BY <2>4
    <3> QED BY <2>1, <3>1, <3>3, <3>4 DEF ServerSide
  <2>6. Undialled' /\ Decided'
    BY <1>1 DEF Known, SessionInv, Undialled, Decided
  <2>7. ASSUME NEW b \in Clients PROVE Dialling(b)' /\ InSession(b)'
    <3>1. Dialling(b)'
      BY <1>1 DEF Known, SessionInv, Dialling
    <3>2. ASSUME connected[b] PROVE InStepWith(harness[b])'
      <4>1. InStepWith(harness[b]) /\ down[1] = << >>
        BY <1>0, <1>1, <3>2 DEF Known, SessionInv, InSession, LinkInv
      <4>2. /\ peer = harness[b].id /\ harness[b].seq_counter = Len(up[1]) - 1
            /\ Heard(harness[b].anti_interference, SID, 0)
        BY <1>1, <2>3, <4>1 DEF InStepWith, Unused
      <4>3. harness[b].seq_counter = 0 + Len(up'[1])
        BY <2>2, <4>2
      <4> QED BY <1>1, <2>1, <2>4, <4>1, <4>2, <4>3 DEF InStepWith
    <3>3. InSession(b)'
      BY <1>1, <3>2 DEF Known, SessionInv, InSession, Joined
    <3> QED BY <3>1, <3>3
  <2> QED BY <2>5, <2>6, <2>7 DEF SessionInv
<1> QED BY <1>2, <1>3

\* The server reads a request and answers it.
LEMMA SessionServed ==
    ASSUME OneSession, Known, Serve(1)
    PROVE  SessionInv'
<1> DEFINE f == Head(up[1])
           p == ProcessFrame(server, f, now)
           h == WrapPayload(p)
           verdict == Verdict(server, f, now)
           n == server.seq_counter
           peer == server.peer_signing_pubkey
           v == [payload |-> f.payload, verdict |-> verdict, served |-> h.seq_counter]
           m == FrameOf(h, Response(verdict, f.payload), TYPE_DATA, now)
<1>0. /\ DOMAIN up = {1} /\ DOMAIN down = {1} /\ DOMAIN handler = {1} /\ StreamInv(1)
      /\ server.id = SID /\ DOMAIN server = HarnessFields /\ n \in Nat /\ now \in Time
      /\ \A b \in Clients :
            /\ conn[b] # 0 => conn[b] = 1
            /\ connected[b] \/ busy[b] = "connecting" => conn[b] # 0
            /\ LinkInv(b) /\ harness[b].seq_counter \in Nat
  BY OneDial
<1>1. /\ handler[1] = "serving" /\ up[1] # << >> /\ server' = h
      /\ down' = IF client_open[1] THEN [down EXCEPT ![1] = Append(@, m)] ELSE down
      /\ verdicts' = verdicts \cup {v}
      /\ UNCHANGED <<owner, harness, connected, busy, replies>>
  BY DEF Serve, Answering, clientVars
<1>2. /\ handler'[1] \in {"serving", "done"} /\ up'[1] = << >> /\ DOMAIN up[1] = {1} /\ f = up[1][1]
      /\ Len(up[1]) = 1
  <2>1. IsSequence(up[1]) /\ Len(up[1]) <= 1 /\ Len(up[1]) \in Nat /\ Len(up[1]) >= 1
        /\ DOMAIN up[1] = 1 .. Len(up[1]) /\ f = up[1][1] /\ Tail(up[1]) = << >>
    BY <1>0, <1>1, OneServed, HeadTaken, Stream DEF StreamInv
  <2>2. Len(up[1]) = 1
    <3>1. \A x \in Nat : x <= 1 /\ x >= 1 => x = 1
      OBVIOUS
    <3> QED BY <2>1, <3>1
  <2>3. DOMAIN up[1] = {1}
    <3>1. DOMAIN up[1] = 1 .. 1
      BY <2>1, <2>2
    <3> QED BY <3>1
  <2>4. handler'[1] \in {"serving", "done"} /\ up'[1] = << >>
    BY <1>0, <1>1, <2>1 DEF Serve, Finish, ShutDown
  <2> QED BY <2>1, <2>2, <2>3, <2>4
<1>3. /\ server.session_key = KeyAt(SID, peer, n) /\ Heard(server.anti_interference, peer, n)
      /\ Request(f, peer, n + 1)
  BY <1>1, <1>2 DEF Known, SessionInv, ServerSide
<1>4. /\ Sealed(f, peer, SID, n + 1) /\ f.payload.num = n + 1
  BY <1>3 DEF Request
<1> HIDE DEF f, verdict
<1>5. /\ verdict = IF ~ Passed(server.anti_interference, f, now) THEN "interference"
                   ELSE IF KeyAt(peer, SID, n + 1) # server.session_key THEN "hmac"
                   ELSE IF f.payload.kind \in DOMAIN Inspection THEN f.payload.kind
                   ELSE "accepted"
      /\ Heard(p.anti_interference, peer, n + 1)
  <2>1. /\ DOMAIN server = HarnessFields /\ peer = server.peer_signing_pubkey /\ n \in Nat
        /\ Heard(server.anti_interference, peer, n) /\ Sealed(f, peer, SID, n + 1)
    BY <1>0, <1>3, <1>4
  <2> HIDE DEF peer, n, p, h, v, m
  <2>2. /\ Verdict(server, f, now) =
              IF ~ Passed(server.anti_interference, f, now) THEN "interference"
              ELSE IF KeyAt(peer, SID, n + 1) # server.session_key THEN "hmac"
              ELSE IF f.payload.kind \in DOMAIN Inspection THEN f.payload.kind
              ELSE "accepted"
        /\ Heard(ProcessFrame(server, f, now).anti_interference, peer, n + 1)
    BY <2>1, NextVerdict
  <2> QED BY <2>2 DEF verdict, p
<1>6. f.payload.kind = "clean" =>
         IF (n + 1) % RekeyInterval = 0 THEN verdict \in {"hmac", "interference"}
                                        ELSE verdict \in {"accepted", "interference"}
  <2>1. KeyAt(peer, SID, n + 1) = KeyAt(SID, peer, n) <=> (n + 1) % RekeyInterval # 0
    BY <1>0, KeysDiffer
  <2>2. "clean" \notin DOMAIN Inspection
    BY DEF Inspection
  <2> QED BY <1>3, <1>5, <2>1, <2>2
<1>7. /\ DOMAIN p = HarnessFields /\ p.seq_counter = n /\ p.id = SID
      /\ p.peer_signing_pubkey = peer /\ p.session_key = KeyAt(SID, peer, n)
  <2>1. DOMAIN p = HarnessFields
        /\ \A field \in {"id", "seq_counter", "session_key",
                         "peer_signing_pubkey", "peer_connected"} : p[field] = server[field]
    BY <1>0, ProcessEffect
  <2> HIDE DEF p
  <2> QED BY <1>0, <1>3, <2>1
<1> HIDE DEF p
<1>8. /\ h.seq_counter = n + 1 /\ h.session_key = KeyAt(SID, peer, n + 1) /\ h.id = SID
      /\ h.peer_signing_pubkey = peer /\ h.anti_interference = p.anti_interference
  BY <1>0, <1>7, WrapMovesKey
<1> HIDE DEF h
<1>9. ServerSide'
  <2>1. DOMAIN << >> = {}
    BY NoStream
  <2>2. /\ h.session_key = KeyAt(SID, h.peer_signing_pubkey, h.seq_counter)
        /\ Heard(h.anti_interference, h.peer_signing_pubkey, h.seq_counter)
    BY <1>5, <1>8
  <2> QED BY <1>1, <1>2, <2>1, <2>2 DEF ServerSide
<1>10. Undialled' /\ Decided'
  <2>1. v.payload = f.payload /\ v.verdict = verdict
    OBVIOUS
  <2> HIDE DEF v, n
  <2>2. v.payload.kind = "clean" =>
           IF v.payload.num % RekeyInterval = 0 THEN v.verdict \in {"hmac", "interference"}
                                                ELSE v.verdict \in {"accepted", "interference"}
    BY <1>4, <1>6, <2>1
  <2>3. Decided'
    BY <1>1, <2>2 DEF Known, SessionInv, Decided
  <2>4. Undialled'
    BY <1>1 DEF Known, SessionInv, Undialled
  <2> QED BY <2>3, <2>4
<1>11. Reply(m, peer, n + 1)
  BY <1>0, <1>8 DEF Reply, Sealed, FrameOf, Response
<1> HIDE DEF m
<1>12. ASSUME NEW b \in Clients PROVE Dialling(b)' /\ InSession(b)'
  <2>1. busy[b] # "connecting"
    BY <1>0, <1>1 DEF LinkInv, Connecting
  <2>2. ASSUME connected[b] PROVE InStepWith(harness[b])'
    <3>1. InStepWith(harness[b]) /\ conn[b] = 1
      BY <1>0, <2>2 DEF Known, SessionInv, InSession
    <3>2. down[1] = << >>
      <4>1. Carried("serving", up[1]) = {f.payload}
        <5>1. IsSequence(up[1]) /\ Len(up[1]) <= 1
          BY <1>0, <1>1 DEF StreamInv
        <5> QED BY <1>1, <5>1, OneServed DEF f
      <4>2. f.payload \in InTransit(1)
        BY <1>1, <4>1 DEF InTransit
      <4> QED BY <1>0, <2>2, <3>1, <4>2 DEF LinkInv, Idle, Waiting
    <3>3. /\ peer = harness[b].id /\ harness[b].seq_counter = n + 1
          /\ Heard(harness[b].anti_interference, SID, n)
      BY <1>1, <1>2, <3>1, <3>2 DEF InStepWith
    <3>4. /\ harness[b].seq_counter - 1 = n
          /\ harness[b].seq_counter = h.seq_counter + 0
      BY <1>0, <1>8, <3>3
    <3>5. Heard(harness[b].anti_interference, SID, h.seq_counter)
      BY <1>0, <1>8, <3>3, HeardMore
    <3>6. down'[1] = << >> \/ down'[1][1] = m
      <4>1. Append(<< >>, m)[0 + 1] = m
        BY NoStream, Appended
      <4>2. down'[1] = << >> \/ down'[1] = Append(<< >>, m)
        BY <1>0, <1>1, <3>2
      <4> QED BY <4>1, <4>2
    <3>7. down'[1] # << >> => /\ Reply(down'[1][1], harness[b].id, harness[b].seq_counter)
                              /\ Heard(harness[b].anti_interference, SID, harness[b].seq_counter - 1)
      BY <1>11, <3>3, <3>4, <3>6
    <3>8. Len(up'[1]) = 0
      BY <1>2, NoStream
    <3>9. harness'[b] = harness[b] /\ server' = h /\ handler'[1] # "handshaking"
      BY <1>1, <1>2
    <3> QED BY <1>8, <3>3, <3>4, <3>5, <3>7, <3>8, <3>9 DEF InStepWith
  <2> QED BY <1>1, <2>1, <2>2 DEF Known, SessionInv, Dialling, InSession, Joined
<1> QED BY <1>9, <1>10, <1>12 DEF SessionInv

LEMMA SessionKept ==
    ASSUME OneSession, Known, [Next]_vars
    PROVE  SessionInv'
<1>0. DOMAIN owner \subseteq {1} /\ DOMAIN handler = {1} /\ DOMAIN busy = Clients
  BY OneDial
<1>1. CASE Tick \/ Stop \/ UNCHANGED vars
  BY <1>1, SessionStays DEF Known, Tick, Stop, vars, serverVars, netVars, clientVars
<1>2. ASSUME NEW c \in Clients, ConnectFails(c) \/ ReceiveFails(c) PROVE SessionInv'
  <2>1. /\ UNCHANGED <<server, handler, owner, up, down, harness, connected, verdicts, replies>>
        /\ busy' = [busy EXCEPT ![c] = "no"]
    BY <1>2 DEF ConnectFails, ReceiveFails, serverVars, netVars
  <2>2. \A b \in Clients : busy'[b] = "connecting" => busy[b] = "connecting"
    BY <1>0, <2>1
  <2> QED BY <2>1, <2>2, SessionStays DEF Known
<1>3. ASSUME NEW c \in Clients,
             Dial(c) \/ ClientHandshake(c) \/ Receive(c) \/ Close(c) \/ Restart(c)
      PROVE  SessionInv'
  BY <1>3, SessionDialled, SessionJoined, SessionAnswered, SessionClosed
<1>4. ASSUME NEW c \in Clients, NEW kind \in Kinds, Send(c, kind) PROVE SessionInv'
  BY <1>4, SessionSent
<1>5. ASSUME NEW d \in DOMAIN owner, HandlerStep(d) PROVE SessionInv'
  <2>1. d = 1
    BY <1>0
  <2>2. CASE Admit(1) \/ FinishHandshake(1) \/ Serve(1)
    BY <2>2, SessionAdmitted, SessionAgreed, SessionServed
  <2>3. CASE Refuse(1) \/ GiveUpHandshake(1) \/ FinishClosing(1) \/ Disconnected(1)
    <3>1. /\ handler'[1] \in {"closing", "done"} /\ ShutDown(1)
          /\ UNCHANGED <<owner, down, harness, connected, busy, verdicts, replies>>
      BY <1>0, <2>3 DEF Refuse, GiveUpHandshake, FinishClosing, Disconnected, Finish, clientVars
    <3> QED BY <3>1, SessionShut
  <2> QED BY <1>5, <2>1, <2>2, <2>3 DEF HandlerStep
<1>6. ASSUME NEW d \in DOMAIN owner, DropAbandoned(d) PROVE SessionInv'
  BY <1>6, SessionDropped
<1> QED BY <1>1, <1>2, <1>3, <1>4, <1>5, <1>6 DEF Next, ClientWakes

LEMMA SessionBegins ==
    ASSUME OneSession, Init
    PROVE  SessionInv
<1>1. /\ handler = [d \in Dials |-> "none"] /\ owner = << >>
      /\ verdicts = {} /\ replies = {}
      /\ \A c \in Clients : busy[c] = "no" /\ ~ connected[c] /\ Unused(harness[c])
      /\ Unused(server)
  BY NewEffect DEF Init, Unused
<1>2. handler[1] = "none"
  <2>1. 1 \in Dials
    BY DEF OneSession, Dials
  <2> QED BY <1>1, <2>1
<1> QED BY <1>1, <1>2 DEF SessionInv, ServerSide, Undialled, Decided, Dialling, InSession

\* What stands in front of a reader is the next frame of its peer.
LEMMA NextInLine ==
    ASSUME OneSession, Known
    PROVE  /\ \A d \in Dials :
                 handler[d] = "serving" /\ up[d] # << >> /\ InTime(server, Head(up[d])) =>
                    Passed(server.anti_interference, Head(up[d]), now)
           /\ \A c \in Clients :
                 LET d == conn[c]
                 IN  busy[c] = "waiting" /\ down[d] # << >> /\ InTime(harness[c], Head(down[d])) =>
                        Passed(harness[c].anti_interference, Head(down[d]), now)
<1>0. /\ Dials = {1} /\ StreamInv(1) /\ server.seq_counter \in Nat
      /\ \A c \in Clients :
            /\ conn[c] # 0 => conn[c] = 1
            /\ LinkInv(c) /\ harness[c].seq_counter \in Nat
  BY OneDial
<1>1. ASSUME handler[1] = "serving", up[1] # << >>, InTime(server, Head(up[1]))
      PROVE  Passed(server.anti_interference, Head(up[1]), now)
  <2>1. Head(up[1]) = up[1][1] /\ 1 \in DOMAIN up[1]
    BY <1>0, <1>1, HeadTaken, Stream DEF StreamInv
  <2>2. /\ Heard(server.anti_interference, server.peer_signing_pubkey, server.seq_counter)
        /\ Sealed(Head(up[1]), server.peer_signing_pubkey, SID, server.seq_counter + 1)
    BY <1>1, <2>1 DEF Known, SessionInv, ServerSide, Request
  <2> QED BY <1>0, <1>1, <2>2, HeardPasses DEF InTime
<1>2. ASSUME NEW c \in Clients, busy[c] = "waiting", down[conn[c]] # << >>,
             InTime(harness[c], Head(down[conn[c]]))
      PROVE  Passed(harness[c].anti_interference, Head(down[conn[c]]), now)
  <2> DEFINE g == harness[c]
             f == Head(down[1])
             n == g.seq_counter - 1
  <2>1. connected[c] /\ conn[c] = 1
    <3>1. ClientInv(c)
      BY DEF Known, CustodyInv, ClientsInv
    <3> QED BY <1>0, <1>2, <3>1 DEF ClientInv
  <2>2. f = down[1][1]
    BY <1>0, <1>2, <2>1, HeadTaken DEF StreamInv
  <2>3. Reply(f, g.id, g.seq_counter) /\ Heard(g.anti_interference, SID, n)
    BY <1>2, <2>1, <2>2 DEF Known, SessionInv, InSession, InStepWith
  <2>4. n \in Nat /\ n + 1 = g.seq_counter
    <3>1. \E i : i \in 0 .. n
      BY <2>3 DEF Heard
    <3> QED BY <1>0, <3>1
  <2>5. ~ Drifted(f, now) /\ ~ Flooded(g.anti_interference, now)
    BY <1>2, <2>1 DEF InTime
  <2>6. Sealed(f, SID, g.id, n + 1)
    BY <2>3, <2>4 DEF Reply
  <2> HIDE DEF f, g, n
  <2>7. Passed(g.anti_interference, f, now)
    BY <2>3, <2>4, <2>5, <2>6, HeardPasses
  <2> QED BY <2>1, <2>7 DEF f, g
<1> QED BY <1>0, <1>1, <1>2

\* tunnel.py:118-122 counts a frame and ratchets the sender's key with it,
\* and no line ratchets the receiver's: the one connection loses every payload
\* whose number is a multiple of the interval, and no other for its key; either
\* engine refuses a frame for its age or a flood only, and what response it
\* does not refuse can be read.
THEOREM RekeyLosesExactly ==
    ASSUME MaxDials = 1
    PROVE  Spec => []RekeyFramesLost
<1>0. OneSession
  BY DEF OneSession
<1>1. Init => SessionInv
  BY <1>0, SessionBegins
<1>2. SlotsInv /\ HarnessesInv /\ CustodyInv /\ TypesInv /\ SessionInv /\ [Next]_vars => SessionInv'
  BY <1>0, SessionKept DEF Known
<1>3. SlotsInv /\ HarnessesInv /\ CustodyInv /\ TypesInv /\ SessionInv => RekeyFramesLost
  BY <1>0, NextInLine DEF Known, SessionInv, Decided, RekeyFramesLost
<1> QED BY <1>1, <1>2, <1>3, SlotsInvariant, HarnessesInvariant, CustodyInvariant, TypesInvariant, PTL
        DEF Spec
=============================================================================
