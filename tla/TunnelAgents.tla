----------------------------- MODULE TunnelAgents -----------------------------
(***************************************************************************)
(* SecureClientAgent and SecureServerAgent (agents/) over TCP: clients     *)
(* dial the server, run the handshake and exchange a request and a         *)
(* response at a time; the server runs one handler per connection, all of  *)
(* them on ONE harness.                                                    *)
(*                                                                         *)
(* A connection is a pair of FIFO byte streams, read here one message at a *)
(* time.  Each side closes its own end; the other side reads what is still *)
(* in the stream and then the end of the stream.  A step is what a         *)
(* coroutine does between two awaits that can really wait.                 *)
(*                                                                         *)
(* The handshake time-out is a step that may come at any moment of the     *)
(* wait.  Draining a writer is taken never to block: responses are small.  *)
(***************************************************************************)
EXTENDS Harness

CONSTANTS
    Clients,     \* the client agents
    IpOf,        \* the address each client dials from
    Expected,    \* expected_peer_fingerprint of each client
    Server,      \* the server agent
    MaxConns,    \* max_conns_per_ip, 10
    Kinds,       \* the kinds of payload the clients send
    MaxSends,    \* bound: payloads one client agent sends
    MaxDials,    \* bound: connections dialled in all
    MaxRestarts, \* bound: times a client process is started anew
    MayStop,     \* whether stop() may be called on the server
    MayAbort     \* whether a client may close while it waits for a response

ASSUME AgentsAssumption ==
    /\ Clients \subseteq DOMAIN IpOf
    /\ MaxConns \in Nat /\ MaxSends \in Nat /\ MaxDials \in Nat /\ MaxRestarts \in Nat

Ips == {IpOf[c] : c \in Clients}
Dials == 1 .. MaxDials

VARIABLES
    now,              \* the clock, common to both sides
    server,           \* the server's harness
    sandbox,          \* the server's quarantine files
    is_running,       \* the server accepts connections and serves frames
    active_ip_counts, \* handlers counted against each address
    handler,          \* where the handler of each connection is
    owner,            \* the client that dialled each connection
    up, down,         \* the two streams of each connection
    client_open,      \* whether the client's end of each connection is open
    server_open,      \* whether the server's end is
    harness,          \* each client's harness
    conn,             \* the connection each client reads and writes, or 0
    connected,        \* the client's flag
    busy,             \* what the client is waiting for
    pending,          \* the payload whose response the client waits for
    verdicts,         \* history: what the server decided on each frame
    replies           \* history: what each request returned to its caller

clientVars == <<harness, conn, connected, busy, pending, replies>>
serverVars == <<server, sandbox, is_running, active_ip_counts, handler, verdicts>>
netVars == <<owner, up, down, client_open, server_open>>
vars == <<now, serverVars, netVars, clientVars>>

Init ==
    /\ now = 0
    /\ server = NewHarness(<<Server, 0>>)
    /\ sandbox = [file \in {Inspection[k] : k \in DOMAIN Inspection} |-> NoPeer]
    /\ is_running = TRUE
    /\ active_ip_counts = [ip \in Ips |-> 0]
    /\ handler = [d \in Dials |-> "none"]
    /\ owner = << >>
    /\ up = [d \in Dials |-> << >>]
    /\ down = [d \in Dials |-> << >>]
    /\ client_open = [d \in Dials |-> FALSE]
    /\ server_open = [d \in Dials |-> FALSE]
    /\ harness = [c \in Clients |-> NewHarness(<<c, 1>>)]
    /\ conn = [c \in Clients |-> 0]
    /\ connected = [c \in Clients |-> FALSE]
    /\ busy = [c \in Clients |-> "no"]
    /\ pending = [c \in Clients |-> NoPeer]
    /\ verdicts = {}
    /\ replies = {}

Ip(d) == IpOf[owner[d]]

-----------------------------------------------------------------------------
(* The client agent.                                                       *)

\* The upward streams once m is written: nothing reaches an end that is closed.
Arriving(d, m) == IF server_open[d] THEN [up EXCEPT ![d] = Append(@, m)] ELSE up

\* connect(): open the connection; perform_handshake then waits for the
\* server's keys.  A connection left over from an earlier attempt is dropped
\* from the agent without being closed.
Dial(c) ==
    LET d == Len(owner) + 1
    IN  /\ busy[c] = "no" /\ ~ connected[c]
        /\ d \in Dials /\ is_running
        /\ owner' = Append(owner, c)
        /\ handler' = [handler EXCEPT ![d] = "accepted"]
        /\ client_open' = [client_open EXCEPT ![d] = TRUE]
        /\ server_open' = [server_open EXCEPT ![d] = TRUE]
        /\ conn' = [conn EXCEPT ![c] = d]
        /\ busy' = [busy EXCEPT ![c] = "connecting"]
        /\ UNCHANGED <<now, server, sandbox, is_running, active_ip_counts, verdicts,
                       up, down, harness, connected, pending, replies>>

\* The server's keys arrive: derive, send the own keys, then check the pin.
\* A wrong pin makes connect() return False with the connection still open.
ClientHandshake(c) ==
    LET d == conn[c]
    IN  /\ busy[c] = "connecting"
        /\ down[d] # << >>
        /\ LET h == CompleteHandshake(harness[c], Head(down[d]), Expected[c])
           IN  /\ harness' = [harness EXCEPT ![c] = h]
               /\ up' = Arriving(d, HandshakeBytes(h))
               /\ connected' = [connected EXCEPT ![c] = Pinned(h, Expected[c])]
        /\ down' = [down EXCEPT ![d] = Tail(@)]
        /\ busy' = [busy EXCEPT ![c] = "no"]
        /\ UNCHANGED <<now, serverVars, owner, client_open, server_open,
                       conn, pending, replies>>

\* The stream ends before the server's keys came: connect() returns False.
ConnectFails(c) ==
    LET d == conn[c]
    IN  /\ busy[c] = "connecting"
        /\ down[d] = << >> /\ ~ server_open[d]
        /\ busy' = [busy EXCEPT ![c] = "no"]
        /\ UNCHANGED <<now, serverVars, netVars, harness, conn, connected, pending, replies>>

\* send_secure_payload() up to the wait for the response.  The agent does
\* not look whether the server's end is still open.
Send(c, kind) ==
    LET d == conn[c]
        h == WrapPayload(harness[c])
        payload == [kind |-> kind, from |-> h.id, num |-> h.seq_counter]
    IN  /\ connected[c] /\ busy[c] = "no"
        /\ harness[c].seq_counter < MaxSends
        /\ harness' = [harness EXCEPT ![c] = h]
        /\ up' = Arriving(d, FrameOf(h, payload, TYPE_DATA, now))
        /\ pending' = [pending EXCEPT ![c] = payload]
        /\ busy' = [busy EXCEPT ![c] = "waiting"]
        /\ UNCHANGED <<now, serverVars, owner, down, client_open, server_open,
                       conn, connected, replies>>

\* The response arrives and runs through the client's own pipeline, whose
\* result is what send_secure_payload() returns.
Receive(c) ==
    LET d == conn[c]
    IN  /\ busy[c] = "waiting"
        /\ down[d] # << >>
        /\ LET f == Head(down[d])
           IN  /\ harness' = [harness EXCEPT ![c] = ProcessFrame(@, f, now)]
               /\ replies' = replies \cup
                     { [ to      |-> pending[c],
                         verdict |-> Verdict(harness[c], f, now),
                         reply   |-> f.payload ] }
        /\ down' = [down EXCEPT ![d] = Tail(@)]
        /\ busy' = [busy EXCEPT ![c] = "no"]
        /\ pending' = [pending EXCEPT ![c] = NoPeer]
        /\ UNCHANGED <<now, serverVars, owner, up, client_open, server_open,
                       conn, connected>>

\* The stream ends instead: the result is None, and connected stays set.
ReceiveFails(c) ==
    LET d == conn[c]
    IN  /\ busy[c] = "waiting"
        /\ down[d] = << >> /\ ~ server_open[d]
        /\ busy' = [busy EXCEPT ![c] = "no"]
        /\ pending' = [pending EXCEPT ![c] = NoPeer]
        /\ UNCHANGED <<now, serverVars, netVars, harness, conn, connected, replies>>

\* The client's end of connection d closes.  What it had not read is gone;
\* what it had written reaches the server, or is lost with a reset.
HangUp(d) ==
    /\ client_open' = [client_open EXCEPT ![d] = FALSE]
    /\ down' = [down EXCEPT ![d] = << >>]
    /\ up' \in {up, [up EXCEPT ![d] = << >>]}

\* close(): the agent keeps its harness and may connect again.
Close(c) ==
    /\ conn[c] # 0
    /\ busy[c] = "no" \/ (busy[c] = "waiting" /\ MayAbort)
    /\ HangUp(conn[c])
    /\ connected' = [connected EXCEPT ![c] = FALSE]
    /\ conn' = [conn EXCEPT ![c] = 0]
    /\ busy' = [busy EXCEPT ![c] = "no"]
    /\ pending' = [pending EXCEPT ![c] = NoPeer]
    /\ UNCHANGED <<now, serverVars, owner, server_open, harness, replies>>

\* A connection the agent no longer refers to is closed some day by the
\* garbage collector, or by the end of the client's process.
DropAbandoned(d) ==
    /\ client_open[d]
    /\ conn[owner[d]] # d
    /\ HangUp(d)
    /\ UNCHANGED <<now, serverVars, owner, server_open, clientVars>>

\* The client's process ends, at any moment, and a new agent starts: new
\* keys, a counter back at zero.
Restart(c) ==
    /\ harness[c].id[2] <= MaxRestarts
    /\ harness' = [harness EXCEPT ![c] = NewHarness(<<c, @.id[2] + 1>>)]
    /\ IF conn[c] # 0 /\ client_open[conn[c]] THEN HangUp(conn[c])
                                              ELSE UNCHANGED <<client_open, down, up>>
    /\ connected' = [connected EXCEPT ![c] = FALSE]
    /\ conn' = [conn EXCEPT ![c] = 0]
    /\ busy' = [busy EXCEPT ![c] = "no"]
    /\ pending' = [pending EXCEPT ![c] = NoPeer]
    /\ UNCHANGED <<now, serverVars, owner, server_open, replies>>

-----------------------------------------------------------------------------
(* The server agent: handle_client, one handler per connection.            *)

Counted(d) == handler[d] \in {"handshaking", "serving", "closing"}

\* The finally block: give the slot back, never below zero.
ReleaseSlot(d) ==
    active_ip_counts' =
        [active_ip_counts EXCEPT ![Ip(d)] = IF @ > 0 THEN @ - 1 ELSE 0]

\* writer.close(): the client will find the end of the stream, and what the
\* server had not read is gone.
ShutDown(d) ==
    /\ server_open' = [server_open EXCEPT ![d] = FALSE]
    /\ up' = [up EXCEPT ![d] = << >>]

\* Faulty variant: the end of the stream left open.
Finish_open(d) ==
    /\ handler' = [handler EXCEPT ![d] = "done"]
    /\ ReleaseSlot(d)
    /\ UNCHANGED <<server_open, up>>

\* The handler ends by way of finally.
Finish(d) ==
    /\ handler' = [handler EXCEPT ![d] = "done"]
    /\ ReleaseSlot(d)
    /\ ShutDown(d)

\* Faulty variant: the refusal inside the try block, so that finally runs.
Refuse_releases(d) ==
    /\ handler[d] = "accepted"
    /\ active_ip_counts[Ip(d)] >= MaxConns
    /\ Finish(d)
    /\ UNCHANGED <<now, server, sandbox, is_running, verdicts,
                   owner, down, client_open, clientVars>>

\* The connection limiter turns the connection away; nothing was counted.
Refuse(d) ==
    /\ handler[d] = "accepted"
    /\ active_ip_counts[Ip(d)] >= MaxConns
    /\ handler' = [handler EXCEPT ![d] = "done"]
    /\ ShutDown(d)
    /\ UNCHANGED <<now, server, sandbox, is_running, active_ip_counts, verdicts,
                   owner, down, client_open, clientVars>>

\* The downward streams once m is written.
Answering(d, m) == IF client_open[d] THEN [down EXCEPT ![d] = Append(@, m)] ELSE down

\* The connection is counted, and perform_handshake sends the server's keys.
Admit(d) ==
    /\ handler[d] = "accepted"
    /\ active_ip_counts[Ip(d)] < MaxConns
    /\ active_ip_counts' = [active_ip_counts EXCEPT ![Ip(d)] = @ + 1]
    /\ handler' = [handler EXCEPT ![d] = "handshaking"]
    /\ down' = Answering(d, HandshakeBytes(server))
    /\ UNCHANGED <<now, server, sandbox, is_running, verdicts,
                   owner, up, client_open, server_open, clientVars>>

\* The client's keys arrive: the one harness of the server now belongs to
\* this peer.  A server stopped in the meantime ends the handler at once.
FinishHandshake(d) ==
    /\ handler[d] = "handshaking"
    /\ up[d] # << >>
    /\ server' = CompleteHandshake(server, Head(up[d]), NoPeer)
    /\ IF is_running
       THEN /\ handler' = [handler EXCEPT ![d] = "serving"]
            /\ up' = [up EXCEPT ![d] = Tail(@)]
            /\ UNCHANGED <<active_ip_counts, server_open>>
       ELSE Finish(d)
    /\ UNCHANGED <<now, sandbox, is_running, verdicts, owner, down, client_open, clientVars>>

\* Faulty variant: no time-out, only the end of the stream ends the wait.
GiveUpHandshake_patient(d) ==
    /\ handler[d] = "handshaking"
    /\ up[d] = << >> /\ ~ client_open[d]
    /\ handler' = [handler EXCEPT ![d] = "closing"]
    /\ ShutDown(d)
    /\ UNCHANGED <<now, server, sandbox, is_running, active_ip_counts, verdicts,
                   owner, down, client_open, clientVars>>

\* The five seconds are over, or the stream ended before the keys came: the
\* handler closes its end and waits for that, still holding its slot.
GiveUpHandshake(d) ==
    /\ handler[d] = "handshaking"
    /\ handler' = [handler EXCEPT ![d] = "closing"]
    /\ ShutDown(d)
    /\ UNCHANGED <<now, server, sandbox, is_running, active_ip_counts, verdicts,
                   owner, down, client_open, clientVars>>

FinishClosing(d) ==
    /\ handler[d] = "closing"
    /\ Finish(d)
    /\ UNCHANGED <<now, server, sandbox, is_running, verdicts,
                   owner, down, client_open, clientVars>>

\* Faulty variant: a quarantined payload acknowledged like an accepted one.
Response_lenient(verdict, payload) ==
    [ kind  |-> IF verdict \in {"accepted"} \cup DOMAIN Inspection THEN "ack" ELSE "nack",
      about |-> payload ]

\* What the server answers to a payload.
Response(verdict, payload) ==
    [ kind  |-> IF verdict = "accepted" THEN "ack" ELSE "nack",
      about |-> payload ]

\* Faulty variants: a refusal sealed without being counted; no refusal sent.
Serve_uncounted(d) ==
    /\ handler[d] = "serving"
    /\ up[d] # << >>
    /\ LET f       == Head(up[d])
           verdict == Verdict(server, f, now)
           after   == IF verdict = "accepted" THEN WrapPayload(ProcessFrame(server, f, now))
                                              ELSE ProcessFrame(server, f, now)
       IN  /\ server' = after
           /\ sandbox' = Quarantine(sandbox, server, f, now)
           /\ down' = Answering(d, FrameOf(after, Response(verdict, f.payload), TYPE_DATA, now))
           /\ verdicts' = verdicts \cup
                 { [payload |-> f.payload, verdict |-> verdict,
                    served |-> server.seq_counter + 1] }
    /\ up' = [up EXCEPT ![d] = Tail(@)]
    /\ UNCHANGED <<now, handler, active_ip_counts, is_running, owner, client_open,
                   server_open, clientVars>>

Serve_silent(d) ==
    /\ handler[d] = "serving"
    /\ up[d] # << >>
    /\ LET f       == Head(up[d])
           verdict == Verdict(server, f, now)
           after   == WrapPayload(ProcessFrame(server, f, now))
       IN  /\ server' = after
           /\ sandbox' = Quarantine(sandbox, server, f, now)
           /\ down' = IF verdict = "accepted"
                      THEN Answering(d, FrameOf(after, Response(verdict, f.payload), TYPE_DATA, now))
                      ELSE down
           /\ verdicts' = verdicts \cup
                 { [payload |-> f.payload, verdict |-> verdict, served |-> after.seq_counter] }
    /\ up' = [up EXCEPT ![d] = Tail(@)]
    /\ UNCHANGED <<now, handler, active_ip_counts, is_running, owner, client_open,
                   server_open, clientVars>>

\* One round of the reading loop: a frame runs through the pipeline, the
\* verdict is answered, and the loop looks at is_running again.
Serve(d) ==
    /\ handler[d] = "serving"
    /\ up[d] # << >>
    /\ LET f       == Head(up[d])
           verdict == Verdict(server, f, now)
           after   == WrapPayload(ProcessFrame(server, f, now))
       IN  /\ server' = after
           /\ sandbox' = Quarantine(sandbox, server, f, now)
           /\ down' = Answering(d, FrameOf(after, Response(verdict, f.payload), TYPE_DATA, now))
           /\ verdicts' = verdicts \cup
                 { [payload |-> f.payload, verdict |-> verdict, served |-> after.seq_counter] }
    /\ IF is_running
       THEN /\ up' = [up EXCEPT ![d] = Tail(@)]
            /\ UNCHANGED <<handler, active_ip_counts, server_open>>
       ELSE Finish(d)
    /\ UNCHANGED <<now, is_running, owner, client_open, clientVars>>

\* Faulty variant: the end of the stream is noticed only once stopped.
Disconnected_late(d) ==
    /\ handler[d] = "serving"
    /\ up[d] = << >> /\ ~ client_open[d] /\ ~ is_running
    /\ Finish(d)
    /\ UNCHANGED <<now, server, sandbox, is_running, verdicts,
                   owner, down, client_open, clientVars>>

\* The stream ends while the loop waits for a header.
Disconnected(d) ==
    /\ handler[d] = "serving"
    /\ up[d] = << >> /\ ~ client_open[d]
    /\ Finish(d)
    /\ UNCHANGED <<now, server, sandbox, is_running, verdicts,
                   owner, down, client_open, clientVars>>

\* stop(): no new connections; the handlers notice it after their next frame.
Stop ==
    /\ MayStop /\ is_running
    /\ is_running' = FALSE
    /\ UNCHANGED <<now, server, sandbox, active_ip_counts, handler, verdicts,
                   netVars, clientVars>>

Tick ==
    /\ now < MaxTime
    /\ now' = now + 1
    /\ UNCHANGED <<serverVars, netVars, clientVars>>

HandlerStep(d) ==
    \/ Refuse(d) \/ Admit(d)
    \/ FinishHandshake(d) \/ GiveUpHandshake(d) \/ FinishClosing(d)
    \/ Serve(d) \/ Disconnected(d)

ClientWakes(c) ==
    ClientHandshake(c) \/ ConnectFails(c) \/ Receive(c) \/ ReceiveFails(c)

Next ==
    \/ Tick
    \/ Stop
    \/ \E c \in Clients :
          \/ Dial(c) \/ ClientWakes(c) \/ Close(c) \/ Restart(c)
          \/ \E kind \in Kinds : Send(c, kind)
    \/ \E d \in DOMAIN owner : HandlerStep(d) \/ DropAbandoned(d)

Spec == Init /\ [][Next]_vars

\* The server's event loop runs what is ready: a handler whose data, end of
\* stream or time-out has come is resumed.  The client's does likewise.
\* Nothing obliges a client to dial, send, close or be started again.
ServerFairness == \A d \in Dials : WF_vars(d \in DOMAIN owner /\ HandlerStep(d))
ClientFairness == \A c \in Clients : WF_vars(ClientWakes(c))

FairSpec == Spec /\ ServerFairness

-----------------------------------------------------------------------------
(* Types.                                                                  *)

Ids == {<<Server, 0>>} \cup (Clients \X (1 .. MaxRestarts + 1))

HarnessOK(h) ==
    /\ h.id \in Ids
    /\ h.seq_counter \in Nat
    /\ h.session_key.secret \subseteq Ids /\ h.session_key.ratchet \in Nat
    /\ h.peer_signing_pubkey \in Ids \cup {NoPeer}
    /\ h.peer_connected \in BOOLEAN
    /\ h.packets_received \in Nat /\ h.packets_blocked \in Nat

TypeOK ==
    /\ now \in Time
    /\ HarnessOK(server) /\ \A c \in Clients : HarnessOK(harness[c])
    /\ is_running \in BOOLEAN
    /\ active_ip_counts \in [Ips -> Nat]
    /\ handler \in [Dials -> {"none", "accepted", "handshaking", "serving", "closing", "done"}]
    /\ owner \in Seq(Clients)
    /\ client_open \in [Dials -> BOOLEAN] /\ server_open \in [Dials -> BOOLEAN]
    /\ conn \in [Clients -> Dials \cup {0}]
    /\ connected \in [Clients -> BOOLEAN]
    /\ busy \in [Clients -> {"no", "connecting", "waiting"}]

-----------------------------------------------------------------------------
(* Safety.                                                                 *)

Custody == Range(server.chain)

\* The connection limiter: what is counted against an address is exactly the
\* handlers that hold one of its slots, and never more than the cap, through
\* time-outs, failed handshakes, lost clients and a stop.
SlotsMatchHandlers ==
    \A ip \in Ips :
        /\ active_ip_counts[ip] =
              Cardinality({d \in DOMAIN owner : Ip(d) = ip /\ Counted(d)})
        /\ active_ip_counts[ip] <= MaxConns

\* A response the client could authenticate is the response to the very
\* payload it had sent, and says of it what the chain of custody says.  The
\* "accepted" that run.py:32 prints as the result of the transmission is about
\* the response: it is the kind of the reply that tells of the payload.
ReplyTellsTheTruth ==
    \A r \in replies : r.verdict = "accepted" =>
        /\ r.reply.about = r.to
        /\ r.reply.kind = "ack" <=> r.to \in Custody

\* Each payload enters the chain of custody at most once, and the payloads
\* of one client enter it in the order they were sent, over all of its
\* connections: only one whose caller closed without waiting may be late.
CustodyInOrder ==
    \A i, j \in DOMAIN server.chain :
        /\ i < j /\ server.chain[i].from = server.chain[j].from
        /\ server.chain[i].num >= server.chain[j].num
        => /\ server.chain[i] # server.chain[j]
           /\ \A r \in replies : r.to # server.chain[j]

\* The traffic counters and the chain of custody tell the same story on
\* every harness: what was received and not blocked is in the chain.
CustodyMatchesTraffic ==
    \A h \in {server} \cup {harness[c] : c \in Clients} :
        h.packets_received - h.packets_blocked = Len(h.chain)

\* A quarantine file holds the latest payload refused for its reason, so
\* that the file and the incident log never disagree about it.
QuarantineHoldsLatest ==
    \A kind \in DOMAIN Inspection :
        LET refused == {v \in verdicts : v.verdict = kind}
        IN  sandbox[Inspection[kind]] =
                IF refused = {} THEN NoPeer
                ELSE (CHOOSE v \in refused : \A w \in refused : w.served <= v.served).payload

\* Neither the age of a frame nor a flood lets its receiver h refuse it now.
InTime(h, f) == ~ Drifted(f, now) /\ ~ Flooded(h.anti_interference, now)

\* On one connection the price of the receiver never ratcheting on its own is
\* one frame per interval: a clean payload whose number triggers a rekey is
\* refused, always, and no other is refused for its key (test_harness.py:21
\* expects every clean payload to be accepted).  Even so the response can be
\* read: the server's own counter ratchets its key at the same number, just
\* in time to seal the refusal.  The engine on either side may interfere, but
\* for age or a flood only, and what it refuses puts the keys out of step no
\* more than what it lets through.
RekeyFramesLost ==
    /\ \A v \in verdicts : v.payload.kind = "clean" =>
          IF v.payload.num % RekeyInterval = 0 THEN v.verdict \in {"hmac", "interference"}
                                               ELSE v.verdict \in {"accepted", "interference"}
    /\ \A r \in replies : r.verdict \in {"accepted", "interference"}
    /\ \A d \in Dials :
          handler[d] = "serving" /\ up[d] # << >> /\ InTime(server, Head(up[d])) =>
             Passed(server.anti_interference, Head(up[d]), now)
    /\ \A c \in Clients :
          LET d == conn[c]
          IN  busy[c] = "waiting" /\ down[d] # << >> /\ InTime(harness[c], Head(down[d])) =>
                 Passed(harness[c].anti_interference, Head(down[d]), now)

\* Neither of the client's two waits has a time-out, so what it waits for must
\* exist at every moment: the server's keys or a handler that has yet to send
\* them, the response or the request in front of a handler that will read it,
\* or the end of the stream.  Client and server never wait for each other.
NobodyWaitsInVain ==
    \A c \in Clients :
        LET d == conn[c]
        IN  /\ busy[c] = "connecting" =>
                  down[d] # << >> \/ ~ server_open[d] \/ handler[d] = "accepted"
            /\ busy[c] = "waiting" =>
                  down[d] # << >> \/ ~ server_open[d] \/ (up[d] # << >> /\ Counted(d))

-----------------------------------------------------------------------------
(* Liveness.                                                               *)

\* connect() and send_secure_payload() return, although neither has a
\* time-out of its own, provided the client's event loop runs as well.
CallsReturn ==
    ClientFairness => \A c \in Clients : busy[c] # "no" ~> busy[c] = "no"

\* A slot of the connection limiter comes back once its client is gone.
SlotsComeBack ==
    \A d \in Dials :
        (d \in DOMAIN owner /\ ~ client_open[d]) ~> handler[d] = "done"

\* No handshake is waited for for ever, even of a client that stays silent.
HandshakesEnd == \A d \in Dials : handler[d] = "handshaking" ~> handler[d] # "handshaking"

-----------------------------------------------------------------------------
(* A claim of the repository that the code does not keep.                  *)

\* test_harness.py:20-21 expects a clean payload to be accepted.
CleanPayloadAccepted ==
    \A v \in verdicts : v.payload.kind = "clean" => v.verdict = "accepted"
=============================================================================
