# Formal models of the SecureHarness tunnel

TLA+ modules, TLC configurations and TLAPS proofs for the program in `src/`.
References such as `tunnel.py:121` are to files under `src/` (`core/`,
`security/`, `agents/`, ... left out where the file name is unique). The claims
quoted from the repository's own `README.md` are in `src/README.md`.

    tlasany M.tla                             # parse
    tlc -workers 2 -config X.cfg MCM          # model-check
    tlapm ReplayWindowProofs.tla              # check the proofs

`PROJECT.json` lists every run with its configuration, and maps every
definition to the lines it models.

## 1. The system

| Component | State it keeps | Operations | Works with |
|---|---|---|---|
| Anti-interference engine (`anti_interference.py`) | highest number, seen numbers, seen tags, arrival times, closed flag, gap counter | `verify_packet` | called by the harness for each arriving frame |
| Secure tunnel harness (`tunnel.py`) | frame counter, peer key, peer flag, one of every engine below | `perform_handshake`, `wrap_payload`, `process_incoming_frame` | used by both agents, the adapter and the dashboard |
| Crypto engine (`crypto.py`) | session key, rekey counter, signing key | derive, rekey, seal, open, HMAC, sign | the harness |
| Wire protocol (`protocol.py`) | none | build and parse the 60-byte header | the harness and both agents |
| Server agent (`server_agent.py`) | **one** harness, connections per address, running flag | `handle_client` per connection, `start`, `stop` | TCP, one event loop |
| Client agent (`client_agent.py`) | a harness, reader and writer, connected flag | `connect`, `send_secure_payload`, `close` | TCP |
| Anti-tamper (`anti_tamper.py`) | chain head and length; file baseline | extend the chain; record and check the baseline | the harness; the dashboard |
| Sandbox (`sandbox.py`) | files of one directory | quarantine a payload, run a command, clean up | the harness |
| Telemetry (`dynamic_tracer.py`, `engine.py`) | counters and event log, one per process | record, log, snapshot | everything; shared by two threads under `run.py` |
| Anti-bug, antivirus, static analyzer | none between calls | inspect a payload | the harness |
| Padding (`anti_traffic_analysis.py`) | none | pad, strip | the harness |
| Media adapter (`media_adapter.py`) | a harness | pack and unpack chat, e-mail, file, armor | the dashboard |
| Dashboard (`dashboard/`) | the set of web sockets, one adapter | HTTP endpoints, a broadcast each second | telemetry, adapter, fresh harnesses |
| Launcher, settings (`run.py`, `settings.py`) | none | start the parts | all |

How they interact: a client dials the server; the two sides exchange 64 bytes of
keys and derive a session key; from then on the client sends one frame and waits
for one response. Every frame in either direction runs through
`process_incoming_frame` of the receiver. The server runs one coroutine per
connection, all of them on the same harness, the same engine, the same session
key and the same quarantine files.

What is hard, and what makes each part correct:

* *Engine.* Loss, repetition and reordering meet two memories trimmed at
  different moments. Correct means: a frame passes at most as often as its place
  in the window allows, memory is bounded, losses are noticed, and no frame is
  refused for what the engine remembers of others.
* *Harness.* The order of the stages matters: an early stage commits what a
  later one refuses. Keys ratchet on sending only. Correct means: what is
  accepted was sent, and counters, chain and quarantine tell one story.
* *Server agent.* Interleaved handlers, time-outs, six ways out of a handler.
  Correct means: the limiter's count is exact and slots come back.
* *Client agent.* Waits without time-outs. Correct means: calls return, and what
  they return is about the payload that was sent.
* *Adapter and dashboard.* One adapter seals for as long as the process lives, a
  fresh one opens each text, and every adapter uses the same default key.
  Correct means: what this process sealed opens every time, nothing else opens,
  and the process's counters add up over harnesses that are gone.
* *Telemetry and feed.* Two threads write the counters and the log that a third
  of the program shows, and connections come and go in the midst of a broadcast.
  Correct means: the log holds the latest events, counters and events shown
  together fit together and never go back, and who stays connected keeps
  receiving.
* *Sandbox and file baseline.* Commands run while checks compare file by file, and
  leave processes behind. Correct means: a check names what differs and nothing
  that was left alone, a finished call leaves nothing that could still write to
  its output, and a command cannot hold the caller beyond its time-out.
* *Padding and inspections.* Boundaries: stripping undoes padding, the limits
  mean what the settings say, and nothing added to a refused payload lets it pass.

The hazards, each at its line with the properties that would catch it, are in
`PROJECT.json`.

## 2. The modules

    BoundedDelivery            what a sliding-window receiver promises (abstract)
          ^ implemented by
    AntiInterference  <----  ReplayWindow          engine and medium
          ^
          |                  Inspections           what is made of the findings
          |                       |
       Harness        <----  HarnessLink           two harnesses, a damaging medium
          ^
          +------------  TunnelAgents          clients, server, TCP
          |
          +------------  MediaExchange         adapters, the dashboard's requests

    FrameChannel               what a connection promises its readers (abstract)
          ^ implemented by
    WireFormat        <----  FrameStream           readers of one byte stream

    Tracer            <----  WebSocketFeed         threads, broadcast, web sockets

    Integrity, Sandbox <---  Workspace             checks and commands on one disk

Proofs are in `ReplayWindowProofs`, `HarnessLinkProofs`, `TunnelAgentsProofs`,
`MediaExchangeProofs`, `FrameStreamProofs`, `WebSocketFeedProofs` and
`WorkspaceProofs`, each about the module it is named after; `PipelineProofs` holds
what those about harnesses share, and the theorems about the inspections.

Modules named `MC...` give TLC the constants a configuration cannot write.
Operators with a suffix such as `OutOfWindow_wide` or `Serve_silent` stand next
to the definition they vary and are never used by the specifications: each is
that definition with one plausible mistake, and putting it in the definition's
place makes the property it was written for fail. They show that every property
is sensitive to the code it is about.

**AntiInterference** translates `verify_packet` into operators on a record. The
checks (`Drifted`, `Replayed`, `OutOfWindow`, `DuplicateTag`, `Flooded`) are the
entries of `interferences` that stop a packet; `MissingCount` is the gap, which
does not. In the code the commit (line 97) asks that there be no interference
but a gap, and `passed` (line 112) that there be no fatal one. These are the
same condition, `Passed`, since a call appends at most one gap. `Observe` is what
happens for every packet, refused or not: the gap counter, the arrival history
and the closed flag. `Commit` is what happens for one that passes, both trims
included. Time is discrete, and the list of arrival times is kept as the number
of arrivals at each instant, which is all the code takes from it. A packet whose
close type closes the session is itself judged by the flag as it was.

**ReplayWindow** puts one engine behind a medium that may lose, repeat, delay
and reorder frames: the set of all frames sent, any of which may arrive at any
moment any number of times. The sender counts from 1 and stamps with its own
clock, off by at most `MaxSkew`. Tags are unique per frame, since the HMAC is
over the number and a ciphertext with a random nonce. Three history variables
(`passes`, `pass_times`, `first_seq`) record what was let through.

**BoundedDelivery** is the abstract promise: only issued frames are handed up,
none from behind the window, each once, except that the frame exactly
`WindowSize` behind the front may be handed up twice. `ReplayWindow!Promise`
is the refinement mapping (issued = the sender's counter, front =
`last_seq_num`, copies = `passes`).

**Harness** is `SecureTunnelHarness` as operators on a record. A session key is
the pair of identities whose key pairs were combined, and the number of rekeys
since; two sides read each other exactly when both agree. `Verdict` is the first
stage of `process_incoming_frame` that objects, in the code's order;
`ProcessFrame` is the harness afterwards and `Quarantine` the sandbox. The
content scanners are reduced to the *kind* of a payload: which of them, if any,
is the first to object, the `Objection` of Inspections. The chain's head hashes all payloads in order, so the
sequence of payloads stands for it. The traffic counters belong to the process,
and each agent is taken to have a process of its own, as with `--mode server`
and `--mode client`.

**Inspections** is the three inspections of a decrypted payload, as functions of
what their patterns find in it (`Findings`): the content check, the scanner's
detections and severity, and the analyzer's covert channels, score and level.
Entropy is counted in ten-thousandths, the precision the code rounds to.

**HarnessLink** sends frames one way between two harnesses that share a key, over
a medium that also damages them: the magic, version or length (`unparsable`,
`misshapen`), the parts under the HMAC, or the message type. The payloads are given by what the inspections find in them. This is what the
tests do with the harness; the agents run over TCP instead.

**TunnelAgents** is clients and server over TCP. Each action is what a coroutine
does between two awaits that can wait:

| Action | Code |
|---|---|
| `Dial`, `ClientHandshake`, `ConnectFails` | `connect` with `perform_handshake`, client side |
| `Send`, `Receive`, `ReceiveFails` | `send_secure_payload` up to and from its wait |
| `Close`, `DropAbandoned`, `Restart` | `close`, a collected connection, a new client process |
| `Refuse`, `Admit` | the limiter, the count and the first half of the handshake |
| `FinishHandshake`, `GiveUpHandshake`, `FinishClosing` | the second half, the time-out or failure, the wait for the close |
| `Serve`, `Disconnected` | one round of the loop; the end of the stream |
| `Stop` | `stop` |

A connection is two FIFO streams read a message at a time. Closing an end loses
what it had not read, and may lose what it had written (a reset).

**MediaExchange** is parties with an adapter each, one of them the dashboard.
`Pack` is every packing method (the forms differ in wording), `Unpack` every
unpacking one; `ArmorDecrypt`, `Simulate`, `SimulateReplay` are the dashboard's
requests, each with a harness made for it and forgotten after it but for the
process's counters (`ForRequest`, `AfterRequest`). `Pasted` is what anybody may
paste: a text as packed, altered under the HMAC, cut short, or misspelt beyond
parsing (or beyond base 64, which ends the request the same way). A handler has
no await, so a request is one action. `Restart` is a new dashboard process,
whose users still hold the old one's texts.

**WireFormat** is the sizes on the wire and the padding, as functions on numbers
and sequences of bytes. **FrameStream** is the reading half of
`send_secure_payload`: tasks of one agent that read frames from one
`StreamReader`, byte positions and all. An action is what a task does from one
wait to the next; a call has at most three (`Begin` up to the drain, `Read` up to
the first wait, `Resume` after it). The reader's one buffer and its one
`_waiter` are asyncio's: a second task that would have to wait gets a
`RuntimeError` while the first is registered, but between the arrival of data
and the first task's turn nobody is registered. Bytes come in any pieces, and
the stream may end or break anywhere. **FrameChannel** is the abstract promise.

**Tracer** is the one `DynamicTracer` of a process under several threads. CPython
hands over between threads at calls and at backward jumps, so `record_traffic`,
which makes no call, is one step, and `log_event` three: append, `len`, pop. (On
CPython before 3.10 a thread may also be left between the load and the store of
`+=`; that is not modelled.) **WebSocketFeed** adds the dashboard's event loop: one
endpoint task per web socket, and the broadcast, whose iterator over the set of
connections lives across the awaits of the sends. Python's set iterator raises
when the size differs from the one it was made with, and otherwise goes on over
the set as it is (`Register`, `Disconnect`, `RoundCutShort`). The counters here are
those Harness has too; there they serve custody, here what a snapshot shows.

**Integrity** is the file check of `AntiTamperEngine`, one file at a time,
**Sandbox** is `run_isolated_command` with its child and the processes the child
leaves (heirs, which hold the pipes or are detached). Starting the command may fail
(`RunFails`), and so may waiting for it, killing it and the second wait
(`CommunicateFails`): such a call ends with its child as it is, and to later calls
that child is one more detached process. **Workspace** puts both on
one disk: commands write anywhere, the harness writes refused payloads, and
`cleanup_sandbox` removes what it listed. In the code nobody calls
`cleanup_sandbox`, and only tests call `run_isolated_command`; they are modelled as
what a caller may do.

Choices a reader should know:

* Draining a writer does not block: a response fits any socket buffer.
* The five-second time-out may fire at any moment of the wait.
* The server's responses pass the client's content inspection. The texts the
  code can produce as ACK and NACK were run through the three scanners.
* `connect` is called only when the agent is not connected, as in `run.py`; a
  failed attempt may be followed by another.
* In TunnelAgents a client makes one call at a time; calls that overlap are in
  FrameStream. `close` may come while a call waits
  (`MayAbort`).
* The wall clock does not step back.
* Failures of decryption cannot follow a right HMAC, both being under one key;
  the stage is in `Verdict` all the same. Padding removal undoes padding
  (theorem `PaddingComesOff`) and is left out, as is the check for a frame too
  short for a signature.
* A header parses only where one was written: elsewhere the four bytes of the
  magic would have to be right by chance.
* The telemetry singleton exists before any thread starts (`dashboard/server.py:133`
  makes a harness at import), so its creation cannot race.

## 3. What the passing runs show

| Run | Question | Bounds |
|---|---|---|
| `window` | How often can a frame pass, what is remembered, is loss noticed, does the rate cap hold, is a frame ever refused for nothing, is `BoundedDelivery` implemented? | window 1, 3 frames, 3 instants, 4 arrivals each, cap 3, skew 1 |
| `agents` | Is the limiter's count exact, does anybody wait for what is not there; do handshakes end, slots come back, calls return? | 2 clients of one address, one with a wrong pin, 3 connections, one slot, one payload each, clean or infected, a stop, aborts |
| `custody` | Do the answer, the chain, the counters and the quarantine agree? | 2 clients, 3 connections, 2 payloads each, clean or infected, rekey at 3 |
| `session` | What does one session lose to rekeys, also when the engines interfere? | 1 connection, 7 payloads, rekey at every second, cap 3, age limit 0, 4 instants, right pin, stop, restart |
| `media` | Does what the dashboard seals open, does nothing else, do the counters add up? | the dashboard and a peer; 3 and 1 texts, rekey at 3, 2 frames received, 2 instants, 1 restart |
| `damage` | What can damage on the way achieve; how often can a frame enter the chain when damaged numbers move the window? | 2 frames of 2 payloads, 7 arrivals, rekey at 2, cap 6 |
| `feed` | Do log, counters and snapshots agree under two threads, and who keeps receiving? | 2 threads, 2 web sockets, buffer 2, 1 recent event, 3 frames and events |
| `stream` | Do calls get their responses, whatever way the bytes come? | 2 tasks, 3 requests, responses of 2 lengths, header 2, block 5 |
| `workspace` | What does a check report, what does a call leave behind, who can hold the caller? | 2 files, one in the sandbox, 2 contents |

Why the bounds are enough: a trim needs more than `2 * WindowSize` remembered
numbers, and a repeat one more frame; three frames with a window of 1 and four
arrivals at an instant reach both trims, both moments at which a number can be
forgotten, and second copies of late frames; a fourth arrival exceeds the cap.
The proofs (section 5) then cover every window and every number of frames. Three connections are the least at
which one client reconnects while another is served, and one slot makes every
further connection a refusal. In `session` seven frames at
interval 2 pass three rekeys in both directions; more than the cap of 3 can arrive in
one second, on either side, or be spread over several; with an age limit of 0 a
second on the way makes a frame too old; and frames after a refused one still pass. In `media` two frames received are the least at which one text is
opened twice, or one before and one after a simulation or a restart; the
dashboard's third text is the one at the rekey. The two payloads of `damage` are
one a step short of every limit of the inspections, and one with a single covert
channel. In `damage` four
arrivals suffice for a frame to enter the chain twice: as it is; the other
with a lower number; the other with another tag, whose commit trims both memories; and as
it is again. Seven leave room for a second trim and for the flood. In `feed` two sockets are the least at which one comes while
another goes and the set keeps its size, three events with a buffer of two pop,
and two threads are those the program has. In `stream` a header is two bytes so
that it can come in two pieces; two lengths of data give responses of one and
two blocks; three requests are two that overlap and one before or after. In
`workspace` one watched and one ignored file suffice, as files are visited
independently. `MaxPacketsPerSec` is small where floods matter (`window`, `session`, `damage`)
and large where they would only hide the rest.

`CHECK_DEADLOCK FALSE` is set everywhere but in `workspace`, where somebody can
always change a file: with the bounds on frames, arrivals
and connections used up, and also in the real system with all clients gone,
nothing more need happen.

The properties:

* `MemoryBounded`: neither memory exceeds twice the window.
* `AtMostTwice`: no frame passes three times. `BoundedDeliverySpec` says when it may
  pass a second time: only exactly `WindowSize` behind the front.
* `GapsAccountedFor`: each number skipped between the first frame let through
  and the highest has been counted as a gap. The counter may be too high
  (refused frames raise it as well), never too low.
* `IInv`: the inductive invariant of the proofs.
* `AcceptRateBounded`: never more than the cap is let through in a second.
* `NoFalseAlarm`: a frame that never passed is refused only for its own stamp or
  place, a closed session or a flood.
* `SlotsMatchHandlers`: the count of an address is the number of handlers
  holding one of its slots, at most the cap.
* `NobodyWaitsInVain`: the client's waits have no time-out, so at every moment of one
  the server's keys or its response are there, or a handler that is going to write
  them and has all it reads first, or the end of the stream. No path of the
  handler leaves client and server waiting for each other.
* `ReplyTellsTheTruth`: a response the client can authenticate is the response
  to the payload it sent, and says ACK exactly when that payload is in custody.
  It holds although handshakes of other clients replace the server's key at any
  moment: the client then cannot authenticate the response.
* `CustodyInOrder`: no payload enters the chain twice, and those of one client
  enter in order; only one whose caller closed without waiting may be late.
* `CustodyMatchesTraffic`: received minus blocked is the length of the chain, on
  every harness, after damage, floods, refusals and rekeys.
* `QuarantineHoldsLatest`: each quarantine file holds the latest payload refused
  for its reason.
* `RekeyFramesLost`: on one connection a clean payload at a multiple of the interval is
  always refused, by its HMAC or before it by the engine, and no other is refused but
  by the engine; the refusal can be read, because the server's own counter ratchets
  its key at the same number. The engine on either side refuses for age or a flood
  only, and what it refuses does not bring the keys out of step. With a second connection this fails: a handshake of an abandoned
  connection that completes late resets the ratchet. The run has one connection.
* `AcceptedAsSent`, `AcceptedUnderFirstKey`: whatever the damage, what is
  accepted under a number was sent under it, and a receiver that never sends
  accepts nothing from the sender's first rekey on.
* `AcceptedAtMostTwice`: nor does a frame enter the chain of custody a third time, although
  the engine commits numbers of frames that the HMAC refuses after it.
* `ArmorOpens`: a clean text this dashboard process sealed before its first
  rekey opens while fresh, every time and in any order.
* `ArmorAuthentic`: what opens is the payload that was packed, by the adapter whose
  key is bound, of this run of the process, although all seal under one default
  key. (The message type may have been changed; see `mutation`.)
* `CountersMatchVerdicts`: received minus blocked is the number of frames
  accepted by the process, over all its harnesses.
* `LogHoldsLatest`: the log is the latest events without a hole. It is longer than
  its buffer by at most the threads inside `log_event`; and since threads that see
  it too long at once each pop, it may be shorter, by all threads but one.
* `SnapshotBacked`: what a snapshot counts, its events (or older ones) report, but
  for one frame of each other thread.
* `ViewMovesForward`: neither counters nor latest event go back between snapshots.
* `InStep`: if calls never overlapped, each got the response to its own request
  and left nothing in the buffer.
* `ChannelSpec`: even with overlap, calls are given whole frames, each once, in
  order; frames are passed over only if calls overlapped.
* `ReportsWhatChanged`: a check that is over names exactly the recorded files that
  differ, but for those changed in its midst, and never one left alone since the
  engine was made. What was changed before a request made its engine it cannot see.
* `CommandOver`: a call that says how its command ended, or that its time was out, leaves
  no child running and nobody who holds its pipes; success means the command ended well
  by itself, failure that it ended badly, and one that was killed is never reported as
  anything but timed out. Only a call that ends with an error or an exception may leave
  its child running (section 7).
* `SlotsComeBack`, `HandshakesEnd`, `CallsReturn`, `LiveKeepReceiving`,
  `RunReturns`: see section 4.

## 4. Fairness

`FairSpec` asks weak fairness of each handler of the server, and nothing of the
clients: an asyncio loop resumes every coroutine whose data, end of stream or
timer has come. The time-out of the handshake is one of the handler's steps, so
a silent client does not hold it for ever. `CallsReturn` is about the client's
own calls, so it adds the same assumption on the client's event loop
(`ClientFairness`) as its premise. Nothing is asked of dialling,
sending, closing, restarting, stopping or collecting a dropped connection: those
are choices of the user or of the runtime. Accordingly `SlotsComeBack` speaks of
connections whose client is gone; a silent client that stays connected after
its handshake keeps its slot, for the serving loop has no time-out.

`stream`: the event loop runs tasks that are ready, the server answers, and what was
written arrives, unless the stream ends. `CallsReturn` there is about calls that do not
overlap. Those that do may wait for ever, even after the end of the stream: a
task that resumes clears the `_waiter` of another one registered meanwhile.

`feed`: weak fairness of the broadcast and of the dashboard's own `log_event`;
strong fairness of the endpoint tasks, because asyncio runs every ready callback in each
pass, while an endpoint's step is disabled as long as a request of the same loop is
inside a call. No other thread is assumed to run, and browsers do as they like. A send
ends: the browser reads, or the ping is not answered and the connection closes.
`LiveKeepReceiving` says that who stays connected is sent to again and again
although rounds are cut short. It depends on there being finitely many web
sockets: were some to come or go in every round, one could be missed every time.

`workspace`: the caller's thread and its clock run; nothing is assumed of commands.
`RunReturns` is therefore: the call returns, or from some moment on somebody holds
the pipes for ever.

## 5. What is proved

Each proof module proves its theorems for every value of the constants, under the named
assumptions of the module it extends: sizes are natural numbers, the window, the
interval and the block are at least one, bounds are natural numbers, sets of
clients or threads are related as the comments say. `TracerAssumption` asks that the
buffer have room for an event of each thread (500 and 2 in the program),
`BudgetAssumption` that the cap on packets a second be at least one (250), without which
nothing would open. `RekeyLosesExactly` alone has a hypothesis that is not about the
program but about the occasion: `MaxDials = 1`, one connection. The session may have any
length, and the interval, the cap, the window and the age limit any value, among them the
program's interval and window of 1000, cap of 250 and 30 seconds; floods and late frames may occur.
The theorems:

| Module | Theorem | Statement |
|---|---|---|
| `ReplayWindowProofs` | `TypeCorrect` | `Spec => []TypeOK` |
| | `WindowMemory` | `Spec => []IInv` |
| | `MemoryIsBounded` | `Spec => []MemoryBounded` |
| | `AtMostTwiceHolds` | `Spec => []AtMostTwice` |
| | `RepeatsOnlyAtEdge` | `Spec => RepeatOnlyAtWindowEdge` |
| | `NoFalseAlarms` | `Spec => NoFalseAlarm` |
| | `GapsAreAccountedFor` | `Spec => []GapsAccountedFor` |
| | `BudgetInvariant`, `RateIsBounded` | `PassagesOnBudget` and `AcceptRateBounded` always |
| | `ImplementsBoundedDelivery` | `Spec => BoundedDeliverySpec` |
| `PipelineProofs` | `PolicyFollowsLevel` | blocked by the policy iff HIGH or CRITICAL |
| | `WhatIsBlocked` | one covert channel, three calls, or four addresses and links |
| | `MoreNeverClears` | further findings never let a refused payload through, but for one |
| | `SeverityTells` | LOW incidents are the cleared payloads |
| `HarnessLinkProofs` | `LinkInvariant` | `Spec => []LinkInv` |
| | `LinkTypes`, `OnlySentAccepted`, `NothingAfterRekey`, `CountersTellCustody` | `TypeOK`, `AcceptedAsSent`, `AcceptedUnderFirstKey`, `CustodyMatchesTraffic` always |
| | `CustodyAtMostTwice` | `AcceptedAtMostTwice` always |
| `TunnelAgentsProofs` | `SlotsInvariant`, `HarnessesInvariant`, `QuarantineInvariant` | the inductive invariants |
| | `LimiterIsExact`, `CountersTellCustody`, `QuarantineIsLatest` | `SlotsMatchHandlers`, `CustodyMatchesTraffic`, `QuarantineHoldsLatest` always |
| | `CustodyInvariant` | `Spec => []CustodyInv` |
| | `RepliesAreTrue`, `CustodyKeepsOrder`, `AgentsTyped` | `ReplyTellsTheTruth`, `CustodyInOrder`, `TypeOK` always |
| | `WaitsInvariant`, `NoVainWait` | `WaitsInv`, `NobodyWaitsInVain` always |
| | `RekeyLosesExactly` | `RekeyFramesLost` always, if `MaxDials = 1` |
| `MediaExchangeProofs` | `MediaInvariant` | `Spec => []MediaInv` |
| | `MediaTypes`, `OpenedIsAuthentic`, `CountersAddUp` | `TypeOK`, `ArmorAuthentic`, `CountersMatchVerdicts` always |
| | `ArmorAlwaysOpens` | `ArmorOpens` always |
| `WebSocketFeedProofs` | `FeedRefinesTracer`, `TracerInvariant` | `Spec => TracerSpec`, `TracerSpec => []TracerInv` |
| | `LogAlwaysHoldsLatest`, `SnapshotsBacked`, `ViewNeverGoesBack` | `LogHoldsLatest`, `SnapshotBacked` always, `ViewMovesForward` |
| | `FeedTyped` | `TypeOK` always |
| `FrameStreamProofs` | `PaddingComesOff`, `LengthTellsBlocksOnly`, `FitsByBlocks` | about the padding |
| | `StreamInvariant`, `StreamTypes`, `AgentInStep` | `StreamInv`, `TypeOK`, `InStep` always |
| | `FramesInOrder` | `Spec => ChannelSpec` |
| `WorkspaceProofs` | `WorkspaceTypes`, `ReportsAreRight`, `CommandsEnd` | `TypeOK`, `ReportsWhatChanged`, `CommandOver` always |

The arguments. *The window.* `AtMostTwice` is not inductive: it does not say why a number that
passed twice cannot pass again. `IInv` ties the engine's memory to the past:
only what passed is remembered (`OnlyPassedRemembered`); what passed is
remembered until it is at the edge or behind it (`PassedAreAccounted`); once the
number at the edge is forgotten nothing at or below it is remembered
(`EdgeForgotten`), so that a trim has just run; and a number that passed twice is
behind the window, or at the edge, remembered, and the least remembered
(`RepeatSettled`). From the last two: a second copy of the number at the edge,
once passed, is remembered; to forget it again a trim is needed, that is more
than `2 * WindowSize` numbers above or at it; but only `WindowSize` numbers lie
between it and the front, so the front has moved and the copy is behind the
window. The counting is done with the library's theorems on finite sets
and intervals. The step is stated in `PipelineProofs` for any engine and any count of what
got through (`Recalls`, `CommitRecalls`), since `CustodyAtMostTwice` needs it as well: there
what counts is what entered the chain, and the engine also commits numbers that do not count.

`MemoryIsBounded` follows a trim: after one, the numbers left lie in an interval
of `WindowSize`. `GapsAreAccountedFor` adds that the first number let through is
known, and shows that the skipped numbers a step adds are at most the gap it
counts. `NoFalseAlarms` uses that both memories hold only what passed.
`ImplementsBoundedDelivery` maps each step to `Issue`, `HandUp` or a stutter.

*Sums.* The flood check adds up the arrivals of a second, and so does the promise
about it. What the library offers for sums is a fold, which is defined by choosing a
function that satisfies a recursive equation. The last section of `PipelineProofs` shows
that there is one: every set of numbers that is not empty has a least element, as the
order of the numbers is well founded (`LeastNumber`), from which follow induction over
numbers and over the subsets of a finite set in the form the provers can use, with a
set of numbers or of subsets in the place of a predicate (`Induction`,
`SubsetInduction`), and with them that the sum exists, is a number, loses exactly what
is removed, and grows with its terms (`SumsExist` to `SumGrows`). `RateIsBounded`: a
frame passes only if the arrivals in the second before, with its own, are at most the
cap. By `PassagesOnBudget` these are at least the passages. An interval of a second
that contains the present moment ends in it, or its rest is empty, as nothing has
passed in the future.

*The harnesses.* `PipelineProofs` states once what wrapping, a handshake and
processing do to the fields of a harness (`ProcessEffect` and the like), and
that an accepted frame bears the receiver's key (`AcceptedIsSealed`). `LinkInv`
then needs to know which key a frame bears: one from the interval on has
ratcheted, and the receiver's key never does. `HarnessesInv` of `TunnelAgents` is the
agreement of counters and chain, for each harness by itself; `SlotsInv` counts
handlers by state with the theorems on finite sets; `QuarantineInv` says that
verdicts are ordered by the server's counter, so that the latest is well defined.
`MediaInv` keeps each adapter bound to its own key, and every text signed by whom it
says. `ArmorAlwaysOpens` adds which key the dashboard seals under: the default one up
to its first rekey. A fresh unpacker has the same, an empty window, and one arrival to
count, its own; so all that is left to refuse a clean text is its age.

*The replies.* `ReplyTellsTheTruth` says nothing of what is still on its way, and a
response counts only when it is read. `CustodyInv` says where every payload is, a
payload being known by its sender, which a restart changes, and its number:
in one stream at most, or answered, and never both (`FlightInv`). A client that
waits has its latest payload in its own connection or the response to it, and nothing
else is there; one that does not wait has an empty connection (`LinksInv`).
The handler of a connection is where the ends of its streams show it to be
(`StreamsInv`): the keys are read before any payload. So a response can only be the one
waited for, even after aborted calls, since `close` drops the connection and what it
held; and since each payload is answered once, what the response said of the chain
stays true. The order of the chain follows: a payload that enters behind a later one was
overtaken while nobody waited for it. `AgentsTyped` uses the same invariant to show
that what is read as keys was written as keys.

*The waits.* `WaitsInv` says for each client that the end it holds is open and that what
it waits for is there or on its way, and follows from `CustodyInv`: the payload of a
waiting client is in its own connection and nothing else is, so that its handler, which
reads one frame a round, reads that one and answers it, or closes; and a closed end is
the answer as well.

*The keys of one session.* After `k` frames of a harness its key has been ratcheted
`k \div RekeyInterval` times (`KeyAt`, `RatchetMoves`). `SessionInv` says that a stream
holds at most one frame, bearing the key of its own number; that the server, having
sent `k` responses, has the key of `k` and that the request before it is number `k + 1`;
and that neither engine has remembered more than these frames (`Heard`), so that neither
window nor tags refuse the next one (`HeardPasses`), and the engine can do so for its age
or a flood only; it counts the frame all the same (`HeardNext`), and a refusal changes no
key. A request the engine lets through is opened exactly when the keys of `k` and `k + 1` are one, that is, when `k + 1` is not a multiple of the interval;
but in answering the server sends its own frame `k + 1`, ratchets as well, and
the client reads the refusal.

*The stream.* That frames come in order needs only that bytes are taken from the
front and that a frame is given at its own start. That none is passed over needs
to know where a task that reads alone stands: at the start of the frame that answers its
own request, or behind its header (`Alone`). `FramesInOrder` maps each step
to `Write`, `Take`, `Cross` or a stutter.

*The tracer.* The bound on how short the log gets is not inductive. The length less the
number of threads about to pop is: a pop lowers both, and a thread joins them only
while the log is longer than the buffer. The other half of `TracerInv` counts the
threads that have counted a frame and not yet logged it; at each snapshot they are
what it may lack.

*The workspace.* `Visits` says what is known of each file at each moment of recording
and checking: a recorded file that was left alone still has its checksum, a
visited one is named exactly if it differs.

## 6. What is only model-checked

The liveness properties: `SlotsComeBack`, `HandshakesEnd`, `CallsReturn` (of `agents` and
of `stream`), `LiveKeepReceiving` and `RunReturns`. They rest on fairness, hence on
`ENABLED`, which this version of the prover does not reason about. The part of
`CallsReturn` of `agents` that is a safety property, `NobodyWaitsInVain`, is proved. Every
invariant and every action property of the passing runs is stated by a theorem. Three
further theorems state formulas that no run lists: `RepeatsOnlyAtEdge` (which
`BoundedDeliverySpec` implies), `BudgetInvariant` (a step to `RateIsBounded`) and `LinkTypes`.

## 7. Where the code departs from what it says

Each of these is a run that TLC finds violated, listed under `findings`.

| Run | The claim | What happens |
|---|---|---|
| `repeat` | sliding window and tag check defeat replays (`README.md:12`) | the frame at the window's edge passes twice |
| `second_client` | a clean payload is accepted; several connections per address (`server_agent.py:12`) | a second handshake replaces the first client's key |
| `mutation` | every mutated frame is refused (`test_exhaustive.py:261`) | the message type is not under the HMAC |

Further observations, each a consequence of a definition here and without a run of its
own. On one connection the receiver never ratchets its key until it sends, so
the payload at the interval is refused (`RekeyFramesLost` has it as a fact, although
`test_harness.py:21` demands that clean payloads pass). The result of
`send_secure_payload`, which `run.py:32` prints as "Tunnel Transmit Result", is about
the response frame: a refused payload reports `accepted` as well. An
adapter is bound to its own signing key (`media_adapter.py:36`), so that it refuses
what another one packed, as its self-test at lines 174 to 176 would show. A client started anew counts from 1, and
its first payloads are refused as repeats of its predecessor's
(`CleanPayloadAccepted` fails with `MaxRestarts = 1` as well); a frame's number
is committed before its HMAC is compared, so a damaged number moves the window;
a close frame that does not pass closes the session all the same; refused
arrivals use up the rate budget and raise the gap counter.

Overlapping calls of one agent can leave each other's responses in the buffer, after
which every call gets the response before its own; and one may wait for ever. A
round of the broadcast that is cut short keeps the connections it found dead for the
next round. A result with `timed_out` does not mean the child was killed (it may have ended
while its pipes stayed open), and processes it detached survive. The "strict time limits"
of `core/sandbox.py:41` and the "timeout containment" of `README.md:14` bind the command
alone: `RunReturns` has to except a process the command started that keeps the pipes,
for which the second `communicate()` waits without a time-out. And if `communicate()`
raises anything but `TimeoutExpired`, such as a `MemoryError` on an output nothing limits,
the call returns an error with `timed_out` false and its child running, neither killed
nor waited for (`core/sandbox.py:91-100`; `CommandOver` has it as its exception). The quarantine's
files have names the integrity check does not watch anyway. The sender seals and
sends data of any length, while a receiver refuses what exceeds 10 MB after signing,
padding and sealing: the most that passes is 10485180 bytes (`FitsByBlocks`).

## 8. Not modelled

* The browser front end: presentation.
* What the regular expressions and the signatures match, and how the entropy is
  summed: data without state; their results are the inputs of Inspections. The
  printable strings, hashes and wordings of reports decide nothing.
* The cryptographic primitives, and the width and order of the header's other fields.
* Arguments of the launcher, the environment handed to a sandboxed command, CPU and
  memory figures, byte counts.
* The dashboard's requests that only read.
* Several processes on one sandbox directory.
* A write of a quarantine file that fails (`core/tunnel.py:237`, `251`, `264`). It raises
  after the incident is counted and logged; the exception leaves the server's handler by
  way of `agents/server_agent.py:78`, so that no NACK is sent, the connection ends, and
  the file keeps what it held. `QuarantineHoldsLatest` is about writes that succeed.

What would come next: overlapping calls inside `TunnelAgents` itself, where they meet
rekeys and restarts.
