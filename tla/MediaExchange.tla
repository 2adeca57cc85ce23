---------------------------- MODULE MediaExchange ----------------------------
(***************************************************************************)
(* The media adapter (integrations/media_adapter.py) and the dashboard     *)
(* that offers it over HTTP (dashboard/server.py).  Armored texts are      *)
(* copied through chats and mails: anyone may paste any of them anywhere,  *)
(* at any time and any number of times, damaged or whole.                  *)
(*                                                                         *)
(* Each party is a process with an adapter of its own.  The dashboard      *)
(* seals with its adapter and opens with a fresh one per request.  The     *)
(* traffic counters in a party's harness are those of its process, which   *)
(* every harness the process makes shares.                                 *)
(*                                                                         *)
(* Packing a chat message, a mail, a file or a text are one action: they   *)
(* differ in the payload's form only.  All harnesses keep the default      *)
(* pre-shared key; nobody shakes hands.                                    *)
(***************************************************************************)
EXTENDS Harness

CONSTANTS
    Dashboard,   \* the dashboard's process
    Peers,       \* processes that hold an adapter
    Kinds,       \* the kinds of messages packed
    Simulated,   \* the kinds of payloads simulated
    MaxTexts,    \* bound: texts the adapter of each party packs
    MaxOpenings, \* bound: frames received in all, by the counters
    MaxRestarts  \* bound: times the dashboard's process is started anew

Parties == {Dashboard} \cup Peers

\* A party at its n-th start.  NoPeer is nobody.
Ids == Parties \X Nat

ASSUME BoundAssumption == MaxTexts \in [Parties -> Nat] /\ MaxOpenings \in Nat /\ MaxRestarts \in Nat
ASSUME PeerAssumption == NoPeer \notin Ids
\* A cap of zero would let nothing through at all; the code's is 250.
ASSUME BudgetAssumption == MaxPacketsPerSec >= 1

VARIABLES
    now,      \* the clock, common to all
    harness,  \* the harness of each party's adapter
    sandbox,  \* each party's quarantine files
    texts,    \* every text packed
    cleared,  \* history: frames accepted by each process since it started
    answer    \* what this step's call to open a text returned, if it is one

vars == <<now, harness, sandbox, texts, cleared, answer>>

NoAnswer == [call |-> "none"]

\* An adapter's harness is bound to the signing key of its own crypto engine.
NewAdapter(id) == [NewHarness(id) EXCEPT !.peer_signing_pubkey = id]

Init ==
    /\ now = 0
    /\ harness = [p \in Parties |-> NewAdapter(<<p, 1>>)]
    /\ sandbox = [p \in Parties |-> [file \in {Inspection[k] : k \in DOMAIN Inspection} |-> NoPeer]]
    /\ texts = {}
    /\ cleared = [p \in Parties |-> 0]
    /\ answer = NoAnswer

\* A text as it may be pasted: whole, altered, cut short, misspelt, or with
\* a message type the HMAC does not cover.
Pasted(t) ==
    { t, [t EXCEPT !.covered = FALSE], [t EXCEPT !.msg_type = TYPE_CLOSE],
         [t EXCEPT !.wire = "misshapen"], [t EXCEPT !.wire = "unparsable"] }

\* pack_chat_message, pack_email, pack_file, pack_as_ascii_armor; and the
\* dashboard's encrypt request, which is the last of them.
Pack(p, kind) ==
    LET h == WrapPayload(harness[p])
    IN  /\ harness[p].seq_counter < MaxTexts[p]
        /\ harness' = [harness EXCEPT ![p] = h]
        /\ texts' = texts \cup {FrameOf(h, [kind |-> kind, num |-> h.seq_counter], TYPE_DATA, now)}
        /\ answer' = NoAnswer
        /\ UNCHANGED <<now, sandbox, cleared>>

\* The processes have room for n more frames within the bound.
Room(n) ==
    SumFunction([p \in Parties |-> harness[p].packets_received]) + n <= MaxOpenings

\* What p's process does with frame f that harness h of it handles: keep
\* "after" as its adapter's harness, count, and quarantine.
Handle(p, h, f, after) ==
    /\ Room(1)
    /\ harness' = [harness EXCEPT ![p] = after]
    /\ sandbox' = [sandbox EXCEPT ![p] = Quarantine(@, h, f, now)]
    /\ cleared' = [cleared EXCEPT ![p] = IF Accepts(h, f, now) THEN @ + 1 ELSE @]

Answer(call, by, f, verdict) ==
    [call |-> call, by |-> by, text |-> f, at |-> now, verdict |-> verdict]

\* unpack_chat_message and its kin: the adapter's own harness decides.
Unpack(p, f) ==
    /\ Handle(p, harness[p], f, ProcessFrame(harness[p], f, now))
    /\ answer' = Answer("unpack", harness[p].id, f, Verdict(harness[p], f, now))
    /\ UNCHANGED <<now, texts>>

\* A harness made for one request counts on its process's counters.
ForRequest(h) ==
    [h EXCEPT !.packets_received = harness[Dashboard].packets_received,
              !.packets_blocked  = harness[Dashboard].packets_blocked]

\* Nothing of it outlives the request but those counters.
AfterRequest(h) ==
    [harness[Dashboard] EXCEPT !.packets_received = h.packets_received,
                               !.packets_blocked  = h.packets_blocked]

\* Faulty variant: nobody's key bound to the unpacker.
Unpacker_unbound == ForRequest(NewHarness(<<Dashboard, 0>>))

\* The fresh unpacker of a decrypt request, bound to the dashboard's key.
Unpacker == [ForRequest(NewAdapter(<<Dashboard, 0>>))
                EXCEPT !.peer_signing_pubkey = harness[Dashboard].id]

\* Faulty variant: the dashboard's lasting adapter opens the texts as well.
ArmorDecrypt_lasting(f) ==
    /\ Handle(Dashboard, harness[Dashboard], f, ProcessFrame(harness[Dashboard], f, now))
    /\ answer' = Answer("decrypt", harness[Dashboard].id, f, Verdict(harness[Dashboard], f, now))
    /\ UNCHANGED <<now, texts>>

\* POST /api/armor/decrypt.
ArmorDecrypt(f) ==
    /\ Handle(Dashboard, Unpacker, f, AfterRequest(ProcessFrame(Unpacker, f, now)))
    /\ answer' = Answer("decrypt", harness[Dashboard].id, f, Verdict(Unpacker, f, now))
    /\ UNCHANGED <<now, texts>>

\* POST /api/simulate-threat: a fresh harness sends to itself, a payload of
\* some kind or a clean one that is altered on the way.
Simulate(kind, covered) ==
    LET h == ForRequest(WrapPayload(NewHarness(<<Dashboard, 0>>)))
        f == [FrameOf(h, [kind |-> kind, num |-> h.seq_counter], TYPE_DATA, now)
                 EXCEPT !.covered = covered]
    IN  /\ Handle(Dashboard, h, f, AfterRequest(ProcessFrame(h, f, now)))
        /\ answer' = NoAnswer
        /\ UNCHANGED <<now, texts>>

\* The same endpoint sends one clean frame twice.
SimulateReplay ==
    LET h     == ForRequest(WrapPayload(NewHarness(<<Dashboard, 0>>)))
        f     == FrameOf(h, [kind |-> "clean", num |-> h.seq_counter], TYPE_DATA, now)
        first == ProcessFrame(h, f, now)
    IN  /\ Room(2)
        /\ harness' = [harness EXCEPT ![Dashboard] = AfterRequest(ProcessFrame(first, f, now))]
        /\ cleared' = [cleared EXCEPT ![Dashboard] =
                          @ + Cardinality({e \in {h, first} : Accepts(e, f, now)})]
        /\ answer' = NoAnswer
        /\ UNCHANGED <<now, sandbox, texts>>

\* The dashboard's process is started anew: new keys, counters at zero.  The
\* texts it has given out, and its quarantine files, are still there.
Restart ==
    /\ harness[Dashboard].id[2] <= MaxRestarts
    /\ harness' = [harness EXCEPT ![Dashboard] = NewAdapter(<<Dashboard, @.id[2] + 1>>)]
    /\ cleared' = [cleared EXCEPT ![Dashboard] = 0]
    /\ answer' = NoAnswer
    /\ UNCHANGED <<now, sandbox, texts>>

Tick ==
    /\ now < MaxTime
    /\ now' = now + 1
    /\ answer' = NoAnswer
    /\ UNCHANGED <<harness, sandbox, texts, cleared>>

Next ==
    \/ Tick
    \/ Restart
    \/ SimulateReplay
    \/ Simulate("clean", FALSE)
    \/ \E kind \in Simulated : Simulate(kind, TRUE)
    \/ \E p \in Parties, kind \in Kinds : Pack(p, kind)
    \/ \E t \in texts : \E f \in Pasted(t) :
          \/ ArmorDecrypt(f)
          \/ \E p \in Peers : Unpack(p, f)

Spec == Init /\ [][Next]_vars

-----------------------------------------------------------------------------

TypeOK ==
    /\ now \in Time
    /\ \A p \in Parties :
          /\ harness[p].seq_counter \in 0 .. MaxTexts[p]
          /\ harness[p].packets_received \in Nat /\ harness[p].packets_blocked \in Nat
          /\ cleared[p] \in Nat
    /\ \A t \in texts : t.wire = "whole" /\ t.covered

\* A clean text that the running dashboard sealed within the freshness
\* window and before its first rekey is opened: the first time and every
\* time, in any order, whatever was opened, refused or simulated before.
ArmorOpens ==
    /\ answer.call = "decrypt"
    /\ answer.text \in texts
    /\ answer.text.payload.kind = "clean"
    /\ answer.text.signer = answer.by
    /\ answer.text.seq_num < RekeyInterval
    /\ ~ Drifted(answer.text, answer.at)
    => answer.verdict = "accepted"

\* What an adapter opens is a payload just as it was packed, sealed by that
\* very adapter: not by a peer's, nor by the dashboard's before a restart,
\* although all of them seal under the same key ("bind signing key
\* verification", media_adapter.py:35).  So a clean and fresh message of a
\* peer is refused, although the self-test (media_adapter.py:174-176) unpacks
\* with one adapter what another packed.
ArmorAuthentic ==
    answer.call # "none" /\ answer.verdict = "accepted"
        => \E t \in texts : t.payload = answer.text.payload /\ t.signer = answer.by

\* The process's counters agree with what its harnesses decided, although
\* most of them live for one request only.
CountersMatchVerdicts ==
    \A p \in Parties :
        harness[p].packets_received - harness[p].packets_blocked = cleared[p]

=============================================================================
