------------------------------- MODULE Harness -------------------------------
(***************************************************************************)
(* SecureTunnelHarness (core/tunnel.py) with the part of CryptoEngine      *)
(* (core/crypto.py) that decides who can read what, as operators on a      *)
(* harness record.                                                         *)
(*                                                                         *)
(* Keys are symbolic.  The secret of a session key is the pair of harness  *)
(* identities whose key pairs were combined, {} standing for the initial   *)
(* pre-shared key, and ratchet counts the rekeys since.  Two sides read    *)
(* each other exactly when both parts agree.  A frame sealed under one     *)
(* key neither verifies nor decrypts under another, so decryption and      *)
(* padding removal cannot fail once the HMAC was right.                    *)
(*                                                                         *)
(* A payload is a record whose kind says which content inspection, if any, *)
(* is the first to object to it; see Inspection.                           *)
(***************************************************************************)
EXTENDS AntiInterference, Sequences

CONSTANTS
    RekeyInterval,   \* rekey_interval, 1000
    NoPeer           \* None: no peer_signing_pubkey, no expected fingerprint

ASSUME RekeyAssumption == RekeyInterval \in Nat \ {0}

\* The inspections of a decrypted payload, in the order of the pipeline, by
\* the name of the file the payload is quarantined in.
Inspection == [ exploit |-> "quarantined_exploit.bin",
                malware |-> "quarantined_threat.bin",
                risky   |-> "quarantined_risky_payload.bin" ]

\* The session key before any handshake: the pre-shared key.
InitialKey == [secret |-> {}, ratchet |-> 0]

\* Faulty variant: the frame counter starts one too low.
NewHarness_low(id) ==
    [ id                  |-> id,
      seq_counter         |-> -1,
      session_key         |-> InitialKey,
      peer_signing_pubkey |-> NoPeer,
      peer_connected      |-> FALSE,
      anti_interference   |-> NewEngine,
      chain               |-> << >>,
      packets_received    |-> 0,
      packets_blocked     |-> 0 ]

NewHarness(id) ==
    [ id                  |-> id,
      seq_counter         |-> 0,
      session_key         |-> InitialKey,
      peer_signing_pubkey |-> NoPeer,
      peer_connected      |-> FALSE,
      anti_interference   |-> NewEngine,
      chain               |-> << >>,
      packets_received    |-> 0,
      packets_blocked     |-> 0 ]

-----------------------------------------------------------------------------
(* perform_handshake.                                                      *)

\* The 64 bytes of keys a harness sends: both public keys are made with the
\* harness and last as long as it does.
HandshakeBytes(h) == [keys |-> h.id]

\* Storing the peer's identity and deriving the session key.
DeriveSessionKey(h, bytes) ==
    [ h EXCEPT !.peer_signing_pubkey = bytes.keys,
               !.session_key = [secret |-> {h.id, bytes.keys}, ratchet |-> 0] ]

\* The pinning check: a wrong peer leaves the derived key in place and only
\* withholds peer_connected.
Pinned(h, expected) == expected = NoPeer \/ expected = h.peer_signing_pubkey

CompleteHandshake(h, bytes, expected) ==
    LET derived == DeriveSessionKey(h, bytes)
    IN  IF Pinned(derived, expected) THEN [derived EXCEPT !.peer_connected = TRUE]
                                     ELSE derived

-----------------------------------------------------------------------------
(* wrap_payload.                                                           *)

\* rekey(): the key moves one step forward, and cannot be moved back.
Rekeyed(key) == [key EXCEPT !.ratchet = @ + 1]

\* Faulty variants: the interval tested before counting; the key never moved.
WrapPayload_early(h) ==
    [ h EXCEPT !.seq_counter = @ + 1,
               !.session_key = IF h.seq_counter % RekeyInterval = 0 THEN Rekeyed(@) ELSE @ ]

WrapPayload_static(h) == [h EXCEPT !.seq_counter = @ + 1]

\* Count the frame, and ratchet the key at every multiple of the interval
\* before this frame is sealed.
WrapPayload(h) ==
    [ h EXCEPT !.seq_counter = @ + 1,
               !.session_key =
                   IF (h.seq_counter + 1) % RekeyInterval = 0 THEN Rekeyed(@) ELSE @ ]

\* The frame that harness h emits once WrapPayload has counted it.  The tag
\* is unique to the frame: it covers the number and a random nonce.  "wire"
\* tells what the receiver's first two stages see of the frame's shape, and
\* "covered" whether the bytes under the HMAC (number, timestamp, sealed
\* payload, the tag itself) are those the sender wrote.
FrameOf(h, payload, type, now) ==
    [ seq_num   |-> h.seq_counter,
      timestamp |-> now,
      auth_tag  |-> <<h.id, h.seq_counter>>,
      msg_type  |-> type,
      sealed    |-> h.session_key,
      signer    |-> h.id,
      payload   |-> payload,
      wire      |-> "whole",
      covered   |-> TRUE ]

-----------------------------------------------------------------------------
(* process_incoming_frame.                                                 *)

\* The header parses: length, magic and version are right.
Parsable(f) == f.wire # "unparsable"

\* The payload has the length the header gives, and a length that is allowed.
WellShaped(f) == f.wire # "misshapen"

\* Faulty variant: the HMAC not compared, the right key being enough.
HmacValid_keyOnly(h, f) == f.sealed = h.session_key

HmacValid(h, f) == f.covered /\ f.sealed = h.session_key

\* The AES-GCM tag is right under the receiver's current key.
Decrypts(h, f) == f.sealed = h.session_key

SignatureValid(h, f) ==
    h.peer_signing_pubkey = NoPeer \/ h.peer_signing_pubkey = f.signer

\* The outcome of the pipeline: the first stage that objects.
Verdict(h, f, now) ==
    IF ~ Parsable(f)                                  THEN "unparsable"
    ELSE IF ~ WellShaped(f)                           THEN "misshapen"
    ELSE IF ~ Passed(h.anti_interference, f, now)     THEN "interference"
    ELSE IF ~ HmacValid(h, f)                         THEN "hmac"
    ELSE IF ~ Decrypts(h, f)                          THEN "decryption"
    ELSE IF ~ SignatureValid(h, f)                    THEN "signature"
    ELSE IF f.payload.kind \in DOMAIN Inspection      THEN f.payload.kind
    ELSE "accepted"

Accepts(h, f, now) == Verdict(h, f, now) = "accepted"

\* The traffic counters of the process the harness lives in.
RecordReceived(h, blocked) ==
    [ h EXCEPT !.packets_received = @ + 1,
               !.packets_blocked  = IF blocked THEN @ + 1 ELSE @ ]

\* Faulty variant: the chain of custody extended at its start.
ExtendChain_reversed(h, payload) == [h EXCEPT !.chain = <<payload>> \o @]

\* The chain of custody.  Its head hashes every payload before it, in order,
\* so the sequence of payloads stands for the head.
ExtendChain(h, payload) == [h EXCEPT !.chain = Append(@, payload)]

\* Faulty variants: refusals by the engine, frames of a wrong length not
\* counted as blocked.
ProcessFrame_uncounted(h, f, now) ==
    LET verdict == Verdict(h, f, now)
        counted == RecordReceived([h EXCEPT !.anti_interference = VerifyPacket(@, f, now)],
                                  verdict \notin {"accepted", "interference"})
    IN  IF verdict = "accepted" THEN ExtendChain(counted, f.payload) ELSE counted

ProcessFrame_shapeless(h, f, now) ==
    LET verdict == Verdict(h, f, now)
        seen    == IF ~ WellShaped(f) THEN h
                   ELSE [h EXCEPT !.anti_interference = VerifyPacket(@, f, now)]
        counted == RecordReceived(seen, verdict \notin {"accepted", "misshapen"})
    IN  IF ~ Parsable(f) THEN h
        ELSE IF verdict = "accepted" THEN ExtendChain(counted, f.payload)
        ELSE counted

\* The harness after the pipeline.  The anti-interference engine has already
\* committed a frame that a later stage refuses, and a header that cannot be
\* parsed is not even counted.
ProcessFrame(h, f, now) ==
    LET verdict == Verdict(h, f, now)
        seen    == IF ~ WellShaped(f) THEN h
                   ELSE [h EXCEPT !.anti_interference = VerifyPacket(@, f, now)]
        counted == RecordReceived(seen, verdict # "accepted")
    IN  IF ~ Parsable(f) THEN h
        ELSE IF verdict = "accepted" THEN ExtendChain(counted, f.payload)
        ELSE counted

\* Faulty variant: a file that exists is not written again.
Quarantine_once(sandbox, h, f, now) ==
    LET verdict == Verdict(h, f, now)
    IN  IF verdict \in DOMAIN Inspection /\ sandbox[Inspection[verdict]] = NoPeer
        THEN [sandbox EXCEPT ![Inspection[verdict]] = f.payload]
        ELSE sandbox

\* The sandbox after the pipeline: a payload refused for its content is
\* written to the file of its kind, over whatever the file held.
Quarantine(sandbox, h, f, now) ==
    LET verdict == Verdict(h, f, now)
    IN  IF verdict \in DOMAIN Inspection
        THEN [sandbox EXCEPT ![Inspection[verdict]] = f.payload]
        ELSE sandbox
=============================================================================
