------------------------------ MODULE WireFormat ------------------------------
(***************************************************************************)
(* The sizes on the wire (core/protocol.py, core/tunnel.py) and the        *)
(* padding that hides them (security/anti_traffic_analysis.py).            *)
(*                                                                         *)
(* A frame is a header of HeaderSize bytes, one of whose fields is the     *)
(* length of the payload after it.  The payload is the signature and the   *)
(* data behind a field of four bytes with their length, filled up to a     *)
(* whole number of blocks, and sealed.                                     *)
(***************************************************************************)
EXTENDS Integers, Sequences

CONSTANTS
    HeaderSize,     \* HEADER_SIZE, 60
    BlockSize,      \* block_size, 512
    SignatureSize,  \* of an Ed25519 signature, 64
    SealOverhead,   \* nonce and tag of AES-GCM, 12 + 16
    MaxPayloadSize  \* MAX_PAYLOAD_SIZE, 10 MB

ASSUME WireAssumption ==
    /\ HeaderSize \in Nat \ {0} /\ BlockSize \in Nat \ {0}
    /\ SignatureSize \in Nat /\ SealOverhead \in Nat /\ MaxPayloadSize \in Nat

Byte == 0 .. 255

\* The length field: four bytes, the highest first.
LengthField == 4
LengthBytes(n) == << n \div 16777216, (n \div 65536) % 256, (n \div 256) % 256, n % 256 >>
LengthIn(b) == 16777216 * b[1] + 65536 * b[2] + 256 * b[3] + b[4]

\* to_bytes raises when the length needs a fifth byte.
Paddable(n) == n \div 16777216 \in Byte

\* How many bytes fill n up to a whole number of blocks.
PadNeeded(n) == (BlockSize - (n % BlockSize)) % BlockSize

\* pad_payload with that many random bytes.
PadPayload(data, padding) == LengthBytes(Len(data)) \o data \o padding

\* strip_padding raises when the data is too short for its length field.
Strippable(padded) ==
    Len(padded) >= LengthField /\ Len(padded) >= LengthField + LengthIn(padded)

StripPadding(padded) == SubSeq(padded, LengthField + 1, LengthField + LengthIn(padded))

PaddedLength(n) == LengthField + n + PadNeeded(LengthField + n)

\* The payload that wrap_payload seals around n bytes of data, and the frame.
SealedLength(n) == SealOverhead + PaddedLength(SignatureSize + n)
FrameLength(n) == HeaderSize + SealedLength(n)

\* Whether the receiver's inspect_frame lets the payload around n bytes of
\* data through.  The sender does not ask.
Fits(n) == SealedLength(n) <= MaxPayloadSize
=============================================================================
