-------------------------- MODULE FrameStreamProofs --------------------------
(***************************************************************************)
(* Proofs about the padding and about the frames of a connection.          *)
(*                                                                         *)
(* That frames come in order, each once, needs only that bytes are taken   *)
(* from the front (Ends, Taken).  That no frame is passed over needs to    *)
(* know where a task that reads alone stands (Alone): at the start of the  *)
(* frame that answers its own request, or behind the header of it.         *)
(***************************************************************************)
EXTENDS FrameStream, SequenceTheorems, TLAPS

-----------------------------------------------------------------------------
(* Padding.                                                                *)

LEMMA Division ==
    ASSUME NEW n \in Nat, NEW d \in Nat \ {0}
    PROVE  /\ n = d * (n \div d) + (n % d)
           /\ n % d \in 0 .. d - 1
           /\ n \div d \in Nat
OBVIOUS

\* The length field can be read back.
LEMMA LengthField4 ==
    ASSUME NEW n \in Nat, Paddable(n)
    PROVE  /\ LengthBytes(n) \in Seq(Byte)
           /\ Len(LengthBytes(n)) = LengthField
           /\ LengthIn(LengthBytes(n)) = n
<1> DEFINE a == n \div 16777216
           b == (n \div 65536) % 256
           c == (n \div 256) % 256
           d == n % 256
<1>1. a \in Byte /\ b \in Byte /\ c \in Byte /\ d \in Byte
  BY DEF Byte, Paddable
<1>2. n = 16777216 * a + 65536 * b + 256 * c + d
  OBVIOUS
<1>3. LengthBytes(n) = <<a, b, c, d>>
  BY DEF LengthBytes
<1> HIDE DEF a, b, c, d
<1>4. /\ <<a, b, c, d>> \in Seq(Byte)
      /\ Len(<<a, b, c, d>>) = 4
  BY <1>1
<1>5. /\ <<a, b, c, d>>[1] = a
      /\ <<a, b, c, d>>[2] = b
      /\ <<a, b, c, d>>[3] = c
      /\ <<a, b, c, d>>[4] = d
  OBVIOUS
<1>6. LengthIn(<<a, b, c, d>>) = n
  BY <1>2, <1>5 DEF LengthIn
<1> QED BY <1>3, <1>4, <1>6 DEF LengthField

\* strip_padding gives back what pad_payload was given, whatever random bytes
\* the padding consists of, for all data whose length four bytes can hold.
THEOREM PaddingComesOff ==
    ASSUME NEW data \in Seq(Byte), Paddable(Len(data)), NEW padding \in Seq(Byte)
    PROVE  /\ Strippable(PadPayload(data, padding))
           /\ StripPadding(PadPayload(data, padding)) = data
<1> DEFINE n == Len(data)
           field == LengthBytes(n)
           front == field \o data
           padded == PadPayload(data, padding)
<1>1. n \in Nat /\ Paddable(n)
  OBVIOUS
<1>2. field \in Seq(Byte) /\ Len(field) = 4 /\ LengthIn(field) = n
  BY <1>1, LengthField4 DEF LengthField
<1>3. padded = front \o padding
  BY DEF PadPayload
<1> HIDE DEF field, padded
<1>4. /\ front \in Seq(Byte)
      /\ Len(front) = 4 + n
      /\ \A i \in 1 .. 4 + n : front[i] = IF i <= 4 THEN field[i] ELSE data[i - 4]
  <2>1. /\ front \in Seq(Byte)
        /\ Len(front) = Len(field) + n
        /\ \A i \in 1 .. Len(field) + n :
              front[i] = IF i <= Len(field) THEN field[i] ELSE data[i - Len(field)]
    BY <1>2, ConcatProperties
  <2> QED BY <1>2, <2>1
<1> HIDE DEF front
<1>5. /\ padded \in Seq(Byte)
      /\ Len(padded) >= 4 + n
      /\ \A i \in 1 .. 4 + n : padded[i] = front[i]
  <2>1. /\ padded \in Seq(Byte)
        /\ Len(padded) = Len(front) + Len(padding)
        /\ \A i \in 1 .. Len(front) + Len(padding) :
              padded[i] = IF i <= Len(front) THEN front[i] ELSE padding[i - Len(front)]
    BY <1>3, <1>4, ConcatProperties
  <2> QED BY <1>1, <1>4, <2>1
<1>6. \A i \in 1 .. 4 : padded[i] = field[i]
  BY <1>1, <1>4, <1>5
<1>7. LengthIn(padded) = n
  BY <1>2, <1>6 DEF LengthIn
<1>8. \A i \in 1 .. n : padded[4 + i] = data[i]
  BY <1>1, <1>4, <1>5
<1>9. StripPadding(padded) = SubSeq(padded, 5, 4 + n)
  BY <1>7 DEF StripPadding, LengthField
<1>10. /\ SubSeq(padded, 5, 4 + n) \in Seq(Byte)
       /\ Len(SubSeq(padded, 5, 4 + n)) = n
       /\ \A i \in 1 .. n : SubSeq(padded, 5, 4 + n)[i] = data[i]
  <2>1. \A i \in 5 .. 4 + n : padded[i] \in Byte
    BY <1>1, <1>5
  <2>2. 5 \in Int /\ 4 + n \in Int
    BY <1>1
  <2>3. /\ SubSeq(padded, 5, 4 + n) \in Seq(Byte)
        /\ Len(SubSeq(padded, 5, 4 + n)) = IF 5 <= 4 + n THEN (4 + n) - 5 + 1 ELSE 0
        /\ \A i \in 1 .. (4 + n) - 5 + 1 : SubSeq(padded, 5, 4 + n)[i] = padded[5 + i - 1]
    BY <2>1, <2>2, SubSeqProperties
  <2> HIDE DEF n
  <2>4. /\ (IF 5 <= 4 + n THEN (4 + n) - 5 + 1 ELSE 0) = n
        /\ (4 + n) - 5 + 1 = n
        /\ \A i \in 1 .. n : 5 + i - 1 = 4 + i
    BY <1>1
  <2> QED BY <1>8, <2>3, <2>4
<1>11. SubSeq(padded, 5, 4 + n) = data
  BY <1>10, SeqEqual
<1>12. Len(padded) \in Nat
  BY <1>5
<1> HIDE DEF n
<1>13. Strippable(padded)
  BY <1>1, <1>5, <1>7, <1>12 DEF Strippable, LengthField
<1> QED BY <1>9, <1>11, <1>13 DEF padded

LEMMA PadNeededBounds ==
    ASSUME NEW n \in Nat
    PROVE  /\ PadNeeded(n) \in 0 .. BlockSize - 1
           /\ n + PadNeeded(n) = BlockSize * ((n + BlockSize - 1) \div BlockSize)
<1> DEFINE r == n % BlockSize
           q == n \div BlockSize
<1>1. BlockSize \in Nat \ {0}
  BY WireAssumption
<1>2. n = BlockSize * q + r /\ r \in 0 .. BlockSize - 1 /\ q \in Nat
  BY <1>1, Division
<1>3. PadNeeded(n) = (BlockSize - r) % BlockSize
  BY DEF PadNeeded
<1> HIDE DEF r, q
<1>4. CASE r = 0
  <2>1. PadNeeded(n) = 0
    BY <1>1, <1>3, <1>4
  <2>2. (n + BlockSize - 1) \div BlockSize = q
    BY <1>1, <1>2, <1>4
  <2> QED BY <1>1, <1>2, <1>4, <2>1, <2>2
<1>5. CASE r # 0
  <2>1. PadNeeded(n) = BlockSize - r
    BY <1>1, <1>2, <1>3, <1>5
  <2>2. (n + BlockSize - 1) \div BlockSize = q + 1
    BY <1>1, <1>2, <1>5
  <2>3. BlockSize * (q + 1) = BlockSize * q + BlockSize
    BY <1>1, <1>2
  <2> QED BY <1>1, <1>2, <1>5, <2>1, <2>2, <2>3
<1> QED BY <1>4, <1>5

\* All that the length of a padded payload tells of the data is how many
\* blocks they need: it is that many blocks, and no block more than needed.
THEOREM LengthTellsBlocksOnly ==
    ASSUME NEW n \in Nat
    PROVE  /\ PaddedLength(n) =
                 BlockSize * ((LengthField + n + BlockSize - 1) \div BlockSize)
           /\ PaddedLength(n) - BlockSize < LengthField + n
           /\ LengthField + n <= PaddedLength(n)
<1>1. LengthField + n \in Nat /\ BlockSize \in Nat \ {0}
  BY WireAssumption DEF LengthField
<1>2. /\ PadNeeded(LengthField + n) \in 0 .. BlockSize - 1
      /\ LengthField + n + PadNeeded(LengthField + n)
            = BlockSize * ((LengthField + n + BlockSize - 1) \div BlockSize)
  BY <1>1, PadNeededBounds
<1> HIDE DEF LengthField
<1> QED BY <1>1, <1>2 DEF PaddedLength

\* What a receiver lets through is decided by whole blocks: the data with
\* signature and length field must fit into the blocks that fit, sealed, into
\* MAX_PAYLOAD_SIZE.  The sender seals and sends longer data all the same.
THEOREM FitsByBlocks ==
    ASSUME NEW n \in Nat, SealOverhead <= MaxPayloadSize
    PROVE  Fits(n) <=> LengthField + SignatureSize + n
                          <= BlockSize * ((MaxPayloadSize - SealOverhead) \div BlockSize)
<1> DEFINE m == LengthField + (SignatureSize + n)
           q == (m + BlockSize - 1) \div BlockSize
           room == MaxPayloadSize - SealOverhead
           blocks == room \div BlockSize
<1>1. /\ BlockSize \in Nat \ {0} /\ SignatureSize \in Nat /\ SealOverhead \in Nat
      /\ MaxPayloadSize \in Nat /\ m \in Nat /\ room \in Nat /\ SignatureSize + n \in Nat
  BY WireAssumption DEF LengthField
<1>2. PaddedLength(SignatureSize + n) = BlockSize * q /\ m <= BlockSize * q
      /\ BlockSize * q < m + BlockSize
  <2>1. PaddedLength(SignatureSize + n) = BlockSize * q
    BY <1>1, LengthTellsBlocksOnly
  <2>2. PaddedLength(SignatureSize + n) - BlockSize < m /\ m <= PaddedLength(SignatureSize + n)
    BY <1>1, LengthTellsBlocksOnly
  <2>3. PaddedLength(SignatureSize + n) \in Int
    <3>1. q \in Nat
      BY <1>1
    <3> HIDE DEF q
    <3> QED BY <1>1, <2>1, <3>1
  <2> HIDE DEF q, m
  <2> QED BY <1>1, <2>1, <2>2, <2>3
<1>3. blocks \in Nat /\ BlockSize * blocks <= room /\ room < BlockSize * (blocks + 1)
  <2>1. room = BlockSize * blocks + (room % BlockSize) /\ room % BlockSize \in 0 .. BlockSize - 1
        /\ blocks \in Nat
    BY <1>1, Division
  <2>2. BlockSize * (blocks + 1) = BlockSize * blocks + BlockSize
    BY <1>1, <2>1
  <2>3. BlockSize * blocks \in Nat
    BY <1>1, <2>1
  <2>4. room \in Nat /\ room % BlockSize < BlockSize /\ room % BlockSize \in Nat
    BY <1>1, <2>1
  <2> HIDE DEF room, blocks
  <2> QED BY <1>1, <2>1, <2>2, <2>3, <2>4
<1>4. q \in Nat
  BY <1>1
<1>5. Fits(n) <=> BlockSize * q <= room
  BY <1>1, <1>2 DEF Fits, SealedLength
<1>6. LengthField + SignatureSize + n = m
  BY <1>1 DEF LengthField
<1> HIDE DEF q, m, room, blocks
<1>7. BlockSize * q <= room => q <= blocks
  BY <1>1, <1>3, <1>4
<1>8. q <= blocks => BlockSize * q <= BlockSize * blocks
  BY <1>1, <1>3, <1>4
<1>9. m <= BlockSize * blocks => q <= blocks
  <2>1. SUFFICES ASSUME m <= BlockSize * blocks, q >= blocks + 1 PROVE FALSE
    BY <1>3, <1>4
  <2>2. BlockSize * q >= BlockSize * (blocks + 1)
    BY <1>1, <1>3, <1>4, <2>1
  <2>3. BlockSize * (blocks + 1) = BlockSize * blocks + BlockSize
    BY <1>1, <1>3
  <2> QED BY <1>1, <1>2, <1>3, <1>4, <2>1, <2>2, <2>3
<1>10. room \div BlockSize = blocks
  BY DEF blocks
<1> QED BY <1>1, <1>2, <1>3, <1>4, <1>5, <1>6, <1>7, <1>8, <1>9 DEF blocks, room

-----------------------------------------------------------------------------
(* The invariant.                                                          *)

Places == {"out", "draining", "waiting", "woken"}
Tasks == [at : Places, need : Nat, own : Nat]

Types ==
    /\ requests \in Nat /\ arrived \in Nat /\ consumed \in Nat
    /\ ends \in Seq(Nat) /\ Len(ends) <= requests
    /\ consumed <= arrived /\ arrived <= Written
    /\ stream \in {"open", "ended", "reset"}
    /\ call \in [Calls -> Tasks]
    /\ waiter # NoCall => waiter \in Calls /\ call[waiter].at = "waiting"
    /\ results \in Seq([own : Nat, frame : Nat])
    /\ crossed \in BOOLEAN

\* What a task knows is in the past.
Known ==
    \A c \in Calls :
        /\ call[c].need <= Len(ends) /\ call[c].own <= requests
        /\ call[c].at = "draining" => call[c].need = 0

\* Frames lie one behind the other, each longer than its header.
Ends ==
    /\ \A k \in DOMAIN ends : ends[k] > Start(k) + HeaderSize /\ Start(k) \in Nat
    /\ \A j, k \in DOMAIN ends : j < k => ends[j] <= Start(k)

\* What calls were given lies in front of what is still to be read.
Taken ==
    \A i \in DOMAIN results :
        results[i].frame \in DOMAIN ends /\ ends[results[i].frame] <= consumed

EndOf(n) == IF n = 0 THEN 0 ELSE ends[n]

\* The stream is over and nothing can be read from it any more.
Dead == stream = "reset" \/ (stream = "ended" /\ consumed = arrived)

AllOut == \A c \in Calls : call[c].at = "out"

\* Where a task stands that waits for the answer to the latest request: in
\* front of that frame, or behind its header.
InPlace(c) ==
    /\ requests = Len(results) + 1
    /\ \/ call[c].need = 0 /\ consumed = EndOf(Len(results))
       \/ /\ call[c].need = requests /\ requests = Len(ends)
          /\ consumed = EndOf(Len(results)) + HeaderSize

\* Agents whose calls never overlapped.
Alone ==
    ~ crossed =>
        /\ \A c, d \in Calls : call[c].at # "out" /\ call[d].at # "out" => c = d
        /\ \A i \in DOMAIN results : results[i].own = i /\ results[i].frame = i
        /\ Len(results) <= Len(ends)
        /\ AllOut => \/ Dead
                     \/ /\ stream = "open" /\ consumed = Written
                        /\ Len(ends) = requests /\ Len(results) = requests
        /\ \A c \in Calls : call[c].at # "out" =>
              /\ call[c].own = requests
              /\ InPlace(c) \/ (Dead /\ call[c].at = "draining" /\ call[c].need = 0)

StreamInv == Types /\ Known /\ Ends /\ Taken /\ Alone

LEMMA InitStreamInv == Init => StreamInv
<1> SUFFICES ASSUME Init PROVE StreamInv
  OBVIOUS
<1>1. Types /\ Known
  <2>1. Out \in Tasks /\ Out.at = "out" /\ Out.need = 0 /\ Out.own = 0
    BY DEF Out, Tasks, Places
  <2>2. call \in [Calls -> Tasks] /\ \A c \in Calls : call[c] = Out
    BY <2>1 DEF Init
  <2>3. ends = << >> /\ Len(ends) = 0 /\ ends \in Seq(Nat) /\ Written = 0
    BY DEF Init, Written
  <2>4. results \in Seq([own : Nat, frame : Nat])
    BY DEF Init
  <2>0. /\ requests = 0 /\ arrived = 0 /\ consumed = 0 /\ stream = "open"
        /\ waiter = NoCall
    BY DEF Init
  <2>7. crossed \in BOOLEAN
    BY DEF Init
  <2>5. Types
    BY <2>0, <2>2, <2>3, <2>4, <2>7 DEF Types
  <2>6. Known
    BY <2>1, <2>2, <2>3 DEF Init, Known
  <2> QED BY <2>5, <2>6
<1>2. Ends /\ Taken
  BY DEF Init, Ends, Taken
<1>3. Alone
  <2>1. AllOut /\ Len(results) = 0 /\ Len(ends) = 0
    BY DEF Init, Out, AllOut
  <2>2. Written = 0
    BY DEF Init, Written
  <2> QED BY <2>1, <2>2 DEF Init, Alone, AllOut, Out
<1> QED BY <1>1, <1>2, <1>3 DEF StreamInv

LEMMA Lengths ==
    ASSUME Types, Ends
    PROVE  /\ Written \in Nat /\ Len(ends) \in Nat /\ HeaderSize \in Nat \ {0}
           /\ DOMAIN ends = 1 .. Len(ends)
           /\ \A k \in DOMAIN ends :
                 /\ ends[k] \in Nat /\ Start(k) \in Nat /\ ends[k] <= Written
                 /\ PayloadLength(k) \in Nat \ {0}
                 /\ Start(k) + HeaderSize + PayloadLength(k) = ends[k]
<1>1. /\ Len(ends) \in Nat /\ DOMAIN ends = 1 .. Len(ends) /\ HeaderSize \in Nat \ {0}
      /\ \A k \in DOMAIN ends : ends[k] \in Nat
  BY WireAssumption DEF Types
<1>2. Written \in Nat
  <2>1. CASE ends = << >>
    BY <2>1 DEF Written
  <2>2. CASE ends # << >>
    <3>1. Len(ends) \in DOMAIN ends
      BY <1>1, <2>2 DEF Types
    <3> QED BY <1>1, <2>2, <3>1 DEF Written
  <2> QED BY <2>1, <2>2
<1>3. ASSUME NEW k \in DOMAIN ends
      PROVE  ends[k] <= Written
  <2>1. ends # << >> /\ Len(ends) \in DOMAIN ends
    BY <1>1, <1>3
  <2>2. Written = ends[Len(ends)]
    BY <2>1 DEF Written
  <2>3. CASE k = Len(ends)
    BY <1>1, <2>2, <2>3
  <2>4. CASE k # Len(ends)
    <3>1. k < Len(ends)
      BY <1>1, <2>4
    <3>2. ends[k] <= Start(Len(ends)) /\ ends[Len(ends)] > Start(Len(ends)) + HeaderSize
          /\ Start(Len(ends)) \in Nat
      BY <2>1, <3>1 DEF Ends
    <3> QED BY <1>1, <2>1, <2>2, <3>2
  <2> QED BY <2>3, <2>4
<1>4. ASSUME NEW k \in DOMAIN ends
      PROVE  /\ Start(k) \in Nat /\ PayloadLength(k) \in Nat \ {0}
             /\ Start(k) + HeaderSize + PayloadLength(k) = ends[k]
  <2>1. ends[k] > Start(k) + HeaderSize /\ Start(k) \in Nat /\ ends[k] \in Nat
    BY <1>1 DEF Ends
  <2> QED BY <1>1, <2>1 DEF PayloadLength
<1> QED BY <1>1, <1>2, <1>3, <1>4

\* The same of one frame, with its number.
LEMMA OneFrame ==
    ASSUME Types, Ends, NEW k \in DOMAIN ends
    PROVE  /\ k \in Nat /\ k # 0 /\ k <= Len(ends) /\ Len(ends) \in Nat
           /\ ends[k] \in Nat /\ Start(k) \in Nat /\ HeaderSize \in Nat \ {0}
           /\ PayloadLength(k) \in Nat \ {0}
           /\ Start(k) + HeaderSize + PayloadLength(k) = ends[k]
<1>1. DOMAIN ends = 1 .. Len(ends) /\ Len(ends) \in Nat
  BY Lengths
<1>2. k \in Nat /\ k # 0 /\ k <= Len(ends)
  BY <1>1
<1>3. /\ ends[k] \in Nat /\ Start(k) \in Nat /\ HeaderSize \in Nat \ {0}
      /\ PayloadLength(k) \in Nat \ {0}
      /\ Start(k) + HeaderSize + PayloadLength(k) = ends[k]
  BY Lengths
<1> QED BY <1>1, <1>2, <1>3

LEMMA Counters ==
    ASSUME Types
    PROVE  /\ consumed \in Nat /\ arrived \in Nat /\ consumed <= arrived
           /\ requests \in Nat /\ Len(ends) <= requests
           /\ results \in Seq([own : Nat, frame : Nat]) /\ Len(results) \in Nat
BY DEF Types

\* Ends are in order, and so are starts: where a frame starts tells which it is.
LEMMA EndsOrdered ==
    ASSUME Types, Ends, NEW j \in DOMAIN ends, NEW k \in DOMAIN ends, j < k
    PROVE  ends[j] < ends[k]
<1>1. ends[j] <= Start(k) /\ ends[k] > Start(k) + HeaderSize
  BY DEF Ends
<1>2. ends[j] \in Nat /\ ends[k] \in Nat /\ Start(k) \in Nat /\ HeaderSize \in Nat
  BY Lengths
<1> QED BY <1>1, <1>2

LEMMA StartTells ==
    ASSUME Types, Ends, NEW n \in Nat, n <= Len(ends), NEW k \in DOMAIN ends,
           Start(k) = EndOf(n)
    PROVE  k = n + 1
<1>1. /\ DOMAIN ends = 1 .. Len(ends) /\ Len(ends) \in Nat
      /\ \A i \in DOMAIN ends : ends[i] \in Nat \ {0}
  <2>1. \A i \in DOMAIN ends : /\ Start(i) \in Nat /\ PayloadLength(i) \in Nat \ {0}
                               /\ Start(i) + HeaderSize + PayloadLength(i) = ends[i]
    BY Lengths
  <2>2. \A i \in DOMAIN ends : ends[i] \in Nat \ {0}
    BY <2>1, Lengths
  <2> QED BY <2>2, Lengths
<1>2. CASE k = 1
  <2>1. EndOf(n) = 0
    BY <1>2 DEF Start
  <2>2. n = 0
    BY <1>1, <2>1 DEF EndOf
  <2> QED BY <1>2, <2>2
<1>3. CASE k # 1
  <2>1. k - 1 \in DOMAIN ends /\ Start(k) = ends[k - 1]
    BY <1>1, <1>3 DEF Start
  <2>2. n \in DOMAIN ends /\ EndOf(n) = ends[n]
    BY <1>1, <2>1 DEF EndOf
  <2>3. ends[k - 1] = ends[n]
    BY <2>1, <2>2
  <2>4. ~ (k - 1 < n) /\ ~ (n < k - 1)
    <3>1. k - 1 < n => ends[k - 1] < ends[n]
      BY <2>1, <2>2, EndsOrdered
    <3>2. n < k - 1 => ends[n] < ends[k - 1]
      BY <2>1, <2>2, EndsOrdered
    <3> QED BY <1>1, <2>1, <2>2, <2>3, <3>1, <3>2
  <2> QED BY <1>1, <2>1, <2>2, <2>4
<1> QED BY <1>2, <1>3

LEMMA StartAfter ==
    ASSUME Types, Ends, NEW n \in Nat, n < Len(ends)
    PROVE  n + 1 \in DOMAIN ends /\ Start(n + 1) = EndOf(n)
BY Lengths DEF Start, EndOf

-----------------------------------------------------------------------------
(* What a task that runs may come to.                                      *)

\* It is given frame k, which begins where it reads.
Given(c, k, other) ==
    /\ k \in DOMAIN ends
    /\ \/ call[c].need = 0 /\ consumed = Start(k)
       \/ call[c].need = k /\ consumed = Start(k) + HeaderSize
    /\ stream # "reset" /\ ends[k] <= arrived
    /\ Return(c, k, ends[k], other)

\* It does not stand where it would be in step.
Misplaced(c) ==
    \/ /\ call[c].need = 0 /\ Available(consumed, HeaderSize)
       /\ \A k \in DOMAIN ends : Start(k) # consumed
    \/ /\ call[c].need \in DOMAIN ends
       /\ consumed # Start(call[c].need) + HeaderSize

\* It is given nothing.
Refused(c, from, other) ==
    /\ from \in Nat /\ consumed <= from /\ from <= arrived
    /\ \/ stream = "open" /\ other # NoCall
       \/ stream = "reset"
       \/ stream = "ended" /\ from = arrived
       \/ Misplaced(c)
    /\ Return(c, 0, from, other)

\* It waits, for the same as before or for the payload behind a header.
Waits(c, k, from, other) ==
    /\ stream = "open" /\ other = NoCall
    /\ \/ k = call[c].need /\ from = consumed
       \/ /\ k \in DOMAIN ends /\ call[c].need = 0 /\ consumed = Start(k)
          /\ from = consumed + HeaderSize /\ from <= arrived
    /\ call' = [call EXCEPT ![c] = [at |-> "waiting", need |-> k, own |-> call[c].own]]
    /\ consumed' = from
    /\ waiter' = c
    /\ results' = results

Outcome(c, other) ==
    \/ \E k \in DOMAIN ends : Given(c, k, other)
    \/ \E from \in Nat : Refused(c, from, other)
    \/ \E k \in Nat, from \in Nat : Waits(c, k, from, other)

LEMMA WaitOutcome ==
    ASSUME Types, NEW c \in Calls, NEW other, NEW k \in Nat, NEW from \in Nat,
           from <= arrived,
           \/ k = call[c].need /\ from = consumed
           \/ /\ k \in DOMAIN ends /\ call[c].need = 0 /\ consumed = Start(k)
              /\ from = consumed + HeaderSize,
           Wait(c, k, from, other)
    PROVE  Outcome(c, other)
<1>1. consumed \in Nat /\ arrived \in Nat /\ consumed <= arrived /\ HeaderSize \in Nat
  BY WireAssumption DEF Types
<1>2. consumed <= from
  BY <1>1
<1>3. CASE stream = "open" /\ other = NoCall
  <2>1. Waits(c, k, from, other)
    BY <1>3 DEF Wait, Waits
  <2> QED BY <2>1 DEF Outcome
<1>4. CASE ~ (stream = "open" /\ other = NoCall)
  <2>1. Return(c, 0, IF stream = "ended" THEN arrived ELSE from, other)
    BY <1>4 DEF Wait
  <2>2. CASE stream = "ended"
    <3>1. Refused(c, arrived, other)
      BY <1>1, <2>1, <2>2 DEF Refused
    <3> QED BY <1>1, <3>1 DEF Outcome
  <2>3. CASE stream # "ended"
    <3>1. Refused(c, from, other)
      BY <1>1, <1>2, <1>4, <2>1, <2>3 DEF Refused, Types
    <3> QED BY <3>1 DEF Outcome
  <2> QED BY <2>2, <2>3
<1> QED BY <1>3, <1>4

LEMMA PayloadOutcome ==
    ASSUME Types, Ends, NEW c \in Calls, NEW other, NEW k \in DOMAIN ends, NEW from \in Nat,
           from <= arrived,
           \/ k = call[c].need /\ from = consumed
           \/ call[c].need = 0 /\ consumed = Start(k) /\ from = consumed + HeaderSize,
           ReadPayload(c, k, from, other)
    PROVE  Outcome(c, other)
<1>1. /\ consumed \in Nat /\ arrived \in Nat /\ consumed <= arrived
      /\ HeaderSize \in Nat \ {0} /\ ends[k] \in Nat /\ k \in Nat /\ k # 0
      /\ Start(k) \in Nat /\ PayloadLength(k) \in Nat \ {0}
      /\ Start(k) + HeaderSize + PayloadLength(k) = ends[k]
  BY OneFrame, Counters
<1>2. CASE ~ Available(from, PayloadLength(k))
  BY <1>1, <1>2, WaitOutcome DEF ReadPayload
<1>3. CASE Available(from, PayloadLength(k)) /\ from = Start(k) + HeaderSize
  <2>1. from + PayloadLength(k) = ends[k] /\ ends[k] <= arrived /\ stream # "reset"
    BY <1>1, <1>3 DEF Available
  <2>2. Return(c, k, ends[k], other)
    BY <1>3, <2>1 DEF ReadPayload
  <2>3. Given(c, k, other)
    BY <1>1, <1>3, <2>1, <2>2 DEF Given
  <2> QED BY <2>3 DEF Outcome
<1>4. CASE Available(from, PayloadLength(k)) /\ from # Start(k) + HeaderSize
  <2>1. Return(c, 0, from + PayloadLength(k), other)
    BY <1>4 DEF ReadPayload
  <2>2. /\ from + PayloadLength(k) \in Nat /\ consumed <= from + PayloadLength(k)
        /\ from + PayloadLength(k) <= arrived
    BY <1>1, <1>4 DEF Available
  <2>3. Misplaced(c)
    BY <1>1, <1>4 DEF Misplaced
  <2>4. Refused(c, from + PayloadLength(k), other)
    BY <2>1, <2>2, <2>3 DEF Refused
  <2> QED BY <2>2, <2>4 DEF Outcome
<1> QED BY <1>2, <1>3, <1>4

LEMMA HeaderOutcome ==
    ASSUME Types, Ends, NEW c \in Calls, NEW other, call[c].need = 0,
           ReadHeader(c, consumed, other)
    PROVE  Outcome(c, other)
<1>1. /\ consumed \in Nat /\ arrived \in Nat /\ consumed <= arrived
      /\ HeaderSize \in Nat \ {0} /\ consumed + HeaderSize \in Nat
  BY Lengths DEF Types
<1>2. CASE ~ Available(consumed, HeaderSize)
  <2>1. Wait(c, 0, consumed, other)
    BY <1>2 DEF ReadHeader
  <2> QED BY <1>1, <2>1, WaitOutcome
<1>3. CASE Available(consumed, HeaderSize)
  <2>0. consumed + HeaderSize <= arrived
    BY <1>1, <1>3 DEF Available
  <2>1. CASE \E k \in DOMAIN ends : Start(k) = consumed
    <3>1. PICK k \in DOMAIN ends : k = CHOOSE j \in DOMAIN ends : Start(j) = consumed
      BY <2>1
    <3>2. Start(k) = consumed
      BY <2>1, <3>1
    <3>3. ReadPayload(c, k, consumed + HeaderSize, other)
      BY <1>3, <2>1, <3>1 DEF ReadHeader
    <3> QED BY <1>1, <2>0, <3>2, <3>3, PayloadOutcome
  <2>2. CASE ~ \E k \in DOMAIN ends : Start(k) = consumed
    <3>1. Return(c, 0, consumed + HeaderSize, other)
      BY <1>3, <2>2 DEF ReadHeader
    <3>2. Misplaced(c)
      BY <1>3, <2>2 DEF Misplaced
    <3>3. Refused(c, consumed + HeaderSize, other)
      BY <1>1, <2>0, <3>1, <3>2 DEF Refused
    <3> QED BY <1>1, <3>3 DEF Outcome
  <2> QED BY <2>1, <2>2
<1> QED BY <1>2, <1>3

\* A task that runs is given a frame, given nothing, or waits.
LEMMA ReadOutcome ==
    ASSUME Types, Known, Ends, NEW c \in Calls, Read(c)
    PROVE  /\ call[c].at = "draining" /\ call[c].need = 0
           /\ Outcome(c, waiter)
           /\ UNCHANGED <<requests, ends, arrived, stream, crossed>>
<1>1. call[c].at = "draining" /\ ReadHeader(c, consumed, waiter)
      /\ UNCHANGED <<requests, ends, arrived, stream, crossed>>
  BY DEF Read
<1>2. call[c].need = 0
  BY <1>1 DEF Known
<1> QED BY <1>1, <1>2, HeaderOutcome

LEMMA ResumeOutcome ==
    ASSUME Types, Known, Ends, NEW c \in Calls, Resume(c)
    PROVE  /\ call[c].at = "woken"
           /\ Outcome(c, NoCall)
           /\ UNCHANGED <<requests, ends, arrived, stream, crossed>>
<1>1. /\ call[c].at = "woken"
      /\ UNCHANGED <<requests, ends, arrived, stream, crossed>>
      /\ call[c].need = 0 => ReadHeader(c, consumed, NoCall)
      /\ call[c].need # 0 => ReadPayload(c, call[c].need, consumed, NoCall)
  BY DEF Resume
<1>2. CASE call[c].need = 0
  BY <1>1, <1>2, HeaderOutcome
<1>3. CASE call[c].need # 0
  <2>1. call[c].need \in DOMAIN ends
    <3>1. call[c].need \in Nat /\ call[c].need <= Len(ends)
      BY DEF Known, Types, Tasks
    <3> QED BY <1>3, <3>1, Lengths
  <2>2. consumed \in Nat /\ consumed <= arrived
    BY DEF Types
  <2> QED BY <1>1, <1>3, <2>1, <2>2, PayloadOutcome
<1> QED BY <1>1, <1>2, <1>3

-----------------------------------------------------------------------------
(* A task that runs preserves the invariant.                               *)

Still == UNCHANGED <<requests, ends, arrived, stream, crossed>>

\* The reader that waits may be another only when c has not waited itself.
Other(c, other) == other = NoCall \/ (other = waiter /\ call[c].at = "draining")

\* A call that is over leaves the others where they are.
LEMMA ReturnTypes ==
    ASSUME Types, Known, Taken, Still, NEW c \in Calls, NEW k \in Nat, NEW from \in Nat,
           NEW other, Other(c, other), consumed <= from, from <= arrived,
           Return(c, k, from, other)
    PROVE  /\ Types' /\ Known'
           /\ call' \in [Calls -> Tasks] /\ call'[c].at = "out"
           /\ \A d \in Calls : d # c => call'[d] = call[d]
           /\ ends' = ends /\ requests' = requests /\ arrived' = arrived
           /\ stream' = stream /\ crossed' = crossed
<1>1. /\ ends' = ends /\ requests' = requests /\ arrived' = arrived
      /\ stream' = stream /\ crossed' = crossed
  BY DEF Still
<1>2. Written' = Written
  BY <1>1 DEF Written
<1>3. Out \in Tasks /\ Out.at = "out" /\ Out.need = 0 /\ Out.own = 0
  BY DEF Out, Tasks, Places
<1>4. call \in [Calls -> Tasks]
  BY DEF Types
<1>5. call' \in [Calls -> Tasks] /\ call'[c] = Out /\ \A d \in Calls : d # c => call'[d] = call[d]
  BY <1>3, <1>4 DEF Return
<1>6. results' \in Seq([own : Nat, frame : Nat])
  <2>1. call[c].own \in Nat /\ results \in Seq([own : Nat, frame : Nat])
    BY DEF Types, Tasks
  <2>2. [own |-> call[c].own, frame |-> k] \in [own : Nat, frame : Nat]
    BY <2>1
  <2>3. Append(results, [own |-> call[c].own, frame |-> k]) \in Seq([own : Nat, frame : Nat])
    <3> DEFINE e == [own |-> call[c].own, frame |-> k]
    <3>1. e \in [own : Nat, frame : Nat]
      BY <2>2
    <3> HIDE DEF e
    <3>2. Append(results, e) \in Seq([own : Nat, frame : Nat])
      BY <2>1, <3>1, AppendProperties
    <3> QED BY <3>2 DEF e
  <2>4. results' = results \/ results' = Append(results, [own |-> call[c].own, frame |-> k])
    BY DEF Return
  <2> QED BY <2>1, <2>3, <2>4
<1>7. waiter' # NoCall => waiter' \in Calls /\ call'[waiter'].at = "waiting"
  <2>1. SUFFICES ASSUME waiter' # NoCall PROVE waiter' \in Calls /\ call'[waiter'].at = "waiting"
    OBVIOUS
  <2>2. waiter' = waiter /\ call[c].at = "draining"
    BY <2>1 DEF Return, Other
  <2>3. waiter \in Calls /\ call[waiter].at = "waiting"
    BY <2>1, <2>2 DEF Types
  <2>4. waiter # c
    BY <2>2, <2>3
  <2> QED BY <1>5, <2>2, <2>3, <2>4
<1>8. consumed' = from
  BY DEF Return
<1>9. Types'
  <2>1. /\ requests \in Nat /\ arrived \in Nat /\ ends \in Seq(Nat) /\ Len(ends) <= requests
        /\ arrived <= Written /\ stream \in {"open", "ended", "reset"}
    BY DEF Types
  <2>2. crossed' \in BOOLEAN
    BY <1>1 DEF Types
  <2> QED BY <1>1, <1>2, <1>5, <1>6, <1>7, <1>8, <2>1, <2>2 DEF Types
<1>10. Known'
  <2>1. requests \in Nat /\ Len(ends) \in Nat
    BY DEF Types
  <2> QED BY <1>1, <1>3, <1>5, <2>1 DEF Known
<1> QED BY <1>1, <1>3, <1>5, <1>9, <1>10

LEMMA SameEnds ==
    ASSUME Types, Ends, Taken, ends' = ends, consumed' \in Nat, consumed <= consumed',
           results' = results
    PROVE  Ends' /\ Taken'
<1>1. Ends'
  BY DEF Ends, Start
<1>2. Taken'
  <2>1. \A i \in DOMAIN results : results[i].frame \in DOMAIN ends
                                  /\ ends[results[i].frame] <= consumed
    BY DEF Taken
  <2>2. \A k \in DOMAIN ends : ends[k] \in Nat
    BY Lengths
  <2>3. consumed \in Nat
    BY DEF Types
  <2>4. \A i \in DOMAIN results : results[i].frame \in DOMAIN ends
                                  /\ ends[results[i].frame] <= consumed'
    BY <2>1, <2>2, <2>3
  <2> QED BY <2>4 DEF Taken
<1> QED BY <1>1, <1>2

\* What an agent that is alone is given is the answer to its request.
LEMMA GivenAlone ==
    ASSUME StreamInv, ~ crossed, NEW c \in Calls, call[c].at # "out", NEW other,
           NEW k \in DOMAIN ends, Given(c, k, other)
    PROVE  /\ k = requests /\ requests = Len(ends) /\ requests = Len(results) + 1
           /\ call[c].own = requests /\ ~ Dead
           /\ \A d \in Calls : d # c => call[d].at = "out"
<1> USE DEF StreamInv
<1>1. /\ k \in Nat /\ k # 0 /\ k <= Len(ends) /\ ends[k] \in Nat /\ Start(k) \in Nat
      /\ PayloadLength(k) \in Nat \ {0} /\ Start(k) + HeaderSize + PayloadLength(k) = ends[k]
      /\ Len(ends) \in Nat /\ requests \in Nat /\ Len(ends) <= requests
      /\ HeaderSize \in Nat \ {0}
  BY OneFrame, Counters
<1>2. ~ Dead
  <2>1. consumed < ends[k] /\ ends[k] <= arrived /\ stream # "reset"
    BY <1>1 DEF Given
  <2>2. arrived \in Nat /\ consumed \in Nat
    BY DEF Types
  <2> QED BY <1>1, <2>1, <2>2 DEF Dead
<1>3. /\ call[c].own = requests /\ InPlace(c) /\ Len(results) <= Len(ends)
      /\ \A d \in Calls : d # c => call[d].at = "out"
  BY <1>2 DEF Alone
<1>4. requests = Len(results) + 1 /\ Len(results) \in Nat
  BY <1>3 DEF InPlace, Types
<1>5. CASE call[c].need = 0
  <2>1. consumed = Start(k) /\ consumed = EndOf(Len(results))
    BY <1>1, <1>3, <1>5 DEF Given, InPlace
  <2>2. k = Len(results) + 1
    BY <1>3, <1>4, <2>1, StartTells
  <2> QED BY <1>1, <1>2, <1>3, <1>4, <2>2
<1>6. CASE call[c].need # 0
  <2>1. call[c].need = k /\ call[c].need = requests
    BY <1>3, <1>6 DEF Given, InPlace
  <2> QED BY <1>1, <1>2, <1>3, <1>4, <2>1
<1> QED BY <1>5, <1>6

LEMMA GivenPreserves ==
    ASSUME StreamInv, Still, NEW c \in Calls, call[c].at # "out", NEW other, Other(c, other),
           NEW k \in DOMAIN ends, Given(c, k, other)
    PROVE  StreamInv'
<1> USE DEF StreamInv
<1>1. /\ k \in Nat /\ k # 0 /\ ends[k] \in Nat /\ Start(k) \in Nat
      /\ PayloadLength(k) \in Nat \ {0} /\ Start(k) + HeaderSize + PayloadLength(k) = ends[k]
      /\ HeaderSize \in Nat \ {0} /\ consumed \in Nat /\ arrived \in Nat
      /\ results \in Seq([own : Nat, frame : Nat]) /\ Len(results) \in Nat
  BY OneFrame, Counters
<1>2. /\ Return(c, k, ends[k], other) /\ ends[k] <= arrived /\ consumed <= ends[k]
      /\ stream # "reset"
  BY <1>1 DEF Given
<1>3. /\ Types' /\ Known'
      /\ call'[c].at = "out" /\ \A d \in Calls : d # c => call'[d] = call[d]
      /\ ends' = ends /\ requests' = requests /\ arrived' = arrived
      /\ stream' = stream /\ crossed' = crossed
  BY <1>1, <1>2, ReturnTypes
<1>4. /\ consumed' = ends[k]
      /\ results' = Append(results, [own |-> call[c].own, frame |-> k])
  BY <1>1, <1>2 DEF Return
<1>5. /\ DOMAIN results' = 1 .. Len(results) + 1 /\ Len(results') = Len(results) + 1
      /\ DOMAIN results = 1 .. Len(results)
      /\ \A i \in DOMAIN results : results'[i] = results[i]
      /\ results'[Len(results) + 1] = [own |-> call[c].own, frame |-> k]
  <2> DEFINE e == [own |-> call[c].own, frame |-> k]
  <2>1. call[c].own \in Nat
    BY DEF Types, Tasks
  <2>2. e \in [own : Nat, frame : Nat]
    BY <1>1, <2>1
  <2> HIDE DEF e
  <2>3. results' = Append(results, e)
    BY <1>4 DEF e
  <2>4. /\ DOMAIN results' = 1 .. Len(results) + 1 /\ Len(results') = Len(results) + 1
        /\ DOMAIN results = 1 .. Len(results)
        /\ \A i \in DOMAIN results : results'[i] = results[i]
        /\ results'[Len(results) + 1] = e
    <3>1. results \in Seq([own : Nat, frame : Nat])
      BY <1>1
    <3> QED BY <2>2, <2>3, <3>1
  <2> QED BY <2>4 DEF e
<1>9. \A i \in DOMAIN results' : i \in DOMAIN results \/ i = Len(results) + 1
  <2>1. \A n \in Nat : \A i \in 1 .. n + 1 : i \in 1 .. n \/ i = n + 1
    OBVIOUS
  <2> QED BY <1>1, <1>5, <2>1
<1>6. Ends'
  BY <1>3 DEF Ends, Start
<1>7. Taken'
  <2>1. ASSUME NEW i \in DOMAIN results'
        PROVE  results'[i].frame \in DOMAIN ends /\ ends[results'[i].frame] <= ends[k]
    <3>1. CASE i = Len(results) + 1
      BY <1>1, <1>5, <3>1
    <3>2. CASE i # Len(results) + 1
      <4>1. i \in DOMAIN results
        BY <1>9, <3>2
      <4>2. results[i].frame \in DOMAIN ends /\ ends[results[i].frame] <= consumed
        BY <4>1 DEF Taken
      <4>3. ends[results[i].frame] \in Nat
        BY <4>2, Lengths
      <4>4. results'[i] = results[i]
        BY <1>5, <4>1
      <4>5. ends[results[i].frame] <= ends[k]
        <5>1. consumed <= ends[k] /\ consumed \in Nat /\ ends[k] \in Nat
          BY <1>1, <1>2
        <5>2. ends[results[i].frame] <= consumed
          BY <4>2
        <5> QED BY <4>3, <5>1, <5>2
      <4> QED BY <4>2, <4>4, <4>5
    <3> QED BY <3>1, <3>2
  <2> QED BY <1>3, <1>4, <2>1 DEF Taken
<1>8. Alone'
  <2>1. SUFFICES ASSUME ~ crossed PROVE Alone'
    BY <1>3 DEF Alone
  <2>2. /\ k = requests /\ requests = Len(ends) /\ requests = Len(results) + 1
        /\ call[c].own = requests /\ \A d \in Calls : d # c => call[d].at = "out"
    BY <2>1, GivenAlone
  <2>3. \A d \in Calls : call'[d].at = "out"
    BY <1>3, <2>2
  <2>4. \A i \in DOMAIN results' : results'[i].own = i /\ results'[i].frame = i
    <3>1. \A i \in DOMAIN results : results[i].own = i /\ results[i].frame = i
      BY <2>1 DEF Alone
    <3>2. /\ results'[Len(results) + 1].own = Len(results) + 1
          /\ results'[Len(results) + 1].frame = Len(results) + 1
      BY <1>5, <2>2
    <3> QED BY <1>5, <1>9, <3>1, <3>2
  <2>5. ends[k] = Written
    <3>1. ends # << >>
      BY <1>1, <2>2
    <3> QED BY <2>2, <3>1 DEF Written
  <2>6. Written' = Written
    BY <1>3 DEF Written
  <2>7. Dead' \/ (stream' = "open" /\ consumed' = Written')
    <3>1. stream = "ended" => arrived = ends[k]
      BY <1>1, <1>2, <2>5 DEF Types
    <3>2. stream = "ended" \/ stream = "open"
      BY <1>2 DEF Types
    <3> QED BY <1>3, <1>4, <2>5, <2>6, <3>1, <3>2 DEF Dead
  <2>8. Len(ends') = requests' /\ Len(results') = requests' /\ Len(results') <= Len(ends')
    <3>1. requests \in Nat
      BY DEF Types
    <3> QED BY <1>3, <1>5, <2>2, <3>1
  <2> QED BY <2>3, <2>4, <2>7, <2>8 DEF Alone
<1> QED BY <1>3, <1>6, <1>7, <1>8

LEMMA RefusedPreserves ==
    ASSUME StreamInv, Still, NEW c \in Calls, call[c].at # "out", NEW other, Other(c, other),
           NEW from \in Nat, Refused(c, from, other)
    PROVE  StreamInv'
<1> USE DEF StreamInv
<1>1. Return(c, 0, from, other) /\ consumed <= from /\ from <= arrived
  BY DEF Refused
<1>6. other # NoCall \/ stream = "reset" \/ (stream = "ended" /\ from = arrived) \/ Misplaced(c)
  BY DEF Refused
<1>2. /\ Types' /\ Known'
      /\ call'[c].at = "out" /\ \A d \in Calls : d # c => call'[d] = call[d]
      /\ ends' = ends /\ requests' = requests /\ arrived' = arrived
      /\ stream' = stream /\ crossed' = crossed
  BY <1>1, ReturnTypes
<1>3. consumed' = from /\ results' = results
  BY <1>1 DEF Return
<1>4. Ends' /\ Taken'
  BY <1>1, <1>2, <1>3, SameEnds
<1>5. Alone'
  <2>1. SUFFICES ASSUME ~ crossed PROVE Alone'
    BY <1>2 DEF Alone
  <2>2. \A d \in Calls : d # c => call[d].at = "out"
    BY <2>1 DEF Alone
  <2>3. \A d \in Calls : call'[d].at = "out"
    BY <1>2, <2>2
  <2>4. other = NoCall
    <3>1. SUFFICES ASSUME other # NoCall PROVE FALSE
      OBVIOUS
    <3>2. waiter \in Calls /\ call[waiter].at = "waiting" /\ call[c].at = "draining"
      BY <3>1 DEF Types, Other
    <3> QED BY <2>2, <3>2
  <2>5. /\ arrived \in Nat /\ consumed \in Nat /\ Len(ends) \in Nat /\ HeaderSize \in Nat \ {0}
        /\ arrived <= Written /\ consumed <= arrived /\ Len(results) \in Nat /\ Written \in Nat
    BY Lengths DEF Types
  <2>6. ASSUME Misplaced(c) PROVE Dead'
    <3>1. CASE Dead /\ call[c].need = 0
      <4>1. Available(consumed, HeaderSize)
        <5>1. 0 \notin DOMAIN ends
          BY Lengths
        <5> QED BY <2>6, <3>1, <5>1 DEF Misplaced
      <4> QED BY <2>5, <3>1, <4>1 DEF Dead, Available
    <3>2. CASE ~ (Dead /\ call[c].need = 0)
      <4>1. InPlace(c) /\ Len(results) <= Len(ends)
        BY <2>1, <3>2 DEF Alone
      <4>2. CASE call[c].need = 0
        <5>1. /\ consumed = EndOf(Len(results)) /\ Available(consumed, HeaderSize)
              /\ \A k \in DOMAIN ends : Start(k) # consumed
          <6>1. 0 \notin DOMAIN ends /\ requests \in Nat
            BY Lengths DEF Types
          <6> QED BY <2>5, <2>6, <4>1, <4>2, <6>1 DEF InPlace, Misplaced
        <5>2. CASE Len(results) < Len(ends)
          <6>1. Len(results) + 1 \in DOMAIN ends /\ Start(Len(results) + 1) = consumed
            BY <2>5, <5>1, <5>2, StartAfter
          <6> QED BY <5>1, <6>1
        <5>3. CASE Len(results) = Len(ends)
          <6>1. consumed = Written
            BY <2>5, <5>1, <5>3 DEF EndOf, Written
          <6> QED BY <2>5, <5>1, <6>1 DEF Available
        <5> QED BY <2>5, <4>1, <5>2, <5>3
      <4>3. CASE call[c].need # 0
        <5>1. /\ requests = Len(results) + 1 /\ call[c].need = Len(results) + 1
              /\ consumed = EndOf(Len(results)) + HeaderSize /\ requests = Len(ends)
          BY <4>1, <4>3 DEF InPlace
        <5>2. Start(Len(results) + 1) = EndOf(Len(results))
          BY <2>5, <5>1, StartAfter
        <5> QED BY <2>6, <4>3, <5>1, <5>2 DEF Misplaced
      <4> QED BY <4>2, <4>3
    <3> QED BY <3>1, <3>2
  <2>7. Dead'
    <3>1. stream = "reset" => Dead'
      BY <1>2 DEF Dead
    <3>2. stream = "ended" /\ from = arrived => Dead'
      BY <1>2, <1>3 DEF Dead
    <3> QED BY <1>6, <2>4, <2>6, <3>1, <3>2
  <2>8. AllOut'
    BY <2>3 DEF AllOut
  <2>9. /\ \A i \in DOMAIN results' : results'[i].own = i /\ results'[i].frame = i
        /\ Len(results') <= Len(ends')
    BY <1>2, <1>3, <2>1 DEF Alone
  <2> QED BY <2>3, <2>7, <2>9 DEF Alone
<1> QED BY <1>2, <1>4, <1>5

LEMMA WaitsPreserves ==
    ASSUME StreamInv, Still, NEW c \in Calls, call[c].at # "out",
           NEW k \in Nat, NEW from \in Nat, NEW other, Waits(c, k, from, other)
    PROVE  StreamInv'
<1> USE DEF StreamInv
<1>1. /\ ends' = ends /\ requests' = requests /\ arrived' = arrived
      /\ stream' = stream /\ crossed' = crossed /\ stream = "open"
      /\ consumed' = from /\ waiter' = c /\ results' = results
  BY DEF Still, Waits
<1>2. call \in [Calls -> Tasks] /\ requests \in Nat /\ Len(ends) \in Nat
  BY DEF Types
<1>3. /\ call' \in [Calls -> Tasks]
      /\ call'[c].at = "waiting" /\ call'[c].need = k /\ call'[c].own = call[c].own
      /\ \A d \in Calls : d # c => call'[d] = call[d]
  <2>1. call' = [call EXCEPT ![c] = [at |-> "waiting", need |-> k, own |-> call[c].own]]
    BY DEF Waits
  <2>2. [at |-> "waiting", need |-> k, own |-> call[c].own] \in Tasks
    BY <1>2 DEF Tasks, Places
  <2> QED BY <1>2, <2>1, <2>2
<1>4. /\ consumed \in Nat /\ arrived \in Nat /\ consumed <= from /\ from <= arrived
      /\ HeaderSize \in Nat \ {0} /\ k <= Len(ends)
  <2>1. consumed \in Nat /\ arrived \in Nat /\ consumed <= arrived /\ HeaderSize \in Nat \ {0}
        /\ DOMAIN ends = 1 .. Len(ends)
    BY Lengths DEF Types
  <2>2. call[c].need <= Len(ends)
    BY DEF Known
  <2> QED BY <1>2, <2>1, <2>2 DEF Waits
<1>5. Types'
  <2>1. Written' = Written
    BY <1>1 DEF Written
  <2>2. /\ ends \in Seq(Nat) /\ Len(ends) <= requests /\ arrived <= Written
        /\ results \in Seq([own : Nat, frame : Nat]) /\ crossed \in BOOLEAN
    BY DEF Types
  <2>3. crossed' \in BOOLEAN
    BY <1>1, <2>2
  <2> QED BY <1>1, <1>2, <1>3, <1>4, <2>1, <2>2, <2>3 DEF Types
<1>6. Known'
  BY <1>1, <1>2, <1>3, <1>4 DEF Known
<1>7. Ends' /\ Taken'
  BY <1>1, <1>4, SameEnds
<1>8. Alone'
  <2>1. SUFFICES ASSUME ~ crossed PROVE Alone'
    BY <1>1 DEF Alone
  <2>2. /\ \A d \in Calls : d # c => call[d].at = "out"
        /\ \A i \in DOMAIN results : results[i].own = i /\ results[i].frame = i
        /\ Len(results) <= Len(ends) /\ call[c].own = requests
    BY <2>1 DEF Alone
  <2>3. ~ Dead
    BY <1>1 DEF Dead
  <2>4. InPlace(c)
    BY <2>1, <2>3 DEF Alone
  <2>5. InPlace(c)'
    <3>1. requests = Len(results) + 1 /\ Len(results) \in Nat
      BY <2>4 DEF InPlace, Types
    <3>2. EndOf(Len(results))' = EndOf(Len(results))
      BY <1>1 DEF EndOf
    <3>3. CASE k = call[c].need /\ from = consumed
      BY <1>1, <1>3, <2>4, <3>2, <3>3 DEF InPlace
    <3>4. CASE /\ k \in DOMAIN ends /\ call[c].need = 0 /\ consumed = Start(k)
               /\ from = consumed + HeaderSize
      <4>1. consumed = EndOf(Len(results))
        BY <1>2, <2>4, <3>1, <3>4 DEF InPlace
      <4>2. k = Len(results) + 1
        BY <2>2, <3>1, <3>4, <4>1, StartTells
      <4>3. k = requests /\ requests = Len(ends)
        BY <1>2, <1>4, <3>1, <4>2 DEF Types
      <4> QED BY <1>1, <1>3, <3>1, <3>2, <3>4, <4>1, <4>3 DEF InPlace
    <3> QED BY <3>3, <3>4 DEF Waits
  <2>6. ~ AllOut'
    BY <1>3 DEF AllOut
  <2>7. \A d \in Calls : d # c => call'[d].at = "out"
    BY <1>3, <2>2
  <2> QED BY <1>1, <1>3, <2>2, <2>5, <2>6, <2>7 DEF Alone
<1> QED BY <1>5, <1>6, <1>7, <1>8

LEMMA OutcomePreserves ==
    ASSUME StreamInv, Still, NEW c \in Calls, call[c].at # "out", NEW other, Other(c, other),
           Outcome(c, other)
    PROVE  StreamInv'
BY GivenPreserves, RefusedPreserves, WaitsPreserves DEF Outcome

-----------------------------------------------------------------------------
(* So do a new call, the server and the connection.                        *)

LEMMA BeginPreserves ==
    ASSUME StreamInv, NEW c \in Calls, Begin(c)
    PROVE  StreamInv'
<1>0. Types /\ Known /\ Ends /\ Taken /\ Alone
  BY DEF StreamInv
<1>1. /\ ends' = ends /\ arrived' = arrived /\ consumed' = consumed /\ stream' = stream
      /\ waiter' = waiter /\ results' = results /\ requests' = requests + 1
      /\ call[c].at = "out"
  BY DEF Begin
<1>2. requests \in Nat /\ Len(ends) \in Nat /\ Len(ends) <= requests
      /\ call \in [Calls -> Tasks]
  BY <1>0 DEF Types
<1>3. /\ call' \in [Calls -> Tasks]
      /\ call'[c] = [at |-> "draining", need |-> 0, own |-> requests + 1]
      /\ \A d \in Calls : d # c => call'[d] = call[d]
  <2>1. [at |-> "draining", need |-> 0, own |-> requests + 1] \in Tasks
    BY <1>2 DEF Tasks, Places
  <2>2. call' = [call EXCEPT ![c] = [at |-> "draining", need |-> 0, own |-> requests + 1]]
    BY DEF Begin
  <2> QED BY <1>2, <2>1, <2>2
<1>4. Types'
  <2>1. Written' = Written
    BY <1>1 DEF Written
  <2>2. waiter # NoCall => waiter \in Calls /\ waiter # c /\ call[waiter].at = "waiting"
    BY <1>0, <1>1 DEF Types
  <2>3. waiter' # NoCall => waiter' \in Calls /\ call'[waiter'].at = "waiting"
    BY <1>1, <1>3, <2>2
  <2>4. crossed' \in BOOLEAN
    BY <1>0 DEF Begin, Types
  <2>5. Len(ends) <= requests + 1
    BY <1>2
  <2> QED BY <1>0, <1>1, <1>2, <1>3, <2>1, <2>3, <2>4, <2>5 DEF Types
<1>5. Known'
  <2>1. \A d \in Calls : /\ call[d].need <= Len(ends) /\ call[d].own <= requests
                         /\ call[d].at = "draining" => call[d].need = 0
    BY <1>0 DEF Known
  <2>2. \A d \in Calls : call[d].own \in Nat /\ call[d].need \in Nat
    BY <1>2 DEF Tasks
  <2>3. /\ call'[c].at = "draining" /\ call'[c].need = 0 /\ call'[c].own = requests + 1
    BY <1>3
  <2>4. ASSUME NEW d \in Calls
        PROVE  /\ call'[d].need <= Len(ends) /\ call'[d].own <= requests + 1
               /\ call'[d].at = "draining" => call'[d].need = 0
    <3>1. CASE d = c
      BY <1>2, <2>3, <3>1
    <3>2. CASE d # c
      <4>1. call'[d] = call[d]
        BY <1>3, <3>2
      <4> QED BY <1>2, <2>1, <2>2, <4>1
    <3> QED BY <3>1, <3>2
  <2> QED BY <1>1, <2>4 DEF Known
<1>6. Ends' /\ Taken'
  <2>1. consumed \in Nat
    BY <1>0 DEF Types
  <2> QED BY <1>0, <1>1, <2>1, SameEnds
<1>7. Alone'
  <2>1. SUFFICES ASSUME ~ crossed' PROVE Alone'
    BY DEF Alone
  <2>2. ~ crossed /\ \A d \in Calls : call[d].at = "out"
    BY <2>1 DEF Begin
  <2>3. /\ \A i \in DOMAIN results : results[i].own = i /\ results[i].frame = i
        /\ Len(results) <= Len(ends)
        /\ Dead \/ (stream = "open" /\ consumed = Written /\ Len(ends) = requests
                    /\ Len(results) = requests)
    BY <1>0, <2>2 DEF Alone, AllOut
  <2>4. \A d \in Calls : d # c => call'[d].at = "out"
    BY <1>3, <2>2
  <2>5. ~ AllOut'
    BY <1>3 DEF AllOut
  <2>6. call'[c].own = requests' /\ call'[c].at = "draining" /\ call'[c].need = 0
    BY <1>1, <1>3
  <2>7. CASE Dead
    <3>1. Dead'
      BY <1>1, <2>7 DEF Dead
    <3> QED BY <1>1, <2>3, <2>4, <2>5, <2>6, <3>1 DEF Alone
  <2>8. CASE /\ consumed = Written /\ Len(ends) = requests /\ Len(results) = requests
    <3>1. EndOf(Len(results))' = Written
      BY <1>1, <1>2, <2>8 DEF EndOf, Written
    <3>2. InPlace(c)'
      BY <1>1, <2>6, <2>8, <3>1 DEF InPlace
    <3> QED BY <1>1, <2>3, <2>4, <2>5, <2>6, <3>2 DEF Alone
  <2> QED BY <2>3, <2>7, <2>8
<1> QED BY <1>4, <1>5, <1>6, <1>7 DEF StreamInv

LEMMA FrameIsLonger ==
    ASSUME NEW n \in Nat
    PROVE  FrameLength(n) \in Nat /\ FrameLength(n) > HeaderSize
<1>1. /\ SignatureSize + n \in Nat /\ SealOverhead \in Nat /\ HeaderSize \in Nat
      /\ BlockSize \in Nat \ {0}
  BY WireAssumption
<1>2. LengthField + (SignatureSize + n) \in Nat /\ LengthField + (SignatureSize + n) > 0
  BY <1>1 DEF LengthField
<1>3. PadNeeded(LengthField + (SignatureSize + n)) \in Nat
  BY <1>1, <1>2, PadNeededBounds
<1>4. PaddedLength(SignatureSize + n) \in Nat /\ PaddedLength(SignatureSize + n) > 0
  BY <1>1, <1>2, <1>3 DEF PaddedLength
<1> QED BY <1>1, <1>4 DEF FrameLength, SealedLength

LEMMA RespondPreserves ==
    ASSUME StreamInv, NEW n \in DataLengths, Respond(n)
    PROVE  StreamInv'
<1> DEFINE end == Written + FrameLength(n)
<1>0. Types /\ Known /\ Ends /\ Taken /\ Alone
  BY DEF StreamInv
<1>1. /\ requests' = requests /\ arrived' = arrived /\ consumed' = consumed
      /\ stream' = stream /\ waiter' = waiter /\ results' = results /\ call' = call
      /\ crossed' = crossed /\ stream = "open" /\ Len(ends) < requests
      /\ ends' = Append(ends, end)
  BY DEF Respond
<1>2. /\ Written \in Nat /\ Len(ends) \in Nat /\ requests \in Nat /\ arrived \in Nat
      /\ arrived <= Written /\ DOMAIN ends = 1 .. Len(ends) /\ HeaderSize \in Nat
      /\ consumed \in Nat /\ consumed <= arrived
      /\ \A k \in DOMAIN ends : ends[k] \in Nat /\ ends[k] <= Written
  BY <1>0, Lengths DEF Types
<1>3. end \in Nat /\ end > Written + HeaderSize
  <2>1. n \in Nat
    BY StreamAssumption
  <2>2. FrameLength(n) \in Nat /\ FrameLength(n) > HeaderSize
    BY <2>1, FrameIsLonger
  <2> QED BY <1>2, <2>2
<1> HIDE DEF end
<1>4. /\ ends' \in Seq(Nat) /\ Len(ends') = Len(ends) + 1
      /\ DOMAIN ends' = 1 .. Len(ends) + 1
      /\ \A k \in DOMAIN ends : ends'[k] = ends[k]
      /\ ends'[Len(ends) + 1] = end
  BY <1>0, <1>1, <1>2, <1>3 DEF Types
<1>5. \A k \in DOMAIN ends' : k \in DOMAIN ends \/ k = Len(ends) + 1
  BY <1>2, <1>4
<1>6. DOMAIN ends \subseteq DOMAIN ends'
  BY <1>2, <1>4
<1>7. Written' = end
  <2>1. ends' # << >>
    BY <1>2, <1>4
  <2> QED BY <1>4, <2>1 DEF Written
<1>8. Types'
  <2>1. arrived' <= end /\ Len(ends') <= requests'
    BY <1>1, <1>2, <1>3, <1>4
  <2>2. crossed' \in BOOLEAN
    BY <1>0, <1>1 DEF Types
  <2> QED BY <1>0, <1>1, <1>4, <1>7, <2>1, <2>2 DEF Types
<1>9. Known'
  <2>1. \A c \in Calls : call[c].need \in Nat
    BY <1>0 DEF Types, Tasks
  <2> QED BY <1>0, <1>1, <1>2, <1>4, <2>1 DEF Known
<1>10. \A k \in DOMAIN ends : Start(k)' = Start(k)
  <2>1. ASSUME NEW k \in DOMAIN ends, k # 1
        PROVE  k - 1 \in DOMAIN ends
    BY <1>2, <2>1
  <2> QED BY <1>4, <2>1 DEF Start
<1>11. ASSUME NEW k \in DOMAIN ends', k = Len(ends) + 1
       PROVE  Start(k)' = Written
  <2>1. CASE Len(ends) = 0
    <3>1. Written = 0 /\ k = 1
      BY <1>0, <1>11, <2>1 DEF Types, Written
    <3>2. Start(k)' = 0
      BY <3>1 DEF Start
    <3> QED BY <3>1, <3>2
  <2>2. CASE Len(ends) # 0
    <3>1. ends # << >> /\ Len(ends) \in DOMAIN ends /\ k # 1 /\ k - 1 = Len(ends)
      BY <1>2, <1>11, <2>2
    <3>2. Written = ends[Len(ends)]
      BY <3>1 DEF Written
    <3>3. ends'[k - 1] = ends[Len(ends)]
      BY <1>4, <3>1
    <3>4. Start(k)' = ends'[k - 1]
      BY <3>1 DEF Start
    <3> QED BY <3>2, <3>3, <3>4
  <2> QED BY <2>1, <2>2
<1>12. Ends'
  <2>1. ASSUME NEW k \in DOMAIN ends'
        PROVE  ends'[k] > Start(k)' + HeaderSize /\ Start(k)' \in Nat
    <3>1. CASE k \in DOMAIN ends
      BY <1>0, <1>4, <1>10, <3>1 DEF Ends
    <3>2. CASE k = Len(ends) + 1
      <4>1. Start(k)' = Written
        BY <1>11, <3>2
      <4> QED BY <1>2, <1>3, <1>4, <3>2, <4>1
    <3> QED BY <1>5, <3>1, <3>2
  <2>2. ASSUME NEW j \in DOMAIN ends', NEW k \in DOMAIN ends', j < k
        PROVE  ends'[j] <= Start(k)'
    <3>1. j \in DOMAIN ends
      BY <1>2, <1>4, <2>2
    <3>2. CASE k \in DOMAIN ends
      BY <1>0, <1>4, <1>10, <2>2, <3>1, <3>2 DEF Ends
    <3>3. CASE k = Len(ends) + 1
      <4>1. Start(k)' = Written
        BY <1>11, <3>3
      <4> QED BY <1>2, <1>4, <3>1, <4>1
    <3> QED BY <1>5, <3>2, <3>3
  <2> QED BY <2>1, <2>2 DEF Ends
<1>13. Taken'
  <2>1. \A i \in DOMAIN results : results[i].frame \in DOMAIN ends
                                  /\ ends[results[i].frame] <= consumed
    BY <1>0 DEF Taken
  <2> QED BY <1>1, <1>4, <1>6, <2>1 DEF Taken
<1>14. Alone'
  <2>1. SUFFICES ASSUME ~ crossed PROVE Alone'
    BY <1>1 DEF Alone
  <2>2. ~ Dead /\ ~ AllOut
    BY <1>0, <1>1, <1>2, <2>1 DEF Alone, Dead
  <2>3. /\ \A c, d \in Calls : call[c].at # "out" /\ call[d].at # "out" => c = d
        /\ \A i \in DOMAIN results : results[i].own = i /\ results[i].frame = i
        /\ Len(results) <= Len(ends) /\ Len(results) \in Nat
        /\ \A c \in Calls : call[c].at # "out" => call[c].own = requests /\ InPlace(c)
    BY <1>0, <2>1, <2>2 DEF Alone, Types
  <2>4. EndOf(Len(results))' = EndOf(Len(results))
    <3>1. Len(results) # 0 => Len(results) \in DOMAIN ends
      BY <1>2, <2>3
    <3> QED BY <1>1, <1>4, <3>1 DEF EndOf
  <2>5. \A c \in Calls : InPlace(c) => InPlace(c)'
    <3>1. Len(ends) < requests /\ requests \in Nat /\ Len(ends) \in Nat
      BY <1>1, <1>2
    <3>2. requests # Len(ends)
      BY <3>1
    <3> QED BY <1>1, <2>4, <3>2 DEF InPlace
  <2>6. ~ AllOut' /\ Len(results') <= Len(ends')
    <3>1. ~ AllOut'
      BY <1>1, <2>2 DEF AllOut
    <3>2. Len(results) <= Len(ends) + 1
      BY <1>2, <2>3
    <3> QED BY <1>1, <1>4, <3>1, <3>2
  <2> QED BY <1>1, <2>3, <2>5, <2>6 DEF Alone
<1> QED BY <1>8, <1>9, <1>12, <1>13, <1>14 DEF StreamInv

\* What the waiting reader does when it is woken.
LEMMA WakeTasks ==
    ASSUME Types, Wake
    PROVE  /\ call' \in [Calls -> Tasks] /\ waiter' = NoCall
           /\ \A c \in Calls : /\ call'[c].need = call[c].need /\ call'[c].own = call[c].own
                               /\ call'[c].at = "out" <=> call[c].at = "out"
                               /\ call'[c].at = "draining" <=> call[c].at = "draining"
<1>1. call \in [Calls -> Tasks] /\ waiter' = NoCall
  BY DEF Types, Wake
<1>2. CASE waiter = NoCall
  BY <1>1, <1>2 DEF Wake
<1>3. CASE waiter # NoCall
  <2>1. waiter \in Calls /\ call[waiter].at = "waiting"
    BY <1>3 DEF Types
  <2>2. call' = [call EXCEPT ![waiter].at = "woken"]
    BY <1>3 DEF Wake
  <2>3. call' \in [Calls -> Tasks]
    BY <1>1, <2>1, <2>2 DEF Tasks, Places
  <2>4. /\ call'[waiter].at = "woken" /\ call'[waiter].need = call[waiter].need
        /\ call'[waiter].own = call[waiter].own
    BY <1>1, <2>1, <2>2 DEF Tasks
  <2>5. \A c \in Calls : c # waiter => call'[c] = call[c]
    BY <1>1, <2>1, <2>2
  <2> QED BY <1>1, <2>1, <2>3, <2>4, <2>5
<1> QED BY <1>2, <1>3

\* Bytes that come, and the end of the stream, change nothing that was known.
LEMMA WakePreserves ==
    ASSUME StreamInv, Wake, UNCHANGED <<requests, ends, consumed, results, crossed>>,
           arrived' \in Nat, consumed <= arrived', arrived' <= Written,
           stream' \in {"open", "ended", "reset"}, stream = "open",
           \/ stream' = "open"
           \/ arrived' = arrived
    PROVE  StreamInv'
<1>0. Types /\ Known /\ Ends /\ Taken /\ Alone
  BY DEF StreamInv
<1>1. /\ requests' = requests /\ ends' = ends /\ consumed' = consumed
      /\ results' = results /\ crossed' = crossed
  OBVIOUS
<1>2. /\ call' \in [Calls -> Tasks] /\ waiter' = NoCall
      /\ \A c \in Calls : /\ call'[c].need = call[c].need /\ call'[c].own = call[c].own
                          /\ call'[c].at = "out" <=> call[c].at = "out"
                          /\ call'[c].at = "draining" <=> call[c].at = "draining"
  BY <1>0, WakeTasks
<1>3. Written' = Written
  BY <1>1 DEF Written
<1>4. Types'
  <2>1. crossed' \in BOOLEAN
    BY <1>0, <1>1 DEF Types
  <2> QED BY <1>0, <1>1, <1>2, <1>3, <2>1 DEF Types
<1>5. Known'
  BY <1>0, <1>1, <1>2 DEF Known
<1>6. Ends' /\ Taken'
  <2>1. consumed \in Nat
    BY <1>0 DEF Types
  <2> QED BY <1>0, <1>1, <2>1, SameEnds
<1>7. Alone'
  <2>1. SUFFICES ASSUME ~ crossed PROVE Alone'
    BY <1>1 DEF Alone
  <2>2. ~ Dead
    BY DEF Dead
  <2>3. /\ \A c, d \in Calls : call[c].at # "out" /\ call[d].at # "out" => c = d
        /\ \A i \in DOMAIN results : results[i].own = i /\ results[i].frame = i
        /\ Len(results) <= Len(ends)
        /\ \A c \in Calls : call[c].at # "out" => call[c].own = requests /\ InPlace(c)
    BY <1>0, <2>1, <2>2 DEF Alone
  <2>4. EndOf(Len(results))' = EndOf(Len(results))
    BY <1>1 DEF EndOf
  <2>5. \A c \in Calls : InPlace(c) => InPlace(c)'
    BY <1>1, <1>2, <2>4 DEF InPlace
  <2>6. AllOut' => AllOut
    BY <1>2 DEF AllOut
  <2>7. AllOut' => \/ Dead'
                   \/ /\ stream' = "open" /\ consumed' = Written'
                      /\ Len(ends') = requests' /\ Len(results') = requests'
    <3>1. SUFFICES ASSUME AllOut, stream' # "open" PROVE Dead'
      BY <1>0, <1>1, <1>3, <2>1, <2>2, <2>6 DEF Alone
    <3>2. consumed = Written
      BY <1>0, <2>1, <2>2, <3>1 DEF Alone
    <3>3. Written \in Nat /\ consumed' = arrived'
      BY <1>0, <1>1, <3>2, Lengths
    <3> QED BY <3>1, <3>3 DEF Dead
  <2> QED BY <1>1, <1>2, <2>3, <2>5, <2>7 DEF Alone
<1> QED BY <1>4, <1>5, <1>6, <1>7 DEF StreamInv

LEMMA StutterPreserves ==
    ASSUME StreamInv, UNCHANGED vars
    PROVE  StreamInv'
<1>1. /\ requests' = requests /\ ends' = ends /\ arrived' = arrived /\ consumed' = consumed
      /\ stream' = stream /\ waiter' = waiter /\ call' = call /\ results' = results
      /\ crossed' = crossed
  BY DEF vars
<1>2. Types' /\ Known' /\ Taken'
  BY <1>1 DEF StreamInv, Types, Written, Known, Taken
<1>3. Ends' /\ Alone'
  BY <1>1 DEF StreamInv, Ends, Start, Alone, AllOut, Dead, InPlace, EndOf, Written
<1> QED BY <1>2, <1>3 DEF StreamInv

LEMMA StepPreserves == StreamInv /\ [Next]_vars => StreamInv'
<1> SUFFICES ASSUME StreamInv, [Next]_vars PROVE StreamInv'
  OBVIOUS
<1>0. Types /\ Known /\ Ends
  BY DEF StreamInv
<1>1. ASSUME NEW c \in Calls, Begin(c) PROVE StreamInv'
  BY <1>1, BeginPreserves
<1>2. ASSUME NEW c \in Calls, Read(c) PROVE StreamInv'
  <2>1. call[c].at = "draining" /\ Outcome(c, waiter) /\ Still
    BY <1>0, <1>2, ReadOutcome DEF Still
  <2> QED BY <2>1, OutcomePreserves DEF Other
<1>3. ASSUME NEW c \in Calls, Resume(c) PROVE StreamInv'
  <2>1. call[c].at = "woken" /\ Outcome(c, NoCall) /\ Still
    BY <1>0, <1>3, ResumeOutcome DEF Still
  <2> QED BY <2>1, OutcomePreserves DEF Other
<1>4. ASSUME NEW n \in DataLengths, Respond(n) PROVE StreamInv'
  BY <1>4, RespondPreserves
<1>5. ASSUME Arrive PROVE StreamInv'
  <2>1. /\ Wake /\ UNCHANGED <<requests, ends, consumed, results, crossed>>
        /\ stream' = stream /\ stream = "open" /\ arrived' \in arrived + 1 .. Written
    BY <1>5 DEF Arrive
  <2>2. arrived \in Nat /\ consumed \in Nat /\ consumed <= arrived /\ Written \in Nat
    BY <1>0, Lengths DEF Types
  <2>3. arrived' \in Nat /\ consumed <= arrived' /\ arrived' <= Written
    BY <2>1, <2>2
  <2> QED BY <2>1, <2>3, WakePreserves
<1>6. ASSUME NEW how \in {"ended", "reset"}, End(how) PROVE StreamInv'
  <2>1. /\ Wake /\ UNCHANGED <<requests, ends, consumed, results, crossed>>
        /\ arrived' = arrived /\ stream = "open" /\ stream' \in {"open", "ended", "reset"}
    BY <1>6 DEF End
  <2>2. arrived \in Nat /\ consumed <= arrived /\ arrived <= Written
    BY <1>0 DEF Types
  <2> QED BY <2>1, <2>2, WakePreserves
<1>7. CASE UNCHANGED vars
  BY <1>7, StutterPreserves
<1> QED BY <1>1, <1>2, <1>3, <1>4, <1>5, <1>6, <1>7 DEF Next

\* Where the tasks that read a connection stand, in every state.
THEOREM StreamInvariant == Spec => []StreamInv
BY InitStreamInv, StepPreserves, PTL DEF Spec

\* An agent whose calls never overlap is given the answer to each of its
\* requests, and leaves nothing of it in the stream, whatever the sizes and
\* however the bytes come in.
THEOREM AgentInStep == Spec => []InStep
<1>1. StreamInv => InStep
  <2>1. SUFFICES ASSUME StreamInv, ~ crossed PROVE InStep
    BY DEF InStep
  <2>2. Alone
    BY <2>1 DEF StreamInv
  <2>3. \A i \in DOMAIN results : results[i].own = results[i].frame
    BY <2>1, <2>2 DEF Alone
  <2>4. stream = "open" /\ AllOut => consumed = Written /\ Len(ends) = requests
    BY <2>1, <2>2 DEF Alone, Dead
  <2> QED BY <2>3, <2>4 DEF InStep, AllOut
<1> QED BY <1>1, StreamInvariant, PTL

\* The types of the variables, and that the waiting reader is one that waits.
THEOREM StreamTypes == Spec => []TypeOK
<1>1. StreamInv => TypeOK
  <2>1. SUFFICES ASSUME Types, Known PROVE TypeOK
    BY DEF StreamInv
  <2>2. call \in [Calls -> [ at : Places, need : 0 .. Len(ends), own : 0 .. requests ]]
    <3>1. call \in [Calls -> Tasks] /\ Len(ends) \in Nat /\ requests \in Nat
      BY <2>1 DEF Types
    <3>2. ASSUME NEW c \in Calls
          PROVE  call[c] \in [ at : Places, need : 0 .. Len(ends), own : 0 .. requests ]
      <4>1. call[c] \in Tasks /\ call[c].need <= Len(ends) /\ call[c].own <= requests
        BY <2>1, <3>1 DEF Known
      <4> QED BY <3>1, <4>1 DEF Tasks
    <3> QED BY <3>1, <3>2
  <2> QED BY <2>1, <2>2 DEF TypeOK, Types, Places
<1> QED BY <1>1, StreamInvariant, PTL

-----------------------------------------------------------------------------
(* Frames come in order, each to one call.                                 *)

Numbers == [i \in DOMAIN results |-> results[i].frame]

LEMMA GivenTakes ==
    ASSUME StreamInv, Still, NEW c \in Calls, call[c].at # "out", NEW other,
           NEW k \in DOMAIN ends, Given(c, k, other)
    PROVE  Channel!Take
<1> DEFINE last == IF Numbers = << >> THEN 0 ELSE Numbers[Len(Numbers)]
           e == [own |-> call[c].own, frame |-> k]
<1>0. Types /\ Ends /\ Taken /\ Alone
  BY DEF StreamInv
<1>1. /\ results \in Seq([own : Nat, frame : Nat]) /\ e \in [own : Nat, frame : Nat]
      /\ e.frame = k
  <2>1. k \in Nat
    BY <1>0, Lengths
  <2>2. call[c].own \in Nat
    BY <1>0 DEF Types, Tasks
  <2> QED BY <1>0, <2>1, <2>2 DEF Types
<1>2. results' = Append(results, e)
  <2>1. Return(c, k, ends[k], other) /\ k # 0
    BY <1>0, Lengths DEF Given
  <2> QED BY <2>1 DEF Return
<1> HIDE DEF e
<1>3. /\ Numbers \in Seq(Nat) /\ Len(Numbers) = Len(results) /\ Len(results) \in Nat
      /\ DOMAIN results = 1 .. Len(results)
      /\ \A i \in DOMAIN results : Numbers[i] = results[i].frame
  <2>1. /\ DOMAIN results = 1 .. Len(results) /\ Len(results) \in Nat
        /\ \A i \in DOMAIN results : results[i] \in [own : Nat, frame : Nat]
    <3> DEFINE R == [own : Nat, frame : Nat]
    <3>1. results \in Seq(R)
      BY <1>1
    <3> HIDE DEF R
    <3>2. /\ DOMAIN results = 1 .. Len(results) /\ Len(results) \in Nat
          /\ \A i \in DOMAIN results : results[i] \in R
      BY <3>1
    <3> QED BY <3>2 DEF R
  <2>2. Numbers \in [1 .. Len(results) -> Nat]
    BY <2>1 DEF Numbers
  <2> QED BY <2>1, <2>2 DEF Numbers
<1>4. Numbers' = Append(Numbers, k)
  <2>1. /\ DOMAIN results' = 1 .. Len(results) + 1
        /\ \A i \in DOMAIN results : results'[i] = results[i]
        /\ results'[Len(results) + 1] = e
    BY <1>1, <1>2
  <2>2. /\ Append(Numbers, k) \in Seq(Nat) /\ Len(Append(Numbers, k)) = Len(results) + 1
        /\ \A i \in DOMAIN results : Append(Numbers, k)[i] = Numbers[i]
        /\ Append(Numbers, k)[Len(results) + 1] = k
    <3>1. k \in Nat
      BY <1>0, Lengths
    <3>2. Numbers \in Seq(Nat)
      BY <1>3
    <3> HIDE DEF Numbers
    <3> QED BY <1>3, <3>1, <3>2, AppendProperties
  <2>5. Append(Numbers, k) = [i \in 1 .. Len(results) + 1 |-> Append(Numbers, k)[i]]
    <3> DEFINE a == Append(Numbers, k)
    <3>1. a \in Seq(Nat) /\ Len(a) = Len(results) + 1
      BY <2>2
    <3> HIDE DEF a
    <3>2. a = [i \in 1 .. Len(a) |-> a[i]]
      BY <3>1
    <3> QED BY <3>1, <3>2 DEF a
  <2>3. Numbers' = [i \in 1 .. Len(results) + 1 |-> results'[i].frame]
    BY <2>1 DEF Numbers
  <2>4. ASSUME NEW i \in 1 .. Len(results) + 1
        PROVE  results'[i].frame = Append(Numbers, k)[i]
    <3>1. i \in DOMAIN results \/ i = Len(results) + 1
      BY <1>3
    <3> QED BY <1>1, <1>3, <2>1, <2>2, <3>1
  <2> QED BY <2>3, <2>4, <2>5
<1>5. /\ k \in Nat /\ Len(ends) \in Nat /\ k <= Len(ends) /\ k # 0 /\ ends[k] \in Nat
      /\ consumed < ends[k] /\ consumed \in Nat
  <2>1. /\ k \in Nat /\ k # 0 /\ k <= Len(ends) /\ Len(ends) \in Nat /\ ends[k] \in Nat
        /\ Start(k) \in Nat /\ PayloadLength(k) \in Nat \ {0} /\ HeaderSize \in Nat \ {0}
        /\ Start(k) + HeaderSize + PayloadLength(k) = ends[k] /\ consumed \in Nat
    BY <1>0, OneFrame, Counters
  <2> QED BY <2>1 DEF Given
<1>6. last \in Nat /\ last < k
  <2>1. CASE results = << >>
    <3>1. Numbers = << >>
      BY <1>3, <2>1
    <3> QED BY <1>5, <3>1
  <2>2. CASE results # << >>
    <3>1. Len(results) \in DOMAIN results /\ Numbers # << >>
      BY <1>1, <1>3, <2>2
    <3>2. last = results[Len(results)].frame
      BY <1>3, <3>1
    <3>3. last \in DOMAIN ends /\ ends[last] <= consumed
      BY <1>0, <3>1, <3>2 DEF Taken
    <3>4. last \in Nat /\ ends[last] \in Nat
      BY <1>0, <3>3, Lengths
    <3> HIDE DEF last
    <3>5. last # k
      BY <1>5, <3>3, <3>4
    <3>6. ~ (k < last)
      <4>1. k < last => ends[k] < ends[last]
        BY <1>0, <3>3, EndsOrdered
      <4> QED BY <1>5, <3>3, <3>4, <4>1
    <3> QED BY <1>5, <3>4, <3>5, <3>6
  <2> QED BY <2>1, <2>2
<1>7. ~ crossed => k = last + 1
  <2>1. SUFFICES ASSUME ~ crossed PROVE k = last + 1
    OBVIOUS
  <2>2. k = Len(results) + 1
    BY <2>1, GivenAlone
  <2>3. \A i \in DOMAIN results : results[i].frame = i
    BY <1>0, <2>1 DEF Alone
  <2>4. last = Len(results)
    <3>1. CASE Len(results) = 0
      <4>1. Numbers = << >>
        BY <1>3, <3>1
      <4> QED BY <3>1, <4>1
    <3>2. CASE Len(results) # 0
      <4>1. Len(results) \in DOMAIN results /\ Numbers # << >>
        BY <1>3, <3>2
      <4> QED BY <1>3, <2>3, <4>1
    <3> QED BY <3>1, <3>2
  <2> QED BY <2>2, <2>4
<1>8. last = Channel!LastTaken
  BY DEF Channel!LastTaken, Numbers
<1>9. Len(ends)' = Len(ends) /\ crossed' = crossed
  BY DEF Still
<1> HIDE DEF last
<1>10. k \in Channel!LastTaken + 1 .. Len(ends)
  BY <1>5, <1>6, <1>8
<1>11. ~ crossed => k = Channel!LastTaken + 1
  BY <1>7, <1>8
<1> QED BY <1>4, <1>9, <1>10, <1>11 DEF Channel!Take, Numbers

LEMMA StepTakesOrStutters ==
    StreamInv /\ [Next]_vars => [Channel!ChannelNext]_(Channel!channelVars)
<1> SUFFICES ASSUME StreamInv, [Next]_vars
             PROVE  [Channel!ChannelNext]_(Channel!channelVars)
  OBVIOUS
<1>0. Types /\ Known /\ Ends
  BY DEF StreamInv
<1> USE DEF Channel!ChannelNext, Channel!channelVars
<1>1. ASSUME NEW c \in Calls, Begin(c) PROVE [Channel!ChannelNext]_(Channel!channelVars)
  <2>1. results' = results /\ ends' = ends
        /\ crossed' = (crossed \/ \E other \in Calls : call[other].at # "out")
    BY <1>1 DEF Begin
  <2>2. crossed \in BOOLEAN
    BY <1>0 DEF Types
  <2>3. crossed' = crossed \/ crossed' = TRUE
    BY <2>1, <2>2
  <2> QED BY <2>1, <2>3 DEF Channel!Cross
<1>2. ASSUME NEW c \in Calls, call[c].at # "out", Still, NEW other, Outcome(c, other)
      PROVE  [Channel!ChannelNext]_(Channel!channelVars)
  <2>1. CASE \E k \in DOMAIN ends : Given(c, k, other)
    BY <1>2, <2>1, GivenTakes
  <2>2. CASE \E from \in Nat : Refused(c, from, other)
    <3>1. results' = results
      BY <2>2 DEF Refused, Return
    <3> QED BY <1>2, <3>1 DEF Still
  <2>3. CASE \E k \in Nat, from \in Nat : Waits(c, k, from, other)
    <3>1. results' = results
      BY <2>3 DEF Waits
    <3> QED BY <1>2, <3>1 DEF Still
  <2> QED BY <1>2, <2>1, <2>2, <2>3 DEF Outcome
<1>3. ASSUME NEW c \in Calls, Read(c) PROVE [Channel!ChannelNext]_(Channel!channelVars)
  <2>1. call[c].at = "draining" /\ Outcome(c, waiter) /\ Still
    BY <1>0, <1>3, ReadOutcome DEF Still
  <2> QED BY <1>2, <2>1
<1>4. ASSUME NEW c \in Calls, Resume(c) PROVE [Channel!ChannelNext]_(Channel!channelVars)
  <2>1. call[c].at = "woken" /\ Outcome(c, NoCall) /\ Still
    BY <1>0, <1>4, ResumeOutcome DEF Still
  <2> QED BY <1>2, <2>1
<1>5. ASSUME NEW n \in DataLengths, Respond(n)
      PROVE  [Channel!ChannelNext]_(Channel!channelVars)
  <2>1. /\ ends' = Append(ends, Written + FrameLength(n))
        /\ results' = results /\ crossed' = crossed
    BY <1>5 DEF Respond
  <2>2. Len(ends') = Len(ends) + 1
    <3>1. ends \in Seq(Nat)
      BY <1>0 DEF Types
    <3> QED BY <2>1, <3>1
  <2> QED BY <2>1, <2>2 DEF Channel!Write
<1>6. ASSUME Arrive PROVE [Channel!ChannelNext]_(Channel!channelVars)
  BY <1>6 DEF Arrive
<1>7. ASSUME NEW how \in {"ended", "reset"}, End(how)
      PROVE  [Channel!ChannelNext]_(Channel!channelVars)
  BY <1>7 DEF End
<1>8. CASE UNCHANGED vars
  BY <1>8 DEF vars
<1> QED BY <1>1, <1>3, <1>4, <1>5, <1>6, <1>7, <1>8 DEF Next

\* Overlapping calls may miss their answers, but what they are given is whole
\* frames, in the order in which they were written and none of them twice.
THEOREM FramesInOrder == Spec => ChannelSpec
<1>1. Init => Channel!ChannelInit
  <2>1. SUFFICES ASSUME Init PROVE Channel!ChannelInit
    OBVIOUS
  <2>2. Len(ends) = 0 /\ crossed = FALSE /\ results = << >>
    BY <2>1 DEF Init
  <2>3. [i \in DOMAIN results |-> results[i].frame] = << >>
    BY <2>2
  <2> QED BY <2>2, <2>3 DEF Channel!ChannelInit
<1> QED BY <1>1, StreamInvariant, StepTakesOrStutters, PTL
        DEF Spec, ChannelSpec, Channel!ChannelSpec
=============================================================================
