------------------------------ MODULE FrameStream ------------------------------
(***************************************************************************)
(* How a client agent gets frames out of the bytes of its connection:      *)
(* send_secure_payload (agents/client_agent.py) reads a header with        *)
(* readexactly, parses it and reads as many bytes as it says.  The loop of *)
(* the server's handler reads in the same way, one call at a time.         *)
(*                                                                         *)
(* Nothing keeps two calls of one agent apart.  asyncio's StreamReader has *)
(* one buffer and room for one waiting reader: a second one is refused     *)
(* with a RuntimeError, which the call turns into a result of None.  But   *)
(* once data has come and the first reader has not run yet there is no     *)
(* waiting reader, and the second call reads what the first waited for.    *)
(*                                                                         *)
(* Bytes are numbered from 0.  A header parses only where one was written: *)
(* at another place the magic is wrong, but for one chance in 2^32.        *)
(***************************************************************************)
EXTENDS WireFormat

CONSTANTS
    Calls,       \* tasks that call send_secure_payload of one agent
    NoCall,      \* no task is waiting
    DataLengths, \* lengths of the responses' data
    MaxRequests  \* bound: calls made in all

ASSUME StreamAssumption == DataLengths \subseteq Nat

VARIABLES
    requests,  \* how many requests were sent
    ends,      \* where each response that was written ends
    arrived,   \* how many bytes have come in
    consumed,  \* how many of them were taken out of the buffer
    stream,    \* open, ended, or reset
    waiter,    \* the reader's _waiter
    call,      \* each task: where it is, and the number of its request
    results,   \* history: the frames the pipeline was given whole, and to whom
    crossed    \* history: whether calls ever overlapped

vars == <<requests, ends, arrived, consumed, stream, waiter, call, results, crossed>>

Out == [at |-> "out", need |-> 0, own |-> 0]

Init ==
    /\ requests = 0
    /\ ends = << >>
    /\ arrived = 0 /\ consumed = 0
    /\ stream = "open"
    /\ waiter = NoCall
    /\ call = [c \in Calls |-> Out]
    /\ results = << >>
    /\ crossed = FALSE

Written == IF ends = << >> THEN 0 ELSE ends[Len(ends)]
Start(k) == IF k = 1 THEN 0 ELSE ends[k - 1]
PayloadLength(k) == ends[k] - Start(k) - HeaderSize

-----------------------------------------------------------------------------
(* What a task does from one wait to the next: c reads at "from" while     *)
(* "other" is the waiting reader.                                          *)

\* The call is over.  Frame k went through the pipeline, or with 0 the
\* result is None, or the frame was a mixture, which the HMAC refuses.
Return(c, k, from, other) ==
    /\ call' = [call EXCEPT ![c] = Out]
    /\ results' = IF k = 0 THEN results
                  ELSE Append(results, [own |-> call[c].own, frame |-> k])
    /\ consumed' = from
    /\ waiter' = other

\* _wait_for_data, for the payload of frame "need" or for a header.  The end
\* of the stream clears the buffer; another waiting reader is an error.
Wait(c, need, from, other) ==
    IF stream = "open" /\ other = NoCall
    THEN /\ call' = [call EXCEPT ![c] = [at |-> "waiting", need |-> need,
                                         own |-> call[c].own]]
         /\ consumed' = from
         /\ waiter' = c
         /\ UNCHANGED results
    ELSE Return(c, 0, IF stream = "ended" THEN arrived ELSE from, other)

\* Whether readexactly has n bytes to return.
Available(from, n) == stream # "reset" /\ arrived - from >= n

\* Faulty variant: the last byte of a payload left in the buffer.
ReadPayload_short(c, k, from, other) ==
    IF Available(from, PayloadLength(k))
    THEN Return(c, IF from = Start(k) + HeaderSize THEN k ELSE 0,
                from + PayloadLength(k) - 1, other)
    ELSE Wait(c, k, from, other)

ReadPayload(c, k, from, other) ==
    IF Available(from, PayloadLength(k))
    THEN Return(c, IF from = Start(k) + HeaderSize THEN k ELSE 0,
                from + PayloadLength(k), other)
    ELSE Wait(c, k, from, other)

\* Faulty variant: one byte is taken for a header.
ReadHeader_early(c, from, other) ==
    IF ~ Available(from, 1) THEN Wait(c, 0, from, other)
    ELSE IF \E k \in DOMAIN ends : Start(k) = from
    THEN ReadPayload(c, CHOOSE k \in DOMAIN ends : Start(k) = from, from + HeaderSize, other)
    ELSE Return(c, 0, from + HeaderSize, other)

\* A header that does not parse ends the call; its bytes are gone.
ReadHeader(c, from, other) ==
    IF ~ Available(from, HeaderSize) THEN Wait(c, 0, from, other)
    ELSE IF \E k \in DOMAIN ends : Start(k) = from
    THEN ReadPayload(c, CHOOSE k \in DOMAIN ends : Start(k) = from, from + HeaderSize, other)
    ELSE Return(c, 0, from + HeaderSize, other)

-----------------------------------------------------------------------------

\* send_secure_payload() writes its request and waits for the drain.
Begin(c) ==
    /\ call[c].at = "out"
    /\ requests < MaxRequests
    /\ requests' = requests + 1
    /\ call' = [call EXCEPT ![c] = [at |-> "draining", need |-> 0, own |-> requests + 1]]
    /\ crossed' = (crossed \/ \E other \in Calls : call[other].at # "out")
    /\ UNCHANGED <<ends, arrived, consumed, stream, waiter, results>>

\* Faulty variant: what is in the buffer is taken for stale and dropped.
Read_flushing(c) ==
    /\ call[c].at = "draining"
    /\ ReadHeader(c, arrived, waiter)
    /\ UNCHANGED <<requests, ends, arrived, stream, crossed>>

\* Then it turns to the response.
Read(c) ==
    /\ call[c].at = "draining"
    /\ ReadHeader(c, consumed, waiter)
    /\ UNCHANGED <<requests, ends, arrived, stream, crossed>>

\* The task that was woken goes on.  On its way it clears _waiter, whoever
\* that may be by now.
Resume(c) ==
    /\ call[c].at = "woken"
    /\ IF call[c].need = 0 THEN ReadHeader(c, consumed, NoCall)
                           ELSE ReadPayload(c, call[c].need, consumed, NoCall)
    /\ UNCHANGED <<requests, ends, arrived, stream, crossed>>

\* The waiting reader is woken, and no longer registered as waiting.
Wake ==
    /\ call' = IF waiter = NoCall THEN call ELSE [call EXCEPT ![waiter].at = "woken"]
    /\ waiter' = NoCall

\* The server answers the requests in their order.
Respond(n) ==
    /\ stream = "open"
    /\ Len(ends) < requests
    /\ ends' = Append(ends, Written + FrameLength(n))
    /\ UNCHANGED <<requests, arrived, consumed, stream, waiter, call, results, crossed>>

\* Some of the bytes on the way come in.
Arrive ==
    /\ stream = "open"
    /\ arrived' \in arrived + 1 .. Written
    /\ Wake
    /\ UNCHANGED <<requests, ends, consumed, stream, results, crossed>>

\* Faulty variant: nobody is told of the end.
End_silent(how) ==
    /\ stream = "open"
    /\ stream' = how
    /\ UNCHANGED <<requests, ends, arrived, consumed, waiter, call, results, crossed>>

\* The connection ends, perhaps in the midst of a frame, or breaks.
End(how) ==
    /\ stream = "open"
    /\ stream' = how
    /\ Wake
    /\ UNCHANGED <<requests, ends, arrived, consumed, results, crossed>>

Next ==
    \/ \E c \in Calls : Begin(c) \/ Read(c) \/ Resume(c)
    \/ \E n \in DataLengths : Respond(n)
    \/ Arrive
    \/ \E how \in {"ended", "reset"} : End(how)

Spec == Init /\ [][Next]_vars

\* The event loop runs the tasks that are ready, the server answers, and what
\* was written comes in, unless the connection ends.
FairSpec ==
    /\ Spec
    /\ \A c \in Calls : WF_vars(Read(c) \/ Resume(c))
    /\ WF_vars(\E n \in DataLengths : Respond(n))
    /\ WF_vars(Arrive)

-----------------------------------------------------------------------------

TypeOK ==
    /\ requests \in Nat /\ arrived \in Nat /\ consumed \in Nat
    /\ ends \in Seq(Nat) /\ Len(ends) <= requests
    /\ consumed <= arrived /\ arrived <= Written
    /\ stream \in {"open", "ended", "reset"}
    /\ call \in [Calls -> [ at : {"out", "draining", "waiting", "woken"},
                            need : 0 .. Len(ends), own : 0 .. requests ]]
    /\ waiter # NoCall => waiter \in Calls /\ call[waiter].at = "waiting"

\* An agent whose calls never overlapped is in step with its server: each
\* call was given the response to its own request, and between two calls
\* nothing is left in the stream that the next one could mistake for its own,
\* however the bytes came in.
InStep ==
    ~ crossed =>
        /\ \A i \in DOMAIN results : results[i].own = results[i].frame
        /\ stream = "open" /\ (\A c \in Calls : call[c].at = "out")
              => consumed = Written /\ Len(ends) = requests

\* Overlapping calls may miss their responses, but what a call is given is a
\* whole frame, no frame is given twice, and never an earlier one after a
\* later one.
Channel == INSTANCE FrameChannel
    WITH written <- Len(ends),
         taken   <- [i \in DOMAIN results |-> results[i].frame]
ChannelSpec == Channel!ChannelSpec

\* A call that no other overlaps returns, although it waits without a
\* time-out and its response may come in pieces or end in the middle.
CallsReturn == \A c \in Calls : call[c].at # "out" ~> call[c].at = "out" \/ crossed
=============================================================================
