-------------------------------- MODULE Tracer --------------------------------
(***************************************************************************)
(* DynamicTracer behind the one TelemetryEngine of a process               *)
(* (telemetry/), as the threads of run.py share it: the tunnel runs in one *)
(* thread and the dashboard in another, and neither takes a lock.          *)
(*                                                                         *)
(* CPython changes threads at calls and at backward jumps.  record_traffic *)
(* makes no call, so its additions are one step; log_event can be left     *)
(* after append, after len and after pop, so it is three.  A snapshot      *)
(* copies the counters in one call and the latest events in another.       *)
(*                                                                         *)
(* An event carries its number, counted in the order of the appends, and   *)
(* how many refused and cleared frames the events up to it report.         *)
(***************************************************************************)
EXTENDS Integers, Sequences, FiniteSets

CONSTANTS
    Threads,      \* the threads of the process
    Dashboard,    \* the one that takes snapshots
    BufferSize,   \* buffer_size, 500
    FrameKinds,   \* what becomes of the frames that arrive: blocked, cleared
    RecentLimit,  \* the events of a snapshot, 30
    MaxEvents     \* bound: frames sent and events logged

ASSUME TracerAssumption ==
    /\ IsFiniteSet(Threads) /\ Dashboard \in Threads
    /\ BufferSize \in Nat /\ BufferSize >= Cardinality(Threads)
    /\ FrameKinds \subseteq {"blocked", "cleared"}
    /\ RecentLimit \in Nat \ {0}
    /\ MaxEvents \in Nat

VARIABLES
    traffic,   \* traffic_stats: frames sent, received and blocked
    event_log, \* the buffer of events
    at,        \* where each thread is: about to log a frame, inside log_event, reading
    metrics,   \* the copy of the counters while a snapshot is being made
    snapshot,  \* the latest snapshot
    logged     \* history: the latest event

tracerVars == <<traffic, event_log, at, metrics, snapshot, logged>>

NoTraffic == [sent |-> 0, received |-> 0, blocked |-> 0]
NoEvent == [id |-> 0, blocked |-> 0, cleared |-> 0]

TracerInit ==
    /\ traffic = NoTraffic
    /\ event_log = << >>
    /\ at = [t \in Threads |-> "idle"]
    /\ metrics = NoTraffic
    /\ snapshot = [traffic |-> NoTraffic, events |-> << >>]
    /\ logged = NoEvent

\* The frames sent and the events, with those of frames not yet logged.
Begun == traffic.sent + traffic.received + logged.id - logged.blocked - logged.cleared

RecordSent(t) ==
    /\ at[t] = "idle"
    /\ Begun < MaxEvents
    /\ traffic' = [traffic EXCEPT !.sent = @ + 1]
    /\ UNCHANGED <<event_log, at, metrics, snapshot, logged>>

\* Faulty variant: a frame counted only when it is cleared.
RecordReceived_cleared(t, kind) ==
    /\ at[t] = "idle"
    /\ Begun < MaxEvents
    /\ traffic' = IF kind = "blocked" THEN [traffic EXCEPT !.blocked = @ + 1]
                                      ELSE [traffic EXCEPT !.received = @ + 1]
    /\ at' = [at EXCEPT ![t] = kind]
    /\ UNCHANGED <<event_log, metrics, snapshot, logged>>

\* A frame is counted; its event is logged after that.
RecordReceived(t, kind) ==
    /\ at[t] = "idle"
    /\ Begun < MaxEvents
    /\ traffic' = [traffic EXCEPT !.received = @ + 1,
                                  !.blocked = IF kind = "blocked" THEN @ + 1 ELSE @]
    /\ at' = [at EXCEPT ![t] = kind]
    /\ UNCHANGED <<event_log, metrics, snapshot, logged>>

NextEvent(kind) ==
    [ id      |-> logged.id + 1,
      blocked |-> IF kind = "blocked" THEN logged.blocked + 1 ELSE logged.blocked,
      cleared |-> IF kind = "cleared" THEN logged.cleared + 1 ELSE logged.cleared ]

\* log_event up to its append: for the frame just counted, or for a
\* handshake, a rekey or a header that does not parse, which nothing counts.
AppendEvent(t) ==
    /\ \E kind \in FrameKinds \cup {"other"} :
          /\ at[t] = kind \/ (at[t] = "idle" /\ kind = "other" /\ Begun < MaxEvents)
          /\ event_log' = Append(event_log, NextEvent(kind))
          /\ logged' = NextEvent(kind)
    /\ at' = [at EXCEPT ![t] = "comparing"]
    /\ UNCHANGED <<traffic, metrics, snapshot>>

\* Faulty variant: the length compared before the event is in.
CompareLength_off(t) ==
    /\ at[t] = "comparing"
    /\ at' = [at EXCEPT ![t] = IF Len(event_log) >= BufferSize THEN "popping" ELSE "idle"]
    /\ UNCHANGED <<traffic, event_log, metrics, snapshot, logged>>

CompareLength(t) ==
    /\ at[t] = "comparing"
    /\ at' = [at EXCEPT ![t] = IF Len(event_log) > BufferSize THEN "popping" ELSE "idle"]
    /\ UNCHANGED <<traffic, event_log, metrics, snapshot, logged>>

\* Faulty variant: the newest event popped.
PopOldest_newest(t) ==
    /\ at[t] = "popping"
    /\ event_log' = SubSeq(event_log, 1, Len(event_log) - 1)
    /\ at' = [at EXCEPT ![t] = "idle"]
    /\ UNCHANGED <<traffic, metrics, snapshot, logged>>

\* The pop, whatever the log has become since the comparison.
PopOldest(t) ==
    /\ at[t] = "popping"
    /\ event_log' = Tail(event_log)
    /\ at' = [at EXCEPT ![t] = "idle"]
    /\ UNCHANGED <<traffic, metrics, snapshot, logged>>

\* get_system_metrics: the counters first.
CopyMetrics(t) ==
    /\ at[t] = "idle"
    /\ metrics' = traffic
    /\ at' = [at EXCEPT ![t] = "reading"]
    /\ UNCHANGED <<traffic, event_log, snapshot, logged>>

\* Faulty variant: the oldest events.
RecentEvents_oldest ==
    SubSeq(event_log, 1, IF Len(event_log) > RecentLimit THEN RecentLimit ELSE Len(event_log))

\* The last events of the log, at most RecentLimit.
RecentEvents ==
    SubSeq(event_log, IF Len(event_log) > RecentLimit THEN Len(event_log) - RecentLimit + 1
                                                      ELSE 1, Len(event_log))

\* get_recent_events: then the events.
ReadEvents(t) ==
    /\ at[t] = "reading"
    /\ snapshot' = [traffic |-> metrics, events |-> RecentEvents]
    /\ metrics' = NoTraffic
    /\ at' = [at EXCEPT ![t] = "idle"]
    /\ UNCHANGED <<traffic, event_log, logged>>

LogStep(t) == AppendEvent(t) \/ CompareLength(t) \/ PopOldest(t)

TracerNext ==
    \/ \E t \in Threads :
          \/ RecordSent(t)
          \/ \E kind \in FrameKinds : RecordReceived(t, kind)
          \/ LogStep(t)
    \/ CopyMetrics(Dashboard)
    \/ ReadEvents(Dashboard)

TracerSpec == TracerInit /\ [][TracerNext]_tracerVars

-----------------------------------------------------------------------------

Callers == {t \in Threads : at[t] \in {"comparing", "popping"}}

\* The log holds the latest events, in order and without a hole.  It exceeds
\* the buffer by at most the threads that are between their append and their
\* pop.  Threads that saw it too long at once each pop, so that it may fall
\* short of the buffer by all threads but one, and never by more.
LogHoldsLatest ==
    /\ \A i \in DOMAIN event_log : event_log[i].id = logged.id - Len(event_log) + i
    /\ Len(event_log) <= BufferSize + Cardinality(Callers)
    /\ logged.id > Len(event_log) => Len(event_log) > BufferSize - Cardinality(Threads)

Latest(events) == IF events = << >> THEN NoEvent ELSE events[Len(events)]

\* A frame is counted before its event is logged and a snapshot takes the
\* counters before the events: every frame a snapshot counts, as refused or
\* in all, is reported by its latest event or an earlier one, but for one
\* frame of each other thread.
SnapshotBacked ==
    LET reported == Latest(snapshot.events)
    IN  /\ snapshot.traffic.blocked < reported.blocked + Cardinality(Threads)
        /\ snapshot.traffic.received
              < reported.blocked + reported.cleared + Cardinality(Threads)
=============================================================================
