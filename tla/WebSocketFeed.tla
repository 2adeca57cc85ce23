---------------------------- MODULE WebSocketFeed ----------------------------
(***************************************************************************)
(* The dashboard's live feed (dashboard/websocket_feed.py, the lifespan    *)
(* and the web socket endpoint of dashboard/server.py) over the tracer it  *)
(* reads.  Every step here but those of the other threads is taken by the  *)
(* dashboard's thread, in its event loop: the broadcast task, one endpoint *)
(* task per web socket, and the requests that log frames.                  *)
(*                                                                         *)
(* The broadcast iterates over the set of connections and waits for each   *)
(* send.  If the size of the set has changed by the next round of the for  *)
(* loop, the iterator raises; if the set was changed and has its old size  *)
(* again, the iterator goes on over whatever the set has become.           *)
(*                                                                         *)
(* A send may take any time and ends: the browser reads, or the server's   *)
(* ping goes unanswered and the connection is closed.                      *)
(***************************************************************************)
EXTENDS Tracer

CONSTANTS
    Sockets,   \* the web sockets, each of one connection of a browser
    NoSocket   \* no socket: nothing is being sent

VARIABLES
    active_connections, \* the manager's set
    browser,            \* the browser's end of each socket
    endpoint,           \* the endpoint task of each socket
    loop,               \* the broadcast task
    to_visit,           \* what the iterator has yet to come to
    size_at_start,      \* the size of the set the iterator was made with
    sending,            \* the socket whose send the broadcast waits for
    dead_conns          \* the sockets whose send failed this round

feedVars == <<active_connections, browser, endpoint, loop, to_visit,
              size_at_start, sending, dead_conns>>
vars == <<tracerVars, feedVars>>

Init ==
    /\ TracerInit
    /\ active_connections = {}
    /\ browser = [s \in Sockets |-> "absent"]
    /\ endpoint = [s \in Sockets |-> "none"]
    /\ loop = "awake"
    /\ to_visit = {}
    /\ size_at_start = 0
    /\ sending = NoSocket
    /\ dead_conns = {}

-----------------------------------------------------------------------------
(* The endpoint tasks.                                                     *)

\* A browser asks for a web socket; the endpoint waits for accept().
Open(s) ==
    /\ browser[s] = "absent"
    /\ browser' = [browser EXCEPT ![s] = "open"]
    /\ endpoint' = [endpoint EXCEPT ![s] = "accepting"]
    /\ UNCHANGED <<tracerVars, active_connections, loop, to_visit, size_at_start,
                   sending, dead_conns>>

\* connect(): the socket is added, perhaps in the midst of a round.  The
\* iterator then raises, unless a leaving socket restores the size, when it
\* comes to the new one or not; a set that is rebuilt to grow hides others.
Register(s) ==
    /\ endpoint[s] = "accepting"
    /\ at[Dashboard] = "idle"
    /\ active_connections' = active_connections \cup {s}
    /\ to_visit' \in IF loop = "sending" THEN SUBSET active_connections' ELSE {to_visit}
    /\ endpoint' = [endpoint EXCEPT ![s] = "receiving"]
    /\ UNCHANGED <<tracerVars, browser, loop, size_at_start, sending, dead_conns>>

\* accept() fails because the browser has gone: the socket is never added.
AcceptFails(s) ==
    /\ endpoint[s] = "accepting"
    /\ browser[s] = "gone"
    /\ endpoint' = [endpoint EXCEPT ![s] = "done"]
    /\ UNCHANGED <<tracerVars, active_connections, browser, loop, to_visit,
                   size_at_start, sending, dead_conns>>

\* The browser closes, or is cut off.
GoAway(s) ==
    /\ browser[s] = "open"
    /\ browser' = [browser EXCEPT ![s] = "gone"]
    /\ UNCHANGED <<tracerVars, active_connections, endpoint, loop, to_visit,
                   size_at_start, sending, dead_conns>>

\* receive_text() raises, because the browser has gone or has sent what is
\* not text; disconnect(), and the server closes the socket.
Disconnect(s) ==
    /\ endpoint[s] = "receiving"
    /\ at[Dashboard] = "idle"
    /\ browser' = [browser EXCEPT ![s] = "gone"]
    /\ endpoint' = [endpoint EXCEPT ![s] = "done"]
    /\ active_connections' = active_connections \ {s}
    /\ to_visit' = to_visit \ {s}
    /\ UNCHANGED <<tracerVars, loop, size_at_start, sending, dead_conns>>

-----------------------------------------------------------------------------
(* telemetry_broadcast_loop.                                               *)

\* A new round: the snapshot is taken, and the iteration starts at once.
StartSnapshot ==
    /\ loop = "awake"
    /\ CopyMetrics(Dashboard)
    /\ UNCHANGED feedVars

StartRound ==
    /\ ReadEvents(Dashboard)
    /\ loop' = "sending"
    /\ to_visit' = active_connections
    /\ size_at_start' = Cardinality(active_connections)
    /\ dead_conns' = {}
    /\ UNCHANGED <<active_connections, browser, endpoint, sending>>

AtLoopHead == loop = "sending" /\ sending = NoSocket /\ at[Dashboard] = "idle"

\* The round is over and the task sleeps.
Sleep ==
    /\ loop' = "sleeping"
    /\ to_visit' = {}
    /\ size_at_start' = 0
    /\ dead_conns' = {}

\* The set changed its size: the iterator raises and the loop's handler
\* passes over it, so that those found dead stay in the set.
RoundCutShort ==
    /\ AtLoopHead
    /\ Cardinality(active_connections) # size_at_start
    /\ Sleep
    /\ UNCHANGED <<tracerVars, active_connections, browser, endpoint, sending>>

\* The next socket: send_json with the snapshot.
SendNext ==
    /\ AtLoopHead
    /\ Cardinality(active_connections) = size_at_start
    /\ \E s \in to_visit :
          /\ sending' = s
          /\ to_visit' = to_visit \ {s}
    /\ UNCHANGED <<tracerVars, active_connections, browser, endpoint, loop,
                   size_at_start, dead_conns>>

\* The send ends.  One to a browser that has gone may succeed all the same.
SendDone(s) ==
    /\ sending = s
    /\ at[Dashboard] = "idle"
    /\ sending' = NoSocket
    /\ UNCHANGED <<tracerVars, active_connections, browser, endpoint, loop, to_visit,
                   size_at_start, dead_conns>>

SendFails(s) ==
    /\ sending = s
    /\ at[Dashboard] = "idle"
    /\ browser[s] = "gone"
    /\ dead_conns' = dead_conns \cup {s}
    /\ sending' = NoSocket
    /\ UNCHANGED <<tracerVars, active_connections, browser, endpoint, loop, to_visit,
                   size_at_start>>

\* Faulty variant: whatever the round did not reach is discarded as well.
EndRound_all ==
    /\ AtLoopHead
    /\ to_visit = {} /\ Cardinality(active_connections) = size_at_start
    /\ active_connections' = dead_conns
    /\ Sleep
    /\ UNCHANGED <<tracerVars, browser, endpoint, sending>>

\* All have been visited: those whose send failed are discarded.
EndRound ==
    /\ AtLoopHead
    /\ to_visit = {} /\ Cardinality(active_connections) = size_at_start
    /\ active_connections' = active_connections \ dead_conns
    /\ Sleep
    /\ UNCHANGED <<tracerVars, browser, endpoint, sending>>

\* The second is over.
Wake ==
    /\ loop = "sleeping"
    /\ loop' = "awake"
    /\ UNCHANGED <<tracerVars, active_connections, browser, endpoint, to_visit,
                   size_at_start, sending, dead_conns>>

\* The end of the lifespan, once all sockets are closed: the task is cancelled.
Shutdown ==
    /\ loop \in {"sleeping", "sending"} /\ at[Dashboard] = "idle"
    /\ \A s \in Sockets : endpoint[s] = "done"
    /\ loop' = "cancelled"
    /\ UNCHANGED <<tracerVars, active_connections, browser, endpoint, to_visit,
                   size_at_start, sending, dead_conns>>

-----------------------------------------------------------------------------
(* The tracer's other users: the tunnel in its thread, and in the          *)
(* dashboard's thread the requests that pass a frame through a harness.    *)

Traffic(t) ==
    /\ \/ RecordSent(t)
       \/ \E kind \in FrameKinds : RecordReceived(t, kind)
       \/ LogStep(t)
    /\ UNCHANGED feedVars

EndpointStep(s) == Register(s) \/ AcceptFails(s) \/ (browser[s] = "gone" /\ Disconnect(s))

BroadcastStep ==
    \/ StartSnapshot \/ StartRound \/ RoundCutShort \/ SendNext \/ EndRound \/ Wake
    \/ \E s \in Sockets : SendDone(s) \/ SendFails(s)

Next ==
    \/ \E t \in Threads : Traffic(t)
    \/ \E s \in Sockets : Open(s) \/ GoAway(s) \/ Register(s) \/ AcceptFails(s) \/ Disconnect(s)
    \/ BroadcastStep
    \/ Shutdown

Spec == Init /\ [][Next]_vars

\* The event loop runs every task that is ready in each of its passes, so that
\* no task is passed over for ever while others run, and a thread that is
\* inside log_event goes on.
FairSpec ==
    /\ Spec
    /\ WF_vars(BroadcastStep)
    /\ \A s \in Sockets : SF_vars(EndpointStep(s))
    /\ WF_vars(LogStep(Dashboard) /\ at[Dashboard] # "idle" /\ UNCHANGED feedVars)

-----------------------------------------------------------------------------

TypeOK ==
    /\ traffic \in [sent : 0 .. MaxEvents, received : 0 .. MaxEvents, blocked : 0 .. MaxEvents]
    /\ traffic.blocked <= traffic.received
    /\ logged.id \in 0 .. MaxEvents
    /\ active_connections \subseteq Sockets /\ to_visit \subseteq Sockets
    /\ dead_conns \subseteq Sockets
    /\ sending \in Sockets \cup {NoSocket}
    /\ loop \in {"awake", "sending", "sleeping", "cancelled"}

\* What the browsers are shown never goes back from one snapshot to the next:
\* neither the counters nor the latest event, although they are read at
\* different moments while other threads write them.
ViewMovesForward ==
    [][ /\ \A c \in DOMAIN NoTraffic : snapshot.traffic[c] <= snapshot'.traffic[c]
        /\ Latest(snapshot.events).id <= Latest(snapshot'.events).id ]_vars

\* A browser that stays connected is sent one snapshot after the other,
\* although rounds are cut short whenever others come and go, and sends to
\* those that have gone may fail or take long.
LiveKeepReceiving ==
    \A s \in Sockets :
        <>[](browser[s] = "open") => []<><<SendDone(s)>>_vars
=============================================================================
