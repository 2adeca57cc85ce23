------------------------- MODULE WebSocketFeedProofs -------------------------
(***************************************************************************)
(* Proofs about the tracer under any number of threads, and about the feed *)
(* that reads it.                                                          *)
(*                                                                         *)
(* The log falls short of its buffer when several threads have seen it too *)
(* long and none has popped yet.  The length less the number of these      *)
(* threads is what the argument follows (LogLength): a pop lowers both by  *)
(* one, and a thread joins them only while the log is longer than the      *)
(* buffer.                                                                 *)
(***************************************************************************)
EXTENDS WebSocketFeed, FiniteSetTheorems, SequenceTheorems, TLAPS

Traffics == [sent : Nat, received : Nat, blocked : Nat]
Events == [id : Nat, blocked : Nat, cleared : Nat]
Places == {"idle", "blocked", "cleared", "comparing", "popping", "reading"}

\* Places inside log_event after the append, before the pop, and those of a
\* thread that has counted a frame it has not logged.
Inside  == {"comparing", "popping"}
Leaving == {"popping"}
Refused == {"blocked"}
Framed  == {"blocked", "cleared"}

\* The number of threads at one of the places K.
Count(f, K) == Cardinality({t \in Threads : f[t] \in K})

Types ==
    /\ traffic \in Traffics
    /\ event_log \in Seq(Events)
    /\ at \in [Threads -> Places]
    /\ metrics \in Traffics
    /\ snapshot \in [traffic : Traffics, events : Seq(Events)]
    /\ logged \in Events

LogShape ==
    /\ \A i \in DOMAIN event_log : event_log[i].id = logged.id - Len(event_log) + i
    /\ Latest(event_log) = logged

LogLength ==
    /\ Len(event_log) <= BufferSize + Count(at, Inside)
    /\ Count(at, Leaving) > 0 \/ logged.id > Len(event_log)
          => Len(event_log) - Count(at, Leaving) > BufferSize - Cardinality(Threads)

Counting ==
    /\ traffic.blocked = logged.blocked + Count(at, Refused)
    /\ traffic.received = logged.blocked + logged.cleared + Count(at, Framed)

Below(a, b) == a.sent <= b.sent /\ a.received <= b.received /\ a.blocked <= b.blocked

\* What a snapshot in the making has copied is between the latest snapshot
\* and the present, and reported but for a frame of each other thread.
Reading ==
    /\ at[Dashboard] = "reading" =>
          /\ metrics.blocked < logged.blocked + Cardinality(Threads)
          /\ metrics.received < logged.blocked + logged.cleared + Cardinality(Threads)
          /\ Below(snapshot.traffic, metrics)
          /\ Below(metrics, traffic)
    /\ Below(snapshot.traffic, traffic)
    /\ Latest(snapshot.events).id <= logged.id

TracerInv == Types /\ LogShape /\ LogLength /\ Counting /\ Reading /\ SnapshotBacked

-----------------------------------------------------------------------------
(* Counting threads.                                                       *)

LEMMA CountType ==
    ASSUME NEW f, NEW K
    PROVE  /\ Count(f, K) \in Nat
           /\ Count(f, K) <= Cardinality(Threads)
           /\ Cardinality(Threads) \in Nat \ {0}
<1> DEFINE S == {t \in Threads : f[t] \in K}
<1>1. IsFiniteSet(Threads) /\ Threads # {}
  BY TracerAssumption
<1>2. Cardinality(Threads) \in Nat \ {0}
  BY <1>1, FS_CardinalityType, FS_EmptySet
<1>3. S \in SUBSET Threads
  OBVIOUS
<1>4. IsFiniteSet(S) /\ Cardinality(S) <= Cardinality(Threads)
  BY <1>1, <1>3, FS_Subset
<1>5. Cardinality(S) \in Nat
  BY <1>4, FS_CardinalityType
<1> QED BY <1>2, <1>4, <1>5 DEF Count

\* One thread moves: the counts follow.
LEMMA CountMove ==
    ASSUME at \in [Threads -> Places], NEW t \in Threads, NEW v, NEW K,
           at' = [at EXCEPT ![t] = v]
    PROVE  Count(at', K) = (Count(at, K) - (IF at[t] \in K THEN 1 ELSE 0))
                              + (IF v \in K THEN 1 ELSE 0)
<1> DEFINE S == {u \in Threads : at[u] \in K}
           T == {u \in Threads : at'[u] \in K}
           rest == S \ {t}
<1>1. IsFiniteSet(S) /\ Cardinality(S) \in Nat
  <2>1. IsFiniteSet(Threads) /\ S \in SUBSET Threads
    BY TracerAssumption
  <2>2. IsFiniteSet(S)
    BY <2>1, FS_Subset
  <2> QED BY <2>2, FS_CardinalityType
<1>2. /\ IsFiniteSet(rest)
      /\ Cardinality(rest) = IF t \in S THEN Cardinality(S) - 1 ELSE Cardinality(S)
  BY <1>1, FS_RemoveElement
<1>3. Cardinality(rest) \in Nat
  BY <1>2, FS_CardinalityType
<1>0. /\ Count(at, K) = Cardinality(S) /\ Count(at', K) = Cardinality(T)
      /\ at[t] \in K <=> t \in S
  BY DEF Count
<1>4. CASE v \in K
  <2>1. T = rest \cup {t}
    BY <1>4
  <2>2. t \notin rest
    OBVIOUS
  <2>3. Cardinality(T) = Cardinality(rest) + 1
    <3> HIDE DEF S, T, rest
    <3>1. Cardinality(rest \cup {t}) = Cardinality(rest) + 1
      BY <1>2, <2>2, FS_AddElement
    <3> QED BY <2>1, <3>1
  <2>4. CASE t \in S
    <3>1. Cardinality(T) = Cardinality(S)
      BY <1>1, <1>2, <2>3, <2>4
    <3>2. (IF at[t] \in K THEN 1 ELSE 0) = 1 /\ (IF v \in K THEN 1 ELSE 0) = 1
      BY <1>0, <1>4, <2>4
    <3>3. Count(at', K) = Count(at, K) /\ Count(at, K) \in Nat
      BY <1>0, <1>1, <3>1
    <3> HIDE DEF S, T, rest
    <3> QED BY <3>2, <3>3
  <2>5. CASE t \notin S
    <3>1. Cardinality(T) = Cardinality(S) + 1
      BY <1>2, <2>3, <2>5
    <3>2. (IF at[t] \in K THEN 1 ELSE 0) = 0 /\ (IF v \in K THEN 1 ELSE 0) = 1
      BY <1>0, <1>4, <2>5
    <3>3. Count(at', K) = Count(at, K) + 1 /\ Count(at, K) \in Nat
      BY <1>0, <1>1, <3>1
    <3> HIDE DEF S, T, rest
    <3> QED BY <3>2, <3>3
  <2> QED BY <2>4, <2>5
<1>5. CASE v \notin K
  <2>1. T = rest
    BY <1>5
  <2> HIDE DEF S, T, rest
  <2> QED BY <1>0, <1>1, <1>2, <1>3, <1>5, <2>1
<1> QED BY <1>4, <1>5

\* A thread that is elsewhere is not counted.
LEMMA CountOthers ==
    ASSUME NEW f, NEW t \in Threads, NEW K, f[t] \notin K
    PROVE  Count(f, K) < Cardinality(Threads)
<1> DEFINE S == {u \in Threads : f[u] \in K}
<1>1. IsFiniteSet(Threads) /\ S \in SUBSET Threads /\ S # Threads
  BY TracerAssumption
<1>2. Cardinality(S) <= Cardinality(Threads) /\ Cardinality(S) # Cardinality(Threads)
  BY <1>1, FS_Subset
<1>3. Count(f, K) \in Nat /\ Cardinality(Threads) \in Nat
  BY CountType
<1> QED BY <1>2, <1>3 DEF Count

LEMMA CountNone ==
    ASSUME NEW f, NEW K, \A t \in Threads : f[t] \notin K
    PROVE  Count(f, K) = 0
<1>1. {t \in Threads : f[t] \in K} = {}
  OBVIOUS
<1> QED BY <1>1, FS_EmptySet DEF Count

-----------------------------------------------------------------------------
(* The log.                                                                *)

\* The latest of the recent events is the latest of all.
LEMMA LatestOfRecent ==
    ASSUME event_log \in Seq(Events)
    PROVE  /\ RecentEvents \in Seq(Events)
           /\ Latest(RecentEvents) = Latest(event_log)
<1> DEFINE n == Len(event_log)
           m == IF n > RecentLimit THEN n - RecentLimit + 1 ELSE 1
<1>1. n \in Nat /\ RecentLimit \in Nat \ {0}
  BY TracerAssumption
<1>2. m \in 1 .. n + 1 /\ (n > 0 => m <= n)
  BY <1>1
<1>3. RecentEvents = SubSeq(event_log, m, n)
  BY DEF RecentEvents
<1>4. CASE event_log = << >>
  <2>1. n = 0 /\ m = 1
    BY <1>1, <1>4
  <2>2. RecentEvents = << >>
    BY <1>3, <1>4, <2>1
  <2> QED BY <1>4, <2>2 DEF Latest
<1>5. CASE event_log # << >>
  <2>1. n > 0
    BY <1>1, <1>5
  <2>2. m \in 1 .. n
    BY <1>1, <1>2, <2>1
  <2>0. n = Len(event_log)
    OBVIOUS
  <2> HIDE DEF m, n
  <2>3. /\ SubSeq(event_log, m, n) \in Seq(Events)
        /\ Len(SubSeq(event_log, m, n)) = n - m + 1
        /\ \A i \in 1 .. (n - m + 1) : SubSeq(event_log, m, n)[i] = event_log[m + i - 1]
    <3>1. m \in Int /\ n \in Int /\ m <= n
      BY <1>1, <2>2
    <3>2. \A i \in m .. n : event_log[i] \in Events
      BY <1>1, <2>0, <2>2
    <3> QED BY <3>1, <3>2, SubSeqProperties
  <2>4. n - m + 1 \in 1 .. (n - m + 1) /\ m + (n - m + 1) - 1 = n
    BY <1>1, <2>2
  <2>5. SubSeq(event_log, m, n)[n - m + 1] = event_log[n]
    BY <2>3, <2>4
  <2>6. RecentEvents # << >>
    <3>1. Len(RecentEvents) = n - m + 1 /\ n - m + 1 > 0
      BY <1>1, <1>3, <2>2, <2>3
    <3>2. Len(<< >>) = 0
      OBVIOUS
    <3> QED BY <3>1, <3>2
  <2> QED BY <1>3, <1>5, <2>0, <2>3, <2>5, <2>6 DEF Latest
<1> QED BY <1>4, <1>5

LEMMA LatestType ==
    ASSUME NEW s \in Seq(Events)
    PROVE  Latest(s) \in Events /\ Latest(s).id \in Nat
<1>1. CASE s = << >>
  BY <1>1 DEF Latest, NoEvent, Events
<1>2. CASE s # << >>
  <2>1. Len(s) \in 1 .. Len(s)
    BY <1>2
  <2>2. s[Len(s)] \in Events
    BY <2>1
  <2> QED BY <1>2, <2>2 DEF Latest, Events
<1> QED BY <1>1, <1>2

-----------------------------------------------------------------------------
(* The invariant, action by action.                                        *)

LEMMA Sizes ==
    /\ Cardinality(Threads) \in Nat \ {0}
    /\ BufferSize \in Nat /\ BufferSize >= Cardinality(Threads)
    /\ DOMAIN NoTraffic = {"sent", "received", "blocked"}
BY TracerAssumption, CountType DEF NoTraffic

LEMMA BelowTransitive ==
    ASSUME NEW a \in Traffics, NEW b \in Traffics, NEW c \in Traffics,
           Below(a, b), Below(b, c)
    PROVE  Below(a, c)
BY DEF Below, Traffics

LEMMA InitInv == TracerInit => TracerInv
<1> SUFFICES ASSUME TracerInit PROVE TracerInv
  OBVIOUS
<1> USE DEF TracerInit
<1>1. /\ Types
      /\ Latest(event_log) = NoEvent /\ Latest(snapshot.events) = NoEvent
  BY DEF Types, Traffics, Events, Places, NoTraffic, NoEvent, Latest
<1>2. /\ Count(at, Inside) = 0
      /\ Count(at, Leaving) = 0
      /\ Count(at, Refused) = 0
      /\ Count(at, Framed) = 0
  <2>1. ASSUME NEW K, "idle" \notin K PROVE Count(at, K) = 0
    BY <2>1, CountNone
  <2>2. "idle" \notin Inside /\ "idle" \notin Leaving /\ "idle" \notin Refused /\ "idle" \notin Framed
    BY DEF Inside, Leaving, Refused, Framed
  <2> QED BY <2>1, <2>2
<1>3. LogShape
  BY <1>1 DEF LogShape
<1>4. LogLength
  <2>1. Len(event_log) = 0 /\ logged.id = 0
    BY DEF NoEvent
  <2> QED BY <1>2, <2>1, Sizes DEF LogLength
<1>5. Counting
  BY <1>2 DEF Counting, NoTraffic, NoEvent
<1>6. Reading
  <2>1. at[Dashboard] = "idle"
    BY TracerAssumption
  <2> QED BY <1>1, <2>1, Sizes DEF Reading, Below, NoTraffic, NoEvent
<1>7. SnapshotBacked
  BY <1>1, Sizes DEF SnapshotBacked, NoTraffic, NoEvent
<1> QED BY <1>1, <1>3, <1>4, <1>5, <1>6, <1>7 DEF TracerInv

\* What a move of one thread from a place to another adds to the count of K.
Gain(from, to, K) == (IF to \in K THEN 1 ELSE 0) - (IF from \in K THEN 1 ELSE 0)

LEMMA Moves ==
    ASSUME Types, NEW t \in Threads, NEW v \in Places, at' = [at EXCEPT ![t] = v]
    PROVE  /\ at' \in [Threads -> Places]
           /\ Count(at', Inside) = Count(at, Inside) + Gain(at[t], v, Inside)
           /\ Count(at', Leaving) = Count(at, Leaving) + Gain(at[t], v, Leaving)
           /\ Count(at', Refused) = Count(at, Refused) + Gain(at[t], v, Refused)
           /\ Count(at', Framed) = Count(at, Framed) + Gain(at[t], v, Framed)
<1>1. at \in [Threads -> Places]
  BY DEF Types
<1>2. at' \in [Threads -> Places]
  BY <1>1
<1>3. ASSUME NEW K PROVE Count(at', K) = Count(at, K) + Gain(at[t], v, K)
  <2>1. Count(at', K) = (Count(at, K) - (IF at[t] \in K THEN 1 ELSE 0))
                                       + (IF v \in K THEN 1 ELSE 0)
    BY <1>1, CountMove
  <2>2. Count(at, K) \in Nat
    BY CountType
  <2> QED BY <2>1, <2>2 DEF Gain
<1> QED BY <1>2, <1>3

LEMMA CountTypes ==
    /\ Count(at, Inside) \in Nat
    /\ Count(at, Leaving) \in Nat
    /\ Count(at, Leaving) <= Cardinality(Threads)
    /\ Count(at, Refused) \in Nat
    /\ Count(at, Framed) \in Nat
BY CountType

LEMMA RecordSentInv ==
    ASSUME TracerInv, NEW t \in Threads, RecordSent(t)
    PROVE  TracerInv'
<1> USE DEF TracerInv, RecordSent
<1>0. traffic \in Traffics /\ traffic' = [traffic EXCEPT !.sent = @ + 1]
  BY DEF Types
<1>1. /\ traffic' \in Traffics
      /\ traffic'.sent = traffic.sent + 1 /\ traffic.sent \in Nat
      /\ traffic'.received = traffic.received /\ traffic'.blocked = traffic.blocked
  BY <1>0 DEF Traffics
<1>1a. Types'
  BY <1>1 DEF Types
<1>2. LogShape' /\ LogLength'
  BY DEF LogShape, LogLength
<1>3. Counting'
  BY <1>1 DEF Counting
<1>4. Reading'
  <2>1. Below(traffic, traffic')
    BY <1>1 DEF Below, Traffics
  <2> QED BY <1>0, <1>1, <2>1, BelowTransitive DEF Reading, Types
<1>5. SnapshotBacked'
  BY DEF SnapshotBacked
<1> QED BY <1>1a, <1>2, <1>3, <1>4, <1>5

LEMMA RecordReceivedInv ==
    ASSUME TracerInv, NEW t \in Threads, NEW kind \in FrameKinds, RecordReceived(t, kind)
    PROVE  TracerInv'
<1> USE DEF TracerInv, RecordReceived
<1>0. kind \in {"blocked", "cleared"} /\ kind \in Places
  BY TracerAssumption DEF Places
<1>1. /\ at' \in [Threads -> Places]
      /\ Count(at', Inside) = Count(at, Inside) + Gain("idle", kind, Inside)
      /\ Count(at', Leaving) = Count(at, Leaving) + Gain("idle", kind, Leaving)
      /\ Count(at', Refused) = Count(at, Refused) + Gain("idle", kind, Refused)
      /\ Count(at', Framed) = Count(at, Framed) + Gain("idle", kind, Framed)
  BY <1>0, Moves
<1>2a. /\ traffic \in Traffics
       /\ traffic' = [traffic EXCEPT !.received = @ + 1,
                                     !.blocked = IF kind = "blocked" THEN @ + 1 ELSE @]
  BY DEF Types
<1> HIDE DEF RecordReceived
<1>2b.
      /\ traffic' \in Traffics
      /\ traffic'.sent = traffic.sent
      /\ traffic'.received = traffic.received + 1
      /\ traffic'.blocked = IF kind = "blocked" THEN traffic.blocked + 1 ELSE traffic.blocked
      /\ traffic.received \in Nat /\ traffic.blocked \in Nat /\ traffic.sent \in Nat
  <2> DEFINE mid == [traffic EXCEPT !.received = @ + 1]
             b == IF kind = "blocked" THEN traffic.blocked + 1 ELSE traffic.blocked
  <2>1. /\ mid \in Traffics
        /\ mid.sent = traffic.sent /\ mid.received = traffic.received + 1
        /\ mid.blocked = traffic.blocked
        /\ traffic.received \in Nat /\ traffic.blocked \in Nat /\ traffic.sent \in Nat
    BY <1>2a DEF Traffics
  <2>2. b \in Nat
    BY <2>1
  <2>3. traffic' = [mid EXCEPT !.blocked = b]
    BY <1>2a, <2>1
  <2> HIDE DEF mid
  <2>4. /\ traffic' \in Traffics
        /\ traffic'.sent = mid.sent /\ traffic'.received = mid.received /\ traffic'.blocked = b
    <3> HIDE DEF b
    <3> QED BY <2>1, <2>2, <2>3 DEF Traffics
  <2> QED BY <2>1, <2>4
<1>2. Types'
  <2>1. UNCHANGED <<event_log, metrics, snapshot, logged>>
    BY DEF RecordReceived
  <2> QED BY <1>1, <1>2b, <2>1 DEF Types
<1> USE DEF RecordReceived
<1>3. LogShape'
  BY DEF LogShape
<1>4. LogLength'
  <2>1. /\ Count(at', Inside) = Count(at, Inside)
        /\ Count(at', Leaving) = Count(at, Leaving)
    BY <1>0, <1>1, CountTypes DEF Gain, Inside, Leaving, Refused, Framed
  <2> QED BY <2>1 DEF LogLength
<1>5. Counting'
  <2>1. /\ Count(at', Framed) = Count(at, Framed) + 1
        /\ Count(at', Refused) = IF kind = "blocked" THEN Count(at, Refused) + 1
                                                         ELSE Count(at, Refused)
    BY <1>0, <1>1, CountTypes DEF Gain, Inside, Leaving, Refused, Framed
  <2>2. logged.blocked \in Nat /\ logged.cleared \in Nat
    BY DEF Types, Events
  <2> QED BY <1>2b, <2>1, <2>2, CountTypes DEF Counting
<1>6. Reading'
  <2>1. Below(traffic, traffic') /\ traffic' \in Traffics
    BY <1>2b DEF Below, Types
  <2>2. at'[Dashboard] = "reading" => at[Dashboard] = "reading"
    BY <1>0, TracerAssumption DEF Types
  <2> QED BY <2>1, <2>2, BelowTransitive DEF Reading, Types
<1>7. SnapshotBacked'
  BY DEF SnapshotBacked
<1> QED BY <1>2, <1>3, <1>4, <1>5, <1>6, <1>7

\* The event about to be appended, and what appending it does to the log.
LEMMA AppendToLog ==
    ASSUME Types, LogShape, NEW kind, event_log' = Append(event_log, NextEvent(kind)),
           logged' = NextEvent(kind)
    PROVE  /\ logged' \in Events
           /\ logged'.id = logged.id + 1
           /\ logged'.blocked = IF kind = "blocked" THEN logged.blocked + 1 ELSE logged.blocked
           /\ logged'.cleared = IF kind = "cleared" THEN logged.cleared + 1 ELSE logged.cleared
           /\ event_log' \in Seq(Events)
           /\ Len(event_log') = Len(event_log) + 1
           /\ LogShape'
<1>1. /\ logged \in Events /\ logged.id \in Nat /\ logged.blocked \in Nat
      /\ logged.cleared \in Nat
      /\ event_log \in Seq(Events) /\ Len(event_log) \in Nat
  BY DEF Types, Events
<1>2. /\ logged' \in Events
      /\ logged'.id = logged.id + 1
      /\ logged'.blocked = IF kind = "blocked" THEN logged.blocked + 1 ELSE logged.blocked
      /\ logged'.cleared = IF kind = "cleared" THEN logged.cleared + 1 ELSE logged.cleared
  BY <1>1 DEF NextEvent, Events
<1>3. /\ event_log' \in Seq(Events)
      /\ Len(event_log') = Len(event_log) + 1
      /\ \A i \in 1 .. Len(event_log) : event_log'[i] = event_log[i]
      /\ event_log'[Len(event_log) + 1] = logged'
  BY <1>1, <1>2
<1>4. ASSUME NEW i \in DOMAIN event_log'
      PROVE  event_log'[i].id = logged'.id - Len(event_log') + i
  <2>1. i \in 1 .. Len(event_log) + 1
    BY <1>3
  <2>2. CASE i = Len(event_log) + 1
    BY <1>1, <1>2, <1>3, <2>2
  <2>3. CASE i \in 1 .. Len(event_log)
    <3>1. i \in DOMAIN event_log /\ i \in Nat
      BY <1>1, <2>3
    <3>2. event_log[i].id = logged.id - Len(event_log) + i
      BY <3>1 DEF LogShape
    <3> QED BY <1>1, <1>2, <1>3, <2>3, <3>1, <3>2
  <2> QED BY <1>1, <2>1, <2>2, <2>3
<1>5. Latest(event_log') = logged'
  BY <1>1, <1>3 DEF Latest
<1> QED BY <1>2, <1>3, <1>4, <1>5 DEF LogShape

LEMMA AppendEventInv ==
    ASSUME TracerInv, NEW t \in Threads, AppendEvent(t)
    PROVE  TracerInv'
<1> USE DEF TracerInv
<1>1. PICK kind \in FrameKinds \cup {"other"} :
         /\ at[t] = kind \/ (at[t] = "idle" /\ kind = "other")
         /\ event_log' = Append(event_log, NextEvent(kind))
         /\ logged' = NextEvent(kind)
  BY DEF AppendEvent
<1>2. /\ at' = [at EXCEPT ![t] = "comparing"]
      /\ UNCHANGED <<traffic, metrics, snapshot>>
  BY DEF AppendEvent
<1>3. /\ kind \in {"blocked", "cleared", "other"}
      /\ kind = "other" => at[t] = "idle"
      /\ kind # "other" => at[t] = kind
  <2>1. kind \in {"blocked", "cleared", "other"}
    BY TracerAssumption
  <2>2. at[t] \in Places
    BY DEF Types
  <2>3. at[t] # "other"
    BY <2>2 DEF Places
  <2> QED BY <1>1, <2>1, <2>3
<1>4. /\ logged' \in Events
      /\ logged'.id = logged.id + 1
      /\ logged'.blocked = IF kind = "blocked" THEN logged.blocked + 1 ELSE logged.blocked
      /\ logged'.cleared = IF kind = "cleared" THEN logged.cleared + 1 ELSE logged.cleared
      /\ event_log' \in Seq(Events)
      /\ Len(event_log') = Len(event_log) + 1
      /\ LogShape'
  BY <1>1, AppendToLog
<1>5. /\ at' \in [Threads -> Places]
      /\ Count(at', Inside) = Count(at, Inside) + Gain(at[t], "comparing", Inside)
      /\ Count(at', Leaving) = Count(at, Leaving) + Gain(at[t], "comparing", Leaving)
      /\ Count(at', Refused) = Count(at, Refused) + Gain(at[t], "comparing", Refused)
      /\ Count(at', Framed) = Count(at, Framed) + Gain(at[t], "comparing", Framed)
  BY <1>2, Moves DEF Places
<1>6. Types'
  BY <1>2, <1>4, <1>5 DEF Types
<1>7. logged.id \in Nat /\ logged.blocked \in Nat /\ logged.cleared \in Nat
      /\ Len(event_log) \in Nat
  BY DEF Types, Events
<1>8. LogLength'
  <2>1. /\ Count(at', Inside) = Count(at, Inside) + 1
        /\ Count(at', Leaving) = Count(at, Leaving)
    BY <1>3, <1>5, CountTypes DEF Gain, Inside, Leaving, Refused, Framed
  <2>2. /\ Len(event_log') = Len(event_log) + 1 /\ logged'.id = logged.id + 1
        /\ Len(event_log) \in Nat /\ logged.id \in Nat
    BY <1>4, <1>7
  <2>3. Count(at, Inside) \in Nat /\ Count(at, Leaving) \in Nat
    BY CountTypes
  <2>4. BufferSize \in Nat /\ Cardinality(Threads) \in Nat
    BY Sizes
  <2>5. Len(event_log') <= BufferSize + Count(at', Inside)
    BY <2>1, <2>2, <2>3, <2>4 DEF LogLength
  <2>6. ASSUME Count(at', Leaving) > 0 \/ logged'.id > Len(event_log')
        PROVE  Len(event_log') - Count(at', Leaving) > BufferSize - Cardinality(Threads)
    <3>1. Count(at, Leaving) > 0 \/ logged.id > Len(event_log)
      BY <2>1, <2>2, <2>6
    <3>2. Len(event_log) - Count(at, Leaving) > BufferSize - Cardinality(Threads)
      BY <3>1 DEF LogLength
    <3> QED BY <2>1, <2>2, <2>3, <2>4, <3>2
  <2> QED BY <2>5, <2>6 DEF LogLength
<1>9. Counting'
  <2>0. /\ traffic'.blocked = logged.blocked + Count(at, Refused)
        /\ traffic'.received = logged.blocked + logged.cleared + Count(at, Framed)
    BY <1>2 DEF Counting
  <2>00. Count(at, Refused) \in Nat /\ Count(at, Framed) \in Nat
    BY CountTypes
  <2>1. CASE kind = "blocked"
    <3>1. /\ Count(at', Refused) = Count(at, Refused) - 1
          /\ Count(at', Framed) = Count(at, Framed) - 1
      BY <1>3, <1>5, <2>1, CountTypes DEF Gain, Inside, Leaving, Refused, Framed
    <3>2. logged'.blocked = logged.blocked + 1 /\ logged'.cleared = logged.cleared
      BY <1>4, <2>1
    <3>3. traffic'.blocked = logged'.blocked + Count(at', Refused)
      BY <1>7, <2>0, <2>00, <3>1, <3>2
    <3>4. traffic'.received = logged'.blocked + logged'.cleared + Count(at', Framed)
      BY <1>7, <2>0, <2>00, <3>1, <3>2
    <3> QED BY <3>3, <3>4 DEF Counting
  <2>2. CASE kind = "cleared"
    <3>1. /\ Count(at', Refused) = Count(at, Refused)
          /\ Count(at', Framed) = Count(at, Framed) - 1
      BY <1>3, <1>5, <2>2, CountTypes DEF Gain, Inside, Leaving, Refused, Framed
    <3>2. logged'.blocked = logged.blocked /\ logged'.cleared = logged.cleared + 1
      BY <1>4, <2>2
    <3>3. traffic'.blocked = logged'.blocked + Count(at', Refused)
      BY <1>7, <2>0, <2>00, <3>1, <3>2
    <3>4. traffic'.received = logged'.blocked + logged'.cleared + Count(at', Framed)
      BY <1>7, <2>0, <2>00, <3>1, <3>2
    <3> QED BY <3>3, <3>4 DEF Counting
  <2>3. CASE kind = "other"
    <3>1. /\ Count(at', Refused) = Count(at, Refused)
          /\ Count(at', Framed) = Count(at, Framed)
      BY <1>3, <1>5, <2>3, CountTypes DEF Gain, Inside, Leaving, Refused, Framed
    <3>2. logged'.blocked = logged.blocked /\ logged'.cleared = logged.cleared
      BY <1>4, <2>3
    <3>3. traffic'.blocked = logged'.blocked + Count(at', Refused)
      BY <1>7, <2>0, <2>00, <3>1, <3>2
    <3>4. traffic'.received = logged'.blocked + logged'.cleared + Count(at', Framed)
      BY <1>7, <2>0, <2>00, <3>1, <3>2
    <3> QED BY <3>3, <3>4 DEF Counting
  <2> QED BY <1>3, <2>1, <2>2, <2>3
<1>10. Reading'
  <2>1. at'[Dashboard] = "reading" => at[Dashboard] = "reading"
    BY <1>2, TracerAssumption DEF Types
  <2>2. /\ metrics.blocked \in Nat /\ metrics.received \in Nat
        /\ Latest(snapshot.events).id <= logged.id
        /\ Latest(snapshot.events).id \in Int
    <3>1. snapshot.events \in Seq(Events)
      BY DEF Types
    <3>2. Latest(snapshot.events).id \in Int
      BY <3>1, LatestType
    <3> QED BY <3>2 DEF Types, Traffics, Reading
  <2>3. /\ logged.blocked <= logged'.blocked /\ logged.cleared <= logged'.cleared
        /\ logged'.blocked \in Nat /\ logged'.cleared \in Nat
        /\ logged.id <= logged'.id /\ logged'.id \in Nat
    <3>1. logged'.id \in Nat /\ logged'.blocked \in Nat /\ logged'.cleared \in Nat
      BY <1>4 DEF Events
    <3>2. logged.id <= logged'.id
      BY <1>4, <1>7, <3>1
    <3>3. logged.blocked <= logged'.blocked
      BY <1>4, <1>7, <3>1
    <3>4. logged.cleared <= logged'.cleared
      BY <1>4, <1>7, <3>1
    <3> QED BY <3>1, <3>2, <3>3, <3>4
  <2>4. Latest(snapshot'.events).id <= logged'.id
    BY <1>2, <1>7, <2>2, <2>3
  <2>5. ASSUME at'[Dashboard] = "reading"
        PROVE  /\ metrics'.blocked < logged'.blocked + Cardinality(Threads)
               /\ metrics'.received < logged'.blocked + logged'.cleared + Cardinality(Threads)
               /\ Below(snapshot.traffic, metrics)' /\ Below(metrics, traffic)'
    <3>1. /\ metrics.blocked < logged.blocked + Cardinality(Threads)
          /\ metrics.received < logged.blocked + logged.cleared + Cardinality(Threads)
          /\ Below(snapshot.traffic, metrics) /\ Below(metrics, traffic)
      BY <2>1, <2>5 DEF Reading
    <3>2. Cardinality(Threads) \in Nat
      BY Sizes
    <3>0. metrics'.blocked = metrics.blocked /\ metrics'.received = metrics.received
      BY <1>2
    <3>00. metrics.blocked \in Nat /\ metrics.received \in Nat
      BY <2>2
    <3>3. metrics'.blocked < logged'.blocked + Cardinality(Threads)
      <4>1. logged.blocked <= logged'.blocked /\ logged'.blocked \in Nat
        BY <2>3
      <4> QED BY <1>7, <3>0, <3>00, <3>1, <3>2, <4>1
    <3>4. metrics'.received < logged'.blocked + logged'.cleared + Cardinality(Threads)
      <4>1. logged.blocked + logged.cleared <= logged'.blocked + logged'.cleared
        BY <1>7, <2>3
      <4>2. logged'.blocked + logged'.cleared \in Nat /\ logged.blocked + logged.cleared \in Nat
        BY <1>7, <2>3
      <4> QED BY <3>0, <3>00, <3>1, <3>2, <4>1, <4>2
    <3>5. Below(snapshot.traffic, metrics)' /\ Below(metrics, traffic)'
      BY <1>2, <3>1
    <3> QED BY <3>3, <3>4, <3>5
  <2>6. Below(snapshot.traffic, traffic)'
    BY <1>2 DEF Reading
  <2> QED BY <2>4, <2>5, <2>6 DEF Reading
<1>11. SnapshotBacked'
  BY <1>2 DEF SnapshotBacked
<1> QED BY <1>4, <1>6, <1>8, <1>9, <1>10, <1>11

LEMMA CompareLengthInv ==
    ASSUME TracerInv, NEW t \in Threads, CompareLength(t)
    PROVE  TracerInv'
<1> USE DEF TracerInv, CompareLength
<1> DEFINE v == IF Len(event_log) > BufferSize THEN "popping" ELSE "idle"
<1>0. /\ Len(event_log) > BufferSize => v = "popping"
      /\ ~ (Len(event_log) > BufferSize) => v = "idle"
      /\ v \in {"popping", "idle"}
      /\ at' = [at EXCEPT ![t] = v]
      /\ at[t] = "comparing"
      /\ UNCHANGED <<traffic, event_log, metrics, snapshot, logged>>
  OBVIOUS
<1> HIDE DEF v, CompareLength
<1>1. /\ at' \in [Threads -> Places]
      /\ Count(at', Inside) = Count(at, Inside) + Gain("comparing", v, Inside)
      /\ Count(at', Leaving) = Count(at, Leaving) + Gain("comparing", v, Leaving)
      /\ Count(at', Refused) = Count(at, Refused) + Gain("comparing", v, Refused)
      /\ Count(at', Framed) = Count(at, Framed) + Gain("comparing", v, Framed)
  <2>1. v \in Places
    BY <1>0 DEF Places
  <2> QED BY <1>0, <2>1, Moves
<1>2. Types'
  BY <1>0, <1>1 DEF Types
<1>3. LogShape'
  BY <1>0 DEF LogShape
<1>4. Len(event_log) \in Nat
  BY DEF Types
<1>5. LogLength'
  <2>0. /\ Count(at', Inside) \in Nat /\ Count(at', Leaving) \in Nat
        /\ Count(at', Leaving) <= Cardinality(Threads)
    BY CountType
  <2>1. CASE Len(event_log) > BufferSize
    <3>1. Count(at', Inside) = Count(at, Inside)
      BY <1>0, <1>1, <2>1, CountTypes DEF Gain, Inside, Leaving, Refused, Framed
    <3> QED BY <1>0, <1>4, <2>0, <2>1, <3>1, Sizes, CountTypes DEF LogLength
  <2>2. CASE ~ (Len(event_log) > BufferSize)
    <3>1. Count(at', Leaving) = Count(at, Leaving)
      BY <1>0, <1>1, <2>2, CountTypes DEF Gain, Inside, Leaving, Refused, Framed
    <3> QED BY <1>0, <1>4, <2>0, <2>2, <3>1, Sizes, CountTypes DEF LogLength
  <2> QED BY <2>1, <2>2
<1>6. Counting'
  <2>1. /\ Count(at', Refused) = Count(at, Refused)
        /\ Count(at', Framed) = Count(at, Framed)
    BY <1>0, <1>1, CountTypes DEF Gain, Inside, Leaving, Refused, Framed
  <2> QED BY <1>0, <2>1 DEF Counting
<1>7. Reading'
  <2>1. at'[Dashboard] = "reading" => at[Dashboard] = "reading"
    BY <1>0, TracerAssumption DEF Types
  <2> QED BY <1>0, <2>1 DEF Reading
<1>8. SnapshotBacked'
  BY <1>0 DEF SnapshotBacked
<1> QED BY <1>2, <1>3, <1>5, <1>6, <1>7, <1>8

\* The log after its oldest event is gone.
LEMMA PopFromLog ==
    ASSUME Types, LogShape, Len(event_log) > 1, event_log' = Tail(event_log), logged' = logged
    PROVE  /\ event_log' \in Seq(Events)
           /\ Len(event_log') = Len(event_log) - 1
           /\ LogShape'
<1>1. event_log \in Seq(Events) /\ Len(event_log) \in Nat /\ logged.id \in Nat
  BY DEF Types, Events
<1>2. /\ event_log' \in Seq(Events)
      /\ Len(event_log') = Len(event_log) - 1
      /\ \A i \in 1 .. Len(event_log) - 1 : event_log'[i] = event_log[i + 1]
  BY <1>1
<1>3. ASSUME NEW i \in DOMAIN event_log'
      PROVE  event_log'[i].id = logged'.id - Len(event_log') + i
  <2>1. i \in 1 .. Len(event_log) - 1 /\ i + 1 \in DOMAIN event_log
    BY <1>1, <1>2
  <2>2. event_log[i + 1].id = logged.id - Len(event_log) + (i + 1)
    BY <2>1 DEF LogShape
  <2>3. event_log'[i].id = logged.id - Len(event_log) + (i + 1)
    <3>1. event_log'[i] = event_log[i + 1]
      BY <1>2, <2>1
    <3> QED BY <2>2, <3>1
  <2>4. i \in Nat /\ Len(event_log') = Len(event_log) - 1 /\ logged'.id = logged.id
    BY <1>1, <1>2, <2>1
  <2>5. ASSUME NEW d \in Nat, NEW n \in Nat
        PROVE  d - n + (i + 1) = d - (n - 1) + i
    BY <2>4
  <2>6. logged.id - Len(event_log) + (i + 1) = logged.id - (Len(event_log) - 1) + i
    BY <1>1, <2>5
  <2> QED BY <2>3, <2>4, <2>6
<1>4. Latest(event_log') = logged'
  <2>1. Len(event_log) - 1 \in 1 .. Len(event_log) - 1
    BY <1>1
  <2>2. event_log'[Len(event_log) - 1] = event_log[Len(event_log)]
    BY <1>1, <1>2, <2>1
  <2>3. event_log # << >> /\ event_log' # << >>
    <3>1. Len(event_log) # 0 /\ Len(event_log') # 0
      BY <1>1, <1>2
    <3>2. Len(<< >>) = 0
      OBVIOUS
    <3> QED BY <3>1, <3>2
  <2> QED BY <1>2, <2>2, <2>3 DEF Latest, LogShape
<1> QED BY <1>2, <1>3, <1>4 DEF LogShape

LEMMA PopOldestInv ==
    ASSUME TracerInv, NEW t \in Threads, PopOldest(t)
    PROVE  TracerInv'
<1>0. /\ Types /\ LogShape /\ LogLength /\ Counting /\ Reading /\ SnapshotBacked
      /\ at[t] = "popping" /\ at' = [at EXCEPT ![t] = "idle"]
      /\ event_log' = Tail(event_log)
      /\ UNCHANGED <<traffic, metrics, snapshot, logged>>
  BY DEF TracerInv, PopOldest
<1>1. /\ at' \in [Threads -> Places]
      /\ Count(at', Inside) = Count(at, Inside) + Gain("popping", "idle", Inside)
      /\ Count(at', Leaving) = Count(at, Leaving) + Gain("popping", "idle", Leaving)
      /\ Count(at', Refused) = Count(at, Refused) + Gain("popping", "idle", Refused)
      /\ Count(at', Framed) = Count(at, Framed) + Gain("popping", "idle", Framed)
  BY <1>0, Moves DEF Places
<1>2. /\ Count(at', Inside) = Count(at, Inside) - 1
      /\ Count(at', Leaving) = Count(at, Leaving) - 1
      /\ Count(at', Refused) = Count(at, Refused)
      /\ Count(at', Framed) = Count(at, Framed)
  BY <1>1, CountTypes DEF Gain, Inside, Leaving, Refused, Framed
<1>3. Count(at', Leaving) \in Nat
  BY CountType
<1>4. Len(event_log) \in Nat /\ logged.id \in Nat
  BY <1>0 DEF Types, Events
<1>5. Len(event_log) - Count(at, Leaving) > BufferSize - Cardinality(Threads)
  BY <1>0, <1>2, <1>3, CountTypes DEF LogLength
<1>6. Len(event_log) > 1
  BY <1>2, <1>3, <1>4, <1>5, CountTypes, Sizes
<1>7. /\ event_log' \in Seq(Events)
      /\ Len(event_log') = Len(event_log) - 1
      /\ LogShape'
  BY <1>0, <1>6, PopFromLog
<1>8. Types'
  BY <1>0, <1>1, <1>7 DEF Types
<1>9. LogLength'
  BY <1>0, <1>2, <1>4, <1>5, <1>7, CountTypes, Sizes DEF LogLength
<1>10. Counting'
  BY <1>0, <1>2 DEF Counting
<1>11. Reading'
  <2>1. at'[Dashboard] = "reading" => at[Dashboard] = "reading"
    BY <1>0, TracerAssumption DEF Types
  <2> QED BY <1>0, <2>1 DEF Reading
<1>12. SnapshotBacked'
  BY <1>0 DEF SnapshotBacked
<1> QED BY <1>7, <1>8, <1>9, <1>10, <1>11, <1>12 DEF TracerInv

\* The copy is taken while the reader itself has counted no frame it has not
\* logged: at most the other threads have.
LEMMA CopyMetricsInv ==
    ASSUME TracerInv, CopyMetrics(Dashboard)
    PROVE  TracerInv'
<1>0. /\ Types /\ LogShape /\ LogLength /\ Counting /\ Reading /\ SnapshotBacked
      /\ at[Dashboard] = "idle" /\ at' = [at EXCEPT ![Dashboard] = "reading"]
      /\ metrics' = traffic
      /\ UNCHANGED <<traffic, event_log, snapshot, logged>>
      /\ Dashboard \in Threads
  BY TracerAssumption DEF TracerInv, CopyMetrics
<1>1. /\ at' \in [Threads -> Places]
      /\ Count(at', Inside) = Count(at, Inside) + Gain("idle", "reading", Inside)
      /\ Count(at', Leaving) = Count(at, Leaving) + Gain("idle", "reading", Leaving)
      /\ Count(at', Refused) = Count(at, Refused) + Gain("idle", "reading", Refused)
      /\ Count(at', Framed) = Count(at, Framed) + Gain("idle", "reading", Framed)
  BY <1>0, Moves DEF Places
<1>2. /\ Count(at', Inside) = Count(at, Inside)
      /\ Count(at', Leaving) = Count(at, Leaving)
      /\ Count(at', Refused) = Count(at, Refused)
      /\ Count(at', Framed) = Count(at, Framed)
  BY <1>1, CountTypes DEF Gain, Inside, Leaving, Refused, Framed
<1>3. Types'
  BY <1>0, <1>1 DEF Types
<1>4. LogShape'
  BY <1>0 DEF LogShape
<1>5. LogLength'
  BY <1>0, <1>2 DEF LogLength
<1>6. Counting'
  BY <1>0, <1>2 DEF Counting
<1>7. Reading'
  <2>1. Count(at, Refused) < Cardinality(Threads) /\ Count(at, Framed) < Cardinality(Threads)
    <3>1. at[Dashboard] \notin Refused /\ at[Dashboard] \notin Framed
      BY <1>0 DEF Refused, Framed
    <3> QED BY <1>0, <3>1, CountOthers
  <2>2. logged.blocked \in Nat /\ logged.cleared \in Nat /\ Cardinality(Threads) \in Nat
    BY <1>0, Sizes DEF Types, Events
  <2>3. metrics'.blocked < logged'.blocked + Cardinality(Threads)
    BY <1>0, <2>1, <2>2, CountTypes DEF Counting
  <2>4. metrics'.received < logged'.blocked + logged'.cleared + Cardinality(Threads)
    BY <1>0, <2>1, <2>2, CountTypes DEF Counting
  <2>5. Below(metrics, traffic)'
    <3>1. metrics' = traffic /\ traffic' = traffic /\ traffic \in Traffics
      BY <1>0 DEF Types
    <3> QED BY <3>1 DEF Below, Traffics
  <2>6. Below(snapshot.traffic, metrics)' /\ Below(snapshot.traffic, traffic)'
    BY <1>0 DEF Reading
  <2>7. Latest(snapshot'.events).id <= logged'.id
    BY <1>0 DEF Reading
  <2> QED BY <2>3, <2>4, <2>5, <2>6, <2>7 DEF Reading
<1>8. SnapshotBacked'
  BY <1>0 DEF SnapshotBacked
<1> QED BY <1>3, <1>4, <1>5, <1>6, <1>7, <1>8 DEF TracerInv

\* The snapshot is complete: its latest event is the latest there is.
LEMMA ReadEventsInv ==
    ASSUME TracerInv, ReadEvents(Dashboard)
    PROVE  TracerInv'
<1>0. /\ Types /\ LogShape /\ LogLength /\ Counting /\ Reading
      /\ at[Dashboard] = "reading" /\ at' = [at EXCEPT ![Dashboard] = "idle"]
      /\ snapshot' = [traffic |-> metrics, events |-> RecentEvents]
      /\ metrics' = NoTraffic
      /\ UNCHANGED <<traffic, event_log, logged>>
      /\ Dashboard \in Threads
  BY TracerAssumption DEF TracerInv, ReadEvents
<1>1. /\ at' \in [Threads -> Places]
      /\ Count(at', Inside) = Count(at, Inside) + Gain("reading", "idle", Inside)
      /\ Count(at', Leaving) = Count(at, Leaving) + Gain("reading", "idle", Leaving)
      /\ Count(at', Refused) = Count(at, Refused) + Gain("reading", "idle", Refused)
      /\ Count(at', Framed) = Count(at, Framed) + Gain("reading", "idle", Framed)
  BY <1>0, Moves DEF Places
<1>2. /\ Count(at', Inside) = Count(at, Inside)
      /\ Count(at', Leaving) = Count(at, Leaving)
      /\ Count(at', Refused) = Count(at, Refused)
      /\ Count(at', Framed) = Count(at, Framed)
  BY <1>1, CountTypes DEF Gain, Inside, Leaving, Refused, Framed
<1>3. /\ RecentEvents \in Seq(Events)
      /\ Latest(RecentEvents) = logged
  BY <1>0, LatestOfRecent DEF Types, LogShape
<1>4. snapshot'.traffic = metrics /\ snapshot'.events = RecentEvents
  BY <1>0
<1>5. Types'
  <2>1. metrics' \in Traffics
    BY <1>0 DEF NoTraffic, Traffics
  <2>2. snapshot' \in [traffic : Traffics, events : Seq(Events)]
    BY <1>0, <1>3 DEF Types
  <2> QED BY <1>0, <1>1, <2>1, <2>2 DEF Types
<1>6. LogShape'
  BY <1>0 DEF LogShape
<1>7. LogLength'
  BY <1>0, <1>2 DEF LogLength
<1>8. Counting'
  BY <1>0, <1>2 DEF Counting
<1>9. Reading'
  <2>1. at'[Dashboard] # "reading"
    BY <1>0 DEF Types
  <2>2. Below(snapshot.traffic, traffic)'
    BY <1>0, <1>4 DEF Reading
  <2>3. Latest(snapshot'.events).id <= logged'.id
    <3>1. logged.id \in Nat
      BY <1>0 DEF Types, Events
    <3> QED BY <1>0, <1>3, <1>4, <3>1
  <2> QED BY <2>1, <2>2, <2>3 DEF Reading
<1>10. SnapshotBacked'
  BY <1>0, <1>3, <1>4 DEF SnapshotBacked, Reading
<1> QED BY <1>5, <1>6, <1>7, <1>8, <1>9, <1>10 DEF TracerInv

LEMMA TracerUnchanged ==
    ASSUME TracerInv, UNCHANGED tracerVars
    PROVE  TracerInv'
BY DEF TracerInv, Types, LogShape, LogLength, Counting, Reading, SnapshotBacked,
       Count, Below, tracerVars

LEMMA TracerStep ==
    ASSUME TracerInv, [TracerNext]_tracerVars
    PROVE  TracerInv'
<1>1. ASSUME NEW t \in Threads, RecordSent(t) PROVE TracerInv'
  BY <1>1, RecordSentInv
<1>2. ASSUME NEW t \in Threads, NEW kind \in FrameKinds, RecordReceived(t, kind)
      PROVE  TracerInv'
  BY <1>2, RecordReceivedInv
<1>3. ASSUME NEW t \in Threads, LogStep(t) PROVE TracerInv'
  BY <1>3, AppendEventInv, CompareLengthInv, PopOldestInv DEF LogStep
<1>4. CASE CopyMetrics(Dashboard)
  BY <1>4, CopyMetricsInv
<1>5. CASE ReadEvents(Dashboard)
  BY <1>5, ReadEventsInv
<1>6. CASE UNCHANGED tracerVars
  BY <1>6, TracerUnchanged
<1> QED BY <1>1, <1>2, <1>3, <1>4, <1>5, <1>6 DEF TracerNext

-----------------------------------------------------------------------------
(* The theorems.                                                           *)

\* Whatever the browsers do, and however the broadcast is interrupted, what
\* the feed does to the tracer is what some reader of a tracer may do.
THEOREM FeedRefinesTracer == Spec => TracerSpec
<1>1. Init => TracerInit
  BY DEF Init
<1>2. [Next]_vars => [TracerNext]_tracerVars
  <2> SUFFICES ASSUME [Next]_vars PROVE TracerNext \/ UNCHANGED tracerVars
    OBVIOUS
  <2>1. ASSUME NEW t \in Threads, Traffic(t) PROVE TracerNext
    BY <2>1 DEF Traffic, TracerNext
  <2>2. ASSUME NEW s \in Sockets,
               Open(s) \/ GoAway(s) \/ Register(s) \/ AcceptFails(s) \/ Disconnect(s)
        PROVE  UNCHANGED tracerVars
    BY <2>2 DEF Open, GoAway, Register, AcceptFails, Disconnect
  <2>3. CASE StartSnapshot \/ StartRound
    BY <2>3 DEF StartSnapshot, StartRound, TracerNext
  <2>4. CASE RoundCutShort \/ SendNext \/ EndRound \/ Wake \/ Shutdown
    BY <2>4 DEF RoundCutShort, SendNext, EndRound, Wake, Shutdown
  <2>5. ASSUME NEW s \in Sockets, SendDone(s) \/ SendFails(s)
        PROVE  UNCHANGED tracerVars
    BY <2>5 DEF SendDone, SendFails
  <2>6. CASE UNCHANGED vars
    BY <2>6 DEF vars
  <2> QED BY <2>1, <2>2, <2>3, <2>4, <2>5, <2>6 DEF Next, BroadcastStep
<1> QED BY <1>1, <1>2, PTL DEF Spec, TracerSpec

\* The invariant of the tracer.
THEOREM TracerInvariant == TracerSpec => []TracerInv
<1>1. TracerInit => TracerInv
  BY InitInv
<1>2. TracerInv /\ [TracerNext]_tracerVars => TracerInv'
  BY TracerStep
<1> QED BY <1>1, <1>2, PTL DEF TracerSpec

\* The threads that are inside log_event are those LogLength counts.
LEMMA LogHoldsLatestFollows == TracerInv => LogHoldsLatest
<1> SUFFICES ASSUME TracerInv PROVE LogHoldsLatest
  OBVIOUS
<1>1. Types /\ LogShape /\ LogLength
  BY DEF TracerInv
<1>2. Cardinality(Callers) = Count(at, Inside)
  BY DEF Callers, Count, Inside
<1>3. Len(event_log) \in Nat /\ logged.id \in Nat
  BY <1>1 DEF Types, Events
<1>4. logged.id > Len(event_log) => Len(event_log) > BufferSize - Cardinality(Threads)
  BY <1>1, <1>3, CountTypes, Sizes DEF LogLength
<1> QED BY <1>1, <1>2, <1>4 DEF LogHoldsLatest, LogShape, LogLength

\* For any number of threads that log at once, the event log holds the latest
\* events without a hole and is as long as the buffer, give or take a thread.
THEOREM LogAlwaysHoldsLatest == Spec => []LogHoldsLatest
BY FeedRefinesTracer, TracerInvariant, LogHoldsLatestFollows, PTL

\* Every frame a snapshot counts is reported by its events or earlier ones,
\* but for one of each other thread.
THEOREM SnapshotsBacked == Spec => []SnapshotBacked
<1>1. TracerInv => SnapshotBacked
  BY DEF TracerInv
<1> QED BY <1>1, FeedRefinesTracer, TracerInvariant, PTL

\* One step shows the browsers nothing older.
LEMMA ViewStep ==
    ASSUME TracerInv, [TracerNext]_tracerVars
    PROVE  /\ \A c \in DOMAIN NoTraffic : snapshot.traffic[c] <= snapshot'.traffic[c]
           /\ Latest(snapshot.events).id <= Latest(snapshot'.events).id
<1>1. Types /\ Reading /\ LogShape
  BY DEF TracerInv
<1>2. CASE ReadEvents(Dashboard)
  <2>1. /\ at[Dashboard] = "reading"
        /\ snapshot'.traffic = metrics /\ snapshot'.events = RecentEvents
    BY <1>2 DEF ReadEvents
  <2>2. Latest(RecentEvents) = logged
    BY <1>1, LatestOfRecent DEF Types, LogShape
  <2>3. Below(snapshot.traffic, metrics) /\ Latest(snapshot.events).id <= logged.id
    BY <1>1, <2>1 DEF Reading
  <2>4. \A c \in {"sent", "received", "blocked"} : snapshot.traffic[c] <= metrics[c]
    BY <2>3 DEF Below
  <2> QED BY <2>1, <2>2, <2>3, <2>4, Sizes
<1>3. CASE UNCHANGED snapshot
  <2>1. snapshot.traffic \in Traffics /\ Latest(snapshot.events).id \in Nat
    BY <1>1, LatestType DEF Types
  <2>2. \A c \in {"sent", "received", "blocked"} : snapshot.traffic[c] <= snapshot.traffic[c]
    BY <2>1 DEF Traffics
  <2> QED BY <1>3, <2>1, <2>2, Sizes
<1>4. ReadEvents(Dashboard) \/ UNCHANGED snapshot
  BY DEF TracerNext, LogStep, RecordSent, RecordReceived, AppendEvent, CompareLength,
         PopOldest, CopyMetrics, tracerVars
<1> QED BY <1>2, <1>3, <1>4

\* What the browsers are shown never goes back.
THEOREM ViewNeverGoesBack == Spec => ViewMovesForward
<1>1. TracerInv /\ [TracerNext]_tracerVars
        => [ /\ \A c \in DOMAIN NoTraffic : snapshot.traffic[c] <= snapshot'.traffic[c]
             /\ Latest(snapshot.events).id <= Latest(snapshot'.events).id ]_vars
  BY ViewStep
<1> QED BY <1>1, FeedRefinesTracer, TracerInvariant, PTL DEF TracerSpec, ViewMovesForward

-----------------------------------------------------------------------------
(* Types of the feed, and the bound on what is counted and logged.         *)

Budget ==
    /\ Begun <= MaxEvents
    /\ traffic.blocked <= traffic.received
    /\ logged.blocked + logged.cleared <= logged.id

FeedTypes ==
    /\ active_connections \subseteq Sockets /\ to_visit \subseteq Sockets
    /\ dead_conns \subseteq Sockets
    /\ sending \in Sockets \cup {NoSocket}
    /\ loop \in {"awake", "sending", "sleeping", "cancelled"}

\* An event for a frame that was counted costs nothing, any other one unit.
LEMMA BudgetKept ==
    ASSUME Budget, Types, [TracerNext]_tracerVars
    PROVE  Budget'
<1>1. /\ traffic \in Traffics /\ logged \in Events /\ MaxEvents \in Nat
      /\ traffic.sent \in Nat /\ traffic.received \in Nat /\ traffic.blocked \in Nat
      /\ logged.id \in Nat /\ logged.blocked \in Nat /\ logged.cleared \in Nat
  BY TracerAssumption DEF Types, Traffics, Events
<1>2. ASSUME NEW t \in Threads, RecordSent(t) PROVE Budget'
  BY <1>1, <1>2 DEF RecordSent, Budget, Begun, Traffics
<1>3. ASSUME NEW t \in Threads, NEW kind \in FrameKinds, RecordReceived(t, kind) PROVE Budget'
  <2>1. /\ traffic'.sent = traffic.sent /\ traffic'.received = traffic.received + 1
        /\ traffic'.blocked \in {traffic.blocked, traffic.blocked + 1}
        /\ logged' = logged /\ Begun < MaxEvents
    BY <1>1, <1>3 DEF RecordReceived, Traffics
  <2> QED BY <1>1, <2>1 DEF Budget, Begun
<1>4. ASSUME NEW t \in Threads, AppendEvent(t) PROVE Budget'
  <2>1. PICK kind \in FrameKinds \cup {"other"} :
            /\ kind = "other" => at[t] = "other" \/ Begun < MaxEvents
            /\ logged' = NextEvent(kind)
    BY <1>4 DEF AppendEvent
  <2>2. at[t] # "other" /\ kind \in {"blocked", "cleared", "other"}
    BY TracerAssumption DEF Types, Places
  <2>3. /\ logged'.id = logged.id + 1 /\ traffic' = traffic
        /\ \/ kind = "other" /\ logged'.blocked = logged.blocked /\ logged'.cleared = logged.cleared
           \/ logged'.blocked = logged.blocked + 1 /\ logged'.cleared = logged.cleared
           \/ logged'.blocked = logged.blocked /\ logged'.cleared = logged.cleared + 1
    BY <1>4, <2>1, <2>2 DEF AppendEvent, NextEvent
  <2> QED BY <1>1, <2>1, <2>2, <2>3 DEF Budget, Begun
<1>5. CASE UNCHANGED <<traffic, logged>>
  BY <1>5 DEF Budget, Begun
<1> QED BY <1>2, <1>3, <1>4, <1>5 DEF TracerNext, LogStep, CompareLength, PopOldest, CopyMetrics,
           ReadEvents, tracerVars

LEMMA FeedTypesKept ==
    ASSUME FeedTypes, [Next]_vars
    PROVE  FeedTypes'
<1>1. ASSUME NEW t \in Threads, Traffic(t) PROVE FeedTypes'
  BY <1>1 DEF Traffic, feedVars, FeedTypes
<1>2. ASSUME NEW s \in Sockets,
             Open(s) \/ GoAway(s) \/ Register(s) \/ AcceptFails(s) \/ Disconnect(s)
      PROVE  FeedTypes'
  BY <1>2 DEF Open, GoAway, Register, AcceptFails, Disconnect, FeedTypes
<1>3. ASSUME NEW s \in Sockets, SendDone(s) \/ SendFails(s) PROVE FeedTypes'
  BY <1>3 DEF SendDone, SendFails, FeedTypes
<1>4. CASE StartSnapshot \/ StartRound
  BY <1>4 DEF StartSnapshot, StartRound, feedVars, FeedTypes
<1>5. CASE RoundCutShort \/ SendNext \/ EndRound \/ Wake
  BY <1>5 DEF RoundCutShort, SendNext, EndRound, Wake, Sleep, FeedTypes
<1>6. CASE Shutdown \/ UNCHANGED vars
  BY <1>6 DEF Shutdown, vars, feedVars, FeedTypes
<1> QED BY <1>1, <1>2, <1>3, <1>4, <1>5, <1>6 DEF Next, BroadcastStep

\* The sets of the broadcast hold sockets only, no frame is refused that was
\* not received, and the counters keep within the bound.
THEOREM FeedTyped == Spec => []TypeOK
<1>1. Init => Budget /\ FeedTypes
  BY TracerAssumption DEF Init, TracerInit, Budget, Begun, NoTraffic, NoEvent, FeedTypes
<1>2. Budget /\ FeedTypes /\ TracerInv /\ [TracerNext]_tracerVars /\ [Next]_vars
         => (Budget /\ FeedTypes)'
  BY BudgetKept, FeedTypesKept DEF TracerInv
<1>3. Budget /\ FeedTypes /\ TracerInv => TypeOK
  <2> SUFFICES ASSUME Budget, FeedTypes, TracerInv PROVE TypeOK
    OBVIOUS
  <2>1. /\ MaxEvents \in Nat /\ traffic \in Traffics /\ logged \in Events
        /\ traffic.received >= logged.blocked + logged.cleared
    <3>1. /\ Count(at, Framed) \in Nat /\ traffic \in Traffics /\ logged \in Events
          /\ traffic.received = logged.blocked + logged.cleared + Count(at, Framed)
      BY CountType DEF TracerInv, Types, Counting
    <3>2. logged.blocked \in Nat /\ logged.cleared \in Nat /\ traffic.received \in Nat
      BY <3>1 DEF Events, Traffics
    <3> QED BY <3>1, <3>2, TracerAssumption
  <2>2. /\ traffic.sent \in Nat /\ traffic.received \in Nat /\ traffic.blocked \in Nat
        /\ logged.id \in Nat /\ logged.blocked \in Nat /\ logged.cleared \in Nat
    BY <2>1 DEF Traffics, Events
  <2>3. /\ traffic.sent \in 0 .. MaxEvents /\ traffic.received \in 0 .. MaxEvents
        /\ traffic.blocked \in 0 .. MaxEvents /\ logged.id \in 0 .. MaxEvents
        /\ traffic.blocked <= traffic.received
    BY <2>1, <2>2 DEF Budget, Begun
  <2> QED BY <2>1, <2>3 DEF Traffics, FeedTypes, TypeOK
<1>4. Spec => [][TracerNext]_tracerVars /\ []TracerInv
  BY FeedRefinesTracer, TracerInvariant, PTL DEF TracerSpec
<1> QED BY <1>1, <1>2, <1>3, <1>4, PTL DEF Spec
=============================================================================
