------------------------- MODULE ConnectionsProofs -------------------------
(***************************************************************************)
(* The safety of SocketConnection and of Bridge for every set of           *)
(* connections and requests, every limit, and any number of clients and of *)
(* replacements of the daemon.                                             *)
(***************************************************************************)
EXTENDS SocketConnection, Bridge, FiniteSetTheorems, TLAPS

-----------------------------------------------------------------------------
(* The socket server: the inductive invariant *)

Lanes == DOMAIN Limit

\* The types of the state; what is in the semaphores follows from what they lent.
SocketTypes ==
  /\ serve \in {"serving", "stopping", "dropped", "over"} /\ capacity \in Nat
  /\ conn \in [Connections -> Reading \cup Ended \cup {"closing", "disconnecting", "joining"}]
  /\ closed \in [Connections -> BOOLEAN] /\ writer \in [Connections -> {"up", "stalled", "ended"}]
  /\ guard \in [Connections -> {"none", "spawned", "over"}]
  /\ slots \in [Connections -> [Lanes -> Nat]]
  /\ request \in [Requests -> {None} \cup [conn : Connections, kind : Kinds]]
  /\ work \in [Requests -> {"none", "spawned", "running", "checking", "disconnecting", "ending", "over"}]
  /\ reply \in [Requests -> {"none", "waiting", "sending", "over", "aborted"}]
  /\ effects \in [Connections -> SUBSET Requests]

Standing == {c \in Connections : conn[c] \notin Ended}

\* The listener's semaphore has lent a permit to each connection that stands.
CapacityLent == capacity + Cardinality(Standing) = MaxConnections

\* A request has both its tasks from the moment it is read, and is of a
\* connection that has begun.
TasksOfRequests ==
  \A r \in Requests :
    /\ request[r] = None <=> work[r] = "none"
    /\ request[r] = None <=> reply[r] = "none"
    /\ request[r] # None => conn[Conn(r)] # "none"

\* A connection that no longer reads is closed.
ClosedBehind ==
  \A c \in Connections : conn[c] \notin Reading \cup {"none"} => closed[c]

\* Replies are aborted only once the connection no longer reads.
AbortedBehind ==
  \A r \in Requests : reply[r] = "aborted" => conn[Conn(r)] \notin Reading

\* What an owner has in place was put there by its own connection's work.
EffectsOfWork ==
  \A c \in Connections : \A r \in effects[c] :
    Conn(r) = c /\ work[r] \notin {"none", "spawned"}

SocketIInv ==
  /\ SocketTypes /\ CapacityLent /\ SlotsCoverWork /\ TasksOfRequests
  /\ ClosedBehind /\ AbortedBehind /\ EffectsOfWork /\ ClosedIsCleaned /\ ShutdownIsLast

-----------------------------------------------------------------------------
(* Facts about the state *)

\* A request that was read names a connection and a kind with a lane.
LEMMA RequestFacts ==
  ASSUME SocketTypes, NEW r \in Requests, request[r] # None
  PROVE  /\ Conn(r) \in Connections /\ request[r] \in [conn : Connections, kind : Kinds]
         /\ LaneOf(request[r].kind) \in Lanes
BY DEF SocketTypes, Conn, LaneOf, Lanes, Limit

\* The requests of a connection are requests that were read.
LEMMA OfConnectionFacts ==
  ASSUME NEW c \in Connections, NEW r \in RequestsOf(c)
  PROVE  r \in Requests /\ Conn(r) = c /\ request[r] # None
BY SocketConstants DEF RequestsOf, Conn, None

\* What is in progress is finite.
LEMMA LiveFinite ==
  ASSUME NEW c, NEW lane
  PROVE  IsFiniteSet(Live(c, lane)) /\ Cardinality(Live(c, lane)) \in Nat
<1>1. Live(c, lane) \in SUBSET Requests
  BY DEF Live, RequestsOf
<1>2. QED
  BY <1>1, SocketConstants, FS_Subset, FS_CardinalityType

LEMMA StandingFinite == IsFiniteSet(Standing) /\ Cardinality(Standing) \in Nat
<1>1. Standing \in SUBSET Connections
  BY DEF Standing
<1>2. QED
  BY <1>1, SocketConstants, FS_Subset, FS_CardinalityType

\* The limits are naturals.
LEMMA LimitFacts ==
  /\ Lanes = {"calls", "controls"}
  /\ \A lane \in Lanes : Limit[lane] \in Nat
BY SocketConstants DEF Limit, Lanes

-----------------------------------------------------------------------------
(* The start *)

LEMMA InitSocketIInv == SocketInit => SocketIInv
<1> SUFFICES ASSUME SocketInit PROVE SocketIInv
  OBVIOUS
<1>1. SocketTypes
  BY SocketConstants, LimitFacts DEF SocketInit, SocketTypes, Ended, Limit, Lanes
<1>2. CapacityLent
  <2>1. Standing = {}
    BY DEF Standing, SocketInit, Ended
  <2>2. QED
    BY <2>1, FS_EmptySet, SocketConstants DEF CapacityLent, SocketInit
<1>3. SlotsCoverWork
  <2> SUFFICES ASSUME NEW c \in Connections, NEW lane \in Lanes
               PROVE  slots[c][lane] + Cardinality(Live(c, lane)) = Limit[lane]
    BY DEF SlotsCoverWork, Lanes
  <2>1. \A r \in Requests : r \notin Live(c, lane)
    BY OfConnectionFacts DEF Live, SocketInit
  <2>2. Live(c, lane) = {}
    BY <2>1 DEF Live, RequestsOf
  <2>3. QED
    BY <2>2, FS_EmptySet, LimitFacts DEF SocketInit
<1>4. TasksOfRequests /\ ClosedBehind /\ AbortedBehind
  BY DEF SocketInit, TasksOfRequests, ClosedBehind, AbortedBehind
<1>5. EffectsOfWork /\ ClosedIsCleaned /\ ShutdownIsLast
  BY DEF SocketInit, EffectsOfWork, ClosedIsCleaned, ShutdownIsLast
<1>6. QED
  BY <1>1, <1>2, <1>3, <1>4, <1>5 DEF SocketIInv

-----------------------------------------------------------------------------
(* Frames *)

\* The slots cover the work as long as no request is read and no work gets over.
LEMMA SlotsKept ==
  ASSUME SlotsCoverWork, UNCHANGED <<slots, request>>,
         \A r \in Requests : work'[r] = "over" <=> work[r] = "over"
  PROVE  SlotsCoverWork'
<1>1. ASSUME NEW c, NEW lane PROVE Live(c, lane)' = Live(c, lane)
  BY DEF Live, RequestsOf, Conn
<1>2. QED
  BY <1>1 DEF SlotsCoverWork

\* A step of the listener or of a connection leaves its requests alone.
LEMMA RequestsKept ==
  ASSUME SocketIInv, UNCHANGED requests
  PROVE  SlotsCoverWork'
BY SlotsKept DEF SocketIInv, requests

\* The lent permits are the same as long as no connection begins or ends.
LEMMA CapacityKept ==
  ASSUME CapacityLent, UNCHANGED capacity,
         \A c \in Connections : conn'[c] \in Ended <=> conn[c] \in Ended
  PROVE  CapacityLent'
<1>1. Standing' = Standing
  BY DEF Standing
<1>2. QED
  BY <1>1 DEF CapacityLent

\* A connection that ends gives its permit back.
LEMMA CapacityReturned ==
  ASSUME SocketTypes, CapacityLent, NEW c \in Standing, NEW pc \in Ended,
         conn' = [conn EXCEPT ![c] = pc], capacity' = capacity + 1
  PROVE  CapacityLent' /\ capacity' \in Nat
<1>1. Standing' = Standing \ {c}
  BY DEF Standing, SocketTypes
<1>2. Cardinality(Standing \ {c}) = Cardinality(Standing) - 1
  BY StandingFinite, FS_RemoveElement
<1>3. QED
  BY <1>1, <1>2, StandingFinite, SocketConstants DEF CapacityLent, SocketTypes

\* A request is read: its lane lends one slot more, and has one more in progress.
LEMMA ReadStep ==
  ASSUME SocketIInv, NEW c \in Connections, NEW r \in Requests, Read(c, r)
  PROVE  SocketIInv'
<1>1. PICK kind \in Kinds :
        /\ Acquire(c, LaneOf(kind))
        /\ request' = [request EXCEPT ![r] = [conn |-> c, kind |-> kind]]
  BY DEF Read
<1> DEFINE lane == LaneOf(kind)
<1>2. lane \in Lanes
  BY DEF LaneOf, Lanes, Limit
<1>3. /\ conn[c] = "reading" /\ request[r] = None
      /\ work' = [work EXCEPT ![r] = "spawned"] /\ reply' = [reply EXCEPT ![r] = "waiting"]
      /\ UNCHANGED <<listener, connection, effects>>
  BY DEF Read
<1>4. SocketTypes'
  BY <1>1, <1>2, <1>3 DEF SocketIInv, SocketTypes, Acquire, listener, connection
<1>5. CapacityLent'
  BY <1>3, CapacityKept DEF SocketIInv, listener, connection
<1>6. SlotsCoverWork'
  <2> SUFFICES ASSUME NEW d \in Connections, NEW l \in Lanes
               PROVE  slots'[d][l] + Cardinality(Live(d, l)') = Limit[l]
    BY DEF SlotsCoverWork, Lanes
  <2>1. slots[d][l] + Cardinality(Live(d, l)) = Limit[l] /\ slots[d][l] \in Nat
    BY DEF SocketIInv, SlotsCoverWork, SocketTypes, Lanes
  <2>2. CASE d = c /\ l = lane
    <3>1. r \notin Live(c, lane)
      BY <1>3, OfConnectionFacts DEF Live
    <3>2. Live(c, lane)' = Live(c, lane) \cup {r}
      BY <1>1, <1>3 DEF SocketIInv, SocketTypes, Live, RequestsOf, Conn
    <3>3. slots'[c][lane] = slots[c][lane] - 1
      BY <1>1, <1>2 DEF Acquire, SocketIInv, SocketTypes
    <3>4. Cardinality(Live(c, lane) \cup {r}) = Cardinality(Live(c, lane)) + 1
      BY <3>1, FS_AddElement, LiveFinite
    <3>5. Cardinality(Live(c, lane)) \in Nat
      BY LiveFinite
    <3>6. QED
      BY <2>1, <2>2, <3>2, <3>3, <3>4, <3>5
  <2>3. CASE ~(d = c /\ l = lane)
    <3>1. r \notin Live(d, l)
      BY <1>3, OfConnectionFacts DEF Live
    <3>2. Live(d, l)' = Live(d, l)
      BY <1>1, <1>3, <2>3, <3>1 DEF SocketIInv, SocketTypes, Live, RequestsOf, Conn
    <3>3. slots'[d][l] = slots[d][l]
      BY <1>1, <1>2, <2>3 DEF Acquire, SocketIInv, SocketTypes
    <3>4. QED
      BY <2>1, <3>2, <3>3
  <2>4. QED
    BY <2>2, <2>3
<1>7. TasksOfRequests'
  <2>1. [conn |-> c, kind |-> kind] # None
    BY SocketConstants DEF None
  <2>2. QED
    BY <1>1, <1>3, <2>1 DEF SocketIInv, SocketTypes, TasksOfRequests, Conn, connection
<1>8. ClosedBehind' /\ AbortedBehind' /\ ShutdownIsLast'
  BY <1>1, <1>3 DEF SocketIInv, SocketTypes, ClosedBehind, AbortedBehind, ShutdownIsLast,
                    Conn, RequestsOf, connection
<1>9. EffectsOfWork' /\ ClosedIsCleaned'
  <2>1. \A d \in Connections : r \notin effects[d]
    BY <1>3 DEF SocketIInv, EffectsOfWork, TasksOfRequests
  <2>2. QED
    BY <1>1, <1>3, <2>1 DEF SocketIInv, SocketTypes, EffectsOfWork, ClosedIsCleaned, CleanupAhead,
                            Conn, connection
<1>10. QED
  BY <1>4, <1>5, <1>6, <1>7, <1>8, <1>9 DEF SocketIInv

\* The listener's own steps change nothing of connections and requests.
LEMMA ListenerStep ==
  ASSUME SocketIInv, StopServing \/ DropServe \/ ServeReturns
  PROVE  SocketIInv'
<1>1. UNCHANGED <<capacity, connection, requests, effects>>
      /\ serve' \in {"serving", "stopping", "dropped", "over"}
  BY DEF StopServing, DropServe, ServeReturns
<1>2. SocketTypes' /\ CapacityLent' /\ SlotsCoverWork'
  BY <1>1, CapacityKept, RequestsKept DEF SocketIInv, SocketTypes, connection, requests
<1>3. QED
  BY <1>1, <1>2 DEF SocketIInv, connection, requests, TasksOfRequests, ClosedBehind, AbortedBehind,
                    EffectsOfWork, ClosedIsCleaned, ShutdownIsLast, CleanupAhead, RequestsOf, Conn

\* A connection is accepted.
LEMMA AcceptStep ==
  ASSUME SocketIInv, NEW c \in Connections, Accept(c)
  PROVE  SocketIInv'
<1>1. /\ conn[c] = "none" /\ conn' = [conn EXCEPT ![c] = "reading"]
      /\ capacity > 0 /\ capacity' = capacity - 1
      /\ UNCHANGED <<serve, closed, writer, guard, requests, effects>>
  BY DEF Accept, ConnMoves
<1>2. SocketTypes' /\ SlotsCoverWork'
  BY <1>1, RequestsKept DEF SocketIInv, SocketTypes, Reading, requests
<1>3. CapacityLent'
  <2>1. Standing' = Standing \cup {c} /\ c \notin Standing
    BY <1>1 DEF Standing, SocketIInv, SocketTypes, Ended
  <2>2. Cardinality(Standing \cup {c}) = Cardinality(Standing) + 1
    BY <2>1, StandingFinite, FS_AddElement
  <2>3. QED
    BY <1>1, <2>1, <2>2, StandingFinite DEF SocketIInv, SocketTypes, CapacityLent
<1>4. \A r \in Requests : request[r] # None => Conn(r) # c
  BY <1>1 DEF SocketIInv, TasksOfRequests
<1>5. TasksOfRequests' /\ AbortedBehind' /\ ShutdownIsLast'
  BY <1>1, <1>4, OfConnectionFacts
     DEF SocketIInv, SocketTypes, TasksOfRequests, AbortedBehind, ShutdownIsLast, requests, RequestsOf, Conn
<1>6. ClosedBehind' /\ EffectsOfWork' /\ ClosedIsCleaned'
  BY <1>1 DEF SocketIInv, SocketTypes, ClosedBehind, EffectsOfWork, ClosedIsCleaned, CleanupAhead,
              Reading, requests, Conn
<1>7. QED
  BY <1>2, <1>3, <1>5, <1>6 DEF SocketIInv

\* Work goes on to a place that is neither its start nor its end.
LEMMA WorkFrame ==
  ASSUME SocketIInv, NEW r \in Requests,
         NEW to \in {"running", "checking", "disconnecting", "ending"},
         work[r] \notin {"none", "over"}, work' = [work EXCEPT ![r] = to],
         UNCHANGED <<listener, connection, slots, request, reply>>
  PROVE  /\ effects' \in [Connections -> SUBSET Requests] => SocketTypes'
         /\ CapacityLent' /\ SlotsCoverWork' /\ TasksOfRequests'
         /\ ClosedBehind' /\ AbortedBehind' /\ ShutdownIsLast'
<1>1. effects' \in [Connections -> SUBSET Requests] => SocketTypes'
  BY DEF SocketIInv, SocketTypes, listener, connection
<1>2. CapacityLent' /\ SlotsCoverWork'
  BY CapacityKept, SlotsKept DEF SocketIInv, SocketTypes, listener, connection
<1>3. TasksOfRequests'
  BY DEF SocketIInv, SocketTypes, TasksOfRequests, Conn, connection
<1>4. ClosedBehind' /\ AbortedBehind' /\ ShutdownIsLast'
  BY DEF SocketIInv, ClosedBehind, AbortedBehind, ShutdownIsLast, RequestsOf, Conn, connection
<1>5. QED
  BY <1>1, <1>2, <1>3, <1>4

\* Work begins, and ends in the service; what it left behind stays.
LEMMA ServiceStep ==
  ASSUME SocketIInv, NEW r \in Requests, Dispatch(r) \/ WorkEnds(r)
  PROVE  SocketIInv'
<1>1. PICK to \in {"running", "checking"} :
        /\ work[r] \in {"spawned", "running"} /\ work' = [work EXCEPT ![r] = to]
        /\ UNCHANGED <<listener, connection, slots, request, reply, effects>>
  BY DEF Dispatch, WorkEnds, WorkMoves
<1>2. /\ SocketTypes' /\ CapacityLent' /\ SlotsCoverWork' /\ TasksOfRequests'
      /\ ClosedBehind' /\ AbortedBehind' /\ ShutdownIsLast'
  BY <1>1, WorkFrame DEF SocketIInv, SocketTypes
<1>3. EffectsOfWork' /\ ClosedIsCleaned'
  BY <1>1 DEF SocketIInv, SocketTypes, EffectsOfWork, ClosedIsCleaned, CleanupAhead, Conn, connection
<1>4. QED
  BY <1>2, <1>3 DEF SocketIInv

\* The service registers something: it stands behind the work that still runs.
LEMMA EffectStep ==
  ASSUME SocketIInv, NEW r \in Requests, Effect(r)
  PROVE  SocketIInv'
<1>1. /\ work[r] = "running" /\ effects' = [effects EXCEPT ![Conn(r)] = @ \cup {r}]
      /\ UNCHANGED <<listener, connection, requests>>
  BY DEF Effect
<1>2. request[r] # None /\ Conn(r) \in Connections
  BY <1>1, RequestFacts DEF SocketIInv, TasksOfRequests
<1>3. SocketTypes'
  BY <1>1, <1>2 DEF SocketIInv, SocketTypes, listener, connection, requests
<1>4. CapacityLent' /\ SlotsCoverWork'
  BY <1>1, CapacityKept, RequestsKept DEF SocketIInv, listener, connection
<1>5. TasksOfRequests' /\ ClosedBehind' /\ AbortedBehind' /\ ShutdownIsLast'
  BY <1>1 DEF SocketIInv, TasksOfRequests, ClosedBehind, AbortedBehind, ShutdownIsLast, RequestsOf,
              Conn, connection, requests
<1>6. EffectsOfWork' /\ ClosedIsCleaned'
  BY <1>1, <1>2 DEF SocketIInv, SocketTypes, EffectsOfWork, ClosedIsCleaned, CleanupAhead, Conn,
                    connection, requests
<1>7. QED
  BY <1>3, <1>4, <1>5, <1>6 DEF SocketIInv

\* Work that has ended looks at its session and cleans up if it is closed.
LEMMA CheckClosedStep ==
  ASSUME SocketIInv, NEW r \in Requests, CheckClosed(r) \/ WorkDisconnected(r)
  PROVE  SocketIInv'
<1>1. PICK to \in {"disconnecting", "ending"} :
        /\ work[r] \in {"checking", "disconnecting"} /\ work' = [work EXCEPT ![r] = to]
        /\ work[r] = "checking" /\ closed[Conn(r)] => effects' = [effects EXCEPT ![Conn(r)] = {}]
        /\ ~(work[r] = "checking" /\ closed[Conn(r)]) => effects' = effects
        /\ UNCHANGED <<listener, connection, slots, request, reply>>
  BY DEF CheckClosed, WorkDisconnected, WorkMoves, Disconnects
<1>2. request[r] # None /\ Conn(r) \in Connections
  BY <1>1, RequestFacts DEF SocketIInv, TasksOfRequests
<1>3. effects' \in [Connections -> SUBSET Requests]
  BY <1>1 DEF SocketIInv, SocketTypes
<1>4. /\ SocketTypes' /\ CapacityLent' /\ SlotsCoverWork' /\ TasksOfRequests'
      /\ ClosedBehind' /\ AbortedBehind' /\ ShutdownIsLast'
  BY <1>1, <1>3, WorkFrame
<1>5. \A c \in Connections : effects'[c] = IF work[r] = "checking" /\ closed[Conn(r)] /\ c = Conn(r)
                                           THEN {} ELSE effects[c]
  BY <1>1 DEF SocketIInv, SocketTypes
<1>6. EffectsOfWork'
  BY <1>1, <1>5 DEF SocketIInv, SocketTypes, EffectsOfWork, Conn
<1>7. ClosedIsCleaned'
  <2> SUFFICES ASSUME NEW c \in Connections, NEW q \in effects'[c], closed'[c]
               PROVE  CleanupAhead(c)' \/ work'[q] \in {"running", "checking"}
    BY DEF ClosedIsCleaned
  <2>1. q \in effects[c] /\ q \in Requests /\ closed[c]
    BY <1>1, <1>5 DEF connection, SocketIInv, SocketTypes
  <2>2. CleanupAhead(c) \/ work[q] \in {"running", "checking"}
    BY <2>1 DEF SocketIInv, ClosedIsCleaned
  <2>3. CASE q = r
    <3>1. c = Conn(r)
      BY <2>1, <2>3 DEF SocketIInv, EffectsOfWork
    <3>2. work[r] # "checking"
      BY <1>5, <2>1, <3>1
    <3>3. CleanupAhead(c)
      BY <1>1, <2>2, <2>3, <3>2
    <3>4. QED
      BY <1>1, <3>3 DEF CleanupAhead, connection
  <2>4. CASE q # r
    BY <1>1, <2>1, <2>2, <2>4 DEF CleanupAhead, connection, SocketIInv, SocketTypes
  <2>5. QED
    BY <2>3, <2>4
<1>8. QED
  BY <1>4, <1>6, <1>7 DEF SocketIInv

\* Work is over: its slot is free, and nothing of it is in progress.
LEMMA ReleaseStep ==
  ASSUME SocketIInv, NEW r \in Requests, WorkReleases(r)
  PROVE  SocketIInv'
<1>1. /\ work[r] = "ending" /\ work' = [work EXCEPT ![r] = "over"]
      /\ slots' = [slots EXCEPT ![Conn(r)][LaneOf(request[r].kind)] = @ + 1]
      /\ UNCHANGED <<listener, connection, request, reply, effects>>
  BY DEF WorkReleases, WorkMoves
<1>2. PICK c \in Connections, lane \in Lanes : c = Conn(r) /\ lane = LaneOf(request[r].kind)
  BY <1>1, RequestFacts DEF SocketIInv, TasksOfRequests
<1>3. SocketTypes'
  BY <1>1, <1>2 DEF SocketIInv, SocketTypes, listener, connection
<1>4. CapacityLent'
  BY <1>1, CapacityKept DEF SocketIInv, listener, connection
<1>5. SlotsCoverWork'
  <2> SUFFICES ASSUME NEW d \in Connections, NEW l \in Lanes
               PROVE  slots'[d][l] + Cardinality(Live(d, l)') = Limit[l]
    BY DEF SlotsCoverWork, Lanes
  <2>1. slots[d][l] + Cardinality(Live(d, l)) = Limit[l] /\ slots[d][l] \in Nat
    BY DEF SocketIInv, SlotsCoverWork, SocketTypes, Lanes
  <2>2. CASE d = c /\ l = lane
    <3>1. r \in Live(c, lane)
      BY <1>1, <1>2 DEF Live, RequestsOf
    <3>2. Live(c, lane)' = Live(c, lane) \ {r}
      BY <1>1, <1>2 DEF SocketIInv, SocketTypes, Live, RequestsOf, Conn
    <3>3. slots'[c][lane] = slots[c][lane] + 1
      BY <1>1, <1>2 DEF SocketIInv, SocketTypes
    <3>4. IsFiniteSet(Live(c, lane)) /\ Cardinality(Live(c, lane)) \in Nat
      BY LiveFinite
    <3>5. Cardinality(Live(c, lane) \ {r}) = Cardinality(Live(c, lane)) - 1
      BY <3>1, <3>4, FS_RemoveElement
    <3>6. QED
      BY <2>1, <2>2, <3>2, <3>3, <3>4, <3>5
  <2>3. CASE ~(d = c /\ l = lane)
    <3>1. Live(d, l)' = Live(d, l)
      BY <1>1, <1>2, <2>3 DEF SocketIInv, SocketTypes, Live, RequestsOf, Conn
    <3>2. slots'[d][l] = slots[d][l]
      BY <1>1, <1>2, <2>3 DEF SocketIInv, SocketTypes
    <3>3. QED
      BY <2>1, <3>1, <3>2
  <2>4. QED
    BY <2>2, <2>3
<1>6. TasksOfRequests' /\ ClosedBehind' /\ AbortedBehind' /\ ShutdownIsLast'
  BY <1>1 DEF SocketIInv, SocketTypes, TasksOfRequests, ClosedBehind, AbortedBehind, ShutdownIsLast,
              RequestsOf, Conn, connection
<1>7. EffectsOfWork' /\ ClosedIsCleaned'
  BY <1>1 DEF SocketIInv, SocketTypes, EffectsOfWork, ClosedIsCleaned, CleanupAhead, Conn, connection
<1>8. QED
  BY <1>3, <1>4, <1>5, <1>6, <1>7 DEF SocketIInv

\* A reply comes from the work, from the deadline, or never; only a session that
\* still reads can be closed by it.
LEMMA ReplyStep ==
  ASSUME SocketIInv, NEW r \in Requests, request[r] # None,
         ReplyResult(r) \/ ReplyDeadline(r) \/ ReplySent(r) \/ ReplyAborted(r)
  PROVE  SocketIInv'
<1>1. PICK to \in {"sending", "over", "aborted"} :
        /\ reply[r] \in {"waiting", "sending"} /\ reply' = [reply EXCEPT ![r] = to]
        /\ to = "aborted" => conn[Conn(r)] \in {"closing", "aborted"}
        /\ closed' = closed \/ closed' = [closed EXCEPT ![Conn(r)] = TRUE]
        /\ UNCHANGED <<listener, conn, writer, guard, slots, request, work, effects>>
  BY DEF ReplyResult, ReplyDeadline, ReplySent, ReplyAborted, Close, connection
<1>2. Conn(r) \in Connections
  BY RequestFacts DEF SocketIInv
<1>3. SocketTypes'
  BY <1>1, <1>2 DEF SocketIInv, SocketTypes, listener
<1>4. CapacityLent' /\ SlotsCoverWork'
  BY <1>1, CapacityKept, SlotsKept DEF SocketIInv, listener
<1>5. TasksOfRequests' /\ ClosedBehind'
  BY <1>1, <1>2 DEF SocketIInv, SocketTypes, TasksOfRequests, ClosedBehind, Conn
<1>6. AbortedBehind'
  BY <1>1, <1>2 DEF SocketIInv, SocketTypes, AbortedBehind, Conn, Reading
<1>7. ShutdownIsLast'
  BY <1>1, <1>2 DEF SocketIInv, SocketTypes, ShutdownIsLast, RequestsOf, Conn
<1>8. EffectsOfWork'
  BY <1>1 DEF SocketIInv, EffectsOfWork, Conn
<1>9. ClosedIsCleaned'
  <2> SUFFICES ASSUME NEW c \in Connections, NEW q \in effects[c], closed'[c], ~closed[c]
               PROVE  CleanupAhead(c)'
    BY <1>1 DEF SocketIInv, ClosedIsCleaned, CleanupAhead
  <2>1. c = Conn(r)
    BY <1>1, <1>2 DEF SocketIInv, SocketTypes
  <2>2. conn[c] \in Reading
    BY <2>1, <1>2 DEF SocketIInv, ClosedBehind, TasksOfRequests
  <2>3. QED
    BY <1>1, <2>2 DEF CleanupAhead
<1>10. QED
  BY <1>3, <1>4, <1>5, <1>6, <1>7, <1>8, <1>9 DEF SocketIInv

\* The peer stalls and reads again, the writer fails, an emission finds no room.
LEMMA WriterStep ==
  ASSUME SocketIInv, NEW c \in Connections,
         Stall(c) \/ Unstall(c) \/ WriterFails(c) \/ EmitFails(c)
  PROVE  SocketIInv'
<1>1. /\ writer' \in [Connections -> {"up", "stalled", "ended"}]
      /\ \/ closed' = closed
         \/ conn[c] \notin Ended /\ closed' = [closed EXCEPT ![c] = TRUE]
      /\ UNCHANGED <<listener, conn, guard, requests, effects>>
  BY DEF SocketIInv, SocketTypes, Stall, Unstall, WriterFails, EmitFails, Close
<1>2. SocketTypes' /\ CapacityLent' /\ SlotsCoverWork'
  BY <1>1, CapacityKept, RequestsKept DEF SocketIInv, SocketTypes, listener, requests
<1>3. TasksOfRequests' /\ ClosedBehind' /\ AbortedBehind' /\ ShutdownIsLast' /\ EffectsOfWork'
  <2>1. ClosedBehind'
    BY <1>1 DEF SocketIInv, SocketTypes, ClosedBehind
  <2>2. TasksOfRequests' /\ AbortedBehind' /\ ShutdownIsLast' /\ EffectsOfWork'
    BY <1>1 DEF SocketIInv, TasksOfRequests, AbortedBehind, ShutdownIsLast, EffectsOfWork, RequestsOf,
                Conn, requests
  <2>3. QED
    BY <2>1, <2>2
<1>4. ClosedIsCleaned'
  <2> SUFFICES ASSUME NEW d \in Connections, NEW q \in effects[d], closed'[d], ~closed[d]
               PROVE  CleanupAhead(d)'
    BY <1>1 DEF SocketIInv, ClosedIsCleaned, CleanupAhead, requests
  <2>1. d = c /\ conn[c] \notin Ended
    BY <1>1 DEF SocketIInv, SocketTypes
  <2>2. conn[c] \in Reading
    BY <2>1 DEF SocketIInv, SocketTypes, ClosedBehind, Ended, Reading
  <2>3. QED
    BY <1>1, <2>1, <2>2 DEF CleanupAhead
<1>5. QED
  BY <1>2, <1>3, <1>4 DEF SocketIInv

\* A connection is drained: every reply was sent, since none was aborted.
LEMMA DrainStep ==
  ASSUME SocketIInv, NEW c \in Connections, ReadShutdown(c) \/ Drain(c)
  PROVE  SocketIInv'
<1>1. PICK to \in {"draining", "barrier"} :
        /\ conn[c] \in {"reading", "draining"} /\ conn' = [conn EXCEPT ![c] = to]
        /\ to = "barrier" => Replying(c) = {}
        /\ UNCHANGED <<listener, closed, writer, guard, requests, effects>>
  BY DEF ReadShutdown, Drain, ConnMoves
<1>2. SocketTypes' /\ SlotsCoverWork'
  BY <1>1, RequestsKept DEF SocketIInv, SocketTypes, Reading, listener, requests
<1>3. CapacityLent'
  BY <1>1, CapacityKept DEF SocketIInv, SocketTypes, Ended, listener
<1>4. TasksOfRequests' /\ ClosedBehind' /\ EffectsOfWork' /\ ClosedIsCleaned'
  BY <1>1 DEF SocketIInv, SocketTypes, TasksOfRequests, ClosedBehind, EffectsOfWork, ClosedIsCleaned,
              CleanupAhead, Conn, Reading, requests
<1>5. AbortedBehind'
  BY <1>1 DEF SocketIInv, SocketTypes, AbortedBehind, Conn, Reading, requests
<1>6. ShutdownIsLast'
  <2>1. ASSUME NEW r \in RequestsOf(c), Replying(c) = {} PROVE reply[r] = "over"
    <3>1. reply[r] \notin {"waiting", "sending"}
      BY <2>1 DEF Replying
    <3>2. r \in Requests /\ Conn(r) = c /\ request[r] # None
      BY OfConnectionFacts
    <3>3. reply[r] \notin {"none", "aborted"}
      BY <1>1, <3>2 DEF SocketIInv, TasksOfRequests, AbortedBehind, Reading
    <3>4. QED
      BY <3>1, <3>2, <3>3 DEF SocketIInv, SocketTypes
  <2>2. QED
    BY <1>1, <2>1 DEF SocketIInv, SocketTypes, ShutdownIsLast, RequestsOf, Conn, requests
<1>7. QED
  BY <1>2, <1>3, <1>4, <1>5, <1>6 DEF SocketIInv

\* A connection is retired: it is closed, and its cleanup is ahead.
LEMMA RetireStep ==
  ASSUME SocketIInv, NEW c \in Connections, ReadingEnds(c) \/ Finish(c)
  PROVE  SocketIInv'
<1>1. /\ conn[c] \in Reading /\ conn' = [conn EXCEPT ![c] = "closing"]
      /\ closed' = [closed EXCEPT ![c] = TRUE]
      /\ UNCHANGED <<listener, writer, guard, requests, effects>>
  BY DEF ReadingEnds, Finish, Retire, ConnMoves, Close
<1>2. SocketTypes' /\ SlotsCoverWork'
  BY <1>1, RequestsKept DEF SocketIInv, SocketTypes, listener, requests
<1>3. CapacityLent'
  BY <1>1, CapacityKept DEF SocketIInv, SocketTypes, Ended, Reading, listener
<1>4. TasksOfRequests' /\ ClosedBehind' /\ EffectsOfWork' /\ ClosedIsCleaned'
  BY <1>1 DEF SocketIInv, SocketTypes, TasksOfRequests, ClosedBehind, EffectsOfWork, ClosedIsCleaned,
              CleanupAhead, Conn, Reading, requests
<1>5. AbortedBehind' /\ ShutdownIsLast'
  BY <1>1 DEF SocketIInv, SocketTypes, AbortedBehind, ShutdownIsLast, RequestsOf, Conn, Reading, requests
<1>6. QED
  BY <1>2, <1>3, <1>4, <1>5 DEF SocketIInv

\* disconnected begins, from the connection or from its guard: nothing is left.
LEMMA DisconnectStep ==
  ASSUME SocketIInv, NEW c \in Connections, StartDisconnect(c) \/ GuardRuns(c)
  PROVE  SocketIInv'
<1>1. /\ \/ conn' = conn
         \/ conn[c] = "closing" /\ conn' = [conn EXCEPT ![c] = "disconnecting"]
      /\ \A d \in Connections : d # c => guard'[d] = guard[d]
      /\ guard' \in [Connections -> {"none", "spawned", "over"}]
      /\ effects' = [effects EXCEPT ![c] = {}]
      /\ UNCHANGED <<listener, closed, writer, requests>>
  BY DEF StartDisconnect, GuardRuns, ConnMoves, Disconnects, SocketIInv, SocketTypes
<1>2. SocketTypes' /\ SlotsCoverWork'
  <2>1. SlotsCoverWork'
    BY <1>1, RequestsKept
  <2>2. conn' \in [Connections -> Reading \cup Ended \cup {"closing", "disconnecting", "joining"}]
    BY <1>1 DEF SocketIInv, SocketTypes
  <2>3. effects' \in [Connections -> SUBSET Requests]
    BY <1>1 DEF SocketIInv, SocketTypes
  <2>4. SocketTypes'
    BY <1>1, <2>2, <2>3 DEF SocketIInv, SocketTypes, listener, requests
  <2>5. QED
    BY <2>1, <2>4
<1>3. CapacityLent'
  BY <1>1, CapacityKept DEF SocketIInv, SocketTypes, Ended, listener
<1>4. TasksOfRequests' /\ ClosedBehind' /\ EffectsOfWork'
  BY <1>1 DEF SocketIInv, SocketTypes, TasksOfRequests, ClosedBehind, EffectsOfWork, Conn, Reading, requests
<1>5. ClosedIsCleaned'
  BY <1>1 DEF SocketIInv, SocketTypes, ClosedIsCleaned, CleanupAhead, requests
<1>6. AbortedBehind'
  BY <1>1, RequestFacts DEF SocketIInv, SocketTypes, TasksOfRequests, AbortedBehind, Conn, Reading, requests
<1>7. ShutdownIsLast'
  BY <1>1 DEF SocketIInv, SocketTypes, ShutdownIsLast, RequestsOf, Conn, Reading, requests
<1>8. QED
  BY <1>2, <1>3, <1>4, <1>5, <1>6, <1>7 DEF SocketIInv

\* A connection that was cleaned up returns.
LEMMA ReturnStep ==
  ASSUME SocketIInv, NEW c \in Connections, Disconnected(c) \/ ConnectionReturns(c)
  PROVE  SocketIInv'
<1>1. /\ conn[c] \in {"disconnecting", "joining"} /\ writer' \in [Connections -> {"up", "stalled", "ended"}]
      /\ \/ conn' = [conn EXCEPT ![c] = "joining"] /\ capacity' = capacity
         \/ conn' = [conn EXCEPT ![c] = "over"] /\ capacity' = capacity + 1
      /\ UNCHANGED <<serve, closed, guard, requests, effects>>
  BY DEF Disconnected, ConnectionReturns, ConnMoves, listener, SocketIInv, SocketTypes
<1>2. SocketTypes' /\ SlotsCoverWork'
  <2>1. SlotsCoverWork'
    BY <1>1, RequestsKept
  <2>2. conn' \in [Connections -> Reading \cup Ended \cup {"closing", "disconnecting", "joining"}]
    BY <1>1 DEF SocketIInv, SocketTypes, Ended
  <2>3. SocketTypes'
    BY <1>1, <2>2 DEF SocketIInv, SocketTypes, requests
  <2>4. QED
    BY <2>1, <2>3
<1>3. CapacityLent'
  <2>1. c \in Standing /\ SocketTypes /\ CapacityLent
    BY <1>1 DEF Standing, Ended, SocketIInv
  <2>2. CASE conn' = [conn EXCEPT ![c] = "joining"] /\ capacity' = capacity
    BY <1>1, <2>1, <2>2, CapacityKept DEF SocketTypes, Ended
  <2>3. CASE conn' = [conn EXCEPT ![c] = "over"] /\ capacity' = capacity + 1
    BY <2>1, <2>3, CapacityReturned DEF Ended
  <2>4. QED
    BY <1>1, <2>2, <2>3
<1>4. TasksOfRequests' /\ ClosedBehind'
  <2> USE <1>1
  <2>1. \A d \in Connections : conn[d] # "none" => conn'[d] # "none"
    BY DEF SocketIInv, SocketTypes
  <2>2. TasksOfRequests /\ request' = request /\ work' = work /\ reply' = reply
    BY DEF SocketIInv, requests
  <2>3. \A r \in Requests : request[r] # None => request[r].conn \in Connections
    BY RequestFacts DEF SocketIInv
  <2>4. TasksOfRequests'
    BY ONLY <2>1, <2>2, <2>3 DEF TasksOfRequests, Conn
  <2>5. closed' = closed /\ closed[c]
    BY DEF SocketIInv, ClosedBehind, Reading
  <2>6. \A d \in Connections : conn'[d] = conn[d] \/ d = c
    BY DEF SocketIInv, SocketTypes
  <2>7. ClosedBehind /\ closed' = closed /\ closed[c]
    BY <2>5 DEF SocketIInv
  <2>8. ClosedBehind'
    BY ONLY <2>6, <2>7 DEF ClosedBehind, Reading
  <2>9. QED
    BY <2>4, <2>8
<1>5. EffectsOfWork' /\ ClosedIsCleaned'
  BY <1>1 DEF SocketIInv, SocketTypes, EffectsOfWork, ClosedIsCleaned, CleanupAhead, Conn, Reading, requests
<1>6. AbortedBehind'
  BY <1>1, RequestFacts DEF SocketIInv, SocketTypes, TasksOfRequests, AbortedBehind, Conn, Reading, requests
<1>7. ShutdownIsLast'
  BY <1>1 DEF SocketIInv, SocketTypes, ShutdownIsLast, RequestsOf, Conn, Reading, requests
<1>8. QED
  BY <1>2, <1>3, <1>4, <1>5, <1>6, <1>7 DEF SocketIInv

\* A connection's future is dropped: it was cleaned up, or the guard will do it.
LEMMA DropConnectionStep ==
  ASSUME SocketIInv, NEW c \in Connections, DropConnection(c)
  PROVE  SocketIInv'
<1>1. /\ conn[c] \notin Ended /\ conn' = [conn EXCEPT ![c] = "aborted"] /\ capacity' = capacity + 1
      /\ writer' \in [Connections -> {"up", "stalled", "ended"}]
      /\ \/ conn[c] = "joining" /\ UNCHANGED <<closed, guard>>
         \/ /\ closed' = [closed EXCEPT ![c] = TRUE]
            /\ guard' = [guard EXCEPT ![c] = "spawned"]
      /\ UNCHANGED <<serve, requests, effects>>
  BY DEF DropConnection, Close, SocketIInv, SocketTypes
<1>2. SocketTypes' /\ SlotsCoverWork'
  <2>1. SlotsCoverWork'
    BY <1>1, RequestsKept
  <2>2. conn' \in [Connections -> Reading \cup Ended \cup {"closing", "disconnecting", "joining"}]
    BY <1>1 DEF SocketIInv, SocketTypes, Ended
  <2>3. closed' \in [Connections -> BOOLEAN] /\ guard' \in [Connections -> {"none", "spawned", "over"}]
    <3>1. CASE UNCHANGED <<closed, guard>>
      BY <3>1 DEF SocketIInv, SocketTypes
    <3>2. CASE closed' = [closed EXCEPT ![c] = TRUE] /\ guard' = [guard EXCEPT ![c] = "spawned"]
      BY <3>2 DEF SocketIInv, SocketTypes
    <3>3. QED
      BY <1>1, <3>1, <3>2
  <2>4. SocketTypes'
    BY <1>1, <2>2, <2>3 DEF SocketIInv, SocketTypes, requests
  <2>5. QED
    BY <2>1, <2>4
<1>3. CapacityLent'
  <2>1. c \in Standing /\ SocketTypes /\ CapacityLent
    BY <1>1 DEF Standing, SocketIInv
  <2>2. QED
    BY <1>1, <2>1, CapacityReturned DEF Ended
<1>4. TasksOfRequests' /\ ClosedBehind' /\ EffectsOfWork' /\ ClosedIsCleaned'
  BY <1>1 DEF SocketIInv, SocketTypes, TasksOfRequests, ClosedBehind, EffectsOfWork, ClosedIsCleaned,
              CleanupAhead, Conn, Reading, requests
<1>5. AbortedBehind' /\ ShutdownIsLast'
  BY <1>1 DEF SocketIInv, SocketTypes, AbortedBehind, ShutdownIsLast, RequestsOf, Conn, Reading, requests
<1>6. QED
  BY <1>2, <1>3, <1>4, <1>5 DEF SocketIInv

-----------------------------------------------------------------------------
LEMMA NextSocketIInv == SocketIInv /\ [SocketNext]_socketVars => SocketIInv'
<1> SUFFICES ASSUME SocketIInv, [SocketNext]_socketVars PROVE SocketIInv'
  OBVIOUS
<1>1. CASE StopServing \/ DropServe \/ ServeReturns
  BY <1>1, ListenerStep
<1>2. ASSUME NEW c \in Connections, Accept(c) PROVE SocketIInv'
  BY <1>2, AcceptStep
<1>3. ASSUME NEW c \in Connections, ReadShutdown(c) \/ Drain(c) PROVE SocketIInv'
  BY <1>3, DrainStep
<1>4. ASSUME NEW c \in Connections, ReadingEnds(c) \/ Finish(c) PROVE SocketIInv'
  BY <1>4, RetireStep
<1>5. ASSUME NEW c \in Connections, OfConnection(c) PROVE SocketIInv'
  <2>1. CASE StartDisconnect(c) \/ GuardRuns(c)
    BY <2>1, DisconnectStep
  <2>2. CASE Disconnected(c) \/ ConnectionReturns(c)
    BY <2>2, ReturnStep
  <2>3. CASE DropConnection(c)
    BY <2>3, DropConnectionStep
  <2>4. QED
    BY <1>3, <1>4, <1>5, <2>1, <2>2, <2>3 DEF OfConnection
<1>6. ASSUME NEW c \in Connections, Stall(c) \/ Unstall(c) \/ WriterFails(c) \/ EmitFails(c)
      PROVE  SocketIInv'
  BY <1>6, WriterStep
<1>7. ASSUME NEW c \in Connections, NEW r \in Requests, Read(c, r) PROVE SocketIInv'
  BY <1>7, ReadStep
<1>8. ASSUME NEW r \in Requests, OfRequest(r) PROVE SocketIInv'
  <2>1. CASE Dispatch(r)
    BY <2>1, ServiceStep
  <2>2. CASE CheckClosed(r) \/ WorkDisconnected(r)
    BY <2>2, CheckClosedStep
  <2>3. CASE WorkReleases(r)
    BY <2>3, ReleaseStep
  <2>4. CASE ReplyResult(r) \/ ReplyDeadline(r) \/ ReplySent(r) \/ ReplyAborted(r)
    BY <1>8, <2>4, ReplyStep DEF OfRequest
  <2>5. QED
    BY <1>8, <2>1, <2>2, <2>3, <2>4 DEF OfRequest
<1>9. ASSUME NEW r \in Requests, Effect(r) PROVE SocketIInv'
  BY <1>9, EffectStep
<1>10. ASSUME NEW r \in Requests, WorkEnds(r) PROVE SocketIInv'
  BY <1>10, ServiceStep
<1>11. CASE UNCHANGED socketVars
  <2>1. UNCHANGED <<serve, capacity, conn, closed, writer, guard, slots, request, work, reply, effects>>
    BY <1>11 DEF socketVars
  <2>2. SocketTypes' /\ CapacityLent' /\ SlotsCoverWork'
    BY <2>1, CapacityKept, SlotsKept DEF SocketIInv, SocketTypes
  <2>3. QED
    BY <2>1, <2>2 DEF SocketIInv, TasksOfRequests, ClosedBehind, AbortedBehind, EffectsOfWork,
                      ClosedIsCleaned, ShutdownIsLast, CleanupAhead, RequestsOf, Conn
<1>12. QED
  BY <1>1, <1>2, <1>3, <1>4, <1>5, <1>6, <1>7, <1>8, <1>9, <1>10, <1>11 DEF SocketNext

\* The semaphores are within their limits, since they and what they lent add up.
LEMMA WithinSemaphores ==
  ASSUME SocketIInv
  PROVE  SocketTypeOK
<1>1. ASSUME NEW c \in Connections, NEW lane \in Lanes PROVE slots[c][lane] \in 0..Limit[lane]
  <2>1. slots[c][lane] + Cardinality(Live(c, lane)) = Limit[lane]
    BY DEF SocketIInv, SlotsCoverWork, Lanes
  <2>2. slots[c][lane] \in Nat /\ Cardinality(Live(c, lane)) \in Nat
    BY LiveFinite DEF SocketIInv, SocketTypes
  <2>3. QED
    BY <2>1, <2>2, LimitFacts
<1>2. capacity \in 0..MaxConnections
  BY StandingFinite, SocketConstants DEF SocketIInv, SocketTypes, CapacityLent
<1>3. QED
  BY <1>1, <1>2 DEF SocketIInv, SocketTypes, SocketTypeOK, Lanes

-----------------------------------------------------------------------------
(* The theorems *)

\* Every connection's slots are lent exactly to the work it has in progress, detached
\* work included, and no semaphore has more permits than it began with (socket.rs,
\* RequestSlots, spawn_detached).
THEOREM SlotsTheorem == SocketSpec => []SlotsSound
<1>1. SocketIInv => SlotsSound
  BY WithinSemaphores DEF SocketIInv, SlotsSound
<1>2. QED
  BY InitSocketIInv, NextSocketIInv, <1>1, PTL DEF SocketSpec, SocketSafety

\* What an owner has in place after its connection is closed has a cleanup ahead of
\* it, and the reply to Shutdown is the last (socket.rs, DisconnectGuard, drain).
THEOREM CleanupTheorem == SocketSpec => []CleanupIsLast
<1>1. SocketIInv => CleanupIsLast
  BY DEF SocketIInv, CleanupIsLast
<1>2. QED
  BY InitSocketIInv, NextSocketIInv, <1>1, PTL DEF SocketSpec, SocketSafety

-----------------------------------------------------------------------------
(* The bridge: the inductive invariant *)

LinePlaces == {"none", "begin", "chosen", "sent", "served", "refused", "over", "aborted"}
LineTypes ==
  [kind : LineKinds \cup {"none"}, pc : LinePlaces, conn : 0..made, id : Lines \cup {NoId},
   ids : SUBSET Lines]

\* The types of the state.
BridgeTypes ==
  /\ main \in {"reading", "draining", "cleaning", "finishing", "over", "failed"}
  /\ output \in {"up", "ended"} /\ made \in 0..MaxClients /\ broken \subseteq 1..made
  /\ replaced \in 0..MaxReplacements /\ current \in 0..made /\ ready \in BOOLEAN
  /\ forwarder \in [pc : {"start", "connecting", "matched", "reading", "reset", "report",
                          "invalidate", "over"},
                    conn : 0..made, error : {"none"} \cup Errors]
  /\ lastError \in {"none"} \cup Errors
  /\ watcher \in [pc : {"start", "watching", "reset", "report", "over"}, conn : 0..made,
                  seen : 0..replaced]
  /\ line \in [Lines -> LineTypes]
  /\ subs \subseteq [id : Lines, conn : 1..made] /\ tracked \subseteq Lines
  /\ told \in BOOLEAN
  /\ cleanup \in [ids : SUBSET Lines, asked : SUBSET Lines, done : BOOLEAN]

SlotsCoverLines ==
  \A lane \in {"calls", "controls"} : Cardinality(InLane(lane)) <= SlotsOf(lane)

Served == {"served", "over", "aborted"}

\* What the daemon holds was asked for by a subscription on a connection that stands.
SubsOfLines ==
  \A s \in subs :
    /\ Kind(s.id) = "subscribe" /\ line[s.id].pc \in Served
    /\ s.conn = line[s.id].conn /\ s.conn \notin broken

\* Only a cancellation is refused; one that was served has ended a subscription
\* that cannot come back.
CancelKnown(r) ==
  /\ line[r].pc \in {"sent", "served", "refused"} => line[r].conn # 0
  /\ line[r].pc = "refused" => Kind(r) \in {"cancel", "release"}
  /\ line[r].pc = "sent" /\ Kind(r) \in {"cancel", "release"} => line[r].id \in Lines
  /\ line[r].pc = "served" /\ Kind(r) \in {"cancel", "release"} =>
       /\ line[r].id \in Lines
       /\ Kind(line[r].id) = "subscribe" /\ line[line[r].id].pc \in Served
       /\ \A s \in subs : s.id = line[r].id => s.conn # line[r].conn

CancelsOfLines == \A r \in Lines : CancelKnown(r)

\* As long as the frontend need not be told anything, no client was replaced, and
\* a subscription that was let through has found the forwarder reading from it.
Calm ==
  output = "up" /\ ~RestartDue =>
    /\ made <= 1 /\ current = made /\ lastError = "none"
    /\ forwarder.pc \in {"start", "connecting", "matched", "reading"}
    /\ forwarder.pc \in {"matched", "reading"} => forwarder.conn = 1
    /\ watcher.pc \in {"start", "watching"}
    /\ ready => forwarder.pc = "reading"
    /\ subs # {} => forwarder.pc = "reading"
    /\ \A r \in Lines :
         Kind(r) = "subscribe" /\ line[r].pc \in {"chosen", "sent", "served"} =>
           forwarder.pc = "reading"

\* What the forwarder remembers to have reported, it has reported.
ErrorsTold ==
  /\ output = "up" /\ lastError # "none" => told
  /\ forwarder.pc \in {"reset", "report"} => forwarder.error \in Errors

\* The cleanup begins when no request is in progress, and asks for every id.
CleanupKnows ==
  /\ main \in {"cleaning", "finishing", "over"} => LiveLines = {}
  /\ main \notin {"cleaning", "finishing", "over"} =>
       cleanup = [ids |-> {}, asked |-> {}, done |-> FALSE]
  /\ cleanup.ids \cup cleanup.asked # {} \/ cleanup.done =>
       tracked \subseteq cleanup.ids \cup cleanup.asked
  /\ cleanup.done => cleanup.ids = {}

BridgeIInv ==
  /\ BridgeTypes /\ SlotsCoverLines /\ SubsOfLines /\ CancelsOfLines /\ Calm
  /\ ErrorsTold /\ OwnedUntilCancelled /\ CleanupKnows

-----------------------------------------------------------------------------
(* Facts *)

\* The client that is taken is made by then.
LEMMA GetFacts ==
  ASSUME BridgeTypes, NEW k \in 1..MaxClients, Get(k)
  PROVE  /\ made' \in 0..MaxClients /\ made <= made' /\ k \in 1..made' /\ current' = k
         /\ made' = made \/ (current = 0 /\ made' = made + 1 /\ k = made')
BY BridgeConstants DEF BridgeTypes, Get

\* More connections only widen the types.
LEMMA WiderTypes ==
  ASSUME BridgeTypes, made' \in 0..MaxClients, made <= made'
  PROVE  /\ broken \subseteq 1..made' /\ current \in 0..made' /\ 0..made \subseteq 0..made'
         /\ subs \subseteq [id : Lines, conn : 1..made']
BY BridgeConstants DEF BridgeTypes

LEMMA LanesFinite ==
  ASSUME NEW lane
  PROVE  IsFiniteSet(InLane(lane)) /\ Cardinality(InLane(lane)) \in Nat
<1>1. InLane(lane) \in SUBSET Lines
  BY DEF InLane, LiveLines
<1>2. QED
  BY <1>1, BridgeConstants, FS_Subset, FS_CardinalityType

\* No step but AcceptLine takes a slot.
LEMMA SlotsNotTaken ==
  ASSUME SlotsCoverLines,
         \A r \in Lines : line'[r].pc \notin {"none", "over", "aborted"} =>
           line[r].pc \notin {"none", "over", "aborted"} /\ line'[r].kind = line[r].kind
  PROVE  SlotsCoverLines'
<1> SUFFICES ASSUME NEW lane \in {"calls", "controls"}
             PROVE  Cardinality(InLane(lane)') <= SlotsOf(lane)
  BY DEF SlotsCoverLines
<1>1. InLane(lane)' \in SUBSET InLane(lane)
  BY DEF InLane, LiveLines, Kind
<1>2. Cardinality(InLane(lane)') <= Cardinality(InLane(lane)) /\ Cardinality(InLane(lane)') \in Nat
  BY <1>1, LanesFinite, FS_Subset, FS_CardinalityType
<1>3. Cardinality(InLane(lane)) <= SlotsOf(lane) /\ SlotsOf(lane) \in Nat
  BY BridgeConstants DEF SlotsCoverLines, SlotsOf
<1>4. QED
  BY <1>2, <1>3, LanesFinite

\* What does not touch requests, subscriptions and broken connections.
LEMMA LinesFrame ==
  ASSUME BridgeIInv, UNCHANGED <<line, subs, broken>>
  PROVE  SlotsCoverLines' /\ SubsOfLines' /\ CancelsOfLines'
BY SlotsNotTaken DEF BridgeIInv, SubsOfLines, CancelsOfLines, CancelKnown, Kind

\* Whoever reads the state of the requests only is undisturbed by the readers.
LEMMA CleanupFrame ==
  ASSUME BridgeIInv, UNCHANGED <<main, line, cleanup>>, tracked' \subseteq tracked
  PROVE  CleanupKnows'
BY DEF BridgeIInv, CleanupKnows, LiveLines

\* A restart that is due stays due.
LEMMA OwnedFrame ==
  ASSUME BridgeIInv, UNCHANGED <<line, subs>>, main' = main, output' = output,
         output = "up" /\ RestartDue => RestartDue',
         output = "up" /\ ~RestartDue' => tracked \subseteq tracked'
  PROVE  OwnedUntilCancelled'
BY DEF BridgeIInv, OwnedUntilCancelled, Running

-----------------------------------------------------------------------------
(* The start *)

LEMMA InitBridgeIInv == BridgeInit => BridgeIInv
<1> SUFFICES ASSUME BridgeInit PROVE BridgeIInv
  OBVIOUS
<1>1. BridgeTypes
  <2>1. Idle \in LineTypes
    BY BridgeConstants DEF BridgeInit, LineTypes, LinePlaces, Idle
  <2>2. line \in [Lines -> LineTypes]
    BY <2>1 DEF BridgeInit
  <2>3. /\ forwarder \in [pc : {"start", "connecting", "matched", "reading", "reset", "report",
                                "invalidate", "over"},
                          conn : 0..made, error : {"none"} \cup Errors]
        /\ watcher \in [pc : {"start", "watching", "reset", "report", "over"}, conn : 0..made,
                        seen : 0..replaced]
        /\ cleanup \in [ids : SUBSET Lines, asked : SUBSET Lines, done : BOOLEAN]
    BY DEF BridgeInit
  <2>4. made \in 0..MaxClients /\ replaced \in 0..MaxReplacements /\ current \in 0..made
    BY BridgeConstants DEF BridgeInit
  <2>5. QED
    BY <2>2, <2>3, <2>4 DEF BridgeInit, BridgeTypes
<1>2. SlotsCoverLines
  <2> SUFFICES ASSUME NEW lane \in {"calls", "controls"}
               PROVE  Cardinality(InLane(lane)) <= SlotsOf(lane)
    BY DEF SlotsCoverLines
  <2>1. InLane(lane) = {}
    BY DEF InLane, LiveLines, BridgeInit, Idle
  <2>2. QED
    BY <2>1, FS_EmptySet, BridgeConstants DEF SlotsOf
<1>3. SubsOfLines /\ CancelsOfLines /\ OwnedUntilCancelled
  BY DEF BridgeInit, SubsOfLines, CancelsOfLines, OwnedUntilCancelled, CancelKnown, Idle, Kind
<1>4. Calm /\ ErrorsTold /\ CleanupKnows
  BY DEF BridgeInit, Calm, ErrorsTold, CleanupKnows, Idle, Kind
<1>5. QED
  BY <1>1, <1>2, <1>3, <1>4 DEF BridgeIInv

-----------------------------------------------------------------------------
(* The steps of the world *)

\* A connection breaks, and its subscriptions with it.
LEMMA BreakStep ==
  ASSUME BridgeIInv, NEW k \in 1..made, BreakConnection(k)
  PROVE  BridgeIInv'
<1>1. /\ broken' = broken \cup {k} /\ subs' = {s \in subs : s.conn # k}
      /\ UNCHANGED <<main, output, made, replaced, current, ready, forwarder, lastError, watcher,
                     line, tracked, told, cleanup>>
  BY DEF BreakConnection, readers, told_
<1>2. BridgeTypes'
  BY <1>1 DEF BridgeIInv, BridgeTypes, LineTypes
<1>3. SlotsCoverLines'
  BY <1>1, SlotsNotTaken DEF BridgeIInv
<1>4. SubsOfLines' /\ CancelsOfLines'
  BY <1>1 DEF BridgeIInv, SubsOfLines, CancelsOfLines, CancelKnown, Kind
<1>5. Calm' /\ ErrorsTold'
  BY <1>1 DEF BridgeIInv, Calm, ErrorsTold, RestartDue, Kind
<1>6. OwnedUntilCancelled' /\ CleanupKnows'
  BY <1>1, CleanupFrame DEF BridgeIInv, OwnedUntilCancelled, RestartDue, Running
<1>7. QED
  BY <1>2, <1>3, <1>4, <1>5, <1>6 DEF BridgeIInv

\* The daemon is replaced, and holds nothing.
LEMMA ReplaceStep ==
  ASSUME BridgeIInv, ReplaceDaemon
  PROVE  BridgeIInv'
<1>1. /\ replaced' \in 0..MaxReplacements /\ replaced <= replaced' /\ subs' = {}
      /\ UNCHANGED <<main, output, made, broken, current, ready, forwarder, lastError, watcher,
                     line, tracked, told, cleanup>>
  BY BridgeConstants DEF ReplaceDaemon, readers, told_, BridgeIInv, BridgeTypes
<1>2. BridgeTypes'
  <2>1. 0..replaced \subseteq 0..replaced'
    BY <1>1, BridgeConstants DEF BridgeIInv, BridgeTypes
  <2>2. QED
    BY <1>1, <2>1 DEF BridgeIInv, BridgeTypes, LineTypes
<1>3. SlotsCoverLines'
  BY <1>1, SlotsNotTaken DEF BridgeIInv
<1>4. SubsOfLines' /\ CancelsOfLines'
  BY <1>1 DEF BridgeIInv, SubsOfLines, CancelsOfLines, CancelKnown, Kind
<1>5. Calm' /\ ErrorsTold'
  BY <1>1 DEF BridgeIInv, Calm, ErrorsTold, RestartDue, Kind
<1>6. OwnedUntilCancelled' /\ CleanupKnows'
  BY <1>1, CleanupFrame DEF BridgeIInv, OwnedUntilCancelled
<1>7. QED
  BY <1>2, <1>3, <1>4, <1>5, <1>6 DEF BridgeIInv

\* The input or the output ends, the cleanup ends, the bridge returns.
LEMMA MainStep ==
  ASSUME BridgeIInv, EndInput \/ OutputEnds \/ EndCleanup \/ Return
  PROVE  BridgeIInv'
<1>1. /\ main' \in {"draining", "failed", "finishing", "over", main}
      /\ output' \in {"up", "ended"} /\ (output' = "up" => output = "up")
      /\ main' = "failed" => output' = "ended" \/ main = "failed"
      /\ main \in {"cleaning", "finishing", "over"} <=> main' \in {"cleaning", "finishing", "over"}
      /\ main' \in {"reading", "draining", "cleaning"} => main \in {"reading", "draining", "cleaning"}
      /\ UNCHANGED <<bus, readers, line, subs, told_, cleanup>>
  BY DEF EndInput, OutputEnds, EndCleanup, Return, BridgeIInv, BridgeTypes, Over
<1>2. BridgeTypes'
  BY <1>1 DEF BridgeIInv, BridgeTypes, LineTypes, bus, readers, told_
<1>3. SlotsCoverLines' /\ SubsOfLines' /\ CancelsOfLines'
  BY <1>1, LinesFrame DEF bus
<1>4. Calm' /\ ErrorsTold'
  BY <1>1 DEF BridgeIInv, Calm, ErrorsTold, RestartDue, Kind, bus, readers, told_
<1>5. OwnedUntilCancelled'
  BY <1>1 DEF BridgeIInv, OwnedUntilCancelled, RestartDue, Running, readers, told_
<1>6. CleanupKnows'
  BY <1>1 DEF BridgeIInv, CleanupKnows, LiveLines, told_
<1>7. QED
  BY <1>2, <1>3, <1>4, <1>5, <1>6 DEF BridgeIInv

-----------------------------------------------------------------------------
(* The steps of the requests *)

\* A request is accepted into a slot of its lane.
LEMMA BridgeAcceptStep ==
  ASSUME BridgeIInv, NEW r \in Lines, AcceptLine(r)
  PROVE  BridgeIInv'
<1>1. PICK kind \in LineKinds, pc \in {"begin", "chosen"}, ids \in SUBSET Lines :
        /\ HasSlot(kind)
        /\ line' = [line EXCEPT ![r] = [kind |-> kind, pc |-> pc, conn |-> 0, id |-> NoId, ids |-> ids]]
        /\ kind = "subscribe" => pc = "begin"
  <2>1. PICK kind \in LineKinds : HasSlot(kind) /\
          \E ids \in IF kind = "cancel" THEN {{id} : id \in Lines} ELSE {{}} :
            line' = [line EXCEPT ![r] =
              [kind |-> kind, pc |-> IF kind \in {"subscribe", "release"} THEN "begin" ELSE "chosen",
               conn |-> 0, id |-> NoId, ids |-> ids]]
    BY DEF AcceptLine
  <2>2. PICK ids \in IF kind = "cancel" THEN {{id} : id \in Lines} ELSE {{}} :
            line' = [line EXCEPT ![r] =
              [kind |-> kind, pc |-> IF kind \in {"subscribe", "release"} THEN "begin" ELSE "chosen",
               conn |-> 0, id |-> NoId, ids |-> ids]]
    BY <2>1
  <2>3. ids \in SUBSET Lines
    BY <2>2
  <2>4. CASE kind \in {"subscribe", "release"}
    BY <2>1, <2>2, <2>3, <2>4
  <2>5. CASE kind \notin {"subscribe", "release"}
    BY <2>1, <2>2, <2>3, <2>5
  <2>6. QED
    BY <2>4, <2>5
<1>2. /\ main = "reading" /\ line[r] = Idle
      /\ UNCHANGED <<main, output, bus, readers, subs, told_, cleanup>>
  BY DEF AcceptLine
<1>3. Kind(r) = "none" /\ line[r].pc = "none"
  BY <1>2 DEF Idle, Kind
<1>4. BridgeTypes'
  <2>1. [kind |-> kind, pc |-> pc, conn |-> 0, id |-> NoId, ids |-> ids] \in LineTypes
    BY BridgeConstants DEF LineTypes, LinePlaces, BridgeIInv, BridgeTypes
  <2>2. line' \in [Lines -> LineTypes]
    BY <1>1, <2>1 DEF BridgeIInv, BridgeTypes
  <2>3. QED
    BY <1>2, <2>2 DEF BridgeIInv, BridgeTypes, LineTypes, bus, readers, told_
<1>5. SlotsCoverLines'
  <2> SUFFICES ASSUME NEW lane \in {"calls", "controls"}
               PROVE  Cardinality(InLane(lane)') <= SlotsOf(lane)
    BY DEF SlotsCoverLines
  <2>1. r \notin InLane(lane)
    BY <1>3 DEF InLane, LiveLines
  <2>2. SlotsOf(lane) \in Nat /\ Cardinality(InLane(lane)) <= SlotsOf(lane)
    BY BridgeConstants DEF SlotsOf, BridgeIInv, SlotsCoverLines
  <2>3. CASE BridgeLaneOf(kind) = lane
    <3>1. InLane(lane)' = InLane(lane) \cup {r}
      BY <1>1, <1>3, <2>3 DEF InLane, LiveLines, Kind, BridgeIInv, BridgeTypes
    <3>2. Cardinality(InLane(lane) \cup {r}) = Cardinality(InLane(lane)) + 1
      BY <2>1, LanesFinite, FS_AddElement
    <3>3. Cardinality(InLane(lane)) < SlotsOf(lane)
      BY <1>1, <2>3 DEF HasSlot
    <3>4. QED
      BY <2>2, <3>1, <3>2, <3>3, LanesFinite
  <2>4. CASE BridgeLaneOf(kind) # lane
    <3>1. InLane(lane)' = InLane(lane)
      BY <1>1, <1>3, <2>1, <2>4 DEF InLane, LiveLines, Kind, BridgeIInv, BridgeTypes
    <3>2. QED
      BY <2>2, <3>1
  <2>5. QED
    BY <2>3, <2>4
<1>6. SubsOfLines'
  BY <1>1, <1>2, <1>3 DEF BridgeIInv, BridgeTypes, SubsOfLines, Kind, bus
<1>7. CancelsOfLines'
  BY <1>1, <1>2, <1>3 DEF BridgeIInv, BridgeTypes, CancelsOfLines, CancelKnown, Kind, Served
<1>8. Calm' /\ ErrorsTold'
  BY <1>1, <1>2 DEF BridgeIInv, BridgeTypes, Calm, ErrorsTold, RestartDue, Kind, bus, readers, told_
<1>9. OwnedUntilCancelled'
  BY <1>1, <1>2 DEF BridgeIInv, BridgeTypes, OwnedUntilCancelled, RestartDue, Running, readers, told_
<1>10. CleanupKnows'
  BY <1>2 DEF BridgeIInv, CleanupKnows, told_
<1>11. QED
  BY <1>4, <1>5, <1>6, <1>7, <1>8, <1>9, <1>10 DEF BridgeIInv

\* A step of one live request, which keeps its kind: the types and the slots, and the
\* cleanup, which has not begun while a request lives.
LEMMA RequestFrame ==
  ASSUME BridgeIInv, NEW r \in Lines, NEW asks,
         asks \in LineTypes', asks.kind = Kind(r), asks.pc # "none",
         line' = [line EXCEPT ![r] = asks], line[r].pc \notin {"none", "over", "aborted"},
         made' \in 0..MaxClients, made <= made', current' \in 0..made', ready' \in BOOLEAN,
         subs' \subseteq [id : Lines, conn : 1..made'], tracked' \subseteq Lines, told' \in BOOLEAN,
         UNCHANGED <<main, output, broken, replaced, readers, cleanup>>
  PROVE  /\ BridgeTypes' /\ SlotsCoverLines' /\ CleanupKnows'
         /\ line'[r] = asks /\ \A q \in Lines : q # r => line'[q] = line[q]
<1>1. line'[r] = asks /\ \A q \in Lines : q # r => line'[q] = line[q]
  BY DEF BridgeIInv, BridgeTypes
<1>2. BridgeTypes'
  <2>1. LineTypes \subseteq LineTypes'
    BY WiderTypes DEF LineTypes, BridgeIInv
  <2>2. line' \in [Lines -> LineTypes']
    BY <2>1 DEF BridgeIInv, BridgeTypes
  <2>3. /\ forwarder' \in [pc : {"start", "connecting", "matched", "reading", "reset", "report",
                                "invalidate", "over"},
                          conn : 0..made', error : {"none"} \cup Errors]
        /\ watcher' \in [pc : {"start", "watching", "reset", "report", "over"}, conn : 0..made',
                        seen : 0..replaced']
    BY WiderTypes DEF BridgeIInv, BridgeTypes, readers
  <2>4. broken' \subseteq 1..made' /\ lastError' = lastError
    BY WiderTypes DEF BridgeIInv, readers
  <2>5. QED
    BY <2>2, <2>3, <2>4 DEF BridgeIInv, BridgeTypes
<1>3. SlotsCoverLines'
  BY <1>1, SlotsNotTaken DEF BridgeIInv, Kind
<1>4. CleanupKnows'
  BY DEF BridgeIInv, CleanupKnows, LiveLines
<1>5. QED
  BY <1>1, <1>2, <1>3, <1>4

\* A request that goes elsewhere is a request still.
LEMMA RequestMoved ==
  ASSUME BridgeIInv, NEW r \in Lines, NEW pc \in LinePlaces
  PROVE  LET asks == [line[r] EXCEPT !.pc = pc] IN
         /\ asks \in LineTypes /\ asks.pc = pc /\ asks.kind = Kind(r)
         /\ asks.conn = line[r].conn /\ asks.id = line[r].id
<1>1. line[r] \in LineTypes
  BY DEF BridgeIInv, BridgeTypes
<1>2. QED
  BY <1>1 DEF LineTypes, Kind

\* A request that begins, ends, is aborted, or goes on to its next id: all but what
\* becomes of the ids that are tracked.
LEMMA RequestStep ==
  ASSUME BridgeIInv, NEW r \in Lines, NEW asks \in LineTypes,
         asks.kind = Kind(r), asks.pc \in {"chosen", "over", "aborted"},
         asks.pc = "chosen" /\ Kind(r) = "subscribe" => ready,
         line' = [line EXCEPT ![r] = asks], line[r].pc \notin {"none", "over", "aborted"},
         Kind(r) = "subscribe" /\ line[r].pc \in Served => asks.pc # "chosen",
         line[r].pc \in Served /\ asks.pc = "chosen" => Kind(r) \in {"cancel", "release"},
         asks.conn = line[r].conn,
         tracked' \subseteq Lines, told' \in BOOLEAN, told => told',
         UNCHANGED <<main, output, bus, readers, subs, cleanup>>
  PROVE  /\ BridgeTypes' /\ SlotsCoverLines' /\ CleanupKnows' /\ SubsOfLines' /\ CancelsOfLines'
         /\ Calm' /\ ErrorsTold'
         /\ line'[r] = asks /\ \A q \in Lines : q # r => line'[q] = line[q]
<1>1. LineTypes' = LineTypes
  BY DEF LineTypes, bus
<1>2. /\ BridgeTypes' /\ SlotsCoverLines' /\ CleanupKnows'
      /\ line'[r] = asks /\ \A q \in Lines : q # r => line'[q] = line[q]
  <2>1. /\ made' \in 0..MaxClients /\ made <= made' /\ current' \in 0..made' /\ ready' \in BOOLEAN
        /\ subs' \subseteq [id : Lines, conn : 1..made']
    BY BridgeConstants DEF bus, BridgeIInv, BridgeTypes
  <2>2. QED
    BY <1>1, <2>1, RequestFrame DEF bus
<1>3. \A q \in Lines : Kind(q)' = Kind(q)
  BY <1>2 DEF Kind
<1>4. SubsOfLines'
  BY <1>2, <1>3 DEF BridgeIInv, BridgeTypes, SubsOfLines, Kind, bus, Served
<1>5. CancelsOfLines'
  <2> SUFFICES ASSUME NEW q \in Lines PROVE CancelKnown(q)'
    BY DEF CancelsOfLines
  <2>1. CASE q = r
    BY <1>2, <1>3, <2>1 DEF CancelKnown
  <2>2. CASE q # r
    <3>1. CancelKnown(q) /\ line'[q] = line[q] /\ Kind(q)' = Kind(q)
      BY <1>2, <1>3, <2>2 DEF BridgeIInv, CancelsOfLines
    <3>2. \A p \in Lines : Kind(p) = "subscribe" /\ line[p].pc \in Served =>
                             Kind(p)' = "subscribe" /\ line'[p].pc \in Served
      BY <1>2, <1>3 DEF Served
    <3>3. QED
      BY <3>1, <3>2 DEF CancelKnown
  <2>3. QED
    BY <2>1, <2>2
<1>6. ErrorsTold'
  BY DEF BridgeIInv, ErrorsTold, readers
<1>7. Calm'
  BY <1>2, <1>3 DEF BridgeIInv, Calm, RestartDue, Kind, bus, readers
<1>8. QED
  BY <1>2, <1>4, <1>5, <1>6, <1>7

\* A subscription begins when the forwarder is ready.
LEMMA BeginStep ==
  ASSUME BridgeIInv, NEW r \in Lines, Begin(r)
  PROVE  BridgeIInv'
<1>1. PICK ids \in SUBSET Lines :
        /\ line' = [line EXCEPT ![r].pc = "chosen", ![r].ids = ids]
        /\ line[r].pc = "begin" /\ (Kind(r) = "subscribe" => ready)
        /\ UNCHANGED <<main, output, bus, readers, subs, told_, cleanup>>
  BY DEF Begin, BridgeIInv, BridgeTypes
<1> DEFINE asks == [line[r] EXCEPT !.pc = "chosen", !.ids = ids]
<1>2. /\ asks \in LineTypes /\ asks.kind = Kind(r) /\ asks.pc = "chosen"
      /\ asks.conn = line[r].conn
  <2>1. line[r] \in LineTypes
    BY DEF BridgeIInv, BridgeTypes
  <2>2. QED
    BY <2>1 DEF LineTypes, LinePlaces, Kind
<1>3. line' = [line EXCEPT ![r] = asks]
  BY <1>1
<1>4. tracked' \subseteq Lines /\ told' \in BOOLEAN /\ tracked' = tracked /\ told' = told
  BY <1>1 DEF told_, BridgeIInv, BridgeTypes
<1> HIDE DEF asks
<1>5. /\ BridgeTypes' /\ SlotsCoverLines' /\ CleanupKnows' /\ SubsOfLines' /\ CancelsOfLines'
      /\ Calm' /\ ErrorsTold'
      /\ line'[r] = asks /\ \A q \in Lines : q # r => line'[q] = line[q]
  BY <1>1, <1>2, <1>3, <1>4, RequestStep, ZenonT(40) DEF Served
<1>6. OwnedUntilCancelled'
  BY <1>1, <1>2, <1>4, <1>5
  DEF BridgeIInv, BridgeTypes, OwnedUntilCancelled, RestartDue, Running, readers
<1>7. QED
  BY <1>5, <1>6 DEF BridgeIInv

\* A call is answered, a subscription acknowledged, a request rejected, aborted, or
\* ended by an error or by its deadline.
LEMMA EndStep ==
  ASSUME BridgeIInv, NEW r \in Lines,
         AnswerCall(r) \/ AnswerSubscribe(r) \/ AnswerError(r) \/ Timeout(r) \/ Reject(r) \/ Abort(r)
  PROVE  BridgeIInv'
<1>1. PICK pc \in {"over", "aborted"} :
        /\ line' = [line EXCEPT ![r].pc = pc]
        /\ pc = "aborted" => main = "failed"
        /\ line[r].pc \notin {"none", "over", "aborted"}
        /\ UNCHANGED <<main, output, bus, readers, subs, cleanup>>
        /\ tracked' \in {tracked, tracked \cup {r}} /\ told' \in {told, told \/ output = "up"}
  BY DEF AnswerCall, AnswerSubscribe, AnswerError, Timeout, Reject, Abort, Step, Waits, Report,
         Write, told_, LiveLines
<1>2. line[r].pc = "served" /\ Kind(r) = "subscribe" /\ output = "up" /\ main # "failed" =>
        r \in tracked' \/ told' \/ \A s \in subs : s.id # r
  <2>1. ASSUME line[r].pc = "served", Kind(r) = "subscribe", ~Usable(line[r].conn), NEW s \in subs, s.id = r
        PROVE  FALSE
    BY <2>1 DEF Usable, BridgeIInv, BridgeTypes, LineTypes, SubsOfLines, Kind
  <2>2. QED
    BY <2>1 DEF AnswerCall, AnswerSubscribe, AnswerError, Timeout, Reject, Abort, Step, Report, Write
<1> DEFINE asks == [line[r] EXCEPT !.pc = pc]
<1>3. /\ asks \in LineTypes /\ asks.kind = Kind(r) /\ asks.pc = pc
      /\ asks.conn = line[r].conn
  <2>1. pc \in LinePlaces
    BY DEF LinePlaces
  <2>2. QED
    BY <2>1, RequestMoved
<1>4. line' = [line EXCEPT ![r] = asks]
  BY <1>1
<1>5. tracked' \subseteq Lines /\ told' \in BOOLEAN /\ tracked \subseteq tracked' /\ (told => told')
  BY <1>1 DEF BridgeIInv, BridgeTypes
<1> HIDE DEF asks
<1>6. /\ BridgeTypes' /\ SlotsCoverLines' /\ CleanupKnows' /\ SubsOfLines' /\ CancelsOfLines'
      /\ Calm' /\ ErrorsTold'
      /\ line'[r] = asks /\ \A q \in Lines : q # r => line'[q] = line[q]
  BY <1>1, <1>3, <1>4, <1>5, RequestStep, ZenonT(40)
<1>7. OwnedUntilCancelled'
  <2> SUFFICES ASSUME Running, output = "up", NEW s \in subs, line'[s.id].pc = "over"
               PROVE  s.id \in tracked' \/ RestartDue'
    BY <1>1 DEF OwnedUntilCancelled, Running
  <2>1. s.id \in Lines /\ Kind(s.id) = "subscribe" /\ line[s.id].pc \in Served
    BY DEF BridgeIInv, BridgeTypes, SubsOfLines
  <2>2. CASE s.id = r
    BY <1>1, <1>2, <2>1, <2>2 DEF Running, Served, RestartDue
  <2>3. CASE s.id # r
    <3>1. s.id \in tracked \/ RestartDue
      BY <1>6, <2>1, <2>3 DEF BridgeIInv, OwnedUntilCancelled
    <3>2. QED
      BY <1>1, <1>5, <3>1 DEF RestartDue, readers
  <2>4. QED
    BY <2>2, <2>3
<1>8. QED
  BY <1>6, <1>7 DEF BridgeIInv

\* A cancellation that succeeded: what it takes out of the table has ended, or the
\* client it was sent on is not that of the subscription, and the frontend knows.
LEMMA CancelStep ==
  ASSUME BridgeIInv, NEW r \in Lines, AnswerCancel(r)
  PROVE  BridgeIInv'
<1>1. PICK pc \in {"over", "chosen"} :
        /\ line' = [line EXCEPT ![r].pc = pc]
        /\ line[r].pc = "served" /\ Kind(r) \in {"cancel", "release"}
        /\ UNCHANGED <<main, output, bus, readers, subs, told, cleanup>>
        /\ tracked' \in {tracked, tracked \ {line[r].id}}
  <2>1. CASE line[r].ids = {}
    BY <2>1 DEF AnswerCancel, Cancelled, Write
  <2>2. CASE line[r].ids # {}
    BY <2>2 DEF AnswerCancel, Cancelled, Write
  <2>3. QED
    BY <2>1, <2>2
<1> DEFINE asks == [line[r] EXCEPT !.pc = pc]
<1>3. /\ asks \in LineTypes /\ asks.kind = Kind(r) /\ asks.pc = pc
      /\ asks.conn = line[r].conn
  <2>1. pc \in LinePlaces
    BY DEF LinePlaces
  <2>2. QED
    BY <2>1, RequestMoved
<1>4. line' = [line EXCEPT ![r] = asks]
  BY <1>1
<1>5. tracked' \subseteq Lines /\ told' \in BOOLEAN
  BY <1>1 DEF BridgeIInv, BridgeTypes
<1> HIDE DEF asks
<1>6. /\ BridgeTypes' /\ SlotsCoverLines' /\ CleanupKnows' /\ SubsOfLines' /\ CancelsOfLines'
      /\ Calm' /\ ErrorsTold'
      /\ line'[r] = asks /\ \A q \in Lines : q # r => line'[q] = line[q]
  BY <1>1, <1>3, <1>4, <1>5, RequestStep, ZenonT(40)
<1>7. OwnedUntilCancelled'
  <2> SUFFICES ASSUME Running, output = "up", NEW s \in subs, line'[s.id].pc = "over", ~RestartDue
               PROVE  s.id \in tracked'
    BY <1>1 DEF OwnedUntilCancelled, Running, RestartDue, readers
  <2>1. s.id \in Lines /\ Kind(s.id) = "subscribe" /\ s.id # r /\ s.conn \in 1..made
    BY <1>1 DEF BridgeIInv, BridgeTypes, SubsOfLines
  <2>2. s.id \in tracked
    BY <1>6, <2>1 DEF BridgeIInv, OwnedUntilCancelled
  <2>3. s.conn = line[r].conn
    <3>1. made \in 0..1 /\ line[r].conn \in 0..made /\ line[r].conn # 0
      BY <1>1 DEF BridgeIInv, BridgeTypes, LineTypes, Calm, CancelsOfLines, CancelKnown
    <3>2. QED
      BY <2>1, <3>1
  <2>4. s.id # line[r].id
    BY <1>1, <2>3 DEF BridgeIInv, CancelsOfLines, CancelKnown
  <2>5. QED
    BY <1>1, <2>2, <2>4
<1>8. QED
  BY <1>6, <1>7 DEF BridgeIInv

\* A request is sent on the client it finds, which is the first of all while the
\* frontend need not be told anything.
LEMMA SendStep ==
  ASSUME BridgeIInv, NEW r \in Lines, Send(r)
  PROVE  BridgeIInv'
<1>1. PICK id \in Lines \cup {NoId}, k \in 1..MaxClients :
        /\ Get(k)
        /\ line' = [line EXCEPT ![r].pc = "sent", ![r].conn = k, ![r].id = id,
                                      ![r].ids = @ \ {id}]
        /\ Kind(r) \in {"cancel", "release"} => id \in Lines
  <2>1. CASE Kind(r) \in {"cancel", "release"}
    <3>1. line[r].ids \subseteq Lines
      BY DEF BridgeIInv, BridgeTypes, LineTypes
    <3>2. QED
      BY <2>1, <3>1 DEF Send
  <2>2. CASE Kind(r) \notin {"cancel", "release"}
    BY <2>2 DEF Send
  <2>3. QED
    BY <2>1, <2>2
<1>2. /\ line[r].pc = "chosen"
      /\ UNCHANGED <<main, output, broken, replaced, ready, readers, subs, told_, cleanup>>
  BY DEF Send
<1>3. /\ made' \in 0..MaxClients /\ made <= made' /\ k \in 1..made' /\ current' = k
      /\ made' = made \/ (current = 0 /\ made' = made + 1 /\ k = made')
  BY <1>1, GetFacts DEF BridgeIInv
<1> DEFINE asks == [line[r] EXCEPT !.pc = "sent", !.conn = k, !.id = id, !.ids = @ \ {id}]
<1>4. /\ asks \in LineTypes' /\ asks.kind = Kind(r) /\ asks.pc = "sent"
      /\ asks.conn = k /\ asks.id = id
  <2>1. line[r] \in LineTypes /\ k \in (0..made)'
    BY <1>3 DEF BridgeIInv, BridgeTypes
  <2>2. QED
    BY <2>1 DEF LineTypes, LinePlaces, Kind
<1>5. line' = [line EXCEPT ![r] = asks]
  BY <1>1
<1> HIDE DEF asks
<1>6. /\ BridgeTypes' /\ SlotsCoverLines' /\ CleanupKnows'
      /\ line'[r] = asks /\ \A q \in Lines : q # r => line'[q] = line[q]
  <2>1. /\ current' \in 0..made' /\ ready' \in BOOLEAN
        /\ tracked' \subseteq Lines /\ told' \in BOOLEAN
    BY <1>2, <1>3 DEF told_, BridgeIInv, BridgeTypes
  <2>2. subs' \subseteq [id : Lines, conn : 1..made']
    BY <1>2, <1>3, WiderTypes DEF BridgeIInv
  <2>3. QED
    BY <1>2, <1>3, <1>4, <1>5, <2>1, <2>2, RequestFrame
<1>7. \A q \in Lines : Kind(q)' = Kind(q)
  BY <1>4, <1>6 DEF Kind
<1>8. SubsOfLines'
  BY <1>2, <1>6, <1>7 DEF BridgeIInv, BridgeTypes, SubsOfLines, Served
<1>9. CancelsOfLines'
  <2> SUFFICES ASSUME NEW q \in Lines PROVE CancelKnown(q)'
    BY DEF CancelsOfLines
  <2>1. CASE q = r
    <3>1. line'[q].pc = "sent" /\ line'[q].conn # 0
      BY <1>3, <1>4, <1>6, <2>1
    <3>2. Kind(q)' \in {"cancel", "release"} => line'[q].id \in Lines
      BY <1>1, <1>4, <1>6, <1>7, <2>1
    <3>3. QED
      BY <3>1, <3>2 DEF CancelKnown
  <2>2. CASE q # r
    <3>1. CancelKnown(q) /\ line'[q] = line[q] /\ Kind(q)' = Kind(q) /\ subs' = subs
      BY <1>2, <1>6, <1>7, <2>2 DEF BridgeIInv, CancelsOfLines
    <3>2. \A p \in Lines : Kind(p) = "subscribe" /\ line[p].pc \in Served =>
                             Kind(p)' = "subscribe" /\ line'[p].pc \in Served
      BY <1>2, <1>6, <1>7 DEF Served
    <3>3. QED
      BY <3>1, <3>2 DEF CancelKnown
  <2>3. QED
    BY <2>1, <2>2
<1>10. Calm' /\ ErrorsTold'
  <2>1. ErrorsTold'
    BY <1>2 DEF BridgeIInv, ErrorsTold, readers, told_
  <2>2. ASSUME output = "up", ~RestartDue'
        PROVE  Calm /\ ~RestartDue
    BY <1>2, <2>2 DEF BridgeIInv, RestartDue, readers, told_
  <2>3. ASSUME output = "up", ~RestartDue'
        PROVE  made' <= 1 /\ current' = made'
    BY <1>3, <2>2, <2>3 DEF Calm, BridgeIInv, BridgeTypes
  <2>4. ASSUME output = "up", ~RestartDue', NEW q \in Lines, Kind(q)' = "subscribe",
               line'[q].pc \in {"chosen", "sent", "served"}
        PROVE  forwarder.pc = "reading"
    BY <1>2, <1>6, <1>7, <2>2, <2>4 DEF Calm
  <2>5. Calm'
    BY <1>2, <2>2, <2>3, <2>4 DEF Calm, readers, told_
  <2>6. QED
    BY <2>1, <2>5
<1>11. OwnedUntilCancelled'
  BY <1>2, <1>4, <1>6, <1>7
  DEF BridgeIInv, BridgeTypes, OwnedUntilCancelled, RestartDue, Running, readers, told_
<1>12. QED
  BY <1>6, <1>8, <1>9, <1>10, <1>11 DEF BridgeIInv

\* The daemon subscribes the connection.
LEMMA SubscribeStep ==
  ASSUME BridgeIInv, NEW r \in Lines, DaemonSubscribes(r)
  PROVE  BridgeIInv'
<1>1. /\ Kind(r) = "subscribe" /\ line[r].pc = "sent" /\ line[r].conn \in 1..made \ broken
      /\ line' = [line EXCEPT ![r].pc = "served"]
      /\ subs' = subs \cup {[id |-> r, conn |-> line[r].conn]}
      /\ UNCHANGED <<main, output, bus, readers, told_, cleanup>>
  BY DEF DaemonSubscribes, Step, Usable
<1> DEFINE asks == [line[r] EXCEPT !.pc = "served"]
<1>2. /\ asks \in LineTypes' /\ asks.kind = Kind(r) /\ asks.pc = "served"
      /\ asks.conn = line[r].conn
  <2>1. "served" \in LinePlaces /\ LineTypes' = LineTypes
    BY <1>1 DEF LinePlaces, LineTypes, bus
  <2>2. QED
    BY <2>1, RequestMoved
<1>3. line' = [line EXCEPT ![r] = asks]
  BY <1>1
<1> HIDE DEF asks
<1>4. /\ BridgeTypes' /\ SlotsCoverLines' /\ CleanupKnows'
      /\ line'[r] = asks /\ \A q \in Lines : q # r => line'[q] = line[q]
  <2>1. /\ made' \in 0..MaxClients /\ made <= made' /\ current' \in 0..made' /\ ready' \in BOOLEAN
        /\ subs' \subseteq [id : Lines, conn : 1..made'] /\ tracked' \subseteq Lines /\ told' \in BOOLEAN
    BY <1>1, BridgeConstants DEF bus, told_, BridgeIInv, BridgeTypes
  <2>2. QED
    BY <1>1, <1>2, <1>3, <2>1, RequestFrame, ZenonT(40) DEF bus
<1>5. \A q \in Lines : Kind(q)' = Kind(q)
  BY <1>2, <1>4 DEF Kind
<1>6. SubsOfLines'
  <2> SUFFICES ASSUME NEW s \in subs'
               PROVE  /\ Kind(s.id)' = "subscribe" /\ line'[s.id].pc \in Served
                      /\ s.conn = line'[s.id].conn /\ s.conn \notin broken
    BY <1>1 DEF SubsOfLines, bus
  <2>1. CASE s \in subs
    BY <1>1, <1>2, <1>4, <1>5, <2>1 DEF BridgeIInv, BridgeTypes, SubsOfLines, Served
  <2>2. CASE s = [id |-> r, conn |-> line[r].conn]
    BY <1>1, <1>2, <1>4, <1>5, <2>2 DEF Served
  <2>3. QED
    BY <1>1, <2>1, <2>2
<1>7. CancelsOfLines'
  <2> SUFFICES ASSUME NEW q \in Lines PROVE CancelKnown(q)'
    BY DEF CancelsOfLines
  <2>1. CASE q = r
    BY <1>1, <1>2, <1>4, <1>5, <2>1 DEF CancelKnown
  <2>2. CASE q # r
    <3>1. CancelKnown(q) /\ line'[q] = line[q] /\ Kind(q)' = Kind(q)
      BY <1>4, <1>5, <2>2 DEF BridgeIInv, CancelsOfLines
    <3>2. \A p \in Lines : Kind(p) = "subscribe" /\ line[p].pc \in Served =>
                             Kind(p)' = "subscribe" /\ line'[p].pc \in Served /\ p # r
      BY <1>1, <1>4, <1>5 DEF Served
    <3>3. QED
      BY <1>1, <3>1, <3>2 DEF CancelKnown
  <2>3. QED
    BY <2>1, <2>2
<1>8. Calm' /\ ErrorsTold'
  <2>1. ErrorsTold'
    BY <1>1 DEF BridgeIInv, ErrorsTold, readers, told_
  <2>2. ASSUME output = "up", ~RestartDue' PROVE Calm /\ ~RestartDue /\ forwarder.pc = "reading"
    BY <1>1, <2>2 DEF BridgeIInv, RestartDue, Calm, readers, told_
  <2>3. Calm'
    BY <1>1, <2>2 DEF Calm, bus, readers, told_
  <2>4. QED
    BY <2>1, <2>3
<1>9. OwnedUntilCancelled'
  BY <1>1, <1>2, <1>4, <1>5
  DEF BridgeIInv, BridgeTypes, OwnedUntilCancelled, RestartDue, Running, readers, told_
<1>10. QED
  BY <1>4, <1>6, <1>7, <1>8, <1>9 DEF BridgeIInv

\* The daemon ends a subscription, or refuses to.
LEMMA UnsubscribeStep ==
  ASSUME BridgeIInv, NEW r \in Lines, DaemonCancels(r)
  PROVE  BridgeIInv'
<1> DEFINE sub == [id |-> line[r].id, conn |-> line[r].conn]
<1>1. PICK pc \in {"served", "refused"} :
        /\ line' = [line EXCEPT ![r].pc = pc]
        /\ subs' \in {subs, subs \ {sub}}
        /\ pc = "served" => sub \in subs /\ subs' = subs \ {sub}
  BY DEF DaemonCancels, Step
<1>2. /\ Kind(r) \in {"cancel", "release"} /\ line[r].pc = "sent" /\ line[r].conn \in 1..made
      /\ UNCHANGED <<main, output, bus, readers, told_, cleanup>>
  BY DEF DaemonCancels, Step, Usable
<1> DEFINE asks == [line[r] EXCEPT !.pc = pc]
<1>3. /\ asks \in LineTypes' /\ asks.kind = Kind(r) /\ asks.pc = pc
      /\ asks.conn = line[r].conn /\ asks.id = line[r].id
  <2>1. pc \in LinePlaces /\ LineTypes' = LineTypes
    BY <1>2 DEF LinePlaces, LineTypes, bus
  <2>2. QED
    BY <2>1, RequestMoved
<1>4. line' = [line EXCEPT ![r] = asks]
  BY <1>1
<1> HIDE DEF asks
<1>5. /\ BridgeTypes' /\ SlotsCoverLines' /\ CleanupKnows'
      /\ line'[r] = asks /\ \A q \in Lines : q # r => line'[q] = line[q]
  <2>1. /\ made' \in 0..MaxClients /\ made <= made' /\ current' \in 0..made' /\ ready' \in BOOLEAN
        /\ subs' \subseteq [id : Lines, conn : 1..made'] /\ tracked' \subseteq Lines /\ told' \in BOOLEAN
    BY <1>1, <1>2, BridgeConstants DEF bus, told_, BridgeIInv, BridgeTypes
  <2>2. QED
    BY <1>1, <1>2, <1>3, <1>4, <2>1, RequestFrame DEF bus
<1>6. \A q \in Lines : Kind(q)' = Kind(q) /\ (line[q].pc \in Served => line'[q] = line[q])
  BY <1>2, <1>3, <1>5 DEF Kind, Served
<1>7. SubsOfLines' /\ subs' \subseteq subs
  BY <1>1, <1>2, <1>6 DEF BridgeIInv, BridgeTypes, SubsOfLines, bus
<1>8. CancelsOfLines'
  <2> SUFFICES ASSUME NEW q \in Lines PROVE CancelKnown(q)'
    BY DEF CancelsOfLines
  <2>1. CASE q = r
    <3>1. ASSUME pc = "served"
          PROVE  /\ line[r].id \in Lines /\ Kind(line[r].id) = "subscribe" /\ line[line[r].id].pc \in Served
                 /\ \A s \in subs' : s.id = line[r].id => s.conn # line[r].conn
      <4>1. sub \in subs /\ subs' = subs \ {sub} /\ sub.id = line[r].id /\ sub.conn = line[r].conn
        BY <1>1, <3>1
      <4>2. line[r].id \in Lines /\ Kind(line[r].id) = "subscribe" /\ line[line[r].id].pc \in Served
        BY <4>1 DEF BridgeIInv, BridgeTypes, SubsOfLines
      <4>3. ASSUME NEW s \in subs, s.id = line[r].id, s.conn = line[r].conn PROVE s = sub
        BY <4>3 DEF BridgeIInv, BridgeTypes
      <4>4. QED
        BY <4>1, <4>2, <4>3
    <3>2. QED
      BY <1>2, <1>3, <1>5, <1>6, <2>1, <3>1 DEF CancelKnown
  <2>2. CASE q # r
    <3>1. CancelKnown(q) /\ line'[q] = line[q] /\ Kind(q)' = Kind(q)
      BY <1>5, <1>6, <2>2 DEF BridgeIInv, CancelsOfLines
    <3>2. QED
      BY <1>6, <1>7, <3>1 DEF CancelKnown
  <2>3. QED
    BY <2>1, <2>2
<1>9. Calm' /\ ErrorsTold'
  <2>1. ErrorsTold'
    BY <1>2 DEF BridgeIInv, ErrorsTold, readers, told_
  <2>2. \A q \in Lines : Kind(q)' = "subscribe" => line'[q] = line[q]
    BY <1>2, <1>5, <1>6
  <2>3. Calm'
    BY <1>2, <1>6, <1>7, <2>2 DEF BridgeIInv, Calm, RestartDue, bus, readers, told_
  <2>4. QED
    BY <2>1, <2>3
<1>10. OwnedUntilCancelled'
  BY <1>2, <1>6, <1>7
  DEF BridgeIInv, BridgeTypes, OwnedUntilCancelled, SubsOfLines, RestartDue, Running, readers, told_
<1>11. QED
  BY <1>5, <1>7, <1>8, <1>9, <1>10 DEF BridgeIInv

-----------------------------------------------------------------------------
(* The steps of the readers *)

\* A reader that takes no client: the types, from its own.
LEMMA ReaderTypes ==
  ASSUME BridgeTypes,
         forwarder' \in [pc : {"start", "connecting", "matched", "reading", "reset", "report",
                               "invalidate", "over"},
                         conn : 0..made', error : {"none"} \cup Errors],
         watcher' \in [pc : {"start", "watching", "reset", "report", "over"}, conn : 0..made',
                       seen : 0..replaced'],
         lastError' \in {"none"} \cup Errors, ready' \in BOOLEAN, told' \in BOOLEAN,
         current' \in 0..made', tracked' \subseteq Lines,
         made' \in 0..MaxClients, made <= made',
         UNCHANGED <<main, output, broken, replaced, line, subs>>,
         cleanup' \in [ids : SUBSET Lines, asked : SUBSET Lines, done : BOOLEAN]
  PROVE  BridgeTypes'
<1>1. LineTypes \subseteq LineTypes'
  BY WiderTypes DEF LineTypes
<1>2. line' \in [Lines -> LineTypes']
  BY <1>1 DEF BridgeTypes
<1>3. broken' \subseteq 1..made' /\ subs' \subseteq [id : Lines, conn : 1..made']
  BY WiderTypes
<1>4. QED
  BY <1>2, <1>3 DEF BridgeTypes

\* The event forwarder, apart from its client.
LEMMA ForwarderStep ==
  ASSUME BridgeIInv,
         \/ ForwarderStarts \/ ForwarderReady \/ ForwarderFails \/ ForwarderResets
         \/ ForwarderReports \/ ForwarderInvalidates
  PROVE  BridgeIInv'
<1>1. /\ UNCHANGED <<main, output, made, broken, replaced, watcher, line, subs, cleanup>>
      /\ tracked' \in {tracked, {}} /\ told' \in {told, told \/ output = "up"}
      /\ lastError' \in {lastError, forwarder.error}
      /\ current' \in {current, 0} /\ ready' \in {TRUE, FALSE, ready}
  BY DEF ForwarderStarts, ForwarderReady, ForwarderFails, ForwarderResets, ForwarderReports,
         ForwarderInvalidates, Forwarder, Invalidate, Write, Report, bus, readers, told_
<1> DEFINE Places == {"start", "connecting", "matched", "reading", "reset", "report", "invalidate", "over"}
<1>2. PICK pc \in Places, client \in {0, forwarder.conn}, error \in {forwarder.error} \cup Errors :
        /\ forwarder' = [pc |-> pc, conn |-> client, error |-> error]
        /\ pc = "reset" => error \in Errors
        /\ pc # "reset" => error = forwarder.error /\ client = forwarder.conn
  <2> DEFINE new == forwarder'
  <2>1. forwarder \in [pc : Places, conn : 0..made, error : {"none"} \cup Errors]
    BY DEF BridgeIInv, BridgeTypes
  <2>2. ASSUME NEW to \in Places \ {"reset"}, forwarder' = [forwarder EXCEPT !.pc = to]
        PROVE  forwarder' = [pc |-> to, conn |-> forwarder.conn, error |-> forwarder.error]
    BY <2>1, <2>2
  <2>3. ASSUME NEW error \in Errors,
               forwarder' = [forwarder EXCEPT !.pc = "reset", !.conn = 0, !.error = error]
        PROVE  forwarder' = [pc |-> "reset", conn |-> 0, error |-> error]
    BY <2>1, <2>3
  <2>4. CASE ForwarderFails
    BY <2>3, <2>4 DEF ForwarderFails, Errors
  <2>5. CASE ~ForwarderFails
    <3>1. PICK to \in Places \ {"reset"} : forwarder' = [forwarder EXCEPT !.pc = to]
      BY <2>5 DEF ForwarderStarts, ForwarderReady, ForwarderResets, ForwarderReports,
                  ForwarderInvalidates, Forwarder
    <3>2. QED
      BY <2>2, <3>1
  <2>6. QED
    BY <2>4, <2>5
<1>3. /\ forwarder'.pc = pc /\ forwarder'.conn = client /\ forwarder'.error = error
  BY <1>2
<1>4. BridgeTypes'
  <2>1. forwarder' \in [pc : Places, conn : 0..made', error : {"none"} \cup Errors]
    BY <1>1, <1>2, BridgeConstants DEF BridgeIInv, BridgeTypes
  <2>2. lastError' \in {"none"} \cup Errors /\ current' \in 0..made'
    BY <1>1, BridgeConstants DEF BridgeIInv, BridgeTypes
  <2>3. tracked' \subseteq Lines /\ ready' \in BOOLEAN /\ told' \in BOOLEAN
    BY <1>1 DEF BridgeIInv, BridgeTypes
  <2>4. /\ made' \in 0..MaxClients /\ made <= made'
        /\ watcher' \in [pc : {"start", "watching", "reset", "report", "over"}, conn : 0..made',
                        seen : 0..replaced']
        /\ cleanup' \in [ids : SUBSET Lines, asked : SUBSET Lines, done : BOOLEAN]
    BY <1>1, BridgeConstants DEF BridgeIInv, BridgeTypes
  <2>5. QED
    BY <1>1, <2>1, <2>2, <2>3, <2>4, ReaderTypes DEF BridgeIInv
<1>5. SlotsCoverLines' /\ SubsOfLines' /\ CancelsOfLines' /\ CleanupKnows'
  BY <1>1, LinesFrame, CleanupFrame
<1>6. ErrorsTold'
  <2>1. CASE ForwarderReports
    BY <2>1, <1>1, <1>2, <1>3 DEF ForwarderReports, Forwarder, Report, BridgeIInv, ErrorsTold, Errors
  <2>2. CASE ForwarderResets
    BY <2>2, <1>1, <1>2, <1>3 DEF ForwarderResets, Forwarder, BridgeIInv, ErrorsTold, told_
  <2>3. CASE ForwarderFails
    BY <2>3, <1>1, <1>2, <1>3 DEF ForwarderFails, BridgeIInv, ErrorsTold, told_
  <2>4. CASE ForwarderStarts \/ ForwarderReady \/ ForwarderInvalidates
    BY <2>4, <1>1, <1>2, <1>3
    DEF ForwarderStarts, ForwarderReady, ForwarderInvalidates, Forwarder, BridgeIInv, ErrorsTold, told_
  <2>5. QED
    BY <2>1, <2>2, <2>3, <2>4
<1>7. output = "up" /\ RestartDue => RestartDue'
  <2>1. CASE ForwarderReports
    BY <2>1, <1>1, <1>3 DEF ForwarderReports, Forwarder, Report, RestartDue, BridgeIInv, ErrorsTold, Errors
  <2>2. CASE ForwarderResets
    BY <2>2, <1>1, <1>3 DEF ForwarderResets, Forwarder, RestartDue
  <2>3. CASE ForwarderFails
    BY <2>3, <1>1, <1>2, <1>3 DEF ForwarderFails, RestartDue
  <2>4. CASE ForwarderStarts \/ ForwarderReady \/ ForwarderInvalidates
    BY <2>4, <1>1 DEF ForwarderStarts, ForwarderReady, ForwarderInvalidates, Forwarder, RestartDue, told_
  <2>5. QED
    BY <2>1, <2>2, <2>3, <2>4
<1>8. Calm'
  <2> SUFFICES ASSUME output = "up", ~RestartDue' PROVE Calm'
    BY <1>1 DEF Calm
  <2>1. Calm /\ ~RestartDue
    BY <1>7 DEF BridgeIInv
  <2>2. ForwarderStarts \/ ForwarderReady
    <3>1. ~ForwarderFails
      BY DEF ForwarderFails, RestartDue, BridgeIInv, BridgeTypes
    <3>2. ~ForwarderResets /\ ~ForwarderReports /\ ~ForwarderInvalidates
      BY <2>1 DEF Calm, ForwarderResets, ForwarderReports, ForwarderInvalidates, Forwarder
    <3>3. QED
      BY <3>1, <3>2
  <2>3. CASE ForwarderStarts
    BY <1>1, <2>1, <2>3 DEF ForwarderStarts, Forwarder, Calm, BridgeIInv, BridgeTypes, Kind, told_
  <2>4. CASE ForwarderReady
    BY <1>1, <2>1, <2>4 DEF ForwarderReady, Forwarder, Calm, BridgeIInv, BridgeTypes, Kind, told_
  <2>5. QED
    BY <2>2, <2>3, <2>4
<1>9. OwnedUntilCancelled'
  <2>1. output = "up" /\ ~RestartDue' => tracked' = tracked
    <3>1. ForwarderResets => output # "up" \/ RestartDue'
      BY DEF ForwarderResets, Forwarder, RestartDue, BridgeIInv, BridgeTypes
    <3>2. ~ForwarderResets => tracked' = tracked
      BY DEF ForwarderStarts, ForwarderReady, ForwarderFails, ForwarderReports,
             ForwarderInvalidates, Forwarder, told_
    <3>3. QED
      BY <3>1, <3>2
  <2>2. QED
    BY <1>1, <1>7, <2>1, OwnedFrame
<1>10. QED
  BY <1>4, <1>5, <1>6, <1>8, <1>9 DEF BridgeIInv

\* The owner watcher, apart from its client.
LEMMA WatcherStep ==
  ASSUME BridgeIInv, WatcherFails \/ WatcherInvalidates \/ WatcherResets \/ WatcherReports
  PROVE  BridgeIInv'
<1>1. /\ UNCHANGED <<main, output, made, broken, replaced, forwarder, lastError, line, subs, cleanup>>
      /\ tracked' \in {tracked, {}} /\ told' \in {told, told \/ output = "up"}
      /\ current' \in {current, 0} /\ ready' \in {FALSE, ready}
      /\ \E pc \in {"start", "reset", "report", "over"} : watcher' = [watcher EXCEPT !.pc = pc]
  BY DEF WatcherFails, WatcherInvalidates, WatcherResets, WatcherReports, Invalidate, Write, Report,
         bus, readers, told_
<1>2. BridgeTypes'
  <2>1. watcher' \in [pc : {"start", "watching", "reset", "report", "over"}, conn : 0..made',
                      seen : 0..replaced']
    BY <1>1 DEF BridgeIInv, BridgeTypes
  <2>2. lastError' \in {"none"} \cup Errors /\ current' \in 0..made'
    BY <1>1, BridgeConstants DEF BridgeIInv, BridgeTypes
  <2>3. tracked' \subseteq Lines /\ ready' \in BOOLEAN /\ told' \in BOOLEAN
    BY <1>1 DEF BridgeIInv, BridgeTypes
  <2>4. /\ made' \in 0..MaxClients /\ made <= made'
        /\ forwarder' \in [pc : {"start", "connecting", "matched", "reading", "reset", "report",
                               "invalidate", "over"},
                         conn : 0..made', error : {"none"} \cup Errors]
        /\ cleanup' \in [ids : SUBSET Lines, asked : SUBSET Lines, done : BOOLEAN]
    BY <1>1, BridgeConstants DEF BridgeIInv, BridgeTypes
  <2>5. QED
    BY <1>1, <2>1, <2>2, <2>3, <2>4, ReaderTypes DEF BridgeIInv
<1>3. SlotsCoverLines' /\ SubsOfLines' /\ CancelsOfLines' /\ CleanupKnows'
  BY <1>1, LinesFrame, CleanupFrame
<1>4. ErrorsTold'
  BY <1>1 DEF BridgeIInv, ErrorsTold
<1>5. output = "up" /\ RestartDue => RestartDue'
  BY <1>1 DEF WatcherFails, WatcherInvalidates, WatcherResets, WatcherReports, Report, RestartDue,
              BridgeIInv, BridgeTypes
<1>6. output = "up" /\ ~RestartDue' => WatcherFails
  BY <1>1, <1>5 DEF WatcherInvalidates, WatcherResets, WatcherReports, Report, RestartDue,
              BridgeIInv, BridgeTypes
<1>7. Calm'
  <2> SUFFICES ASSUME output = "up", ~RestartDue' PROVE Calm'
    BY <1>1 DEF Calm
  <2>1. Calm /\ ~RestartDue /\ WatcherFails
    BY <1>5, <1>6 DEF BridgeIInv
  <2>2. QED
    BY <2>1 DEF WatcherFails, Calm, BridgeIInv, BridgeTypes, Kind, told_, bus
<1>8. OwnedUntilCancelled'
  <2>1. output = "up" /\ ~RestartDue' => tracked' = tracked
    BY <1>6 DEF WatcherFails, told_
  <2>2. QED
    BY <1>1, <1>5, <2>1, OwnedFrame
<1>9. QED
  BY <1>2, <1>3, <1>4, <1>7, <1>8 DEF BridgeIInv

\* A reader takes the client, as the cleanup does.
LEMMA ConnectStep ==
  ASSUME BridgeIInv, ForwarderConnects \/ WatcherConnects \/ QueryActive
  PROVE  BridgeIInv'
<1>1. PICK k \in 1..MaxClients : Get(k) /\
        \/ /\ forwarder.pc = "connecting" /\ forwarder' = [forwarder EXCEPT !.pc = "matched", !.conn = k]
           /\ UNCHANGED <<watcher, cleanup>>
        \/ /\ watcher.pc = "start" /\ watcher' = [pc |-> "watching", conn |-> k, seen |-> replaced]
           /\ UNCHANGED <<forwarder, cleanup>>
        \/ /\ main = "cleaning" /\ cleanup' = [cleanup EXCEPT !.ids = tracked, !.done = (tracked = {})]
           /\ cleanup.asked = {} /\ UNCHANGED <<forwarder, watcher>>
  BY DEF ForwarderConnects, WatcherConnects, QueryActive, readers
<1>2. UNCHANGED <<main, output, broken, replaced, ready, lastError, line, subs, tracked, told>>
  BY DEF ForwarderConnects, WatcherConnects, QueryActive, readers, told_
<1>3. /\ made' \in 0..MaxClients /\ made <= made' /\ k \in 1..made' /\ current' = k
      /\ made' = made \/ (current = 0 /\ made' = made + 1 /\ k = made')
  BY <1>1, GetFacts DEF BridgeIInv
<1>4. BridgeTypes'
  <2>1. 0..made \subseteq 0..made' /\ k \in 0..made' /\ replaced \in 0..replaced'
    BY <1>2, <1>3, WiderTypes, BridgeConstants DEF BridgeIInv, BridgeTypes
  <2>2. forwarder' \in [pc : {"start", "connecting", "matched", "reading", "reset", "report",
                               "invalidate", "over"},
                         conn : 0..made', error : {"none"} \cup Errors]
    BY <1>1, <2>1 DEF BridgeIInv, BridgeTypes
  <2>3. watcher' \in [pc : {"start", "watching", "reset", "report", "over"}, conn : 0..made',
                       seen : 0..replaced']
    BY <1>1, <1>2, <2>1 DEF BridgeIInv, BridgeTypes
  <2>4. cleanup' \in [ids : SUBSET Lines, asked : SUBSET Lines, done : BOOLEAN]
    BY <1>1 DEF BridgeIInv, BridgeTypes
  <2>5. current' \in 0..made' /\ made' \in 0..MaxClients /\ made <= made'
    BY <1>3
  <2>6. /\ lastError' \in {"none"} \cup Errors /\ ready' \in BOOLEAN /\ told' \in BOOLEAN
        /\ tracked' \subseteq Lines
    BY <1>2 DEF BridgeIInv, BridgeTypes
  <2>7. QED
    BY <1>2, <2>2, <2>3, <2>4, <2>5, <2>6, ReaderTypes DEF BridgeIInv
<1>5. SlotsCoverLines' /\ SubsOfLines' /\ CancelsOfLines'
  BY <1>2, LinesFrame
<1> DEFINE Due == {"reset", "report"}
<1>6. ErrorsTold' /\ (RestartDue' <=> RestartDue)
  <2>1. /\ forwarder'.error = forwarder.error
        /\ forwarder'.pc \in Due <=> forwarder.pc \in Due
        /\ watcher'.pc \in Due <=> watcher.pc \in Due
    <3>1. CASE forwarder' = [forwarder EXCEPT !.pc = "matched", !.conn = k] /\ forwarder.pc = "connecting" /\ watcher' = watcher
      BY <3>1 DEF BridgeIInv, BridgeTypes
    <3>2. CASE watcher' = [pc |-> "watching", conn |-> k, seen |-> replaced] /\ watcher.pc = "start" /\ forwarder' = forwarder
      BY <3>2
    <3>3. CASE forwarder' = forwarder /\ watcher' = watcher
      BY <3>3
    <3>4. QED
      BY <1>1, <3>1, <3>2, <3>3
  <2>2. QED
    BY <1>2, <2>1 DEF BridgeIInv, ErrorsTold, RestartDue
<1>7. Calm'
  <2> SUFFICES ASSUME output = "up", ~RestartDue' PROVE Calm'
    BY <1>2 DEF Calm
  <2>1. Calm /\ ~RestartDue
    BY <1>6 DEF BridgeIInv
  <2>2. made' = 1 /\ current' = 1 /\ k = 1
    BY <1>3, <2>1 DEF Calm, BridgeIInv, BridgeTypes
  <2>3. /\ forwarder'.pc \in {"start", "connecting", "matched", "reading"}
        /\ forwarder'.pc \in {"matched", "reading"} => forwarder'.conn = 1
        /\ watcher'.pc \in {"start", "watching"}
        /\ forwarder.pc = "reading" => forwarder'.pc = "reading"
    <3>1. CASE forwarder' = [forwarder EXCEPT !.pc = "matched", !.conn = k] /\ forwarder.pc = "connecting" /\ watcher' = watcher
      BY <2>1, <2>2, <3>1 DEF Calm, BridgeIInv, BridgeTypes
    <3>2. CASE watcher' = [pc |-> "watching", conn |-> k, seen |-> replaced] /\ forwarder' = forwarder
      BY <2>1, <3>2 DEF Calm
    <3>3. CASE forwarder' = forwarder /\ watcher' = watcher
      BY <2>1, <3>3 DEF Calm
    <3>4. QED
      BY <1>1, <3>1, <3>2, <3>3
  <2>4. QED
    BY <1>2, <2>1, <2>2, <2>3 DEF Calm, Kind
<1>8. OwnedUntilCancelled'
  BY <1>2, <1>6, OwnedFrame
<1>9. CleanupKnows'
  <2>1. CASE cleanup' = cleanup
    BY <1>2, <2>1, CleanupFrame
  <2>2. CASE main = "cleaning" /\ cleanup' = [cleanup EXCEPT !.ids = tracked, !.done = (tracked = {})]
    BY <1>2, <2>2 DEF BridgeIInv, BridgeTypes, CleanupKnows, LiveLines
  <2>3. QED
    BY <1>1, <2>1, <2>2
<1>10. QED
  BY <1>4, <1>5, <1>6, <1>7, <1>8, <1>9 DEF BridgeIInv

-----------------------------------------------------------------------------
(* The steps of the end *)

\* Every task has ended, or is aborted.
LEMMA BridgeDrainStep ==
  ASSUME BridgeIInv, DrainBridge
  PROVE  BridgeIInv'
<1>1. /\ main = "draining" /\ main' = "cleaning"
      /\ UNCHANGED <<output, bus, readers, subs, told_, cleanup>>
  BY DEF DrainBridge
<1>2. /\ \A q \in Lines : /\ line'[q] \in LineTypes /\ line'[q].kind = line[q].kind
                          /\ line'[q].conn = line[q].conn
                          /\ line'[q].pc = line[q].pc \/ line'[q].pc = "aborted"
                          /\ line'[q].pc \in {"none", "over", "aborted"}
      /\ line' = [q \in Lines |-> line'[q]]
  <2>1. CASE LiveLines = {} /\ UNCHANGED line
    BY <2>1 DEF BridgeIInv, BridgeTypes, LiveLines
  <2>2. CASE line' = [q \in Lines |->
                        IF q \in LiveLines THEN [line[q] EXCEPT !.pc = "aborted"] ELSE line[q]]
    <3> SUFFICES ASSUME NEW q \in Lines
                 PROVE  /\ line'[q] \in LineTypes /\ line'[q].kind = line[q].kind
                        /\ line'[q].conn = line[q].conn
                        /\ line'[q].pc = line[q].pc \/ line'[q].pc = "aborted"
                        /\ line'[q].pc \in {"none", "over", "aborted"}
      BY <2>2
    <3>1. line[q] \in LineTypes
      BY DEF BridgeIInv, BridgeTypes
    <3>2. QED
      BY <2>2, <3>1 DEF LineTypes, LinePlaces, LiveLines
  <2>3. QED
    BY <2>1, <2>2 DEF DrainBridge
<1>3. BridgeTypes'
  <2>1. line' \in [Lines -> LineTypes] /\ LineTypes' = LineTypes
    BY <1>1, <1>2 DEF LineTypes, bus
  <2>2. QED
    BY <1>1, <2>1 DEF BridgeIInv, BridgeTypes, bus, readers, told_
<1>4. SlotsCoverLines'
  BY <1>2, SlotsNotTaken DEF BridgeIInv
<1>5. SubsOfLines'
  BY <1>1, <1>2 DEF BridgeIInv, BridgeTypes, SubsOfLines, Served, Kind, bus
<1>6. CancelsOfLines'
  BY <1>2 DEF CancelsOfLines, CancelKnown
<1>7. Calm' /\ ErrorsTold'
  <2>1. ErrorsTold'
    BY <1>1 DEF BridgeIInv, ErrorsTold, readers, told_
  <2>2. Calm'
    BY <1>1, <1>2 DEF BridgeIInv, Calm, RestartDue, Kind, bus, readers, told_
  <2>3. QED
    BY <2>1, <2>2
<1>8. OwnedUntilCancelled'
  BY <1>1, <1>2
  DEF BridgeIInv, BridgeTypes, OwnedUntilCancelled, RestartDue, Running, readers, told_
<1>9. CleanupKnows'
  BY <1>1, <1>2 DEF BridgeIInv, CleanupKnows, LiveLines, told_
<1>10. QED
  BY <1>3, <1>4, <1>5, <1>6, <1>7, <1>8, <1>9 DEF BridgeIInv

\* The cleanup asks for the next id.
LEMMA CancelActiveStep ==
  ASSUME BridgeIInv, NEW r \in Lines, CancelActive(r)
  PROVE  BridgeIInv'
<1>1. /\ main = "cleaning" /\ r \in cleanup.ids
      /\ cleanup' = [ids |-> cleanup.ids \ {r}, asked |-> cleanup.asked \cup {r},
                     done |-> cleanup.ids = {r}]
      /\ UNCHANGED <<main, output, bus, readers, line, subs, told_>>
  BY DEF CancelActive
<1>2. BridgeTypes'
  <2>1. cleanup' \in [ids : SUBSET Lines, asked : SUBSET Lines, done : BOOLEAN]
    BY <1>1 DEF BridgeIInv, BridgeTypes
  <2>2. QED
    BY <1>1, <2>1 DEF BridgeIInv, BridgeTypes, LineTypes, bus, readers, told_
<1>3. SlotsCoverLines' /\ SubsOfLines' /\ CancelsOfLines'
  BY <1>1, LinesFrame DEF bus
<1>4. Calm' /\ ErrorsTold'
  BY <1>1 DEF BridgeIInv, Calm, ErrorsTold, RestartDue, Kind, bus, readers, told_
<1>5. OwnedUntilCancelled'
  BY <1>1, OwnedFrame DEF RestartDue, readers, told_
<1>6. CleanupKnows'
  BY <1>1 DEF BridgeIInv, CleanupKnows, LiveLines, told_
<1>7. QED
  BY <1>2, <1>3, <1>4, <1>5, <1>6 DEF BridgeIInv

-----------------------------------------------------------------------------
(* The invariant *)

\* Every step of the bridge keeps its invariant.
LEMMA NextBridgeIInv == BridgeIInv /\ [BridgeNext]_bridgeVars => BridgeIInv'
<1> SUFFICES ASSUME BridgeIInv, [BridgeNext]_bridgeVars PROVE BridgeIInv'
  OBVIOUS
<1>1. CASE EndInput \/ OutputEnds \/ EndCleanup \/ Return
  BY <1>1, MainStep
<1>2. CASE ReplaceDaemon
  BY <1>2, ReplaceStep
<1>3. CASE \E k \in 1..made : BreakConnection(k)
  BY <1>3, BreakStep
<1>4. ASSUME NEW r \in Lines,
             \/ AcceptLine(r) \/ Begin(r) \/ Send(r) \/ DaemonSubscribes(r) \/ DaemonCancels(r)
             \/ Answer(r) \/ Timers(r) \/ CancelActive(r)
      PROVE  BridgeIInv'
  <2>1. CASE AcceptLine(r)
    BY <2>1, BridgeAcceptStep
  <2>2. CASE Begin(r)
    BY <2>2, BeginStep
  <2>3. CASE Send(r)
    BY <2>3, SendStep
  <2>4. CASE DaemonSubscribes(r)
    BY <2>4, SubscribeStep
  <2>5. CASE DaemonCancels(r)
    BY <2>5, UnsubscribeStep
  <2>6. CASE AnswerCancel(r)
    BY <2>6, CancelStep
  <2>7. CASE AnswerCall(r) \/ AnswerSubscribe(r) \/ AnswerError(r) \/ Timeout(r) \/ Reject(r) \/ Abort(r)
    BY <2>7, EndStep
  <2>8. CASE CancelActive(r)
    BY <2>8, CancelActiveStep
  <2>9. QED
    BY <1>4, <2>1, <2>2, <2>3, <2>4, <2>5, <2>6, <2>7, <2>8 DEF Answer, Timers
<1>5. CASE Tasks
  BY <1>5, ForwarderStep, WatcherStep, ConnectStep DEF Tasks
<1>6. CASE DrainBridge
  BY <1>6, BridgeDrainStep
<1>7. CASE QueryActive
  BY <1>7, ConnectStep
<1>8. CASE UNCHANGED bridgeVars
  <2>1. UNCHANGED <<main, output, bus, readers, line, subs, told_, cleanup>>
    BY <1>8 DEF bridgeVars, bus, readers, told_
  <2>2. BridgeTypes'
    BY <2>1 DEF BridgeIInv, BridgeTypes, LineTypes, bus, readers, told_
  <2>3. SlotsCoverLines' /\ SubsOfLines' /\ CancelsOfLines'
    BY <2>1, LinesFrame DEF bus
  <2>4. Calm' /\ ErrorsTold'
    BY <2>1 DEF BridgeIInv, Calm, ErrorsTold, RestartDue, Kind, bus, readers, told_
  <2>5. OwnedUntilCancelled' /\ CleanupKnows'
    BY <2>1, OwnedFrame, CleanupFrame DEF RestartDue, readers, told_
  <2>6. QED
    BY <2>2, <2>3, <2>4, <2>5 DEF BridgeIInv
<1>9. QED
  BY <1>1, <1>2, <1>3, <1>4, <1>5, <1>6, <1>7, <1>8 DEF BridgeNext

\* The invariant gives what the runs check.
LEMMA BridgeIInvKept == BridgeIInv => SubscriptionsKept
<1> SUFFICES ASSUME BridgeIInv PROVE SubscriptionsKept
  OBVIOUS
<1>1. BridgeTypeOK
  <2>1. \A r \in Lines : line[r].conn \in 0..made /\ line[r].ids \subseteq Lines
    BY DEF BridgeIInv, BridgeTypes, LineTypes
  <2>2. \A lane \in {"calls", "controls"} : Cardinality(InLane(lane)) <= SlotsOf(lane)
    BY DEF BridgeIInv, SlotsCoverLines
  <2>3. /\ forwarder.conn \in 0..made /\ watcher.conn \in 0..made /\ watcher.seen \in 0..replaced
        /\ cleanup.ids \cup cleanup.asked \subseteq Lines
    BY DEF BridgeIInv, BridgeTypes
  <2>4. QED
    BY <2>1, <2>2, <2>3 DEF BridgeIInv, BridgeTypes, BridgeTypeOK
<1>2. SubscriptionsHeard
  <2> SUFFICES ASSUME output = "up", NEW s \in subs, ~RestartDue
               PROVE  forwarder.pc = "reading" /\ forwarder.conn = s.conn
    BY DEF SubscriptionsHeard
  <2>1. made <= 1 /\ forwarder.pc = "reading" /\ forwarder.conn = 1
    BY DEF BridgeIInv, Calm
  <2>2. s.conn \in 1..made /\ made \in Nat
    BY BridgeConstants DEF BridgeIInv, BridgeTypes
  <2>3. QED
    BY <2>1, <2>2
<1>3. CleanupCoversTracked
  BY DEF BridgeIInv, CleanupKnows, CleanupCoversTracked
<1>4. QED
  BY <1>1, <1>2, <1>3 DEF BridgeIInv, SubscriptionsKept

\* An acknowledged subscription is heard and owned, or the frontend knows that it is
\* lost, through every replacement of the client, and a cleanup that completes has
\* asked for every id (jsonl.rs, ReconnectingClient, cancel_active; README.md).
THEOREM SubscriptionsTheorem == BridgeSpec => []SubscriptionsKept
<1>1. BridgeInit => BridgeIInv
  BY InitBridgeIInv
<1>2. BridgeIInv /\ [BridgeNext]_bridgeVars => BridgeIInv'
  BY NextBridgeIInv
<1>3. BridgeIInv => SubscriptionsKept
  BY BridgeIInvKept
<1>4. QED
  BY <1>1, <1>2, <1>3, PTL DEF BridgeSpec, BridgeSafety
=============================================================================
