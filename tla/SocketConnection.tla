--------------------------- MODULE SocketConnection ---------------------------
(***************************************************************************)
(* SocketConnection (socket.rs, writer.rs): a listener that serves local   *)
(* connections.  A connection reads requests into slots; each accepted one *)
(* is two tasks, the detached work that dispatches it and a waiter that    *)
(* replies with its result or at a deadline.  The connection ends when its *)
(* reader, its writer, the listener or its own session says so, and then   *)
(* calls the service's disconnected; work that outlives it calls that      *)
(* again, and so does a guard when the connection's future is dropped.     *)
(*                                                                         *)
(* The output actor is OutputActor; here it takes commands, stalls on its  *)
(* peer, or has ended.  The service is external: dispatch may leave an     *)
(* effect (a subscription, an operation) that disconnected takes away.     *)
(***************************************************************************)
EXTENDS Naturals, FiniteSets

CONSTANTS
  Connections, Requests,
  Kinds,            \* kinds of requests the clients send
  MaxConnections,   \* max_connections
  MaxCalls,         \* max_in_flight_requests
  MaxControls       \* CONTROL_CAPACITY

ASSUME SocketConstants ==
  /\ IsFiniteSet(Connections) /\ "none" \notin Connections
  /\ IsFiniteSet(Requests)
  /\ Kinds \subseteq {"call", "subscribe", "cancel", "release"}
  /\ MaxConnections \in Nat /\ MaxCalls \in Nat /\ MaxControls \in Nat

VARIABLES
  serve,     \* the accept loop
  capacity,  \* permits of the connections' semaphore
  conn,      \* per connection, where its future is
  closed,    \* per connection, the watch of its session
  writer,    \* per connection, the output actor with its DeadlineWriter
  guard,     \* per connection, the task DisconnectGuard spawned
  slots,     \* per connection and lane, permits of RequestSlots
  request,   \* per request, its connection and kind once it is read
  work,      \* per request, the detached task
  reply,     \* per request, the task that waits for the work and replies
  effects    \* per connection, the requests whose effects are in place

socketVars == <<serve, capacity, conn, closed, writer, guard, slots, request, work, reply, effects>>
listener == <<serve, capacity>>
connection == <<conn, closed, writer, guard>>
requests == <<slots, request, work, reply>>

LaneOf(kind) == IF kind \in {"call", "subscribe"} THEN "calls" ELSE "controls"
Limit == [lane \in {"calls", "controls"} |-> IF lane = "calls" THEN MaxCalls ELSE MaxControls]
None == [conn |-> "none", kind |-> "none"]

SocketInit ==
  /\ serve = "serving" /\ capacity = MaxConnections
  /\ conn = [c \in Connections |-> "none"] /\ closed = [c \in Connections |-> FALSE]
  /\ writer = [c \in Connections |-> "up"] /\ guard = [c \in Connections |-> "none"]
  /\ slots = [c \in Connections |-> Limit]
  /\ request = [r \in Requests |-> None]
  /\ work = [r \in Requests |-> "none"] /\ reply = [r \in Requests |-> "none"]
  /\ effects = [c \in Connections |-> {}]

Conn(r) == request[r].conn
RequestsOf(c) == {r \in Requests : Conn(r) = c}
IsControl(r) == request[r].kind # "call"
Reading == {"reading", "draining", "barrier"}
Ended == {"none", "aborted", "over"}
ConnMoves(c, from, to) == conn[c] \in from /\ conn' = [conn EXCEPT ![c] = to]
WorkMoves(r, from, to) == work[r] = from /\ work' = [work EXCEPT ![r] = to]
Close(c) == closed' = [closed EXCEPT ![c] = TRUE]

-----------------------------------------------------------------------------
(* serve *)

\* Without a permit the stream is dropped, and stays an unconnected one here.
Accept(c) ==
  /\ serve = "serving" /\ capacity > 0
  /\ ConnMoves(c, {"none"}, "reading") /\ capacity' = capacity - 1
  /\ UNCHANGED <<serve, closed, writer, guard, requests, effects>>

\* The shutdown future, or an error of accept.
StopServing ==
  /\ serve = "serving" /\ serve' = "stopping"
  /\ UNCHANGED <<capacity, connection, requests, effects>>

\* The future of serve is dropped, and with it the JoinSet of connections.
DropServe ==
  /\ serve \in {"serving", "stopping"} /\ serve' = "dropped"
  /\ UNCHANGED <<capacity, connection, requests, effects>>

ServeReturns ==
  /\ serve = "stopping" /\ \A c \in Connections : conn[c] \in Ended
  /\ serve' = "over"
  /\ UNCHANGED <<capacity, connection, requests, effects>>

-----------------------------------------------------------------------------
(* The reader of a connection *)

\* Mutant: a slot is looked at and not taken.
AcquireChecks(c, lane) == slots[c][lane] > 0 /\ UNCHANGED slots

Acquire(c, lane) ==
  slots[c][lane] > 0 /\ slots' = [slots EXCEPT ![c][lane] = @ - 1]

\* A request that is accepted; without a slot it is rejected and leaves nothing.
Read(c, r) ==
  /\ conn[c] = "reading" /\ request[r] = None
  /\ \E kind \in Kinds :
       Acquire(c, LaneOf(kind)) /\ request' = [request EXCEPT ![r] = [conn |-> c, kind |-> kind]]
  /\ work' = [work EXCEPT ![r] = "spawned"] /\ reply' = [reply EXCEPT ![r] = "waiting"]
  /\ UNCHANGED <<listener, connection, effects>>

ReadShutdown(c) ==
  /\ ConnMoves(c, {"reading"}, "draining")
  /\ UNCHANGED <<listener, closed, writer, guard, requests, effects>>

Replying(c) == {r \in RequestsOf(c) : reply[r] \in {"waiting", "sending"}}

\* Mutant: only the replies that are ready are collected.
DrainReady(c) ==
  /\ \E r \in RequestsOf(c) : reply[r] = "over"
  /\ ConnMoves(c, {"draining"}, "barrier")
  /\ UNCHANGED <<listener, closed, writer, guard, requests, effects>>

\* Every call has been joined; the Shutdown reply goes behind their replies.
Drain(c) ==
  /\ Replying(c) = {}
  /\ ConnMoves(c, {"draining"}, "barrier")
  /\ UNCHANGED <<listener, closed, writer, guard, requests, effects>>

-----------------------------------------------------------------------------
(* The work and the reply of a request *)

\* dispatch refuses once the session is closed; otherwise the service is called.
Dispatch(r) ==
  /\ WorkMoves(r, "spawned", IF closed[Conn(r)] THEN "checking" ELSE "running")
  /\ UNCHANGED <<listener, connection, slots, request, reply, effects>>

\* The service registers something for the session's owner.
Effect(r) ==
  /\ work[r] = "running" /\ effects' = [effects EXCEPT ![Conn(r)] = @ \cup {r}]
  /\ UNCHANGED <<listener, connection, requests>>

\* The service returns, fails or panics (catch_task).
WorkEnds(r) ==
  /\ WorkMoves(r, "running", "checking")
  /\ UNCHANGED <<listener, connection, slots, request, reply, effects>>

\* A call that is not yet polled by disconnected has no effect: it clears what is
\* there when it starts.
Disconnects(c) == effects' = [effects EXCEPT ![c] = {}]

\* Mutant: work that outlives its connection leaves the cleanup to it.
CheckClosedForgets(r) ==
  /\ WorkMoves(r, "checking", "ending")
  /\ UNCHANGED <<listener, connection, slots, request, reply, effects>>

CheckClosed(r) ==
  /\ IF closed[Conn(r)]
     THEN WorkMoves(r, "checking", "disconnecting") /\ Disconnects(Conn(r))
     ELSE WorkMoves(r, "checking", "ending") /\ UNCHANGED effects
  /\ UNCHANGED <<listener, connection, slots, request, reply>>

WorkDisconnected(r) ==
  /\ WorkMoves(r, "disconnecting", "ending")
  /\ UNCHANGED <<listener, connection, slots, request, reply, effects>>

\* The permit is dropped with the future, which also wakes the waiter.
WorkReleases(r) ==
  /\ WorkMoves(r, "ending", "over")
  /\ slots' = [slots EXCEPT ![Conn(r)][LaneOf(request[r].kind)] = @ + 1]
  /\ UNCHANGED <<listener, connection, request, reply, effects>>

\* The work's result; a control that failed leaves an uncertain subscription or
\* cancellation behind, so its session is closed.
ReplyResult(r) ==
  /\ reply[r] = "waiting" /\ work[r] = "over" /\ reply' = [reply EXCEPT ![r] = "sending"]
  /\ \/ UNCHANGED closed
     \/ IsControl(r) /\ Close(Conn(r))
  /\ UNCHANGED <<listener, conn, writer, guard, slots, request, work, effects>>

\* Mutant: the deadline gives the slot back while the work goes on.
ReplyDeadlineReleases(r) ==
  /\ reply[r] = "waiting" /\ work[r] # "over" /\ reply' = [reply EXCEPT ![r] = "sending"]
  /\ IF IsControl(r) THEN Close(Conn(r)) ELSE UNCHANGED closed
  /\ slots' = [slots EXCEPT ![Conn(r)][LaneOf(request[r].kind)] = @ + 1]
  /\ UNCHANGED <<listener, conn, writer, guard, request, work, effects>>

\* Mutant: calls are waited for as long as they take.
ReplyDeadlineOfControls(r) ==
  /\ reply[r] = "waiting" /\ work[r] # "over" /\ reply' = [reply EXCEPT ![r] = "sending"]
  /\ IsControl(r) /\ Close(Conn(r))
  /\ UNCHANGED <<listener, conn, writer, guard, slots, request, work, effects>>

\* Mutant: the uncertain outcome of a control is only reported.
ReplyDeadlineStays(r) ==
  /\ reply[r] = "waiting" /\ work[r] # "over" /\ reply' = [reply EXCEPT ![r] = "sending"]
  /\ UNCHANGED <<listener, connection, slots, request, work, effects>>

\* request_timeout: the handle is dropped, the work goes on with its permit.
ReplyDeadline(r) ==
  /\ reply[r] = "waiting" /\ work[r] # "over" /\ reply' = [reply EXCEPT ![r] = "sending"]
  /\ IF IsControl(r) THEN Close(Conn(r)) ELSE UNCHANGED closed
  /\ UNCHANGED <<listener, conn, writer, guard, slots, request, work, effects>>

\* session.output.send: the lane takes it, or the actor has ended.
ReplySent(r) ==
  /\ reply[r] = "sending" /\ writer[Conn(r)] # "stalled"
  /\ reply' = [reply EXCEPT ![r] = "over"]
  /\ UNCHANGED <<listener, connection, slots, request, work, effects>>

\* calls.shutdown, or the JoinSet is dropped; the work is not touched.
ReplyAborted(r) ==
  /\ reply[r] \in {"waiting", "sending"}
  /\ conn[Conn(r)] \in {"closing", "aborted"}
  /\ reply' = [reply EXCEPT ![r] = "aborted"]
  /\ UNCHANGED <<listener, connection, slots, request, work, effects>>

-----------------------------------------------------------------------------
(* The writer *)

\* The peer stops reading until the lane is full, and may read again.
Stall(c) ==
  /\ conn[c] \notin Ended /\ writer[c] = "up" /\ writer' = [writer EXCEPT ![c] = "stalled"]
  /\ UNCHANGED <<listener, conn, closed, guard, requests, effects>>

Unstall(c) ==
  /\ writer[c] = "stalled" /\ writer' = [writer EXCEPT ![c] = "up"]
  /\ UNCHANGED <<listener, conn, closed, guard, requests, effects>>

\* DeadlineWriter: a record that is too large, or not flushed within write_timeout
\* whatever parts of it were written; or an error of the peer or of the actor.
WriterFails(c) ==
  /\ conn[c] \notin Ended /\ writer[c] \in {"up", "stalled"}
  /\ writer' = [writer EXCEPT ![c] = "ended"]
  /\ UNCHANGED <<listener, conn, closed, guard, requests, effects>>

\* try_emit on a full lane.
EmitFails(c) ==
  /\ conn[c] \notin Ended /\ writer[c] \in {"stalled", "ended"} /\ Close(c)
  /\ UNCHANGED <<listener, conn, writer, guard, requests, effects>>

-----------------------------------------------------------------------------
(* The end of a connection *)

\* The session is closed before anything is cleaned up.
Retire(c) ==
  /\ ConnMoves(c, Reading, "closing") /\ Close(c)
  /\ UNCHANGED <<listener, writer, guard, requests, effects>>

\* The end of the input, or an error in it.
ReadingEnds(c) == conn[c] = "reading" /\ Retire(c)

\* Mutant: a connection does not look at the listener.
FinishAlone(c) ==
  /\ \/ conn[c] = "barrier" /\ writer[c] # "stalled"
     \/ writer[c] = "ended" \/ closed[c]
  /\ Retire(c)

\* The Shutdown barrier is passed, or the writer has ended, or the listener stops,
\* or the session is closed.
Finish(c) ==
  /\ \/ conn[c] = "barrier" /\ writer[c] # "stalled"
     \/ writer[c] = "ended" \/ serve # "serving" \/ closed[c]
  /\ Retire(c)

\* calls.shutdown has joined the replies; disconnected is called.
StartDisconnect(c) ==
  /\ Replying(c) = {}
  /\ ConnMoves(c, {"closing"}, "disconnecting") /\ Disconnects(c)
  /\ UNCHANGED <<listener, closed, writer, guard, requests>>

\* disconnected has returned: the guard is disarmed and the writer aborted.
Disconnected(c) ==
  /\ ConnMoves(c, {"disconnecting"}, "joining")
  /\ writer' = [writer EXCEPT ![c] = "ended"]
  /\ UNCHANGED <<listener, closed, guard, requests, effects>>

ConnectionReturns(c) ==
  /\ ConnMoves(c, {"joining"}, "over") /\ capacity' = capacity + 1
  /\ UNCHANGED <<serve, closed, writer, guard, requests, effects>>

\* Mutant: the guard closes the session only.
DropConnectionCloses(c) ==
  /\ serve = "dropped" /\ conn[c] \notin Ended
  /\ conn' = [conn EXCEPT ![c] = "aborted"] /\ Close(c) /\ capacity' = capacity + 1
  /\ writer' = [writer EXCEPT ![c] = "ended"]
  /\ UNCHANGED <<serve, guard, requests, effects>>

\* DisconnectGuard::drop, where it has not been disarmed, and the writer's guard.
DropConnection(c) ==
  /\ serve = "dropped" /\ conn[c] \notin Ended
  /\ conn' = [conn EXCEPT ![c] = "aborted"] /\ capacity' = capacity + 1
  /\ writer' = [writer EXCEPT ![c] = "ended"]
  /\ IF conn[c] = "joining" THEN UNCHANGED <<closed, guard>>
     ELSE Close(c) /\ guard' = [guard EXCEPT ![c] = "spawned"]
  /\ UNCHANGED <<serve, requests, effects>>

GuardRuns(c) ==
  /\ guard[c] = "spawned" /\ guard' = [guard EXCEPT ![c] = "over"] /\ Disconnects(c)
  /\ UNCHANGED <<listener, conn, closed, writer, requests>>

-----------------------------------------------------------------------------

OfConnection(c) ==
  \/ Drain(c) \/ StartDisconnect(c) \/ Disconnected(c) \/ ConnectionReturns(c)
  \/ DropConnection(c) \/ GuardRuns(c) \/ Finish(c)

OfRequest(r) ==
  request[r] # None /\
    (Dispatch(r) \/ CheckClosed(r) \/ WorkDisconnected(r) \/ WorkReleases(r)
      \/ ReplyResult(r) \/ ReplyDeadline(r) \/ ReplySent(r) \/ ReplyAborted(r))

SocketNext ==
  \/ StopServing \/ DropServe \/ ServeReturns
  \/ \E c \in Connections :
       \/ Accept(c) \/ ReadShutdown(c) \/ ReadingEnds(c) \/ OfConnection(c)
       \/ Stall(c) \/ Unstall(c) \/ WriterFails(c) \/ EmitFails(c)
       \/ \E r \in Requests : Read(c, r)
  \/ \E r \in Requests : OfRequest(r) \/ Effect(r) \/ WorkEnds(r)

SocketSafety == SocketInit /\ [][SocketNext]_socketVars

\* Tasks are scheduled and timers fire: a stalled record fails at its deadline, a
\* reply is given up at its own.  disconnected returns, which socket.rs asks of the
\* service; the work of a request need not.  A lane serves those who wait for it in
\* turn, so one that keeps taking commands takes this one too.
SocketFairness ==
  /\ WF_socketVars(ServeReturns)
  /\ \A c \in Connections :
       /\ WF_socketVars(OfConnection(c)) /\ WF_socketVars(writer[c] = "stalled" /\ WriterFails(c))
       /\ SF_socketVars(conn[c] = "barrier" /\ Finish(c))
  /\ \A r \in Requests :
       /\ WF_socketVars(OfRequest(r) /\ reply'[r] # reply[r])
       /\ WF_socketVars(OfRequest(r) /\ work'[r] # work[r]) /\ SF_socketVars(ReplySent(r))

SocketSpec == SocketSafety /\ SocketFairness

-----------------------------------------------------------------------------
(* Properties *)

\* Every variable has its type, and no semaphore has more permits than it began with.
SocketTypeOK ==
  /\ serve \in {"serving", "stopping", "dropped", "over"} /\ capacity \in 0..MaxConnections
  /\ conn \in [Connections -> Reading \cup Ended \cup {"closing", "disconnecting", "joining"}]
  /\ closed \in [Connections -> BOOLEAN] /\ writer \in [Connections -> {"up", "stalled", "ended"}]
  /\ guard \in [Connections -> {"none", "spawned", "over"}]
  /\ \A c \in Connections : \A lane \in DOMAIN Limit : slots[c][lane] \in 0..Limit[lane]
  /\ request \in [Requests -> {None} \cup [conn : Connections, kind : Kinds]]
  /\ work \in [Requests -> {"none", "spawned", "running", "checking", "disconnecting", "ending", "over"}]
  /\ reply \in [Requests -> {"none", "waiting", "sending", "over", "aborted"}]
  /\ effects \in [Connections -> SUBSET Requests]

Live(c, lane) ==
  {r \in RequestsOf(c) : LaneOf(request[r].kind) = lane /\ work[r] # "over"}

\* "Accepted work keeps its admission permit while it finishes, even when its waiter
\* has gone" (docs/unix-jsonl.md): what a connection has in progress, detached work
\* included, is exactly what its slots have lent.
SlotsCoverWork ==
  \A c \in Connections : \A lane \in DOMAIN Limit :
    slots[c][lane] + Cardinality(Live(c, lane)) = Limit[lane]

\* Someone is still going to call disconnected for the owner.
CleanupAhead(c) ==
  \/ conn[c] \in Reading \cup {"closing"} \/ guard[c] = "spawned"

\* "Late work runs owner cleanup again" (docs/unix-jsonl.md): whatever an owner has
\* in place after its connection is closed, its own work or a cleanup that has yet
\* to start stands behind it.  With all of them over nothing is left.
ClosedIsCleaned ==
  \A c \in Connections : \A r \in effects[c] :
    closed[c] => CleanupAhead(c) \/ work[r] \in {"running", "checking"}

\* The reply to Shutdown is behind the reply of every request accepted before it.
ShutdownIsLast ==
  \A c \in Connections : conn[c] = "barrier" =>
    \A r \in RequestsOf(c) : reply[r] = "over"

\* A connection whose control request ended in an unknown outcome is retired: it
\* ends, whatever its reader waits for.
UncertaintyRetires ==
  \A r \in Requests : \A c \in Connections :
    (Conn(r) = c /\ IsControl(r) /\ reply[r] \in {"sending", "over"} /\ work[r] # "over")
      ~> conn[c] \in Ended

\* A Shutdown request ends its connection though the work it drains never ends, its
\* replies wait for a full lane and the peer has stopped reading.
ShutdownEnds == \A c \in Connections : (conn[c] = "draining") ~> (conn[c] \in Ended)

\* Stopping the listener ends every connection and then serve itself.
ServeEnds == (serve = "stopping") ~> (serve \in {"over", "dropped"})

\* Together: work in progress has its slot, detached or not.
SlotsSound == SocketTypeOK /\ SlotsCoverWork

\* Together: what a connection has begun is over before its service hears of the
\* end, and shutdown comes after all of it.
CleanupIsLast == ClosedIsCleaned /\ ShutdownIsLast

\* Together: uncertain sessions, connections and the server itself come to an end.
ConnectionsEnd == UncertaintyRetires /\ ShutdownEnds /\ ServeEnds
=============================================================================
