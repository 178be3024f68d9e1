-------------------------------- MODULE Bridge --------------------------------
(***************************************************************************)
(* Bridge (jsonl.rs): the stdio client of a daemon on D-Bus.  A loop reads *)
(* requests into tasks; a client for the session bus is shared by all and  *)
(* made anew after it was invalidated; an event forwarder reads the events *)
(* of the client it found, an owner watcher waits for the daemon to be     *)
(* replaced.  At the end of the input the tasks are drained and what is    *)
(* still subscribed is cancelled.                                          *)
(*                                                                         *)
(* The output actor (OutputActor) is its table of active ids: its lane is  *)
(* first in, first out, so a command acts here when it is sent.  External: *)
(* the bus, whose connections may break, and the daemon, which keeps       *)
(* subscriptions by the connection that made them, may be replaced, and    *)
(* need not answer.  One lock acquisition of the client is one step.       *)
(***************************************************************************)
EXTENDS Naturals, FiniteSets

CONSTANTS
  Lines,
  LineKinds,       \* kinds of requests the frontend sends
  MaxBridgeCalls,  \* max_in_flight_requests
  MaxBridgeControls,  \* CONTROL_CAPACITY
  DrainLimited,    \* shutdown_timeout is set
  MaxClients,  \* bound on connections made
  MaxReplacements  \* bound on replacements of the daemon

ASSUME BridgeConstants ==
  /\ IsFiniteSet(Lines) /\ LineKinds \subseteq {"call", "subscribe", "cancel", "release"}
  /\ DrainLimited \in BOOLEAN
  /\ {MaxBridgeCalls, MaxBridgeControls, MaxClients, MaxReplacements} \subseteq Nat

VARIABLES
  main,       \* run_client_io
  output,     \* the output actor: "up" or "ended"
  made,       \* connections made so far, numbered from one
  broken,     \* connections the bus has dropped
  replaced,   \* replacements of the daemon so far
  current,    \* ReconnectingClient.current, 0 being None
  ready,      \* ReconnectingClient.event_ready
  forwarder,  \* the event forwarder: where it is and the connection it reads
  lastError,  \* its last_error
  watcher,    \* the owner watcher: where it is, its connection and what it has seen
  line,    \* per request, its kind, where its task is, its connection, the id it
              \* cancels and those it still has to
  subs,       \* external: the daemon's subscriptions, id and connection
  tracked,    \* the ids active in the output actor
  told,       \* a transport-error has been written
  cleanup     \* cancel_active: the ids left, those asked for, and whether it completed

bridgeVars == <<main, output, made, broken, replaced, current, ready, forwarder, lastError,
          watcher, line, subs, tracked, told, cleanup>>
bus == <<made, broken, replaced, current, ready>>
readers == <<forwarder, lastError, watcher>>
told_ == <<tracked, told>>

Errors == {"connect", "ended"}
NoId == "none"
Idle == [kind |-> "none", pc |-> "none", conn |-> 0, id |-> NoId, ids |-> {}]

BridgeInit ==
  /\ main = "reading" /\ output = "up"
  /\ made = 0 /\ broken = {} /\ replaced = 0 /\ current = 0 /\ ready = FALSE
  /\ forwarder = [pc |-> "start", conn |-> 0, error |-> "none"] /\ lastError = "none"
  /\ watcher = [pc |-> "start", conn |-> 0, seen |-> 0]
  /\ line = [r \in Lines |-> Idle] /\ subs = {}
  /\ tracked = {} /\ told = FALSE
  /\ cleanup = [ids |-> {}, asked |-> {}, done |-> FALSE]

Step(r, from, to) ==
  line[r].pc = from /\ line' = [line EXCEPT ![r].pc = to]
Kind(r) == line[r].kind
BridgeLaneOf(kind) == IF kind \in {"call", "subscribe"} THEN "calls" ELSE "controls"
LiveLines == {r \in Lines : line[r].pc \notin {"none", "over", "aborted"}}
InLane(lane) == {r \in LiveLines : BridgeLaneOf(Kind(r)) = lane}
SlotsOf(lane) == IF lane = "calls" THEN MaxBridgeCalls ELSE MaxBridgeControls

\* Mutant: one request too many.
HasSlotLate(kind) == Cardinality(InLane(BridgeLaneOf(kind))) <= SlotsOf(BridgeLaneOf(kind))

HasSlot(kind) == Cardinality(InLane(BridgeLaneOf(kind))) < SlotsOf(BridgeLaneOf(kind))
Running == main \in {"reading", "draining", "cleaning"}
Over == main \in {"over", "failed"}

\* ReconnectingClient::get: the client there is, or a new one that becomes it.
Get(k) ==
  \/ k = current /\ current # 0 /\ UNCHANGED <<made, current>>
  \/ current = 0 /\ made < MaxClients /\ k = made + 1 /\ made' = k /\ current' = k

\* invalidate: readiness first, then the client.
Invalidate == ready' = FALSE /\ current' = 0

-----------------------------------------------------------------------------
(* The bus and the daemon *)

Usable(k) == k \in 1..made \ broken

BreakConnection(k) ==
  /\ Usable(k) /\ broken' = broken \cup {k}
  /\ subs' = {s \in subs : s.conn # k}
  /\ UNCHANGED <<main, output, made, replaced, current, ready, readers, line, told_, cleanup>>

ReplaceDaemon ==
  /\ replaced < MaxReplacements /\ replaced' = replaced + 1 /\ subs' = {}
  /\ UNCHANGED <<main, output, made, broken, current, ready, readers, line, told_, cleanup>>

\* The daemon subscribes the connection a request was sent on.
DaemonSubscribes(r) ==
  /\ Kind(r) = "subscribe" /\ Usable(line[r].conn) /\ Step(r, "sent", "served")
  /\ subs' = subs \cup {[id |-> r, conn |-> line[r].conn]}
  /\ UNCHANGED <<main, output, bus, readers, told_, cleanup>>

\* It ends a subscription for the connection that made it, and no other; it may
\* refuse to.
DaemonCancels(r) ==
  LET sub == [id |-> line[r].id, conn |-> line[r].conn] IN
  /\ Kind(r) \in {"cancel", "release"} /\ Usable(line[r].conn)
  /\ \/ sub \in subs /\ subs' = subs \ {sub} /\ Step(r, "sent", "served")
     \/ UNCHANGED subs /\ Step(r, "sent", "refused")
  /\ UNCHANGED <<main, output, bus, readers, told_, cleanup>>

-----------------------------------------------------------------------------
(* request_loop and spawn_request *)

\* A frame is taken while the writer is there; without a slot the request is
\* rejected, which leaves nothing behind.
AcceptLine(r) ==
  /\ main = "reading" /\ output = "up" /\ line[r] = Idle
  /\ \E kind \in LineKinds :
       /\ HasSlot(kind)
       /\ \E ids \in IF kind = "cancel" THEN {{id} : id \in Lines} ELSE {{}} :
            line' = [line EXCEPT ![r] =
              [kind |-> kind, pc |-> IF kind \in {"subscribe", "release"} THEN "begin" ELSE "chosen",
               conn |-> 0, id |-> NoId, ids |-> ids]]
  /\ UNCHANGED <<main, output, bus, readers, subs, told_, cleanup>>

EndInput ==
  /\ main = "reading" /\ main' = "draining"
  /\ UNCHANGED <<output, bus, readers, line, subs, told_, cleanup>>

\* stdout fails, or the actor ends for want of room: the commands that follow are lost.
OutputEnds ==
  /\ output = "up" /\ ~Over /\ output' = "ended"
  /\ IF main = "reading" THEN main' = "failed" ELSE UNCHANGED main
  /\ UNCHANGED <<bus, readers, line, subs, told_, cleanup>>

\* The guards and the JoinSet are dropped with run_client_io's future.
Abort(r) ==
  /\ main = "failed" /\ r \in LiveLines /\ line' = [line EXCEPT ![r].pc = "aborted"]
  /\ UNCHANGED <<main, output, bus, readers, subs, told_, cleanup>>

-----------------------------------------------------------------------------
(* execute_request *)

Write(ids) == IF output = "up" THEN tracked' = ids ELSE UNCHANGED tracked
Report == told' = (told \/ output = "up")

\* A subscription waits for the forwarder; a release asks for its consumer's ids.
Begin(r) ==
  /\ line[r].pc = "begin" /\ (Kind(r) = "subscribe" => ready)
  /\ \E ids \in IF Kind(r) = "release" /\ output = "up" THEN SUBSET tracked ELSE {{}} :
       line' = [line EXCEPT ![r].pc = "chosen", ![r].ids = ids]
  /\ UNCHANGED <<main, output, bus, readers, subs, told_, cleanup>>

\* The client is taken, and the next id to cancel.
Send(r) ==
  /\ line[r].pc = "chosen"
  /\ \E id \in IF Kind(r) \in {"cancel", "release"} THEN line[r].ids ELSE {NoId} :
       \E k \in 1..MaxClients :
         /\ Get(k)
         /\ line' = [line EXCEPT ![r].pc = "sent", ![r].conn = k, ![r].id = id,
                                       ![r].ids = @ \ {id}]
  /\ UNCHANGED <<main, output, broken, replaced, ready, readers, subs, told_, cleanup>>

\* Rejected before dispatch: no client or no readiness within CONTROL_TIMEOUT.
Reject(r) ==
  /\ \/ line[r].pc = "begin" /\ Kind(r) = "subscribe"
     \/ line[r].pc = "chosen" /\ Kind(r) = "call"
  /\ line' = [line EXCEPT ![r].pc = "over"]
  /\ UNCHANGED <<main, output, bus, readers, subs, told_, cleanup>>

\* The daemon's answer to a call, or an error of one: RequestError or Response.
AnswerCall(r) ==
  /\ Kind(r) = "call" /\ Step(r, "sent", "over")
  /\ UNCHANGED <<main, output, bus, readers, subs, told_, cleanup>>

\* The acknowledgement of a subscription.
AnswerSubscribe(r) ==
  /\ Kind(r) = "subscribe" /\ Step(r, "served", "over") /\ Write(tracked \cup {r})
  /\ UNCHANGED <<main, output, bus, readers, subs, told, cleanup>>

Cancelled(r) ==
  /\ Write(tracked \ {line[r].id})
  /\ line' = [line EXCEPT ![r].pc = IF line[r].ids = {} THEN "over" ELSE "chosen"]
  /\ UNCHANGED <<main, output, bus, readers, subs, told, cleanup>>

\* Mutant: a cancellation the daemon refuses counts as one.
AnswerCancelAny(r) ==
  line[r].pc \in {"served", "refused"} /\ Kind(r) \in {"cancel", "release"} /\ Cancelled(r)

\* A cancellation that succeeded leaves the table, with the response of a cancel,
\* with a command of its own in a release, which goes on with the next id.
AnswerCancel(r) ==
  line[r].pc = "served" /\ Kind(r) \in {"cancel", "release"} /\ Cancelled(r)

\* No client, an error on the wire, or a refusal: the response says so.  A release
\* stops at the first, and one without ids has nothing to do.
AnswerError(r) ==
  /\ \/ line[r].pc = "refused"
     \/ line[r].pc = "chosen" /\ Kind(r) # "call"
     \/ line[r].pc \in {"sent", "served"} /\ ~Usable(line[r].conn)
  /\ line' = [line EXCEPT ![r].pc = "over"]
  /\ UNCHANGED <<main, output, bus, readers, subs, told_, cleanup>>

Answer(r) == AnswerCall(r) \/ AnswerSubscribe(r) \/ AnswerCancel(r) \/ AnswerError(r)

Waits(r) ==
  \/ line[r].pc \in {"sent", "served", "refused"}
  \/ line[r].pc = "chosen" /\ Kind(r) # "call"

\* Mutant: the cached client is replaced, under the forwarder, and nobody told.
TimeoutInvalidates(r) ==
  /\ Waits(r) /\ line' = [line EXCEPT ![r].pc = "over"]
  /\ IF Kind(r) = "call" THEN UNCHANGED <<current, ready>> ELSE Invalidate
  /\ UNCHANGED <<main, output, made, broken, replaced, readers, subs, told_, cleanup>>

\* Mutant: a call takes as long as it takes.
TimeoutOfControls(r) ==
  /\ Waits(r) /\ Kind(r) # "call" /\ line' = [line EXCEPT ![r].pc = "over"] /\ Report
  /\ UNCHANGED <<main, output, bus, readers, subs, tracked, cleanup>>

\* An ordinary call's deadline is an unknown outcome and no more; any other asks for
\* the frontend's restart, and leaves the client to the forwarder until then.
Timeout(r) ==
  /\ Waits(r) /\ line' = [line EXCEPT ![r].pc = "over"]
  /\ IF Kind(r) = "call" THEN UNCHANGED told ELSE Report
  /\ UNCHANGED <<main, output, bus, readers, subs, tracked, cleanup>>

-----------------------------------------------------------------------------
(* The event forwarder *)

Forwarder(from, to) == forwarder.pc = from /\ forwarder' = [forwarder EXCEPT !.pc = to]

ForwarderStarts ==
  /\ Running /\ Forwarder("start", "connecting") /\ ready' = FALSE
  /\ UNCHANGED <<main, output, made, broken, replaced, current, lastError, watcher, line, subs,
                 told_, cleanup>>

\* get, and the match rule for its events, which may fail.
ForwarderConnects ==
  /\ Running /\ forwarder.pc = "connecting"
  /\ \E k \in 1..MaxClients :
       Get(k) /\ forwarder' = [forwarder EXCEPT !.pc = "matched", !.conn = k]
  /\ UNCHANGED <<main, output, broken, replaced, ready, lastError, watcher, line, subs, told_,
                 cleanup>>

ForwarderReady ==
  /\ Running /\ Forwarder("matched", "reading") /\ ready' = TRUE
  /\ UNCHANGED <<main, output, made, broken, replaced, current, lastError, watcher, line, subs,
                 told_, cleanup>>

\* A connection that breaks ends the stream, or fails what comes before it.
ForwarderFails ==
  /\ Running
  /\ \/ forwarder.pc = "connecting" /\ (current = 0 \/ ~Usable(current))
        /\ forwarder' = [forwarder EXCEPT !.pc = "reset", !.conn = 0, !.error = "connect"]
     \/ forwarder.pc \in {"matched", "reading"} /\ ~Usable(forwarder.conn)
        /\ forwarder' = [forwarder EXCEPT !.pc = "reset", !.conn = 0, !.error = "ended"]
  /\ UNCHANGED <<main, output, bus, lastError, watcher, line, subs, told_, cleanup>>

ForwarderResets ==
  /\ Running /\ Forwarder("reset", IF output = "up" THEN "report" ELSE "over") /\ Write({})
  /\ UNCHANGED <<main, output, bus, lastError, watcher, line, subs, told, cleanup>>

\* report_transport_error: the same message is not sent twice in a row.
ForwarderReports ==
  /\ Running
  /\ Forwarder("report", IF lastError = forwarder.error \/ output = "up" THEN "invalidate" ELSE "over")
  /\ lastError' = forwarder.error
  /\ IF lastError = forwarder.error THEN UNCHANGED told ELSE Report
  /\ UNCHANGED <<main, output, bus, watcher, line, subs, tracked, cleanup>>

\* invalidate; the delay that follows is no state.
ForwarderInvalidates ==
  /\ Running /\ Forwarder("invalidate", "start") /\ Invalidate
  /\ UNCHANGED <<main, output, made, broken, replaced, lastError, watcher, line, subs, told_,
                 cleanup>>

-----------------------------------------------------------------------------
(* The owner watcher *)

WatcherConnects ==
  /\ Running /\ watcher.pc = "start"
  /\ \E k \in 1..MaxClients :
       Get(k) /\ watcher' = [pc |-> "watching", conn |-> k, seen |-> replaced]
  /\ UNCHANGED <<main, output, broken, replaced, ready, forwarder, lastError, line, subs,
                 told_, cleanup>>

\* The stream ends; the watcher sleeps and tries again.
WatcherFails ==
  /\ Running /\ watcher.pc = "watching" /\ ~Usable(watcher.conn)
  /\ watcher' = [watcher EXCEPT !.pc = "start"]
  /\ UNCHANGED <<main, output, bus, forwarder, lastError, line, subs, told_, cleanup>>

WatcherInvalidates ==
  /\ Running /\ watcher.pc = "watching" /\ Usable(watcher.conn) /\ watcher.seen < replaced
  /\ watcher' = [watcher EXCEPT !.pc = "reset"] /\ Invalidate
  /\ UNCHANGED <<main, output, made, broken, replaced, forwarder, lastError, line, subs, told_,
                 cleanup>>

\* Mutant: the watcher goes on without a transport-error.
WatcherResetsOnly ==
  /\ Running /\ watcher.pc = "reset" /\ Write({})
  /\ watcher' = [watcher EXCEPT !.pc = IF output = "up" THEN "start" ELSE "over"]
  /\ UNCHANGED <<main, output, bus, forwarder, lastError, line, subs, told, cleanup>>

WatcherResets ==
  /\ Running /\ watcher.pc = "reset" /\ Write({})
  /\ watcher' = [watcher EXCEPT !.pc = IF output = "up" THEN "report" ELSE "over"]
  /\ UNCHANGED <<main, output, bus, forwarder, lastError, line, subs, told, cleanup>>

WatcherReports ==
  /\ Running /\ watcher.pc = "report" /\ Report
  /\ watcher' = [watcher EXCEPT !.pc = IF output = "up" THEN "start" ELSE "over"]
  /\ UNCHANGED <<main, output, bus, forwarder, lastError, line, subs, tracked, cleanup>>

-----------------------------------------------------------------------------
(* The end *)

\* Mutant: a call that is still in progress is not waited for.
DrainSubscriptions ==
  /\ main = "draining" /\ (\E r \in Lines : line[r].pc = "over") /\ main' = "cleaning"
  /\ UNCHANGED <<output, bus, readers, line, subs, told_, cleanup>>

\* drain_calls: every task has ended, or the time is over and they are aborted.
DrainBridge ==
  /\ main = "draining" /\ main' = "cleaning"
  /\ \/ LiveLines = {} /\ UNCHANGED line
     \/ /\ DrainLimited
        /\ line' = [r \in Lines |->
             IF r \in LiveLines THEN [line[r] EXCEPT !.pc = "aborted"] ELSE line[r]]
  /\ UNCHANGED <<output, bus, readers, subs, told_, cleanup>>

\* cancel_active: the client, the ids, and a cancellation for each, whose answer
\* does not matter.
QueryActive ==
  /\ main = "cleaning" /\ ~cleanup.done /\ cleanup.asked = {} /\ cleanup.ids = {}
  /\ \E k \in 1..MaxClients : Get(k)
  /\ cleanup' = [cleanup EXCEPT !.ids = tracked, !.done = (tracked = {})]
  /\ UNCHANGED <<main, output, broken, replaced, ready, readers, line, subs, told_>>

CancelActive(id) ==
  /\ main = "cleaning" /\ id \in cleanup.ids
  /\ cleanup' = [ids |-> cleanup.ids \ {id}, asked |-> cleanup.asked \cup {id},
                 done |-> cleanup.ids = {id}]
  /\ UNCHANGED <<main, output, bus, readers, line, subs, told_>>

\* Completed, without a client, or out of time.
EndCleanup ==
  /\ main = "cleaning" /\ main' = "finishing"
  /\ UNCHANGED <<output, bus, readers, line, subs, told_, cleanup>>

\* The readers are aborted; the Shutdown reply and the end of the output.
Return ==
  /\ main = "finishing" /\ main' = "over"
  /\ UNCHANGED <<output, bus, readers, line, subs, told_, cleanup>>

-----------------------------------------------------------------------------

Tasks ==
  \/ ForwarderStarts \/ ForwarderConnects \/ ForwarderReady \/ ForwarderFails \/ ForwarderResets
  \/ ForwarderReports \/ ForwarderInvalidates
  \/ WatcherConnects \/ WatcherFails \/ WatcherInvalidates \/ WatcherResets \/ WatcherReports

Timers(r) == Timeout(r) \/ Reject(r) \/ Abort(r)

BridgeNext ==
  \/ EndInput \/ OutputEnds \/ ReplaceDaemon \/ \E k \in 1..made : BreakConnection(k)
  \/ \E r \in Lines :
       \/ AcceptLine(r) \/ Begin(r) \/ Send(r) \/ DaemonSubscribes(r) \/ DaemonCancels(r) \/ Answer(r)
       \/ Timers(r) \/ CancelActive(r)
  \/ Tasks \/ DrainBridge \/ QueryActive \/ EndCleanup \/ Return

BridgeSafety == BridgeInit /\ [][BridgeNext]_bridgeVars

\* The bridge's own tasks and timers run.  Neither the daemon nor the input has to
\* do anything.
BridgeFairness ==
  /\ WF_bridgeVars(ForwarderStarts)
  /\ WF_bridgeVars(ForwarderConnects \/ ForwarderReady \/ ForwarderFails)
  /\ WF_bridgeVars(ForwarderResets \/ ForwarderReports \/ ForwarderInvalidates)
  /\ WF_bridgeVars(WatcherConnects \/ WatcherFails \/ WatcherInvalidates)
  /\ WF_bridgeVars(WatcherResets \/ WatcherReports)
  /\ WF_bridgeVars(DrainBridge) /\ WF_bridgeVars(EndCleanup) /\ WF_bridgeVars(Return)
  /\ \A r \in Lines : WF_bridgeVars(Timers(r)) /\ WF_bridgeVars(Kind(r) = "release" /\ Begin(r))

BridgeSpec == BridgeSafety /\ BridgeFairness

-----------------------------------------------------------------------------
(* Properties *)

\* Every variable has its type, and no lane holds more requests than it has slots.
BridgeTypeOK ==
  /\ main \in {"reading", "draining", "cleaning", "finishing", "over", "failed"}
  /\ output \in {"up", "ended"} /\ made \in 0..MaxClients /\ broken \subseteq 1..made
  /\ replaced \in 0..MaxReplacements /\ current \in 0..made /\ ready \in BOOLEAN
  /\ forwarder.conn \in 0..made /\ lastError \in {"none"} \cup Errors
  /\ watcher.conn \in 0..made /\ watcher.seen \in 0..replaced
  /\ \A r \in Lines : line[r].conn \in 0..made /\ line[r].ids \subseteq Lines
  /\ \A lane \in {"calls", "controls"} : Cardinality(InLane(lane)) <= SlotsOf(lane)
  /\ subs \subseteq [id : Lines, conn : 1..made] /\ tracked \subseteq Lines
  /\ told \in BOOLEAN /\ cleanup.ids \cup cleanup.asked \subseteq Lines

\* The frontend has been told to restart, or is about to be.
RestartDue ==
  told \/ forwarder.pc \in {"reset", "report"} \/ watcher.pc \in {"reset", "report"}

\* An acknowledged subscription the daemon holds is on the connection whose events
\* are forwarded; whatever invalidated the client in between has told the frontend.
SubscriptionsHeard ==
  Running /\ output = "up" =>
    \A s \in subs : s.id \in tracked => (forwarder.pc = "reading" /\ forwarder.conn = s.conn) \/ RestartDue

\* "Failed cancellations retain ownership for cleanup" (README.md): an id leaves the
\* table only when the daemon has ended it.  What a drain out of time aborts was never
\* acknowledged, and ends with the bridge's connection.
OwnedUntilCancelled ==
  Running /\ output = "up" =>
    \A s \in subs : line[s.id].pc = "over" => s.id \in tracked \/ RestartDue

\* "Closing stdin drains accepted calls and cancels tracked IDs" (README.md): a
\* cleanup that completes has asked for every id, those of replies that came while
\* the calls were drained included.
CleanupCoversTracked ==
  main \in {"cleaning", "finishing", "over"} /\ cleanup.done => tracked \subseteq cleanup.asked

\* Event forwarding becomes ready again, or the frontend has been told: a
\* subscription is never refused for ever by a bridge that seems sound.
ReadyOrTold ==
  (~ready /\ forwarder.pc # "start") ~> (ready \/ told \/ main # "reading" \/ output = "ended")

\* At the end of the input the bridge returns, though the daemon answers nothing.
InputEndReturns == (main = "draining") ~> Over

\* Together: a subscription that was acknowledged is heard and owned, or known to
\* be lost, through every replacement of the client.
SubscriptionsKept ==
  /\ BridgeTypeOK
  /\ SubscriptionsHeard
  /\ OwnedUntilCancelled
  /\ CleanupCoversTracked
=============================================================================
