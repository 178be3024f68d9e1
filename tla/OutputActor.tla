---------------------------- MODULE OutputActor ----------------------------
(***************************************************************************)
(* The single task that writes every line of one JSONL connection          *)
(* (output_actor.rs).  Requests, replies and notices arrive on a priority  *)
(* lane, events on a lane of their own; both are bounded FIFO channels.    *)
(* The actor holds back the events of an operation or subscription until   *)
(* the response that names its id has been written, forgets what is        *)
(* cancelled, and remembers the last PendingLimit cancelled ids so that    *)
(* their late events are dropped.                                          *)
(*                                                                         *)
(* An event is the record of its place in the order of sending (n), the    *)
(* correlation id and the subscription id the policy reads from it, and    *)
(* whether the policy calls it terminal.  Everything else in a payload is  *)
(* left out.  VecDeque pending_events is the set of its events: n is its   *)
(* order, because one lane delivers them in that order.                    *)
(***************************************************************************)
EXTENDS Naturals, Sequences, FiniteSets

CONSTANTS
  Ids,          \* operation and subscription ids
  Routes,       \* consumer/generation addresses of subscriptions
  NoId, NoRoute, \* an absent id, an absent route
  Inactive,     \* the value of an id that has no entry in active_ids
  Capacity,     \* capacity of each lane
  PendingLimit, \* pending_limit: early events held, cancelled ids remembered
  Responses,    \* the responses callers may send, see ResponseType
  EventKinds,   \* the kinds of event sources may send, see KindType
  MaxCommands, MaxEvents \* bounds on what is sent in a behaviour

Event == [n : Nat \ {0}, id : Ids \cup {NoId}, sub : Ids \cup {NoId}, terminal : BOOLEAN]

\* id: the tracked id of a successful reply; sub: TrackedKind::Subscription;
\* cancels: cancelled_request_id.  An error reply tracks and cancels nothing.
ResponseType == [op : {"response"}, id : Ids \cup {NoId}, sub : BOOLEAN,
                 cancels : Ids \cup {NoId}, route : Routes \cup {NoRoute}]

KindType == [id : Ids \cup {NoId}, sub : Ids \cup {NoId}, terminal : BOOLEAN]

ASSUME ConstantsAssumption ==
  /\ IsFiniteSet(Ids)
  /\ NoId \notin Ids
  /\ NoRoute \notin Routes /\ Inactive \notin Routes \cup {NoRoute}
  /\ Capacity \in Nat \ {0}
  /\ PendingLimit \in Nat
  /\ Responses \subseteq ResponseType
  /\ EventKinds \subseteq KindType
  /\ MaxCommands \in Nat /\ MaxEvents \in Nat

VARIABLES
  priority, events, \* the two lanes
  open,     \* some OutputHandle is alive
  actor,    \* "running", "failing" (its last line is due), "failed" or "finished"
  state,    \* struct OutputState
  line,     \* the line the actor is writing
  drain,    \* events taken out of pending_events by the response being emitted
  sent,     \* number of events sent
  issued,   \* number of priority commands sent
  acked,    \* per id, the route its reader was acknowledged with (history)
  ended,    \* ids cancelled, or ended by an event, since the last reset (history)
  delivered \* events written (history)

lanes == <<priority, events, open, sent, issued>>
history == <<acked, ended, delivered>>
vars == <<lanes, actor, state, line, drain, history>>

NoLine == [kind |-> "none"]
Plain == [kind |-> "plain"]
Failure == [kind |-> "failure"]

Commands ==
  Responses \cup [op : {"cancelled"}, id : Ids] \cup [op : {"query", "reset", "plain"}]

-----------------------------------------------------------------------------
(* OutputState *)

InitialState ==
  [active |-> [i \in Ids |-> Inactive], pending |-> {}, suppressed |-> {}, order |-> <<>>]

IsActive(s, i) == i \in Ids /\ s.active[i] # Inactive

\* Mutant: room is made one id too late.
SuppressLate(s, i) ==
  IF PendingLimit = 0 \/ i \in s.suppressed THEN s
  ELSE LET full == Len(s.order) > PendingLimit
       IN  [s EXCEPT !.suppressed = (@ \ IF full THEN {Head(s.order)} ELSE {}) \cup {i},
                     !.order = Append(IF full THEN Tail(@) ELSE @, i)]

\* The oldest remembered id makes room for a new one; one already remembered
\* keeps its place.
Suppress(s, i) ==
  IF PendingLimit = 0 \/ i \in s.suppressed THEN s
  ELSE LET full == Len(s.order) >= PendingLimit
           kept == IF full THEN Tail(s.order) ELSE s.order
           dropped == IF full THEN {Head(s.order)} ELSE {}
       IN  [s EXCEPT !.suppressed = (@ \ dropped) \cup {i}, !.order = Append(kept, i)]

\* Mutant: events held back for the id stay.
CancelledKeepsPending(s, i) == Suppress([s EXCEPT !.active[i] = Inactive], i)

Cancelled(s, i) ==
  Suppress([s EXCEPT !.active[i] = Inactive, !.pending = {e \in @ : e.id # i}], i)

\* No route, or one that addresses an operation, leaves an acknowledged route alone.
Acknowledge(old, r) ==
  IF r.sub /\ r.route # NoRoute THEN r.route ELSE IF old = Inactive THEN NoRoute ELSE old

\* Mutant: a cancelled id is acknowledged again.
ActivatesAny(s, r) == r.id # NoId

Activates(s, r) == r.id # NoId /\ r.id \notin s.suppressed

\* What activate() returns, and the state it leaves.
TakenPending(s, r) == IF Activates(s, r) THEN {e \in s.pending : e.id = r.id} ELSE {}

\* Mutant: the response's route always replaces the old one.
ActivateOverwrites(s, r) ==
  IF ~Activates(s, r) THEN s
  ELSE [s EXCEPT !.pending = {e \in @ : e.id # r.id}, !.active[r.id] = r.route]

\* Mutant: the released events are copied, not taken.
ActivateCopies(s, r) ==
  IF ~Activates(s, r) THEN s ELSE [s EXCEPT !.active[r.id] = Acknowledge(@, r)]

Activate(s, r) ==
  IF ~Activates(s, r) THEN s
  ELSE [s EXCEPT !.pending = {e \in @ : e.id # r.id},
                 !.active[r.id] = Acknowledge(@, r)]

RouteOf(active, e) ==
  IF e.sub # NoId /\ active[e.sub] \in Routes THEN active[e.sub] ELSE NoRoute

\* Mutant: a terminal event of no id cancels something.
AfterEventAny(s, e) == IF e.terminal THEN Cancelled(s, e.id) ELSE s

AfterEvent(s, e) == IF e.id # NoId /\ e.terminal THEN Cancelled(s, e.id) ELSE s

\* Mutant: a terminal event gives its id up first.
EventLineLate(s, e) ==
  [kind |-> "event", event |-> e, route |-> RouteOf(AfterEvent(s, e).active, e)]

\* The line looks its route up before a terminal event gives its id up.
EventLine(s, e) == [kind |-> "event", event |-> e, route |-> RouteOf(s.active, e)]

\* Whether buffer() has room.  Mutant: one event too few.
HasRoomLess(s) == Cardinality(s.pending) + 1 < PendingLimit
HasRoom(s) == Cardinality(s.pending) < PendingLimit

\* Mutant: an event is also dropped for the subscription it is addressed to.
IsSuppressedAny(s, e) == {e.id, e.sub} \cap s.suppressed # {}

\* The id whose late events are dropped is the event's own correlation id.
IsSuppressed(s, e) == e.id \in s.suppressed

\* accept_event: drop, hold back, or write.  With no room left it is an error:
\* a queued event is followed by a last line, a released one by nothing.
AcceptEvent(e, lastLine) ==
  \/ /\ IsSuppressed(state, e)
     /\ UNCHANGED <<state, line, actor>>
  \/ /\ e.id \in Ids /\ ~IsSuppressed(state, e) /\ ~IsActive(state, e.id)
     /\ IF HasRoom(state)
        THEN state' = [state EXCEPT !.pending = @ \cup {e}] /\ UNCHANGED <<line, actor>>
        ELSE /\ actor' = IF lastLine = NoLine THEN "failed" ELSE "failing"
             /\ line' = lastLine
             /\ UNCHANGED state
  \/ /\ ~IsSuppressed(state, e) /\ (e.id = NoId \/ IsActive(state, e.id))
     /\ line' = EventLine(state, e)
     /\ state' = AfterEvent(state, e)
     /\ UNCHANGED actor

-----------------------------------------------------------------------------
(* Callers and event sources: OutputHandle *)

Init ==
  /\ priority = <<>> /\ events = <<>> /\ open = TRUE
  /\ actor = "running" /\ state = InitialState /\ line = NoLine /\ drain = {}
  /\ sent = 0 /\ issued = 0
  /\ acked = [i \in Ids |-> Inactive] /\ ended = {} /\ delivered = {}

Alive == actor \in {"running", "failing"}

SendCommand ==
  /\ open /\ Alive /\ Len(priority) < Capacity /\ issued < MaxCommands
  /\ \E c \in Commands : priority' = Append(priority, c)
  /\ issued' = issued + 1
  /\ UNCHANGED <<events, open, actor, state, line, drain, sent, history>>

SendEvent ==
  /\ open /\ Alive /\ Len(events) < Capacity /\ sent < MaxEvents
  /\ \E k \in EventKinds :
       events' = Append(events, [n |-> sent + 1, id |-> k.id, sub |-> k.sub, terminal |-> k.terminal])
  /\ sent' = sent + 1
  /\ UNCHANGED <<priority, open, actor, state, line, drain, issued, history>>

DropHandles ==
  /\ open /\ open' = FALSE
  /\ UNCHANGED <<priority, events, actor, state, line, drain, sent, issued, history>>

-----------------------------------------------------------------------------
(* The actor: run_output_actor, emit_command, emit_response *)

Idle == actor = "running" /\ line = NoLine /\ drain = {}

TakeCommand(op) ==
  /\ Idle /\ priority # <<>> /\ Head(priority).op = op
  /\ priority' = Tail(priority)
  /\ UNCHANGED <<events, open, actor, sent, issued, delivered>>

\* The reader has been told, or told the daemon, that an id is over.
End(i) ==
  IF i = NoId THEN UNCHANGED <<acked, ended>>
  ELSE acked' = [acked EXCEPT ![i] = Inactive] /\ ended' = ended \cup {i}

TakeResponse ==
  /\ TakeCommand("response")
  /\ LET r == Head(priority)
         s == IF r.cancels = NoId THEN state ELSE Cancelled(state, r.cancels)
     IN  /\ state' = Activate(s, r)
         /\ drain' = TakenPending(s, r)
         /\ line' = [kind |-> "ack", response |-> r, activates |-> Activates(s, r)]
         /\ End(r.cancels)

TakeCancelled ==
  /\ TakeCommand("cancelled")
  /\ state' = Cancelled(state, Head(priority).id)
  /\ End(Head(priority).id)
  /\ UNCHANGED <<line, drain>>

\* ActiveIds: the caller gets the keys of active_ids, or those with its route;
\* ReaderAgrees says what they are.
TakeQuery ==
  /\ TakeCommand("query")
  /\ UNCHANGED <<state, line, drain, acked, ended>>

TakeReset ==
  /\ TakeCommand("reset")
  /\ state' = InitialState
  /\ acked' = [i \in Ids |-> Inactive] /\ ended' = {}
  /\ UNCHANGED <<line, drain>>

\* RequestError, ProtocolError, TransportError, Shutdown: one line, no state.
TakePlain ==
  /\ TakeCommand("plain")
  /\ line' = Plain
  /\ UNCHANGED <<state, drain, acked, ended>>

\* The select is biased: an event is taken only when no command waits.
TakeEvent ==
  /\ Idle /\ priority = <<>> /\ events # <<>>
  /\ events' = Tail(events)
  /\ AcceptEvent(Head(events), Failure)
  /\ UNCHANGED <<priority, open, drain, sent, issued, history>>

\* The events the response released follow it, each accepted anew, in order.
DrainEvent ==
  /\ actor = "running" /\ line = NoLine
  /\ \E e \in drain :
       /\ \A f \in drain : e.n <= f.n
       /\ drain' = drain \ {e}
       /\ AcceptEvent(e, NoLine)
  /\ UNCHANGED <<lanes, history>>

\* emit_line succeeds: the reader has the line.
WriteLine ==
  /\ line # NoLine /\ Alive
  /\ line' = NoLine
  /\ actor' = IF actor = "failing" THEN "failed" ELSE actor
  /\ IF line.kind = "event"
     THEN /\ delivered' = delivered \cup {line.event}
          /\ End(IF line.event.terminal THEN line.event.id ELSE NoId)
     ELSE /\ acked' = IF line.kind = "ack" /\ line.activates
                      THEN [acked EXCEPT ![line.response.id] = Acknowledge(@, line.response)]
                      ELSE acked
          /\ UNCHANGED <<ended, delivered>>
  /\ UNCHANGED <<lanes, state, drain>>

\* emit_line fails: the task returns the error and drops its receivers.
WriteFails ==
  /\ line # NoLine /\ Alive
  /\ actor' = "failed"
  /\ UNCHANGED <<lanes, state, line, drain, history>>

Finish ==
  /\ Idle /\ ~open /\ priority = <<>> /\ events = <<>>
  /\ actor' = "finished"
  /\ UNCHANGED <<lanes, state, line, drain, history>>

Step == TakeResponse \/ TakeCancelled \/ TakeQuery \/ TakeReset \/ TakePlain
        \/ TakeEvent \/ DrainEvent \/ WriteLine \/ Finish

\* A task that has returned stays returned.
Rest == ~Alive /\ UNCHANGED vars

Next == Step \/ WriteFails \/ SendCommand \/ SendEvent \/ DropHandles \/ Rest

Safety == Init /\ [][Next]_vars

\* The actor is a spawned task and its writer makes progress or fails; nothing
\* obliges a caller to send or a writer to break.
Spec == Safety /\ WF_vars(Step)

-----------------------------------------------------------------------------
(* Properties *)

Line ==
  {NoLine, Plain, Failure}
  \cup [kind : {"ack"}, response : Responses, activates : BOOLEAN]
  \cup [kind : {"event"}, event : Event, route : Routes \cup {NoRoute}]

StateType == [active : [Ids -> Routes \cup {NoRoute, Inactive}], pending : SUBSET Event,
              suppressed : SUBSET Ids, order : Seq(Ids)]

\* Every variable has its type.
TypeOK ==
  /\ priority \in Seq(Commands) /\ events \in Seq(Event) /\ open \in BOOLEAN
  /\ actor \in {"running", "failing", "failed", "finished"}
  /\ state \in StateType
  /\ line \in Line /\ drain \in SUBSET Event
  /\ sent \in Nat /\ issued \in Nat
  /\ acked \in [Ids -> Routes \cup {NoRoute, Inactive}]
  /\ ended \in SUBSET Ids /\ delivered \in SUBSET Event

\* The three tables of OutputState agree: a remembered cancelled id is not
\* active, and an event is held back only for an id that is neither active
\* (it would be stranded behind an acknowledgement that has passed) nor
\* remembered as cancelled (it would hold room for nothing).
Agree(s) ==
  /\ \A i \in s.suppressed : ~IsActive(s, i)
  /\ \A e \in s.pending : e.id \in Ids \ s.suppressed /\ ~IsActive(s, e.id)

TablesAgree == Agree(state)

\* suppressed_order lists suppressed_ids, each once, and neither it nor the held
\* back events outgrow the limit, whatever is cancelled, cancelled again, or ended
\* by a terminal event.
OrderOK(s) ==
  /\ Len(s.order) <= PendingLimit
  /\ s.suppressed = {s.order[k] : k \in 1..Len(s.order)}
  /\ \A j, k \in 1..Len(s.order) : s.order[j] = s.order[k] => j = k

TablesBounded == OrderOK(state) /\ Cardinality(state.pending) <= PendingLimit

\* Between two commands, the ids and routes the actor holds active are exactly
\* those its reader has seen acknowledged and not ended since: ownership
\* queries, cancellation at shutdown and event routes rely on it.
ReaderAgrees == Idle => state.active = acked

\* An event is refused for lack of room only on its way in, when pending_limit
\* events wait: emitting what a response released never runs out of room.
FailsOnlyWhenFull ==
  /\ line = Failure => Cardinality(state.pending) = PendingLimit
  /\ \A e \in drain : e.id \in state.suppressed \/ IsActive(state, e.id)

\* An event line carries the route its subscription was last acknowledged
\* with, even when it is the event that ends the subscription.
RoutedAsAcknowledged ==
  line.kind = "event" => line.route = RouteOf(acked, line.event)

-----------------------------------------------------------------------------
(* Refinement: per id, delivery in order behind an acknowledgement *)

\* Events accepted and still owed to the reader.  What a released batch still
\* holds for an id whose terminal event has been written is no longer owed.
Owed ==
  state.pending \cup (IF line.kind = "event" THEN {line.event} ELSE {})
                \cup {e \in drain : line.kind = "ack" \/ (e.id \in Ids /\ acked[e.id] # Inactive)}

Delivery == INSTANCE OrderedDelivery
              WITH view <- acked, lane <- events, owed <- Owed, up <- actor = "running"

\* Every behaviour of the actor is one of OrderedDelivery: events of an id reach
\* the reader behind its acknowledgement, in order, with no gap, and none after
\* its end; an event is dropped only when its own id has ended, and what cannot be
\* kept stops the connection.
DeliveryInOrder == Delivery!Spec

\* The n-th event is in its lane, or owed to a reader that may have it.
Due(n) ==
  \/ \E k \in DOMAIN events : events[k].n = n
  \/ \E e \in Owed : e.n = n /\ (e.id = NoId \/ IsActive([active |-> acked], e.id))

\* Whatever is due is written, or withdrawn by the end of its id, a reset or the
\* end of the actor: no event is stranded in a lane, or behind an
\* acknowledgement that has already been written.
DueIsSettled == \A n \in 1..MaxEvents : Due(n) ~> (~Due(n) \/ ~Alive)

\* Together: the tables agree, stay bounded, and fail only when they are full,
\* whatever the order of commands, events, writes and losses.
TablesSound == TypeOK /\ TablesAgree /\ TablesBounded /\ FailsOnlyWhenFull

\* Together: the reader knows every route by the time a line that uses it is
\* written.
LinesAreRouted == ReaderAgrees /\ RoutedAsAcknowledged
=============================================================================
