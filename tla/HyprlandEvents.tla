---------------------------- MODULE HyprlandEvents ----------------------------
(***************************************************************************)
(* HyprlandEvents (shelllist-hyprland, watch_events_with): the compositor's *)
(* events and the state of the connection to it as one stream, through a   *)
(* channel whose receiver may be slow or leave.  A failed attempt is told  *)
(* once per cause.                                                         *)
(*                                                                         *)
(* External: the compositor is there, or an attempt to reach it fails with *)
(* some cause; it sends lines, and things that are no lines.               *)
(***************************************************************************)
EXTENDS Naturals, Sequences

CONSTANTS
  Causes,   \* why an attempt may fail
  EventCapacity, \* of the channel
  MaxTurns, \* bound on changes of the compositor
  MaxLines  \* bound on what it has on its way

Up == "up"
Established == "established"
No == "no"

ASSUME EventsConstants ==
  /\ EventCapacity \in Nat \ {0} /\ {MaxTurns, MaxLines} \subseteq Nat
  /\ Causes \cap {Up, Established, No} = {}

Event(kind) == [kind |-> kind, cause |-> No]
ConnectFailed(cause) == [kind |-> "failed", cause |-> cause]
Connected == Event("connected")
Message == Event("message")
Disconnected == Event("disconnected")

VARIABLES
  compositor, \* Up, or the cause an attempt fails with
  turns,      \* how often it has changed
  stream,     \* what is left on this connection: lines, others, its end
  pc,         \* connecting, reading, sending, sleeping, ended
  event,      \* what is being sent, and where that leads
  last,       \* last_connect_error
  attempt,    \* how the last attempt ended
  queue,      \* the channel
  told,       \* the last event about the connection that went into it
  closed      \* the receiver has left

eventsVars == <<compositor, turns, stream, pc, event, last, attempt, queue, told, closed>>

EventsInit ==
  /\ compositor \in {Up} \cup Causes /\ turns = 0 /\ stream = <<>>
  /\ pc = "connecting" /\ event = [what |-> Event(No), then |-> "connecting"]
  /\ last = No /\ attempt = No /\ queue = <<>> /\ told = Event(No) /\ closed = FALSE

Send(what, then) == pc' = "sending" /\ event' = [what |-> what, then |-> then]

\* Mutant: a connection does not make the cause new again.
EstablishKeeps ==
  /\ pc = "connecting" /\ compositor = Up
  /\ attempt' = Established /\ stream' = <<>> /\ Send(Connected, "reading")
  /\ UNCHANGED <<compositor, turns, last, queue, told, closed>>

Establish ==
  /\ pc = "connecting" /\ compositor = Up
  /\ last' = No /\ attempt' = Established /\ stream' = <<>> /\ Send(Connected, "reading")
  /\ UNCHANGED <<compositor, turns, queue, told, closed>>

\* Mutant: every failed attempt is told.
FailAlways ==
  /\ pc = "connecting" /\ compositor # Up /\ attempt' = compositor
  /\ Send(ConnectFailed(compositor), "sleeping") /\ last' = compositor
  /\ UNCHANGED <<compositor, turns, stream, queue, told, closed>>

\* A cause that was told before is not told again.
Fail ==
  /\ pc = "connecting" /\ compositor # Up /\ attempt' = compositor
  /\ \/ last # compositor /\ Send(ConnectFailed(compositor), "sleeping") /\ last' = compositor
     \/ last = compositor /\ pc' = "sleeping" /\ UNCHANGED <<event, last>>
  /\ UNCHANGED <<compositor, turns, stream, queue, told, closed>>

\* A line, or the end: of the stream, or by something that is no line.
Read ==
  /\ pc = "reading"
  /\ \/ /\ stream # <<>> /\ Head(stream) = "line" /\ Send(Message, "reading")
        /\ stream' = Tail(stream)
     \/ /\ stream # <<>> /\ Head(stream) # "line" /\ Send(Disconnected, "sleeping")
        /\ stream' = <<>>
  /\ UNCHANGED <<compositor, turns, last, attempt, queue, told, closed>>

\* sender.send waits for room.
Deliver ==
  /\ pc = "sending" /\ ~closed /\ Len(queue) < EventCapacity
  /\ queue' = Append(queue, event.what) /\ pc' = event.then
  /\ told' = IF event.what = Message THEN told ELSE event.what
  /\ UNCHANGED <<compositor, turns, stream, event, last, attempt, closed>>

\* Mutant: a connection that ended is not waited out again.
WakeOnlyFailed ==
  /\ pc = "sleeping" /\ attempt # Established /\ pc' = "connecting"
  /\ UNCHANGED <<compositor, turns, stream, event, last, attempt, queue, told, closed>>

Wake ==
  /\ pc = "sleeping" /\ pc' = "connecting"
  /\ UNCHANGED <<compositor, turns, stream, event, last, attempt, queue, told, closed>>

\* Mutant: only a send notices that the receiver has left.
EndSending ==
  /\ closed /\ pc = "sending" /\ pc' = "ended"
  /\ UNCHANGED <<compositor, turns, stream, event, last, attempt, queue, told, closed>>

\* sender.closed wins over every phase.
End ==
  /\ closed /\ pc # "ended" /\ pc' = "ended"
  /\ UNCHANGED <<compositor, turns, stream, event, last, attempt, queue, told, closed>>

\* External: the consumer.
Take ==
  /\ queue # <<>> /\ queue' = Tail(queue)
  /\ UNCHANGED <<compositor, turns, stream, pc, event, last, attempt, told, closed>>

Leave ==
  /\ ~closed /\ closed' = TRUE
  /\ UNCHANGED <<compositor, turns, stream, pc, event, last, attempt, queue, told>>

\* External: the compositor.  Its end is its connection's.
Reaches == attempt = Established /\ pc \in {"reading", "sending"}

Turn ==
  /\ turns < MaxTurns /\ turns' = turns + 1
  /\ compositor' \in ({Up} \cup Causes) \ {compositor}
  /\ stream' = IF compositor = Up /\ Reaches THEN Append(stream, "end") ELSE stream
  /\ UNCHANGED <<pc, event, last, attempt, queue, told, closed>>

Emit ==
  /\ compositor = Up /\ Reaches /\ Len(stream) < MaxLines
  /\ \A i \in DOMAIN stream : stream[i] # "end"
  /\ \/ stream' = Append(stream, "line") /\ UNCHANGED turns
     \/ turns < MaxTurns /\ turns' = turns + 1 /\ stream' = Append(stream, "other")
  /\ UNCHANGED <<compositor, pc, event, last, attempt, queue, told, closed>>

Watcher == Establish \/ Fail \/ Read \/ Deliver \/ Wake \/ End

EventsNext == Watcher \/ Take \/ Leave \/ Turn \/ Emit

\* The task is scheduled, sleeps end, and a consumer that stays takes events.
EventsFairness ==
  WF_eventsVars(Watcher) /\ WF_eventsVars(Take) /\ WF_eventsVars(End)
EventsSpec == EventsInit /\ [][EventsNext]_eventsVars /\ EventsFairness
-----------------------------------------------------------------------------
Expected(what) ==
  CASE what.kind = "connected" -> told.kind # "connected"
    [] what.kind = "message" -> told.kind = "connected"
    [] what.kind = "disconnected" -> told.kind = "connected"
    [] what.kind = "failed" -> told.kind # "connected" /\ told # what

\* The stream is a sequence of connections, each with its messages between its
\* two ends, and of failures none of which repeats the one before it.
StreamIsOrderly ==
  [][queue' # queue /\ Len(queue') > Len(queue) => Expected(queue'[Len(queue')])]_eventsVars

\* Between attempts the consumer has been told how the last one ended: a failure is
\* suppressed only where it would repeat what was said last.
LastIsTold ==
  pc = "sleeping" => told = IF attempt = Established THEN Disconnected ELSE ConnectFailed(attempt)

\* Whenever the compositor stays, the consumer hears of a connection to it in the end.
Recovers == []<>(compositor # Up) \/ <>closed \/ []<>(told = Connected)

\* "closing the receiver stops the watcher", in whatever phase it is.
ClosureEnds == closed ~> pc = "ended"

\* Together: what the consumer hears is in order, and the latest.
StreamIsTrue == StreamIsOrderly /\ []LastIsTold

\* Together: it follows the compositor back, and its consumer out.
WatcherFollows == Recovers /\ ClosureEnds
=============================================================================
