------------------------------- MODULE OwnerLoss -------------------------------
(***************************************************************************)
(* OwnerLoss (owner.rs): waiting for a unique name to leave the bus.  One  *)
(* task, started by the first who needs it, turns the signals of a         *)
(* connection into a broadcast of lost names; its receivers may lag, and   *)
(* then ask the bus.  The bus is external: names leave it once and for     *)
(* ever, its signals are ordered, and it may close the connection.         *)
(***************************************************************************)
EXTENDS Naturals, Sequences

CONSTANTS
  Names,
  Waiters,
  LossCapacity  \* of the broadcast channel

ASSUME LossConstants == LossCapacity \in Nat \ {0}

VARIABLES
  present,  \* names on the bus
  up,       \* the connection to the bus
  monitor,  \* Monitor.started, and whether its task has stopped
  inbox,    \* signals on their way to the task
  log,      \* names it has published
  wait    \* per waiter, where wait is, its owner, its place in the log

lossVars == <<present, up, monitor, inbox, log, wait>>

LossInit ==
  /\ present = Names /\ up = TRUE /\ monitor = "idle"
  /\ inbox = <<>> /\ log = <<>>
  /\ wait \in [Waiters -> [pc : {"new"}, owner : Names, pos : {0}]]

NameOf(w) == wait[w].owner
WaitMoves(w, from, to) == wait[w].pc = from /\ wait' = [wait EXCEPT ![w].pc = to]

\* External: the name leaves, and the bus says so to those who have asked.
NameLeaves(o) ==
  /\ o \in present /\ present' = present \ {o}
  /\ inbox' = IF up /\ monitor = "running" THEN Append(inbox, o) ELSE inbox
  /\ UNCHANGED <<up, monitor, log, wait>>

BusCloses ==
  /\ up /\ up' = FALSE /\ UNCHANGED <<present, monitor, inbox, log, wait>>

\* The task: signals in their order, then the end of the stream.
Publish ==
  /\ monitor = "running" /\ inbox # <<>>
  /\ log' = Append(log, Head(inbox)) /\ inbox' = Tail(inbox)
  /\ UNCHANGED <<present, up, monitor, wait>>

StopMonitor ==
  /\ monitor = "running" /\ ~up /\ inbox = <<>> /\ monitor' = "stopped"
  /\ UNCHANGED <<present, up, inbox, log, wait>>

\* Mutant: the name is looked for before the losses are subscribed to.
SubscribeLate(w) ==
  \/ /\ up /\ monitor' = (IF monitor = "idle" THEN "running" ELSE monitor)
     /\ WaitMoves(w, "new", IF NameOf(w) \in present THEN "late" ELSE "ok")
     /\ UNCHANGED <<present, up, inbox, log>>
  \/ /\ wait[w].pc = "late"
     /\ wait' = [wait EXCEPT ![w].pc = "receiving", ![w].pos = Len(log)]
     /\ UNCHANGED <<present, up, monitor, inbox, log>>

\* subscribe starts the task where there is none yet, which may fail.
Subscribe(w) ==
  /\ wait[w].pc = "new"
  /\ \/ /\ monitor # "idle" \/ up
        /\ monitor' = IF monitor = "idle" THEN "running" ELSE monitor
        /\ wait' = [wait EXCEPT ![w].pc = "checking", ![w].pos = Len(log)]
     \/ ~up /\ monitor = "idle" /\ UNCHANGED monitor /\ WaitMoves(w, "new", "error")
  /\ UNCHANGED <<present, up, inbox, log>>

\* has_owner, before the first loss and after a lag.
Check(w) ==
  /\ WaitMoves(w, "checking", IF ~up THEN "error" ELSE IF NameOf(w) \in present THEN "receiving" ELSE "ok")
  /\ UNCHANGED <<present, up, monitor, inbox, log>>

\* Mutant: losses that were missed are gone.
RecvSkipsLag(w) ==
  /\ wait[w].pc = "receiving" /\ monitor # "stopped" /\ wait[w].pos < Len(log)
  /\ LET behind == Len(log) - wait[w].pos > LossCapacity IN
     wait' = [wait EXCEPT
       ![w].pos = IF behind THEN Len(log) - LossCapacity ELSE @ + 1,
       ![w].pc = IF ~behind /\ log[wait[w].pos + 1] = NameOf(w) THEN "ok" ELSE @]
  /\ UNCHANGED <<present, up, monitor, inbox, log>>

\* Mutant: a lag is taken for the loss.
RecvTrustsLag(w) ==
  /\ wait[w].pc = "receiving" /\ monitor # "stopped" /\ wait[w].pos < Len(log)
  /\ LET behind == Len(log) - wait[w].pos > LossCapacity IN
     wait' = [wait EXCEPT
       ![w].pos = IF behind THEN Len(log) - LossCapacity ELSE @ + 1,
       ![w].pc = IF behind \/ log[wait[w].pos + 1] = NameOf(w) THEN "ok" ELSE @]
  /\ UNCHANGED <<present, up, monitor, inbox, log>>

\* The next loss, or the number of those the channel has forgotten.
Recv(w) ==
  /\ wait[w].pc = "receiving" /\ monitor # "stopped" /\ wait[w].pos < Len(log)
  /\ LET behind == Len(log) - wait[w].pos > LossCapacity IN
     wait' = [wait EXCEPT
       ![w].pos = IF behind THEN Len(log) - LossCapacity ELSE @ + 1,
       ![w].pc = IF behind THEN "checking"
                 ELSE IF log[wait[w].pos + 1] = NameOf(w) THEN "ok" ELSE @]
  /\ UNCHANGED <<present, up, monitor, inbox, log>>

\* Mutant: only the end of the channel ends a wait, and Running keeps it open.
RecvStoppedNever(w) == FALSE /\ UNCHANGED lossVars

\* stopped is looked at first, whatever is left in the channel.
RecvStopped(w) ==
  /\ monitor = "stopped" /\ WaitMoves(w, "receiving", "error")
  /\ UNCHANGED <<present, up, monitor, inbox, log>>

OfWaiter(w) == Subscribe(w) \/ Check(w) \/ Recv(w) \/ RecvStopped(w)

LossNext ==
  \/ \E o \in Names : NameLeaves(o)
  \/ BusCloses \/ Publish \/ StopMonitor
  \/ \E w \in Waiters : OfWaiter(w)

LossSafety == LossInit /\ [][LossNext]_lossVars

\* The task and the waiters are scheduled; nobody has to leave.
LossFairness ==
  WF_lossVars(Publish \/ StopMonitor) /\ \A w \in Waiters : WF_lossVars(OfWaiter(w))

LossSpec == LossSafety /\ LossFairness

-----------------------------------------------------------------------------
(* Properties *)

\* wait returns Ok only for an owner that has left: its work is not ended early.
OkMeansGone == \A w \in Waiters : wait[w].pc = "ok" => NameOf(w) \notin present

Pending(w) ==
  \E i \in wait[w].pos + 1..Len(log) : log[i] = NameOf(w)

\* A waiter whose owner has left has the news ahead of it: a signal on its way, in
\* the channel, or a lag it will answer by asking.  On a closed connection it has
\* the end of the monitor ahead.
NewsAhead ==
  \A w \in Waiters :
    wait[w].pc = "receiving" /\ NameOf(w) \notin present /\ up =>
      Pending(w) \/ \E i \in DOMAIN inbox : inbox[i] = NameOf(w)

\* A departure ends the wait, through lags and whenever it happens.
LossEndsWait ==
  \A w \in Waiters :
    (NameOf(w) \notin present /\ wait[w].pc = "receiving") ~> wait[w].pc \in {"ok", "error"}

\* So does the end of the bus: "Monitor termination is an error, never a permanently
\* pending wait" (owner.rs:63).
ClosureEndsWait == \A w \in Waiters : ~up ~> wait[w].pc \in {"ok", "error"}

\* Together: a wait neither ends too early nor looks past the news.
WaitIsTruthful == OkMeansGone /\ NewsAhead

\* Together: it ends with the owner, and with the bus.
WaitEnds == LossEndsWait /\ ClosureEndsWait
=============================================================================
