---------------------------- MODULE BlockingLane ----------------------------
(***************************************************************************)
(* BlockingLane (blocking.rs): bounded admission for work that cannot be   *)
(* cancelled.  Callers submit to a bounded channel; one dispatcher task    *)
(* takes a permit, then a job, counts the job and hands both to a thread   *)
(* of the blocking pool; the thread answers the caller, gives the permit   *)
(* back, takes the job off the count and notifies.  shutdown closes        *)
(* admission, joins the dispatcher and waits for the count to reach zero,  *)
(* both under one deadline, and reports what is left.                      *)
(*                                                                         *)
(* What a thread does between two synchronisation points is one action.    *)
(* An abort lands only where the dispatcher is suspended.                  *)
(***************************************************************************)
EXTENDS Naturals, Sequences, FiniteSets

CONSTANTS
  Jobs,       \* calls; each is submitted at most once
  LaneClosers,  \* callers of shutdown
  LaneCapacity,  \* capacity of the channel
  Concurrency \* number of permits

ASSUME LaneConstants ==
  /\ IsFiniteSet(Jobs)
  /\ LaneCapacity \in Nat \ {0} /\ Concurrency \in Nat \ {0}

VARIABLES
  laneClosed,  \* the mutex closed
  flag,       \* the watch shutdown
  laneDropped,  \* the lane itself is gone
  queue,      \* the channel
  dispatcher, \* where the dispatcher task is
  taken,      \* a shutdown, or Drop, has taken the dispatcher's handle
  laneAborted,  \* JoinHandle::abort was called on it
  permits,    \* permits of the semaphore
  count,      \* Activity.count
  job,        \* per job, where it is
  answer,     \* per job, what its caller's receiver holds
  laneCloser,  \* per caller of shutdown, where it is
  woken,      \* callers of shutdown with a notification
  stopped,    \* per caller of shutdown, dispatcher_stopped
  active      \* per caller of shutdown, the active_jobs it reports

admission == <<laneClosed, flag, laneDropped>>
work == <<permits, count, job, answer>>
ends == <<laneCloser, stopped, active>>
laneVars == <<admission, queue, dispatcher, taken, laneAborted, work, ends, woken>>

LaneInit ==
  /\ laneClosed = FALSE /\ flag = FALSE /\ laneDropped = FALSE
  /\ queue = <<>> /\ dispatcher = "acquiring" /\ taken = FALSE /\ laneAborted = FALSE
  /\ permits = Concurrency /\ count = 0
  /\ job = [j \in Jobs |-> "new"] /\ answer = [j \in Jobs |-> "none"]
  /\ laneCloser = [c \in LaneClosers |-> "idle"] /\ woken = {}
  /\ stopped = [c \in LaneClosers |-> TRUE] /\ active = [c \in LaneClosers |-> 0]

-----------------------------------------------------------------------------
(* Callers *)

\* try_submit, under the mutex.  A refusal changes nothing; a caller that drops
\* its receiver changes nothing either.
Submit(j) ==
  /\ job[j] = "new" /\ ~laneClosed /\ ~laneDropped
  /\ dispatcher # "done" /\ Len(queue) < LaneCapacity
  /\ queue' = Append(queue, j)
  /\ job' = [job EXCEPT ![j] = "queued"]
  /\ UNCHANGED <<admission, dispatcher, taken, laneAborted, permits, count, answer, ends, woken>>

-----------------------------------------------------------------------------
(* The dispatcher: run *)

\* No shutdown yet, at the top of the loop or in the select, and a permit.
Acquire ==
  /\ dispatcher = "acquiring" /\ ~flag /\ permits > 0
  /\ permits' = permits - 1
  /\ dispatcher' = "receiving"
  /\ UNCHANGED <<admission, queue, taken, laneAborted, count, job, answer, ends, woken>>

\* The biased select finds no shutdown and polls the channel next; a shutdown
\* that is signalled in between goes unseen.
Poll ==
  /\ dispatcher = "receiving" /\ ~flag /\ queue # <<>>
  /\ dispatcher' = "polling"
  /\ UNCHANGED <<admission, queue, taken, laneAborted, work, ends, woken>>

Receive ==
  /\ dispatcher = "polling"
  /\ queue' = Tail(queue)
  /\ job' = [job EXCEPT ![Head(queue)] = "received"]
  /\ dispatcher' = "received"
  /\ UNCHANGED <<admission, taken, laneAborted, permits, count, answer, ends, woken>>

\* fetch_add, and the guard that will undo it.
Count ==
  /\ dispatcher = "received"
  /\ count' = count + 1
  /\ dispatcher' = "counted"
  /\ UNCHANGED <<admission, queue, taken, laneAborted, permits, job, answer, ends, woken>>

\* Mutant: the permit stays with the dispatcher's iteration.
LaunchReleases ==
  /\ dispatcher = "counted"
  /\ job' = [j \in Jobs |-> IF job[j] = "received" THEN "pool" ELSE job[j]]
  /\ permits' = permits + 1
  /\ dispatcher' = "acquiring"
  /\ UNCHANGED <<admission, queue, taken, laneAborted, count, answer, ends, woken>>

\* spawn_blocking: the permit and the guard move to the thread.
Launch ==
  /\ dispatcher = "counted"
  /\ job' = [j \in Jobs |-> IF job[j] = "received" THEN "pool" ELSE job[j]]
  /\ dispatcher' = "acquiring"
  /\ UNCHANGED <<admission, queue, taken, laneAborted, permits, count, answer, ends, woken>>

\* Mutant: the queue outlives the dispatcher.
QuitKeepsQueue ==
  /\ dispatcher \in {"acquiring", "receiving"} /\ (flag \/ laneAborted)
  /\ dispatcher' = "done"
  /\ permits' = IF dispatcher = "receiving" THEN permits + 1 ELSE permits
  /\ UNCHANGED <<admission, queue, taken, laneAborted, count, job, answer, ends, woken>>

\* The task sees the shutdown, or the abort, where it is suspended.  With the
\* receiver go the queued jobs, and with them their reply senders.
Quit ==
  /\ dispatcher \in {"acquiring", "receiving"} /\ (flag \/ laneAborted)
  /\ dispatcher' = "done"
  /\ permits' = IF dispatcher = "receiving" THEN permits + 1 ELSE permits
  /\ queue' = <<>>
  /\ job' = [j \in Jobs |-> IF job[j] = "queued" THEN "dropped" ELSE job[j]]
  /\ answer' = [j \in Jobs |-> IF job[j] = "queued" THEN "closed" ELSE answer[j]]
  /\ UNCHANGED <<admission, taken, laneAborted, count, ends, woken>>

Dispatcher == Acquire \/ Poll \/ Receive \/ Count \/ Launch \/ Quit

-----------------------------------------------------------------------------
(* Threads of the blocking pool *)

Step(j, from, to) ==
  /\ job[j] = from /\ job' = [job EXCEPT ![j] = to]
  /\ UNCHANGED <<admission, queue, dispatcher, taken, laneAborted, ends>>

Begin(j) == Step(j, "pool", "running") /\ UNCHANGED <<permits, count, answer, woken>>

\* Mutant: the permit is given back with the answer, and once more afterwards.
FinishReleases(j) ==
  /\ Step(j, "running", "finished")
  /\ \E result \in {"value", "panicked"} : answer' = [answer EXCEPT ![j] = result]
  /\ permits' = permits + 1
  /\ UNCHANGED <<count, woken>>

\* The task returns or panics; both are caught, and the caller is told.
Finish(j) ==
  /\ Step(j, "running", "finished")
  /\ \E result \in {"value", "panicked"} : answer' = [answer EXCEPT ![j] = result]
  /\ UNCHANGED <<permits, count, woken>>

\* The closure's captures are dropped: the permit first, then the guard.
Release(j) ==
  Step(j, "finished", "released") /\ permits' = permits + 1 /\ UNCHANGED <<count, answer, woken>>

Uncount(j) ==
  Step(j, "released", "uncounted") /\ count' = count - 1 /\ UNCHANGED <<permits, answer, woken>>

\* Mutant: only one who already waits is notified.
NotifyWaiting(j) ==
  /\ Step(j, "uncounted", "over")
  /\ woken' = woken \cup {c \in LaneClosers : laneCloser[c] = "waiting"}
  /\ UNCHANGED <<permits, count, answer>>

\* notify_waiters reaches everyone who has enabled a Notified.
Notify(j) ==
  /\ Step(j, "uncounted", "over")
  /\ woken' = woken \cup {c \in LaneClosers : laneCloser[c] \in {"enabled", "looked", "waiting"}}
  /\ UNCHANGED <<permits, count, answer>>

Thread(j) == Begin(j) \/ Release(j) \/ Uncount(j) \/ Notify(j)

-----------------------------------------------------------------------------
(* shutdown *)

LaneMoves(c, from, to) ==
  /\ laneCloser[c] \in from /\ laneCloser' = [laneCloser EXCEPT ![c] = to]
  /\ UNCHANGED <<laneDropped, queue, dispatcher, work>>

Close(c) ==
  /\ ~laneDropped /\ laneClosed' = TRUE
  /\ LaneMoves(c, {"idle"}, "closed")
  /\ UNCHANGED <<flag, taken, laneAborted, stopped, active, woken>>

\* The first to come takes the dispatcher's handle; the others skip the join.
Signal(c) ==
  /\ flag' = TRUE /\ taken' = TRUE
  /\ LaneMoves(c, {"closed"}, IF taken THEN "idling" ELSE "joining")
  /\ UNCHANGED <<laneClosed, laneAborted, stopped, active, woken>>

Join(c) ==
  /\ dispatcher = "done"
  /\ LaneMoves(c, {"joining", "aborting"}, "idling")
  /\ UNCHANGED <<laneClosed, flag, taken, laneAborted, stopped, active, woken>>

\* Mutant: the aborted dispatcher is not awaited.
JoinTimesOutUnjoined(c) ==
  /\ stopped' = [stopped EXCEPT ![c] = FALSE] /\ laneAborted' = TRUE
  /\ LaneMoves(c, {"joining"}, "idling")
  /\ UNCHANGED <<laneClosed, flag, taken, active, woken>>

\* The deadline: the dispatcher is aborted, and still joined.
JoinTimesOut(c) ==
  /\ stopped' = [stopped EXCEPT ![c] = FALSE] /\ laneAborted' = TRUE
  /\ LaneMoves(c, {"joining"}, "aborting")
  /\ UNCHANGED <<laneClosed, flag, taken, active, woken>>

\* wait_until_idle: enable, then look, then wait.
Enable(c) ==
  /\ LaneMoves(c, {"idling"}, "enabled")
  /\ woken' = woken \ {c}
  /\ UNCHANGED <<laneClosed, flag, taken, laneAborted, stopped, active>>

Look(c) ==
  /\ LaneMoves(c, {"enabled"}, IF count = 0 THEN "reporting" ELSE "looked")
  /\ UNCHANGED <<laneClosed, flag, taken, laneAborted, stopped, active, woken>>

Wait(c) ==
  /\ LaneMoves(c, {"looked"}, "waiting")
  /\ UNCHANGED <<laneClosed, flag, taken, laneAborted, stopped, active, woken>>

Wake(c) ==
  /\ c \in woken
  /\ LaneMoves(c, {"waiting"}, "idling")
  /\ UNCHANGED <<laneClosed, flag, taken, laneAborted, stopped, active, woken>>

WaitTimesOut(c) ==
  /\ LaneMoves(c, {"waiting"}, "reporting")
  /\ UNCHANGED <<laneClosed, flag, taken, laneAborted, stopped, active, woken>>

Report(c) ==
  /\ active' = [active EXCEPT ![c] = count]
  /\ LaneMoves(c, {"reporting"}, "done")
  /\ UNCHANGED <<laneClosed, flag, taken, laneAborted, stopped, woken>>

\* The caller drops the future where it is suspended.
Abandon(c) ==
  /\ LaneMoves(c, {"joining", "aborting", "waiting"}, "abandoned")
  /\ UNCHANGED <<laneClosed, flag, taken, laneAborted, stopped, active, woken>>

\* Drop for BlockingLane: nobody borrows the lane any more.
DropLane ==
  /\ ~laneDropped /\ \A c \in LaneClosers : laneCloser[c] \in {"idle", "done", "abandoned"}
  /\ laneDropped' = TRUE /\ flag' = TRUE /\ taken' = TRUE
  /\ laneAborted' = (laneAborted \/ ~taken)
  /\ UNCHANGED <<laneClosed, queue, dispatcher, work, ends, woken>>

LaneCloser(c) ==
  Signal(c) \/ Join(c) \/ Enable(c) \/ Look(c) \/ Wait(c) \/ Wake(c) \/ Report(c)

LaneNext ==
  \/ Dispatcher \/ DropLane
  \/ \E j \in Jobs : Submit(j) \/ Thread(j) \/ Finish(j)
  \/ \E c \in LaneClosers :
       Close(c) \/ LaneCloser(c) \/ JoinTimesOut(c) \/ WaitTimesOut(c) \/ Abandon(c)

LaneSafety == LaneInit /\ [][LaneNext]_laneVars

\* The runtime runs the dispatcher, the threads and the callers.  No job need
\* end, and no deadline need pass.
LaneFairness ==
  /\ WF_laneVars(Dispatcher)
  /\ \A j \in Jobs : WF_laneVars(Thread(j))
  /\ \A c \in LaneClosers : WF_laneVars(LaneCloser(c))

LaneSpec == LaneSafety /\ LaneFairness

-----------------------------------------------------------------------------
(* Properties *)

\* Every variable has its type.
LaneTypeOK ==
  /\ laneClosed \in BOOLEAN /\ flag \in BOOLEAN /\ laneDropped \in BOOLEAN
  /\ taken \in BOOLEAN /\ laneAborted \in BOOLEAN
  /\ queue \in Seq(Jobs) /\ Len(queue) <= LaneCapacity
  /\ dispatcher \in {"acquiring", "receiving", "polling", "received", "counted", "done"}
  /\ permits \in 0..Concurrency /\ count \in Nat
  /\ job \in [Jobs -> {"new", "queued", "received", "pool", "running", "finished", "released",
                       "uncounted", "over", "dropped"}]
  /\ answer \in [Jobs -> {"none", "value", "panicked", "closed"}]
  /\ laneCloser \in [LaneClosers -> {"idle", "closed", "joining", "aborting", "idling", "enabled",
                             "looked", "waiting", "reporting", "done", "abandoned"}]
  /\ woken \in SUBSET LaneClosers
  /\ stopped \in [LaneClosers -> BOOLEAN] /\ active \in [LaneClosers -> Nat]

In(places) == {j \in Jobs : job[j] \in places}

\* Whatever panics, is abandoned or is shut down, no permit is lost or doubled: at
\* most Concurrency jobs have a thread, and the rest of the permits are free but
\* for the one the dispatcher holds.
PermitsAccounted ==
  Cardinality(In({"pool", "running", "finished"})) + permits
    + (IF dispatcher \in {"receiving", "polling", "received", "counted"} THEN 1 ELSE 0)
  = Concurrency

\* A shutdown that has returned tells the truth: no more jobs can still execute,
\* then or later, than it reports.
ReportCovers ==
  \A c \in LaneClosers : laneCloser[c] = "done" =>
    Cardinality(In({"received", "pool", "running"})) <= active[c]

\* The premise of the liveness properties: every job ends.
JobsEnd == \A j \in Jobs : (job[j] = "running") ~> (job[j] # "running")

\* If jobs end, every accepted call is answered: run to its end, or refused by a
\* shutdown, and never left in the queue of a dispatcher that is gone.
CallsAnswered == JobsEnd => \A j \in Jobs : (job[j] = "queued") ~> (answer[j] # "none")

\* If jobs end, shutdown does not need its deadline to return.
LaneShutdownReturns ==
  JobsEnd => \A c \in LaneClosers : (laneCloser[c] = "closed") ~> (laneCloser[c] \in {"done", "abandoned"})

\* Together: where every job is, and every permit.
PermitsSound == LaneTypeOK /\ PermitsAccounted

\* Together: neither a caller nor a shutdown waits for ever.
LaneEnds == CallsAnswered /\ LaneShutdownReturns
=============================================================================
