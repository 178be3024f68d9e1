----------------------------- MODULE OwnedTasks -----------------------------
(***************************************************************************)
(* OwnedTaskRegistry (subscription.rs) and the OwnedOperations table it    *)
(* keeps under one mutex (operation.rs).  Each admitted id is bound to one *)
(* generation of worker; the worker runs only after its spawner has        *)
(* released the lock and sent the start signal, ends by itself, by its     *)
(* stop future or by an abort, and takes its own entry out on the way.     *)
(* cancel_owned, shutdown and the registry's Drop take entries out first.  *)
(*                                                                         *)
(* A critical section is one action; what a caller does after unlocking,   *)
(* and every step of a worker, interleaves with the others.  An abort only *)
(* takes effect when the runtime next schedules the worker.                *)
(***************************************************************************)
EXTENDS Naturals, FiniteSets

CONSTANTS
  Ids,       \* task ids; callers may use one again
  Owners,    \* unique bus names
  NoOwner,   \* owner: None
  Workers,   \* generations: each worker is spawned at most once
  None,      \* no worker
  Closers,   \* callers of shutdown
  Total, PerOwner \* TaskLimits

ASSUME TasksConstants ==
  /\ None \notin Workers
  /\ NoOwner \notin Owners
  /\ IsFiniteSet(Ids)
  /\ Total \in Nat /\ PerOwner \in Nat

VARIABLES
  closed,   \* State.closed
  dropped,  \* the registry itself is gone
  entry,    \* OwnedOperations.active: per id, the registered worker
  task,     \* per worker, the id and owner it was admitted with
  phase,    \* where the worker's future is
  starting, \* workers whose spawner has yet to send the start signal
  aborted,  \* workers whose JoinHandle::abort was called
  closer,   \* per caller of shutdown, "idle", "aborting", "joining" or "done"
  held,     \* per caller of shutdown, the handles it drained
  gone,     \* owners that left the bus
  monitorDown, \* the owner monitor failed
  claims    \* per worker, how often its entry was claimed (history)

tasksVars == <<closed, dropped, entry, task, phase, starting, aborted, closer, held, gone,
          monitorDown, claims>>

Registered == {i \in Ids : entry[i] # None}
OwnedBy(o) == {i \in Registered : task[entry[i]].owner = o}
NoTask == [id |-> None, owner |-> NoOwner]

TasksInit ==
  /\ closed = FALSE /\ dropped = FALSE
  /\ entry = [i \in Ids |-> None]
  /\ task = [w \in Workers |-> NoTask]
  /\ phase = [w \in Workers |-> "unused"]
  /\ starting = {} /\ aborted = {}
  /\ closer = [c \in Closers |-> "idle"] /\ held = [c \in Closers |-> {}]
  /\ gone = {} /\ monitorDown = FALSE
  /\ claims = [w \in Workers |-> 0]

-----------------------------------------------------------------------------
(* OwnedOperations *)

\* Mutant: one owner may take the whole table.
AdmitsTotal(o) == Cardinality(Registered) < Total

Admits(o) == Cardinality(Registered) < Total /\ Cardinality(OwnedBy(o)) < PerOwner

\* Mutant: the entry is read, not removed.
ClaimKeeps(S) ==
  /\ claims' = [w \in Workers |-> IF \E i \in S : entry[i] = w THEN claims[w] + 1 ELSE claims[w]]
  /\ UNCHANGED entry

\* remove() and drain(): whoever takes the entry out owns the terminal transition.
Claim(S) ==
  /\ entry' = [i \in Ids |-> IF i \in S THEN None ELSE entry[i]]
  /\ claims' = [w \in Workers |-> IF \E i \in S : entry[i] = w THEN claims[w] + 1 ELSE claims[w]]

-----------------------------------------------------------------------------
(* Callers *)

\* spawn_until, up to drop(state).  Refusals change nothing.
Spawn(i, o) ==
  /\ ~closed /\ ~dropped /\ entry[i] = None /\ Admits(o)
  /\ \E w \in Workers :
       /\ phase[w] = "unused"
       /\ entry' = [entry EXCEPT ![i] = w]
       /\ task' = [task EXCEPT ![w] = [id |-> i, owner |-> o]]
       /\ phase' = [phase EXCEPT ![w] = "created"]
       /\ starting' = starting \cup {w}
  /\ UNCHANGED <<closed, dropped, aborted, closer, held, gone, monitorDown, claims>>

\* start.send(()), after the lock is released.
SendStart(w) ==
  /\ w \in starting
  /\ starting' = starting \ {w}
  /\ UNCHANGED <<closed, dropped, entry, task, phase, aborted, closer, held, gone, monitorDown, claims>>

\* Mutant: the worker is aborted and left to clean up after itself.
CancelLeavesEntry(i, o) ==
  /\ ~dropped /\ i \in Registered /\ task[entry[i]].owner = o
  /\ aborted' = aborted \cup {entry[i]}
  /\ UNCHANGED <<closed, dropped, entry, task, phase, starting, closer, held, gone, monitorDown, claims>>

\* cancel_owned: lookup, owner check, claim and abort under the lock.
CancelOwned(i, o) ==
  /\ ~dropped /\ i \in Registered /\ task[entry[i]].owner = o
  /\ Claim({i})
  /\ aborted' = aborted \cup {entry[i]}
  /\ UNCHANGED <<closed, dropped, task, phase, starting, closer, held, gone, monitorDown>>

\* Mutant: unused ids are drained too.
DrainAll(c) ==
  /\ ~dropped /\ closer[c] = "idle"
  /\ closed' = TRUE
  /\ held' = [held EXCEPT ![c] = {entry[i] : i \in Ids}]
  /\ Claim(Registered)
  /\ closer' = [closer EXCEPT ![c] = "aborting"]
  /\ UNCHANGED <<dropped, task, phase, starting, aborted, gone, monitorDown>>

\* shutdown, under the lock.
Drain(c) ==
  /\ ~dropped /\ closer[c] = "idle"
  /\ closed' = TRUE
  /\ held' = [held EXCEPT ![c] = {entry[i] : i \in Registered}]
  /\ Claim(Registered)
  /\ closer' = [closer EXCEPT ![c] = "aborting"]
  /\ UNCHANGED <<dropped, task, phase, starting, aborted, gone, monitorDown>>

\* abort_and_join: every handle is aborted, one after another, before any is awaited.
AbortNext(c) ==
  /\ closer[c] = "aborting" /\ held[c] \ aborted # {}
  /\ \E w \in held[c] \ aborted : aborted' = aborted \cup {w}
  /\ UNCHANGED <<closed, dropped, entry, task, phase, starting, closer, held, gone, monitorDown, claims>>

\* Mutant: each handle is awaited before the next is aborted.
AwaitFirst(c) ==
  /\ closer[c] = "aborting"
  /\ closer' = [closer EXCEPT ![c] = "joining"]
  /\ UNCHANGED <<closed, dropped, entry, task, phase, starting, aborted, held, gone, monitorDown, claims>>

AwaitAll(c) ==
  /\ closer[c] = "aborting" /\ held[c] \subseteq aborted
  /\ closer' = [closer EXCEPT ![c] = "joining"]
  /\ UNCHANGED <<closed, dropped, entry, task, phase, starting, aborted, held, gone, monitorDown, claims>>

\* Mutant: shutdown does not wait.
ReturnEarly(c) ==
  /\ closer[c] = "joining"
  /\ closer' = [closer EXCEPT ![c] = "done"]
  /\ UNCHANGED <<closed, dropped, entry, task, phase, starting, aborted, held, gone, monitorDown, claims>>

Return(c) ==
  /\ closer[c] = "joining" /\ \A w \in held[c] : phase[w] = "ended"
  /\ closer' = [closer EXCEPT ![c] = "done"]
  /\ UNCHANGED <<closed, dropped, entry, task, phase, starting, aborted, held, gone, monitorDown, claims>>

\* Drop for OwnedTaskRegistry: nobody borrows the registry any more.  The table
\* goes with it, and workers no longer find it.
DropRegistry ==
  /\ ~dropped /\ starting = {} /\ \A c \in Closers : closer[c] \in {"idle", "done"}
  /\ dropped' = TRUE
  /\ aborted' = aborted \cup {entry[i] : i \in Registered}
  /\ Claim(Registered)
  /\ UNCHANGED <<closed, task, phase, starting, closer, held, gone, monitorDown>>

-----------------------------------------------------------------------------
(* Workers *)

Live(w) == phase[w] \in {"created", "running"}

Move(w, to) ==
  /\ phase' = [phase EXCEPT ![w] = to]
  /\ UNCHANGED <<closed, dropped, task, starting, aborted, closer, held, gone, monitorDown>>

\* The start signal arrives: stop and events are polled from here on.
Run(w) == phase[w] = "created" /\ w \notin starting /\ Move(w, "running") /\ UNCHANGED <<entry, claims>>

\* events completes or panics.
Complete(w) == phase[w] = "running" /\ Move(w, "ending") /\ UNCHANGED <<entry, claims>>

\* Mutant: a failed monitor keeps the worker waiting.
StopOnLoss(w) ==
  /\ phase[w] = "running" /\ task[w].owner # NoOwner
  /\ task[w].owner \in gone
  /\ Move(w, "ending") /\ UNCHANGED <<entry, claims>>

\* spawn_for_owner's stop future: its owner left, or cannot be watched.
Stop(w) ==
  /\ phase[w] = "running" /\ task[w].owner # NoOwner
  /\ task[w].owner \in gone \/ monitorDown
  /\ Move(w, "ending") /\ UNCHANGED <<entry, claims>>

\* Mutant: a worker that has started no longer notices.
AbortBeforeStart(w) ==
  phase[w] = "created" /\ w \in aborted /\ Move(w, "ending") /\ UNCHANGED <<entry, claims>>

\* The runtime drops an aborted worker's future instead of polling it.
AbortLands(w) ==
  Live(w) /\ w \in aborted /\ Move(w, "ending") /\ UNCHANGED <<entry, claims>>

\* Mutant: the entry under the worker's id goes, whoever it belongs to.
CleanupAny(w) ==
  /\ phase[w] = "ending"
  /\ IF ~dropped /\ entry[task[w].id] # None THEN Claim({task[w].id}) ELSE UNCHANGED <<entry, claims>>
  /\ Move(w, "ended")

\* Drop for Registration: only the entry of its own generation.
Cleanup(w) ==
  /\ phase[w] = "ending"
  /\ IF ~dropped /\ entry[task[w].id] = w THEN Claim({task[w].id}) ELSE UNCHANGED <<entry, claims>>
  /\ Move(w, "ended")

-----------------------------------------------------------------------------
(* The bus *)

OwnerLeaves(o) ==
  /\ o \notin gone /\ gone' = gone \cup {o}
  /\ UNCHANGED <<closed, dropped, entry, task, phase, starting, aborted, closer, held, monitorDown, claims>>

MonitorFails ==
  /\ ~monitorDown /\ monitorDown' = TRUE
  /\ UNCHANGED <<closed, dropped, entry, task, phase, starting, aborted, closer, held, gone, claims>>

Worker(w) == Run(w) \/ Stop(w) \/ AbortLands(w) \/ Cleanup(w)
Closer(c) == AbortNext(c) \/ AwaitAll(c) \/ Return(c)

TasksNext ==
  \/ \E i \in Ids, o \in Owners \cup {NoOwner} : Spawn(i, o) \/ CancelOwned(i, o)
  \/ \E w \in Workers : SendStart(w) \/ Worker(w) \/ Complete(w)
  \/ \E c \in Closers : Drain(c) \/ Closer(c)
  \/ \E o \in Owners : OwnerLeaves(o)
  \/ DropRegistry \/ MonitorFails

TasksSafety == TasksInit /\ [][TasksNext]_tasksVars

\* The runtime schedules every worker and every caller inside spawn_until or
\* shutdown; a worker's events need never complete.
TasksFairness ==
  /\ \A w \in Workers : WF_tasksVars(SendStart(w)) /\ WF_tasksVars(Worker(w))
  /\ \A c \in Closers : WF_tasksVars(Closer(c))

TasksSpec == TasksSafety /\ TasksFairness

-----------------------------------------------------------------------------
(* Properties *)

TaskType == [id : Ids, owner : Owners \cup {NoOwner}] \cup {NoTask}

\* Every variable has its type.
TasksTypeOK ==
  /\ closed \in BOOLEAN /\ dropped \in BOOLEAN /\ monitorDown \in BOOLEAN
  /\ entry \in [Ids -> Workers \cup {None}]
  /\ task \in [Workers -> TaskType]
  /\ phase \in [Workers -> {"unused", "created", "running", "ending", "ended"}]
  /\ starting \in SUBSET Workers /\ aborted \in SUBSET Workers /\ gone \in SUBSET Owners
  /\ closer \in [Closers -> {"idle", "aborting", "joining", "done"}]
  /\ held \in [Closers -> SUBSET Workers]
  /\ claims \in [Workers -> Nat]

\* An entry stands for the worker admitted under its id, which is neither
\* aborted nor over: a cancellation that finds an entry really ends something,
\* however often the id was used before.
EntriesAreCurrent ==
  \A i \in Registered :
    LET w == entry[i]
    IN  w \notin aborted /\ task[w].id = i /\ phase[w] \in {"created", "running", "ending"}

\* No worker escapes: one that may still run its events is registered under its
\* id, or has been aborted, or is in the hands of a shutdown that will abort it.
\* An old worker's late cleanup must not strand the successor on its id.
Reachable(w) ==
  \/ task[w].id \in Ids /\ entry[task[w].id] = w
  \/ w \in aborted
  \/ \E c \in Closers : closer[c] = "aborting" /\ w \in held[c]

NoOrphans == \A w \in Workers : Live(w) => Reachable(w)

\* The limits bound the workers that run unaborted, not just the table: entries
\* taken out by a shutdown that is still aborting make no room for more.
Unaborted == {w \in Workers : Live(w) /\ w \notin aborted}

LiveWithinLimits ==
  /\ Cardinality(Unaborted) <= Total
  /\ \A o \in Owners \cup {NoOwner} :
       Cardinality({w \in Unaborted : task[w].owner = o}) <= PerOwner

\* Completion, cancellation, shutdown and Drop race for an entry: one wins.
SingleClaim == \A w \in Workers : claims[w] <= 1

\* When shutdown returns, its workers are over, and nothing else can be running
\* but what another shutdown is about to abort.
ShutdownJoins ==
  \A c \in Closers : closer[c] = "done" =>
    /\ \A w \in held[c] : phase[w] = "ended"
    /\ \A w \in Unaborted : \E d \in Closers : closer[d] = "aborting" /\ w \in held[d]

\* The loss of its owner, or of the means to watch it, ends a worker.
OwnerLossEnds ==
  \A w \in Workers, o \in Owners :
    (phase[w] # "unused" /\ task[w].owner = o /\ (o \in gone \/ monitorDown)) ~> phase[w] = "ended"

\* A cancelled worker ends, whether it was running or never started.
AbortEnds == \A w \in Workers : w \in aborted ~> phase[w] = "ended"

\* shutdown returns.
ShutdownReturns == \A c \in Closers : closer[c] = "aborting" ~> closer[c] = "done"

\* Together: table, workers and quotas tell the same story through reuse of ids,
\* cancellation, loss of owners, cleanup and shutdown.
TasksSound ==
  /\ TasksTypeOK
  /\ EntriesAreCurrent
  /\ NoOrphans
  /\ LiveWithinLimits
  /\ SingleClaim

\* Together: nothing that is to end waits for ever.
TasksEnd == OwnerLossEnds /\ AbortEnds /\ ShutdownReturns
=============================================================================
