------------------------------- MODULE WorkProofs -------------------------------
(***************************************************************************)
(* Invariants of OwnedTasks for every set of ids, owners, workers and      *)
(* closers, and every limit.  The accounts of BlockingLane for any jobs,   *)
(* closers, capacity and number of permits, and the report of a lane that  *)
(* is shut down once.                                                      *)
(***************************************************************************)
EXTENDS OwnedTasks, BlockingLane, FiniteSetTheorems, TLAPS

-----------------------------------------------------------------------------
(* OwnedTasks: the inductive invariant *)

\* A worker that was spawned keeps the id it was admitted with; one that was not
\* is known to nobody.
SpawnedOK ==
  \A w \in Workers :
    IF phase[w] = "unused"
    THEN w \notin starting \cup aborted /\ claims[w] = 0 /\ \A c \in Closers : w \notin held[c]
    ELSE task[w].id \in Ids

\* A registered worker has not been claimed, and nobody has been claimed twice.
Unclaimed == \A i \in Registered : claims[entry[i]] = 0

\* What a shutdown has seen to at each of its stages.
Stages ==
  \A c \in Closers :
    /\ closer[c] # "idle" => closed
    /\ closer[c] \in {"joining", "done"} => held[c] \subseteq aborted
    /\ closer[c] = "done" => \A w \in held[c] : phase[w] = "ended"

\* Nothing is registered once the registry is closed or dropped.
Emptied == closed \/ dropped => Registered = {}

TasksInv == TasksTypeOK /\ EntriesAreCurrent /\ NoOrphans /\ SingleClaim
        /\ SpawnedOK /\ Unclaimed /\ Stages /\ Emptied

\* An empty registry satisfies the invariant.
LEMMA InitTasksInv == TasksInit => TasksInv
<1> SUFFICES ASSUME TasksInit PROVE TasksInv
  OBVIOUS
<1> USE TasksConstants DEF TasksInit
<1>1. TasksTypeOK
  BY DEF TasksTypeOK, TaskType
<1>2. Registered = {}
  BY DEF Registered
<1>3. QED
  BY <1>1, <1>2 DEF TasksInv, EntriesAreCurrent, NoOrphans, SingleClaim, SpawnedOK, Unclaimed,
                    Stages, Emptied, Live, NoTask

-----------------------------------------------------------------------------
(* Facts shared by the steps *)

\* What a registered id stands for, spelt out.
LEMMA EntryFacts ==
  ASSUME TasksInv, NEW i \in Ids, entry[i] # None
  PROVE  /\ entry[i] \in Workers /\ entry[i] \notin aborted
         /\ task[entry[i]].id = i /\ claims[entry[i]] = 0
         /\ phase[entry[i]] \in {"created", "running", "ending"}
         /\ ~closed /\ ~dropped
BY DEF TasksInv, TasksTypeOK, EntriesAreCurrent, Unclaimed, Emptied, Registered

\* A claim takes out exactly the entries of S, counts each of their workers once,
\* and leaves no claimed worker registered.
LEMMA ClaimOK ==
  ASSUME TasksInv, NEW S, Claim(S), \A i \in S : i \in Ids /\ entry[i] # None
  PROVE  /\ entry' \in [Ids -> Workers \cup {None}] /\ claims' \in [Workers -> Nat]
         /\ \A i \in Ids : entry'[i] = IF i \in S THEN None ELSE entry[i]
         /\ \A w \in Workers : claims'[w] <= 1
         /\ \A i \in Ids : entry'[i] # None => claims'[entry'[i]] = 0
         /\ \A w \in Workers : claims'[w] = IF \E i \in S : entry[i] = w THEN 1 ELSE claims[w]
<1>1. /\ entry \in [Ids -> Workers \cup {None}] /\ claims \in [Workers -> Nat]
      /\ \A w \in Workers : claims[w] <= 1
  BY DEF TasksInv, TasksTypeOK, SingleClaim
<1>2. /\ entry' = [i \in Ids |-> IF i \in S THEN None ELSE entry[i]]
      /\ claims' = [w \in Workers |-> IF \E i \in S : entry[i] = w THEN claims[w] + 1 ELSE claims[w]]
  BY DEF Claim
<1>3. \A w \in Workers : claims'[w] = IF \E i \in S : entry[i] = w THEN 1 ELSE claims[w]
  BY <1>1, <1>2, EntryFacts
<1>4. claims' \in [Workers -> Nat]
  BY <1>1, <1>2
<1>5. ASSUME NEW i \in Ids, entry'[i] # None PROVE claims'[entry'[i]] = 0
  <2>1. i \notin S /\ entry'[i] = entry[i] /\ entry[i] # None
    BY <1>2, <1>5
  <2>2. ~\E j \in S : entry[j] = entry[i]
    BY <2>1, EntryFacts
  <2>3. QED
    BY <2>1, <2>2, <1>3, EntryFacts
<1>6. QED
  BY <1>1, <1>2, <1>3, <1>4, <1>5

-----------------------------------------------------------------------------
(* One lemma per action *)

\* An admission: its worker is new, so its id's entry is the only thing that
\* knows it.
LEMMA SpawnOK ==
  ASSUME TasksInv, NEW i \in Ids, NEW o \in Owners \cup {NoOwner}, Spawn(i, o)
  PROVE  TasksInv'
<1> USE TasksConstants DEF Spawn
<1>1. PICK v \in Workers :
        /\ phase[v] = "unused"
        /\ entry' = [entry EXCEPT ![i] = v]
        /\ task' = [task EXCEPT ![v] = [id |-> i, owner |-> o]]
        /\ phase' = [phase EXCEPT ![v] = "created"]
        /\ starting' = starting \cup {v}
  OBVIOUS
<1>2. TasksTypeOK'
  BY <1>1 DEF TasksInv, TasksTypeOK, TaskType
<1>3. /\ \A w \in Workers : w # v => phase'[w] = phase[w] /\ task'[w] = task[w]
      /\ phase'[v] = "created" /\ task'[v].id = i
      /\ \A j \in Ids : entry'[j] = IF j = i THEN v ELSE entry[j]
  BY <1>1 DEF TasksInv, TasksTypeOK
<1>4. \A j \in Ids : entry[j] # v
  BY <1>1, EntryFacts
<1>5. v \notin aborted /\ claims[v] = 0 /\ v \notin starting /\ \A c \in Closers : v \notin held[c]
  BY <1>1 DEF TasksInv, SpawnedOK
<1>6. EntriesAreCurrent'
  BY <1>1, <1>3, <1>5, EntryFacts DEF EntriesAreCurrent, Registered
<1>7. NoOrphans'
  <2>1. ASSUME NEW w \in Workers, w # v, Live(w)'
        PROVE  Reachable(w)'
    <3>1. Live(w) /\ Reachable(w) /\ task'[w] = task[w]
      BY <1>3, <2>1 DEF Live, TasksInv, NoOrphans
    <3>2. CASE task[w].id \in Ids /\ entry[task[w].id] = w
      BY <1>1, <1>3, <3>1, <3>2 DEF Reachable, TasksInv, TasksTypeOK
    <3>3. CASE w \in aborted \/ \E c \in Closers : closer[c] = "aborting" /\ w \in held[c]
      BY <3>3 DEF Reachable
    <3>4. QED
      BY <3>1, <3>2, <3>3 DEF Reachable
  <2>2. Reachable(v)'
    BY <1>3 DEF Reachable
  <2>3. QED
    BY <2>1, <2>2 DEF NoOrphans
<1>8. SingleClaim' /\ Unclaimed'
  BY <1>3, <1>5, EntryFacts DEF TasksInv, SingleClaim, Unclaimed, Registered
<1>9. SpawnedOK'
  BY <1>1, <1>3 DEF TasksInv, SpawnedOK
<1>10. Stages' /\ Emptied'
  <2>1. ASSUME NEW c \in Closers PROVE closer[c] = "idle"
    BY DEF TasksInv, Stages
  <2>2. QED
    BY <2>1 DEF Stages, Emptied
<1>11. QED
  BY <1>2, <1>6, <1>7, <1>8, <1>9, <1>10 DEF TasksInv

\* cancel_owned aborts the worker whose entry it takes out.
LEMMA CancelOwnedOK ==
  ASSUME TasksInv, NEW i \in Ids, NEW o \in Owners \cup {NoOwner}, CancelOwned(i, o)
  PROVE  TasksInv'
<1> DEFINE v == entry[i]
<1>1. /\ Claim({i}) /\ entry[i] # None /\ aborted' = aborted \cup {v}
      /\ UNCHANGED <<closed, dropped, task, phase, starting, closer, held, gone, monitorDown>>
  BY DEF CancelOwned, Registered
<1>2. /\ v \in Workers /\ v \notin aborted /\ task[v].id = i /\ phase[v] # "unused"
      /\ ~closed /\ ~dropped
  BY <1>1, EntryFacts
<1>3. /\ entry' \in [Ids -> Workers \cup {None}] /\ claims' \in [Workers -> Nat]
      /\ \A j \in Ids : entry'[j] = IF j = i THEN None ELSE entry[j]
      /\ \A w \in Workers : claims'[w] <= 1
      /\ \A j \in Ids : entry'[j] # None => claims'[entry'[j]] = 0
      /\ \A w \in Workers : w # v => claims'[w] = claims[w]
  BY <1>1, ClaimOK
<1> HIDE DEF v
<1>4. TasksTypeOK'
  BY <1>1, <1>2, <1>3 DEF TasksInv, TasksTypeOK
<1>5. EntriesAreCurrent'
  BY <1>1, <1>2, <1>3, EntryFacts DEF EntriesAreCurrent, Registered
<1>6. NoOrphans'
  BY <1>1, <1>2, <1>3 DEF TasksInv, NoOrphans, Reachable, Live, v
<1>7. SingleClaim' /\ Unclaimed'
  BY <1>3 DEF SingleClaim, Unclaimed, Registered
<1>8. SpawnedOK'
  BY <1>1, <1>2, <1>3 DEF TasksInv, SpawnedOK
<1>9. Stages' /\ Emptied'
  BY <1>1, <1>2 DEF TasksInv, Stages, Emptied
<1>10. QED
  BY <1>4, <1>5, <1>6, <1>7, <1>8, <1>9 DEF TasksInv

\* shutdown takes every entry out and answers for the workers.
LEMMA DrainOK ==
  ASSUME TasksInv, NEW c \in Closers, Drain(c)
  PROVE  TasksInv'
<1>1. /\ closer[c] = "idle" /\ closed' = TRUE
      /\ held' = [held EXCEPT ![c] = {entry[i] : i \in Registered}]
      /\ closer' = [closer EXCEPT ![c] = "aborting"]
      /\ Claim(Registered)
      /\ UNCHANGED <<dropped, task, phase, starting, aborted, gone, monitorDown>>
  BY DEF Drain
<1>2. /\ entry' \in [Ids -> Workers \cup {None}] /\ claims' \in [Workers -> Nat]
      /\ \A j \in Ids : entry'[j] = None
      /\ \A w \in Workers : claims'[w] <= 1
      /\ \A w \in Workers : claims'[w] = IF \E i \in Registered : entry[i] = w THEN 1 ELSE claims[w]
  <2>1. \A j \in Registered : j \in Ids /\ entry[j] # None
    BY DEF Registered
  <2>2. QED
    BY <1>1, <2>1, ClaimOK DEF Registered
<1>3. \A i \in Registered : entry[i] \in Workers /\ phase[entry[i]] # "unused"
  BY EntryFacts DEF Registered
<1>4. /\ held'[c] = {entry[i] : i \in Registered} /\ closer'[c] = "aborting"
      /\ \A d \in Closers : d # c => held'[d] = held[d] /\ closer'[d] = closer[d]
  BY <1>1 DEF TasksInv, TasksTypeOK
<1>5. TasksTypeOK'
  BY <1>1, <1>2, <1>3 DEF TasksInv, TasksTypeOK
<1>6. EntriesAreCurrent' /\ Emptied' /\ Unclaimed' /\ SingleClaim'
  BY <1>2 DEF EntriesAreCurrent, Emptied, Unclaimed, SingleClaim, Registered
<1>7. NoOrphans'
  <2> SUFFICES ASSUME NEW w \in Workers, Live(w)' PROVE Reachable(w)'
    BY DEF NoOrphans
  <2>1. Reachable(w)
    BY <1>1 DEF TasksInv, NoOrphans, Live
  <2>2. CASE task[w].id \in Ids /\ entry[task[w].id] = w
    <3>1. w # None
      BY TasksConstants
    <3>2. w \in held'[c]
      BY <1>4, <2>2, <3>1 DEF Registered
    <3>3. QED
      BY <1>4, <3>2 DEF Reachable
  <2>3. CASE w \in aborted
    BY <1>1, <2>3 DEF Reachable
  <2>4. CASE \E d \in Closers : closer[d] = "aborting" /\ w \in held[d]
    BY <1>1, <1>4, <2>4 DEF Reachable
  <2>5. QED
    BY <2>1, <2>2, <2>3, <2>4 DEF Reachable
<1>8. SpawnedOK'
  BY <1>1, <1>2, <1>3, <1>4 DEF TasksInv, SpawnedOK
<1>9. Stages'
  BY <1>1, <1>4 DEF TasksInv, Stages
<1>10. QED
  BY <1>5, <1>6, <1>7, <1>8, <1>9 DEF TasksInv

\* The registry's Drop aborts all that is registered.
LEMMA DropRegistryOK == TasksInv /\ DropRegistry => TasksInv'
<1> SUFFICES ASSUME TasksInv, DropRegistry PROVE TasksInv'
  OBVIOUS
<1>1. /\ dropped' = TRUE /\ Claim(Registered)
      /\ aborted' = aborted \cup {entry[i] : i \in Registered}
      /\ UNCHANGED <<closed, task, phase, starting, closer, held, gone, monitorDown>>
  BY DEF DropRegistry
<1>2. /\ entry' \in [Ids -> Workers \cup {None}] /\ claims' \in [Workers -> Nat]
      /\ \A j \in Ids : entry'[j] = None
      /\ \A w \in Workers : claims'[w] <= 1
      /\ \A w \in Workers : claims'[w] = IF \E i \in Registered : entry[i] = w THEN 1 ELSE claims[w]
  <2>1. \A j \in Registered : j \in Ids /\ entry[j] # None
    BY DEF Registered
  <2>2. QED
    BY <1>1, <2>1, ClaimOK DEF Registered
<1>3. \A i \in Registered : entry[i] \in Workers /\ phase[entry[i]] # "unused"
  BY EntryFacts DEF Registered
<1>4. TasksTypeOK'
  BY <1>1, <1>2, <1>3 DEF TasksInv, TasksTypeOK
<1>5. EntriesAreCurrent' /\ Emptied' /\ Unclaimed' /\ SingleClaim'
  BY <1>2 DEF EntriesAreCurrent, Emptied, Unclaimed, SingleClaim, Registered
<1>6. NoOrphans'
  BY <1>1, TasksConstants DEF TasksInv, NoOrphans, Live, Reachable, Registered
<1>7. SpawnedOK'
  BY <1>1, <1>2, <1>3 DEF TasksInv, SpawnedOK
<1>8. Stages'
  BY <1>1 DEF TasksInv, Stages
<1>9. QED
  BY <1>4, <1>5, <1>6, <1>7, <1>8 DEF TasksInv

\* A worker that takes itself no further than its end, and leaves the table as
\* it is.
LEMMA MoveOK ==
  ASSUME TasksInv, NEW w \in Workers, NEW to \in {"running", "ending"},
         phase[w] \in {"created", "running"}, Move(w, to), UNCHANGED <<entry, claims>>
  PROVE  TasksInv'
<1>1. /\ phase' = [phase EXCEPT ![w] = to]
      /\ UNCHANGED <<closed, dropped, entry, task, starting, aborted, closer, held, gone,
                     monitorDown, claims>>
  BY DEF Move
<1>2. /\ phase'[w] = to
      /\ \A x \in Workers : x # w => phase'[x] = phase[x]
  BY <1>1 DEF TasksInv, TasksTypeOK
<1>3. TasksTypeOK'
  BY <1>1 DEF TasksInv, TasksTypeOK
<1>4. EntriesAreCurrent'
  BY <1>1, <1>2, EntryFacts DEF EntriesAreCurrent, Registered
<1>5. NoOrphans'
  BY <1>1, <1>2 DEF TasksInv, NoOrphans, Live, Reachable
<1>6. SingleClaim' /\ Unclaimed' /\ Emptied'
  BY <1>1 DEF TasksInv, SingleClaim, Unclaimed, Emptied, Registered
<1>7. SpawnedOK'
  BY <1>1, <1>2 DEF TasksInv, SpawnedOK
<1>8. Stages'
  BY <1>1, <1>2 DEF TasksInv, Stages
<1>9. QED
  BY <1>3, <1>4, <1>5, <1>6, <1>7, <1>8 DEF TasksInv

\* A worker's cleanup takes out its own entry, if it is still there, and no
\* other's.
LEMMA CleanupOK ==
  ASSUME TasksInv, NEW w \in Workers, Cleanup(w)
  PROVE  TasksInv'
<1> DEFINE i == task[w].id
<1>1. /\ phase[w] = "ending" /\ phase' = [phase EXCEPT ![w] = "ended"]
      /\ UNCHANGED <<closed, dropped, task, starting, aborted, closer, held, gone, monitorDown>>
      /\ \/ entry[i] = w /\ Claim({i})
         \/ (dropped \/ entry[i] # w) /\ UNCHANGED <<entry, claims>>
  BY DEF Cleanup, Move
<1>2. i \in Ids
  BY <1>1 DEF TasksInv, SpawnedOK
<1>3. w # None
  BY TasksConstants
<1>4. phase'[w] = "ended" /\ \A x \in Workers : x # w => phase'[x] = phase[x]
  BY <1>1 DEF TasksInv, TasksTypeOK
<1>5. /\ entry' \in [Ids -> Workers \cup {None}] /\ claims' \in [Workers -> Nat]
      /\ \A j \in Ids : entry'[j] = IF entry[j] = w THEN None ELSE entry[j]
      /\ \A x \in Workers : claims'[x] <= 1
      /\ \A j \in Ids : entry'[j] # None => claims'[entry'[j]] = 0
      /\ \A x \in Workers : x # w => claims'[x] = claims[x]
  <2>1. CASE entry[i] = w /\ Claim({i})
    <3>1. \A j \in {i} : j \in Ids /\ entry[j] # None
      BY <1>2, <1>3, <2>1
    <3>2. \A j \in Ids : entry[j] = w => j = i
      BY <1>3, EntryFacts
    <3>3. QED
      BY <2>1, <3>1, <3>2, ClaimOK
  <2>2. CASE (dropped \/ entry[i] # w) /\ UNCHANGED <<entry, claims>>
    <3>1. \A j \in Ids : entry[j] # w
      BY <1>3, <2>2, EntryFacts
    <3>2. \A j \in Ids : entry[j] # None => claims[entry[j]] = 0
      BY EntryFacts
    <3>3. QED
      BY <2>2, <3>1, <3>2 DEF TasksInv, TasksTypeOK, SingleClaim
  <2>3. QED
    BY <1>1, <2>1, <2>2
<1> HIDE DEF i
<1>6. TasksTypeOK'
  BY <1>1, <1>5 DEF TasksInv, TasksTypeOK
<1>7. EntriesAreCurrent'
  BY <1>1, <1>4, <1>5, EntryFacts DEF EntriesAreCurrent, Registered
<1>8. NoOrphans'
  <2> SUFFICES ASSUME NEW x \in Workers, Live(x)' PROVE Reachable(x)'
    BY DEF NoOrphans
  <2>1. x # w /\ Live(x) /\ Reachable(x)
    BY <1>4 DEF TasksInv, NoOrphans, Live
  <2>2. QED
    BY <1>1, <1>5, <2>1 DEF Reachable
<1>9. SingleClaim' /\ Unclaimed'
  BY <1>5 DEF SingleClaim, Unclaimed, Registered
<1>10. SpawnedOK'
  BY <1>1, <1>4, <1>5 DEF TasksInv, SpawnedOK
<1>11. Stages' /\ Emptied'
  BY <1>1, <1>4, <1>5 DEF TasksInv, Stages, Emptied, Registered
<1>12. QED
  BY <1>6, <1>7, <1>8, <1>9, <1>10, <1>11 DEF TasksInv

\* shutdown, after the lock: abort one by one, await all, return.
LEMMA CloserOK ==
  ASSUME TasksInv, NEW c \in Closers, Closer(c)
  PROVE  TasksInv'
<1>1. CASE AbortNext(c)
  <2>1. PICK w \in held[c] \ aborted : aborted' = aborted \cup {w}
    BY <1>1 DEF AbortNext
  <2>2. UNCHANGED <<closed, dropped, entry, task, phase, starting, closer, held, gone,
                    monitorDown, claims>>
    BY <1>1 DEF AbortNext
  <2>3. w \in Workers /\ closer[c] = "aborting"
    BY <1>1, <2>1 DEF TasksInv, TasksTypeOK, AbortNext
  <2>4. \A i \in Ids : entry[i] # None => FALSE
    BY <2>3, EntryFacts DEF TasksInv, Stages
  <2>5. TasksTypeOK' /\ EntriesAreCurrent' /\ SingleClaim' /\ Unclaimed' /\ Emptied'
    BY <2>1, <2>2, <2>3, <2>4
       DEF TasksInv, TasksTypeOK, EntriesAreCurrent, SingleClaim, Unclaimed, Emptied, Registered
  <2>6. NoOrphans'
    BY <2>1, <2>2 DEF TasksInv, NoOrphans, Live, Reachable
  <2>7. SpawnedOK' /\ Stages'
    BY <2>1, <2>2, <2>3 DEF TasksInv, SpawnedOK, Stages
  <2>8. QED
    BY <2>5, <2>6, <2>7 DEF TasksInv
<1>2. ASSUME NEW to \in {"joining", "done"},
             closer' = [closer EXCEPT ![c] = to],
             closer[c] \in {"aborting", "joining"}, held[c] \subseteq aborted,
             to = "done" => \A w \in held[c] : phase[w] = "ended",
             UNCHANGED <<closed, dropped, entry, task, phase, starting, aborted, held, gone,
                         monitorDown, claims>>
      PROVE  TasksInv'
  <2>1. closer'[c] = to /\ \A d \in Closers : d # c => closer'[d] = closer[d]
    BY <1>2 DEF TasksInv, TasksTypeOK
  <2>2. TasksTypeOK' /\ EntriesAreCurrent' /\ SingleClaim' /\ Unclaimed' /\ Emptied'
    BY <1>2 DEF TasksInv, TasksTypeOK, EntriesAreCurrent, SingleClaim, Unclaimed, Emptied, Registered
  <2>3. NoOrphans'
    BY <1>2, <2>1 DEF TasksInv, NoOrphans, Live, Reachable
  <2>4. SpawnedOK' /\ Stages'
    BY <1>2, <2>1 DEF TasksInv, SpawnedOK, Stages
  <2>5. QED
    BY <2>2, <2>3, <2>4 DEF TasksInv
<1>3. CASE AwaitAll(c)
  BY <1>2, <1>3 DEF AwaitAll
<1>4. CASE Return(c)
  <2>1. held[c] \subseteq aborted
    BY <1>4 DEF Return, TasksInv, Stages
  <2>2. QED
    BY <1>2, <1>4, <2>1 DEF Return
<1>5. QED
  BY <1>1, <1>3, <1>4 DEF Closer

\* The start signal and the bus leave the table and the workers alone.
LEMMA SignalOK ==
  ASSUME TasksInv,
         starting' \subseteq starting, gone' \subseteq Owners, monitorDown' \in BOOLEAN,
         UNCHANGED <<closed, dropped, entry, task, phase, aborted, closer, held, claims>>
  PROVE  TasksInv'
BY DEF TasksInv, TasksTypeOK, EntriesAreCurrent, NoOrphans, SingleClaim, SpawnedOK, Unclaimed, Stages,
       Emptied, Registered, Live, Reachable

\* Every step keeps the invariant.
LEMMA NextTasksInv == TasksInv /\ [TasksNext]_tasksVars => TasksInv'
<1> SUFFICES ASSUME TasksInv, [TasksNext]_tasksVars PROVE TasksInv'
  OBVIOUS
<1>1. ASSUME NEW i \in Ids, NEW o \in Owners \cup {NoOwner}, Spawn(i, o) \/ CancelOwned(i, o)
      PROVE  TasksInv'
  BY <1>1, SpawnOK, CancelOwnedOK
<1>2. ASSUME NEW w \in Workers, SendStart(w) PROVE TasksInv'
  BY <1>2, SignalOK DEF SendStart, TasksInv, TasksTypeOK
<1>3. ASSUME NEW w \in Workers, Run(w) \/ Complete(w) \/ Stop(w) \/ AbortLands(w) PROVE TasksInv'
  BY <1>3, MoveOK DEF Run, Complete, Stop, AbortLands, Live
<1>4. ASSUME NEW w \in Workers, Cleanup(w) PROVE TasksInv'
  BY <1>4, CleanupOK
<1>5. ASSUME NEW c \in Closers, Drain(c) \/ Closer(c) PROVE TasksInv'
  BY <1>5, DrainOK, CloserOK
<1>6. ASSUME NEW o \in Owners, OwnerLeaves(o) PROVE TasksInv'
  BY <1>6, SignalOK DEF OwnerLeaves, TasksInv, TasksTypeOK
<1>7. CASE DropRegistry
  BY <1>7, DropRegistryOK
<1>8. CASE MonitorFails
  BY <1>8, SignalOK DEF MonitorFails, TasksInv, TasksTypeOK
<1>9. CASE UNCHANGED tasksVars
  BY <1>9, SignalOK DEF tasksVars, TasksInv, TasksTypeOK
<1>10. QED
  BY <1>1, <1>2, <1>3, <1>4, <1>5, <1>6, <1>7, <1>8, <1>9 DEF TasksNext, Worker

\* The invariant holds throughout.
LEMMA TasksInvariance == TasksSafety => []TasksInv
<1>1. QED
  BY InitTasksInv, NextTasksInv, PTL DEF TasksSafety

-----------------------------------------------------------------------------
(* Theorems *)

\* Every variable keeps its type.
THEOREM TasksTyping == TasksSafety => []TasksTypeOK
<1>1. TasksInv => TasksTypeOK
  BY DEF TasksInv
<1>2. QED
  BY <1>1, TasksInvariance, PTL

\* An entry stands for a worker that is neither aborted nor over, however often its
\* id was used.
THEOREM Currency == TasksSafety => []EntriesAreCurrent
<1>1. TasksInv => EntriesAreCurrent
  BY DEF TasksInv
<1>2. QED
  BY <1>1, TasksInvariance, PTL

\* A worker that may run is registered, aborted, or about to be.
THEOREM Reach == TasksSafety => []NoOrphans
<1>1. TasksInv => NoOrphans
  BY DEF TasksInv
<1>2. QED
  BY <1>1, TasksInvariance, PTL

\* Of all that race for an entry, one wins.
THEOREM OneWinner == TasksSafety => []SingleClaim
<1>1. TasksInv => SingleClaim
  BY DEF TasksInv
<1>2. QED
  BY <1>1, TasksInvariance, PTL

\* When shutdown returns, nothing runs but what another shutdown is about to abort.
THEOREM JoinedTheorem == TasksSafety => []ShutdownJoins
<1>1. TasksInv => ShutdownJoins
  <2> SUFFICES ASSUME TasksInv, NEW c \in Closers, closer[c] = "done",
                      NEW w \in Unaborted
               PROVE  \E d \in Closers : closer[d] = "aborting" /\ w \in held[d]
    BY DEF ShutdownJoins, TasksInv, Stages
  <2>1. w \in Workers /\ Reachable(w) /\ w \notin aborted
    BY DEF Unaborted, TasksInv, NoOrphans
  <2>2. \A i \in Ids : entry[i] = None
    BY EntryFacts DEF TasksInv, Stages
  <2>3. QED
    BY <2>1, <2>2, TasksConstants DEF Reachable
<1>2. QED
  BY <1>1, TasksInvariance, PTL

-----------------------------------------------------------------------------
(* Limits *)

\* The workers that run unaborted, and those of one owner.
UnabortedOf(o) == {w \in Unaborted : task[w].owner = o}

Limits == LiveWithinLimits /\ IsFiniteSet(Unaborted)

\* While the registry is open, each of them has an entry of its own.
LEMMA OnePerEntry ==
  ASSUME TasksInv, ~closed
  PROVE  /\ IsFiniteSet(Unaborted) /\ Cardinality(Unaborted) <= Cardinality(Registered)
         /\ \A o \in Owners \cup {NoOwner} :
              Cardinality(UnabortedOf(o)) <= Cardinality(OwnedBy(o))
         /\ Cardinality(Registered) \in Nat
         /\ \A o \in Owners \cup {NoOwner} : Cardinality(OwnedBy(o)) \in Nat
<1>1. ASSUME NEW w \in Unaborted
      PROVE  task[w].id \in Registered /\ entry[task[w].id] = w
  <2>1. w \in Workers /\ Reachable(w) /\ w \notin aborted
    BY DEF Unaborted, TasksInv, NoOrphans
  <2>2. \A c \in Closers : closer[c] # "aborting"
    BY DEF TasksInv, Stages
  <2>3. QED
    BY <2>1, <2>2, TasksConstants DEF Reachable, Registered
<1>2. IsFiniteSet(Registered) /\ \A o : IsFiniteSet(OwnedBy(o))
  <2>1. Registered \in SUBSET Ids /\ \A o : OwnedBy(o) \in SUBSET Registered
    BY DEF Registered, OwnedBy
  <2>2. IsFiniteSet(Registered)
    BY <2>1, FS_Subset, TasksConstants
  <2>3. QED
    BY <2>1, <2>2, FS_Subset
<1>3. IsFiniteSet(Unaborted) /\ Cardinality(Unaborted) <= Cardinality(Registered)
  <2> DEFINE f == [w \in Unaborted |-> task[w].id]
  <2>1. f \in Injection(Unaborted, Registered)
    BY <1>1 DEF Injection, IsInjective
  <2> HIDE DEF f
  <2>2. QED
    BY <2>1, <1>2, FS_Injection
<1>4. ASSUME NEW o \in Owners \cup {NoOwner}
      PROVE  Cardinality(UnabortedOf(o)) <= Cardinality(OwnedBy(o))
  <2> DEFINE f == [w \in UnabortedOf(o) |-> task[w].id]
  <2>1. f \in Injection(UnabortedOf(o), OwnedBy(o))
    BY <1>1 DEF Injection, IsInjective, UnabortedOf, OwnedBy
  <2> HIDE DEF f
  <2>2. QED
    BY <2>1, <1>2, FS_Injection
<1>5. QED
  BY <1>2, <1>3, <1>4, FS_CardinalityType

\* No worker joins them, or changes owner.
LEMMA FewerRun ==
  ASSUME TasksInv, Limits, Unaborted' \subseteq Unaborted,
         \A w \in Unaborted' : task'[w] = task[w]
  PROVE  Limits'
<1>1. \A o : UnabortedOf(o)' \in SUBSET UnabortedOf(o)
  BY DEF UnabortedOf
<1>2. /\ IsFiniteSet(Unaborted) /\ Cardinality(Unaborted) <= Total
      /\ \A o \in Owners \cup {NoOwner} : Cardinality(UnabortedOf(o)) <= PerOwner
  BY DEF Limits, LiveWithinLimits, UnabortedOf
<1>3. /\ IsFiniteSet(Unaborted') /\ Cardinality(Unaborted') <= Cardinality(Unaborted)
      /\ Cardinality(Unaborted) \in Nat /\ Cardinality(Unaborted') \in Nat
  BY <1>2, FS_Subset, FS_CardinalityType
<1>4. \A o : UnabortedOf(o) \in SUBSET Unaborted
  BY DEF UnabortedOf
<1>5. ASSUME NEW o \in Owners \cup {NoOwner}
      PROVE  Cardinality(UnabortedOf(o)') <= PerOwner
  <2>1. IsFiniteSet(UnabortedOf(o))
    BY <1>2, <1>4, FS_Subset
  <2>2. /\ Cardinality(UnabortedOf(o)') <= Cardinality(UnabortedOf(o))
        /\ IsFiniteSet(UnabortedOf(o)')
    BY <2>1, <1>1, FS_Subset
  <2>3. Cardinality(UnabortedOf(o)) \in Nat /\ Cardinality(UnabortedOf(o)') \in Nat
    BY <2>1, <2>2, FS_CardinalityType
  <2>4. QED
    BY <1>2, <2>2, <2>3, TasksConstants
<1>6. QED
  BY <1>2, <1>3, <1>5, TasksConstants DEF Limits, LiveWithinLimits, UnabortedOf

\* An admission adds one worker, where the limits leave room for one.
LEMMA OneMoreRuns ==
  ASSUME TasksInv, Limits, NEW i \in Ids, NEW o \in Owners \cup {NoOwner}, Spawn(i, o)
  PROVE  Limits'
<1>1. PICK v \in Workers :
        /\ phase[v] = "unused"
        /\ task' = [task EXCEPT ![v] = [id |-> i, owner |-> o]]
        /\ phase' = [phase EXCEPT ![v] = "created"]
  BY DEF Spawn
<1>2. aborted' = aborted /\ ~closed
  BY DEF Spawn
<1>3. /\ \A w \in Workers : w # v => phase'[w] = phase[w] /\ task'[w] = task[w]
      /\ task'[v].owner = o
  BY <1>1 DEF TasksInv, TasksTypeOK
<1>4. /\ Cardinality(Unaborted) + 1 <= Total
      /\ Cardinality(UnabortedOf(o)) + 1 <= PerOwner
      /\ IsFiniteSet(Unaborted) /\ Cardinality(Unaborted) \in Nat
  <2>1. Cardinality(Registered) < Total /\ Cardinality(OwnedBy(o)) < PerOwner
    BY DEF Spawn, Admits
  <2>2. IsFiniteSet(Unaborted) /\ IsFiniteSet(UnabortedOf(o))
    <3>1. UnabortedOf(o) \in SUBSET Unaborted
      BY DEF UnabortedOf
    <3>2. QED
      BY <1>2, <3>1, OnePerEntry, FS_Subset
  <2>3. Cardinality(Unaborted) \in Nat /\ Cardinality(UnabortedOf(o)) \in Nat
    BY <2>2, FS_CardinalityType
  <2>4. QED
    BY <1>2, <2>1, <2>2, <2>3, OnePerEntry, TasksConstants
<1>5. Unaborted' \subseteq Unaborted \cup {v}
  BY <1>2, <1>3 DEF Unaborted, Live
<1>6. IsFiniteSet(Unaborted') /\ Cardinality(Unaborted') <= Total
  <2>1. /\ IsFiniteSet(Unaborted \cup {v})
        /\ Cardinality(Unaborted \cup {v}) <= Cardinality(Unaborted) + 1
    BY <1>4, FS_AddElement
  <2>2. /\ IsFiniteSet(Unaborted') /\ Cardinality(Unaborted') <= Cardinality(Unaborted \cup {v})
        /\ Cardinality(Unaborted') \in Nat /\ Cardinality(Unaborted \cup {v}) \in Nat
    BY <2>1, <1>5, FS_Subset, FS_CardinalityType
  <2>3. QED
    BY <1>4, <2>1, <2>2, TasksConstants
<1>7. ASSUME NEW p \in Owners \cup {NoOwner}
      PROVE  Cardinality(UnabortedOf(p)') <= PerOwner
  <2>1. v \notin UnabortedOf(p)
    BY <1>1 DEF UnabortedOf, Unaborted, Live
  <2>2. IsFiniteSet(UnabortedOf(p))
    <3>1. UnabortedOf(p) \in SUBSET Unaborted
      BY DEF UnabortedOf
    <3>2. QED
      BY <3>1, <1>4, FS_Subset
  <2>3. Cardinality(UnabortedOf(p)) \in Nat /\ Cardinality(UnabortedOf(p)) <= PerOwner
    BY <2>2, FS_CardinalityType DEF Limits, LiveWithinLimits, UnabortedOf
  <2>4. CASE p = o
    <3>1. UnabortedOf(p)' \in SUBSET (UnabortedOf(p) \cup {v})
      BY <1>3, <1>5 DEF UnabortedOf, Unaborted
    <3>2. /\ IsFiniteSet(UnabortedOf(p) \cup {v})
          /\ Cardinality(UnabortedOf(p) \cup {v}) = Cardinality(UnabortedOf(p)) + 1
      BY <2>1, <2>2, FS_AddElement
    <3>3. /\ Cardinality(UnabortedOf(p)') <= Cardinality(UnabortedOf(p) \cup {v})
          /\ Cardinality(UnabortedOf(p)') \in Nat
          /\ Cardinality(UnabortedOf(p) \cup {v}) \in Nat
      BY <3>1, <3>2, FS_Subset, FS_CardinalityType
    <3>4. QED
      BY <1>4, <2>3, <2>4, <3>2, <3>3, TasksConstants
  <2>5. CASE p # o
    <3>1. UnabortedOf(p)' \in SUBSET UnabortedOf(p)
      BY <1>3, <1>5, <2>5 DEF UnabortedOf, Unaborted
    <3>2. /\ Cardinality(UnabortedOf(p)') <= Cardinality(UnabortedOf(p))
          /\ Cardinality(UnabortedOf(p)') \in Nat
      BY <3>1, <2>2, FS_Subset, FS_CardinalityType
    <3>3. QED
      BY <2>3, <3>2, TasksConstants
  <2>6. QED
    BY <2>4, <2>5
<1>8. QED
  BY <1>6, <1>7 DEF Limits, LiveWithinLimits, UnabortedOf

\* Total and PerOwner bound the workers that run unaborted, at every moment.
THEOREM WithinLimits == TasksSafety => []LiveWithinLimits
<1>1. TasksInit => Limits
  <2> SUFFICES ASSUME TasksInit PROVE Limits
    OBVIOUS
  <2>1. Unaborted = {} /\ \A o : {w \in Unaborted : task[w].owner = o} = {}
    BY DEF TasksInit, Unaborted, Live
  <2>2. QED
    BY <2>1, FS_EmptySet, TasksConstants DEF Limits, LiveWithinLimits
<1>2. TasksInv /\ Limits /\ [TasksNext]_tasksVars => Limits'
  <2> SUFFICES ASSUME TasksInv, Limits, [TasksNext]_tasksVars PROVE Limits'
    OBVIOUS
  <2>1. ASSUME NEW i \in Ids, NEW o \in Owners \cup {NoOwner}, Spawn(i, o) PROVE Limits'
    BY <2>1, OneMoreRuns
  <2>2. ASSUME ~\E i \in Ids, o \in Owners \cup {NoOwner} : Spawn(i, o)
        PROVE  /\ \A w \in Workers : Live(w)' => Live(w)
               /\ task' = task /\ aborted \subseteq aborted'
    <3>1. ASSUME NEW w \in Workers, NEW to \in {"running", "ending", "ended"},
                 Move(w, to), Live(w) \/ to = "ended"
          PROVE  /\ \A x \in Workers : Live(x)' => Live(x)
                 /\ task' = task /\ aborted \subseteq aborted'
      BY <3>1 DEF Move, Live, TasksInv, TasksTypeOK
    <3>2. ASSUME NEW w \in Workers, Worker(w) \/ Complete(w)
          PROVE  /\ \A x \in Workers : Live(x)' => Live(x)
                 /\ task' = task /\ aborted \subseteq aborted'
      BY <3>1, <3>2 DEF Worker, Complete, Run, Stop, AbortLands, Cleanup, Live
    <3>3. ASSUME UNCHANGED <<task, phase>>, aborted \subseteq aborted'
          PROVE  /\ \A x \in Workers : Live(x)' => Live(x)
                 /\ task' = task /\ aborted \subseteq aborted'
      BY <3>3 DEF Live
    <3>4. ASSUME NEW i \in Ids, NEW o \in Owners \cup {NoOwner}, CancelOwned(i, o)
          PROVE  UNCHANGED <<task, phase>> /\ aborted \subseteq aborted'
      BY <3>4 DEF CancelOwned
    <3>5. ASSUME NEW c \in Closers, Drain(c) \/ Closer(c)
          PROVE  UNCHANGED <<task, phase>> /\ aborted \subseteq aborted'
      BY <3>5 DEF Drain, Closer, AbortNext, AwaitAll, Return
    <3>6. ASSUME \/ \E w \in Workers : SendStart(w)
                 \/ \E o \in Owners : OwnerLeaves(o)
                 \/ DropRegistry \/ MonitorFails \/ UNCHANGED tasksVars
          PROVE  UNCHANGED <<task, phase>> /\ aborted \subseteq aborted'
      BY <3>6 DEF SendStart, OwnerLeaves, DropRegistry, MonitorFails, tasksVars
    <3>7. QED
      BY <2>2, <3>2, <3>3, <3>4, <3>5, <3>6 DEF TasksNext
  <2>3. ASSUME ~\E i \in Ids, o \in Owners \cup {NoOwner} : Spawn(i, o)
        PROVE  Limits'
    <3>1. Unaborted' \subseteq Unaborted
      BY <2>2, <2>3 DEF Unaborted
    <3>2. QED
      BY <3>1, <2>2, <2>3, FewerRun
  <2>4. QED
    BY <2>1, <2>3
<1>3. Limits => LiveWithinLimits
  BY DEF Limits
<1>4. QED
  BY <1>1, <1>2, <1>3, TasksInvariance, PTL DEF TasksSafety

\* Table, workers and quotas agree at every moment, for any ids, owners, workers and
\* closers (subscription.rs, operation.rs).
THEOREM TasksTheorem == TasksSafety => []TasksSound
BY TasksTyping, Currency, Reach, WithinLimits, OneWinner, PTL DEF TasksSound

-----------------------------------------------------------------------------
(* BlockingLane: the inductive invariant *)

Places == {"new", "queued", "received", "pool", "running", "finished", "released", "uncounted",
           "over", "dropped"}

Permitted == {"pool", "running", "finished"}
Counted == {"pool", "running", "finished", "released"}
Executable == {"received", "pool", "running"}

\* What the dispatcher itself holds: a permit, and a place in the count.
Holding == IF dispatcher \in {"receiving", "polling", "received", "counted"} THEN 1 ELSE 0
Counting == IF dispatcher = "counted" THEN 1 ELSE 0

WorkOK ==
  /\ queue \in Seq(Jobs) /\ Len(queue) <= LaneCapacity
  /\ dispatcher \in {"acquiring", "receiving", "polling", "received", "counted", "done"}
  /\ permits \in Nat /\ count \in Nat /\ job \in [Jobs -> Places]

CallersOK ==
  /\ laneClosed \in BOOLEAN /\ flag \in BOOLEAN /\ laneDropped \in BOOLEAN
  /\ taken \in BOOLEAN /\ laneAborted \in BOOLEAN
  /\ answer \in [Jobs -> {"none", "value", "panicked", "closed"}]
  /\ laneCloser \in [LaneClosers -> {"idle", "closed", "joining", "aborting", "idling", "enabled",
                             "looked", "waiting", "reporting", "done", "abandoned"}]
  /\ woken \in SUBSET LaneClosers
  /\ stopped \in [LaneClosers -> BOOLEAN] /\ active \in [LaneClosers -> Nat]

\* The channel holds queued jobs, each once.
QueueOK ==
  /\ \A i \in DOMAIN queue : job[queue[i]] = "queued"
  /\ \A i, k \in DOMAIN queue : queue[i] = queue[k] => i = k
  /\ dispatcher = "polling" => queue # <<>>

\* The dispatcher has one job in hand, from its receipt to its launch.
InHand ==
  /\ dispatcher \in {"received", "counted"} => \E j \in Jobs : job[j] = "received"
  /\ \A j \in Jobs : job[j] = "received" => dispatcher \in {"received", "counted"}
  /\ \A j, k \in Jobs : job[j] = "received" /\ job[k] = "received" => j = k

Sums ==
  /\ Cardinality(In(Permitted)) + permits + Holding = Concurrency
  /\ count = Cardinality(In(Counted)) + Counting

LaneInv == WorkOK /\ CallersOK /\ QueueOK /\ InHand /\ Sums

-----------------------------------------------------------------------------
(* Counting *)

At(place, places) == IF place \in places THEN 1 ELSE 0

\* The jobs in some places are finite in number.
LEMMA Finite ==
  ASSUME NEW places
  PROVE  IsFiniteSet(In(places)) /\ Cardinality(In(places)) \in Nat
<1>1. In(places) \subseteq Jobs
  BY DEF In
<1>2. QED
  BY <1>1, LaneConstants, FS_Subset, FS_CardinalityType

\* A job that moves is counted where it is.
LEMMA JobMoves ==
  ASSUME job \in [Jobs -> Places], NEW j \in Jobs, NEW to, NEW places,
         job' = [job EXCEPT ![j] = to]
  PROVE  /\ Cardinality(In(places))' \in Nat
         /\ Cardinality(In(places))' = Cardinality(In(places)) + At(to, places) - At(job[j], places)
<1>1. job'[j] = to /\ \A k \in Jobs \ {j} : job'[k] = job[k]
  OBVIOUS
<1>2. IsFiniteSet(In(places)) /\ Cardinality(In(places)) \in Nat
  BY Finite
<1>3. CASE to \in places
  <2>1. In(places)' = In(places) \cup {j}
    BY <1>1, <1>3 DEF In
  <2>2. j \in In(places) <=> job[j] \in places
    BY DEF In
  <2>3. IsFiniteSet(In(places)') /\ Cardinality(In(places)') = IF j \in In(places) THEN Cardinality(In(places))
                                  ELSE Cardinality(In(places)) + 1
    BY <1>2, <2>1, FS_AddElement
  <2>4. QED
    BY <1>2, <1>3, <2>2, <2>3 DEF At
<1>4. CASE to \notin places
  <2>1. In(places)' = In(places) \ {j}
    BY <1>1, <1>4 DEF In
  <2>2. j \in In(places) <=> job[j] \in places
    BY DEF In
  <2>3. IsFiniteSet(In(places)') /\ Cardinality(In(places)') = IF j \in In(places) THEN Cardinality(In(places)) - 1
                                  ELSE Cardinality(In(places))
    BY <1>2, <2>1, FS_RemoveElement
  <2>4. Cardinality(In(places)') \in Nat
    BY <2>3, FS_CardinalityType
  <2>5. QED
    BY <1>2, <1>4, <2>2, <2>3, <2>4 DEF At
<1>5. QED
  BY <1>3, <1>4

LEMMA InitLaneInv == LaneInit => LaneInv
<1> SUFFICES ASSUME LaneInit PROVE LaneInv
  OBVIOUS
<1>1. WorkOK /\ CallersOK /\ QueueOK /\ InHand
  <2>1. WorkOK
    <3>1. queue = <<>> /\ <<>> \in Seq(Jobs) /\ Len(<<>>) = 0
      BY DEF LaneInit
    <3>2. QED
      BY <3>1, LaneConstants DEF LaneInit, WorkOK, Places
  <2>2. CallersOK
    BY DEF LaneInit, CallersOK
  <2>3. QueueOK /\ InHand
    BY DEF LaneInit, QueueOK, InHand
  <2>4. QED
    BY <2>1, <2>2, <2>3
<1>2. In(Permitted) = {} /\ In(Counted) = {}
  BY DEF LaneInit, In, Permitted, Counted
<1>3. Cardinality(In(Permitted)) = 0 /\ Cardinality(In(Counted)) = 0
  BY <1>2, FS_EmptySet
<1>4. permits = Concurrency /\ count = 0 /\ Holding = 0 /\ Counting = 0
  BY DEF LaneInit, Holding, Counting
<1>5. Sums
  BY <1>3, <1>4, LaneConstants DEF Sums
<1>6. QED
  BY <1>1, <1>5 DEF LaneInv

-----------------------------------------------------------------------------
(* The steps *)

\* A step of a caller of shutdown, or of the lane's drop, touches no work.
LEMMA CallerStep ==
  ASSUME LaneInv, UNCHANGED <<queue, dispatcher, work>>, CallersOK'
  PROVE  LaneInv'
<1>1. In(Permitted)' = In(Permitted) /\ In(Counted)' = In(Counted)
      /\ Holding' = Holding /\ Counting' = Counting
  BY DEF work, In, Holding, Counting
<1>2. Sums'
  BY <1>1 DEF LaneInv, Sums, work
<1>3. QED
  BY <1>2 DEF LaneInv, WorkOK, QueueOK, InHand, work

LEMMA CloserStep ==
  ASSUME LaneInv, NEW c \in LaneClosers,
         Close(c) \/ LaneCloser(c) \/ JoinTimesOut(c) \/ WaitTimesOut(c) \/ Abandon(c)
  PROVE  LaneInv'
<1>1. UNCHANGED <<queue, dispatcher, work>>
  BY DEF Close, LaneCloser, JoinTimesOut, WaitTimesOut, Abandon, Signal, Join, Enable, Look, Wait,
         Wake, Report, LaneMoves
<1>2. CallersOK'
  <2>1. CallersOK /\ count \in Nat
    BY DEF LaneInv, WorkOK
  <2>2. laneCloser' \in [LaneClosers -> {"idle", "closed", "joining", "aborting", "idling", "enabled",
                             "looked", "waiting", "reporting", "done", "abandoned"}]
    BY <2>1 DEF CallersOK, Close, LaneCloser, JoinTimesOut, WaitTimesOut, Abandon, Signal, Join, Enable,
                Look, Wait, Wake, Report, LaneMoves
  <2>3. /\ laneClosed' \in BOOLEAN /\ flag' \in BOOLEAN /\ laneDropped' \in BOOLEAN
        /\ taken' \in BOOLEAN /\ laneAborted' \in BOOLEAN /\ woken' \in SUBSET LaneClosers
        /\ stopped' \in [LaneClosers -> BOOLEAN] /\ active' \in [LaneClosers -> Nat]
    BY <2>1 DEF CallersOK, Close, LaneCloser, JoinTimesOut, WaitTimesOut, Abandon, Signal, Join, Enable,
                Look, Wait, Wake, Report, LaneMoves
  <2>4. answer' = answer
    BY <1>1 DEF work
  <2>5. QED
    BY <2>1, <2>2, <2>3, <2>4 DEF CallersOK
<1>3. QED
  BY <1>1, <1>2, CallerStep

LEMMA DropLaneStep ==
  ASSUME LaneInv, DropLane
  PROVE  LaneInv'
<1>1. UNCHANGED <<queue, dispatcher, work>>
  BY DEF DropLane
<1>2. CallersOK'
  BY DEF LaneInv, CallersOK, DropLane, work, ends
<1>3. QED
  BY <1>1, <1>2, CallerStep

\* A step of the dispatcher that leaves the jobs where they are.
LEMMA PollingStep ==
  ASSUME LaneInv, Acquire \/ Poll \/ Count
  PROVE  LaneInv'
<1>1. /\ UNCHANGED <<queue, job, answer, laneClosed, flag, laneDropped, taken, laneAborted, laneCloser, woken,
                     stopped, active>>
      /\ In(Permitted)' = In(Permitted) /\ In(Counted)' = In(Counted)
  BY DEF Acquire, Poll, Count, admission, work, ends, In
<1>2. /\ permits \in Nat /\ count \in Nat
      /\ Cardinality(In(Permitted)) \in Nat /\ Cardinality(In(Counted)) \in Nat
  BY Finite DEF LaneInv, WorkOK
<1>3. Sums' /\ permits' \in Nat /\ count' \in Nat
  <2>1. CASE Acquire
    BY <1>1, <1>2, <2>1 DEF Acquire, LaneInv, Sums, Holding, Counting
  <2>2. CASE Poll
    BY <1>1, <1>2, <2>2 DEF Poll, LaneInv, Sums, Holding, Counting, work
  <2>3. CASE Count
    BY <1>1, <1>2, <2>3 DEF Count, LaneInv, Sums, Holding, Counting
  <2>4. QED
    BY <2>1, <2>2, <2>3
<1>4. WorkOK'
  BY <1>1, <1>3 DEF LaneInv, WorkOK, Acquire, Poll, Count
<1>5. CallersOK'
  BY <1>1 DEF LaneInv, CallersOK
<1>6. QueueOK' /\ InHand'
  BY <1>1 DEF LaneInv, QueueOK, InHand, Acquire, Poll, Count
<1>7. QED
  BY <1>3, <1>4, <1>5, <1>6 DEF LaneInv

\* A job leaves the channel into the dispatcher's hand.
LEMMA ReceiveStep ==
  ASSUME LaneInv, Receive
  PROVE  LaneInv'
<1>0. /\ queue \in Seq(Jobs) /\ queue # <<>> /\ Len(queue) <= LaneCapacity
      /\ job \in [Jobs -> Places] /\ permits \in Nat /\ count \in Nat
  BY DEF Receive, LaneInv, WorkOK, QueueOK
<1>2. PICK j \in Jobs : j = Head(queue)
  BY <1>0
<1>1. /\ dispatcher = "polling" /\ dispatcher' = "received" /\ queue' = Tail(queue)
      /\ job' = [job EXCEPT ![j] = "received"]
      /\ UNCHANGED <<laneClosed, flag, laneDropped, taken, laneAborted, permits, count, answer, laneCloser,
                     stopped, active, woken>>
  BY <1>2 DEF Receive, admission, ends
<1>3. /\ j = queue[1] /\ j \in Jobs /\ 1 \in DOMAIN queue /\ Tail(queue) \in Seq(Jobs)
      /\ Len(Tail(queue)) = Len(queue) - 1 /\ Len(queue) \in Nat
      /\ \A i \in DOMAIN Tail(queue) : i + 1 \in DOMAIN queue /\ i + 1 # 1
                                       /\ Tail(queue)[i] = queue[i + 1]
      /\ \A i, k \in DOMAIN Tail(queue) : i + 1 = k + 1 => i = k
  BY <1>0, <1>2
<1>4. job[j] = "queued"
  BY <1>3 DEF LaneInv, QueueOK
<1>5. WorkOK'
  BY <1>1, <1>0, <1>3, LaneConstants DEF WorkOK, Places
<1>6. CallersOK'
  BY <1>1 DEF LaneInv, CallersOK
<1>7. QueueOK'
  <2>1. \A i \in DOMAIN queue' : i + 1 \in DOMAIN queue /\ queue'[i] = queue[i + 1] /\ queue'[i] # j
    BY <1>1, <1>3 DEF LaneInv, QueueOK
  <2>2. \A i \in DOMAIN queue' : job'[queue'[i]] = "queued"
    <3> SUFFICES ASSUME NEW i \in DOMAIN queue' PROVE job'[queue'[i]] = "queued"
      OBVIOUS
    <3>1. queue'[i] \in Jobs
      BY <1>0, <2>1
    <3>2. QED
      BY <1>1, <1>0, <2>1, <3>1 DEF LaneInv, QueueOK
  <2>3. \A i, k \in DOMAIN queue' : queue'[i] = queue'[k] => i = k
    BY <1>1, <1>3, <2>1 DEF LaneInv, QueueOK
  <2>4. QED
    BY <1>1, <2>2, <2>3 DEF QueueOK
<1>8. InHand'
  <2>1. \A k \in Jobs : job[k] # "received"
    BY <1>1 DEF LaneInv, InHand
  <2>2. \A k \in Jobs : job'[k] = "received" <=> k = j
    BY <1>1, <1>0, <1>3, <2>1
  <2>3. QED
    BY <1>1, <1>3, <2>2 DEF InHand
<1>9. Sums'
  <2>1. /\ At("received", Permitted) = 0 /\ At("queued", Permitted) = 0
        /\ At("received", Counted) = 0 /\ At("queued", Counted) = 0
    BY DEF At, Permitted, Counted
  <2>2. /\ Cardinality(In(Permitted))' = Cardinality(In(Permitted)) + 0 - 0
        /\ Cardinality(In(Counted))' = Cardinality(In(Counted)) + 0 - 0
    BY <1>0, <1>1, <1>4, <2>1, JobMoves
  <2>3. Cardinality(In(Permitted)) \in Nat /\ Cardinality(In(Counted)) \in Nat
    BY Finite
  <2>4. QED
    BY <1>1, <2>2, <2>3 DEF LaneInv, Sums, Holding, Counting
<1>10. QED
  BY <1>5, <1>6, <1>7, <1>8, <1>9 DEF LaneInv

\* The permit and the place in the count go from the dispatcher to the thread.
LEMMA LaunchStep ==
  ASSUME LaneInv, Launch
  PROVE  LaneInv'
<1>1. /\ dispatcher = "counted" /\ dispatcher' = "acquiring"
      /\ UNCHANGED <<queue, laneClosed, flag, laneDropped, taken, laneAborted, permits, count, answer, laneCloser,
                     stopped, active, woken>>
      /\ job \in [Jobs -> Places] /\ permits \in Nat /\ count \in Nat
  BY DEF Launch, admission, ends, LaneInv, WorkOK
<1>2. PICK j \in Jobs : job[j] = "received"
  BY <1>1 DEF LaneInv, InHand
<1>3. \A k \in Jobs \ {j} : job[k] # "received"
  BY <1>2 DEF LaneInv, InHand
<1>4. job' = [job EXCEPT ![j] = "pool"]
  BY <1>1, <1>2, <1>3 DEF Launch
<1>5. WorkOK' /\ CallersOK'
  BY <1>1, <1>4 DEF LaneInv, WorkOK, CallersOK, Places
<1>6. InHand' /\ \A k \in Jobs : job[k] = "queued" => job'[k] = "queued"
  BY <1>1, <1>2, <1>3, <1>4 DEF InHand
<1>7. QueueOK'
  BY <1>1, <1>6 DEF LaneInv, QueueOK, WorkOK
<1>8. Sums'
  <2>1. /\ At("pool", Permitted) = 1 /\ At("received", Permitted) = 0
        /\ At("pool", Counted) = 1 /\ At("received", Counted) = 0
    BY DEF At, Permitted, Counted
  <2>2. /\ Cardinality(In(Permitted))' = Cardinality(In(Permitted)) + 1 - 0
        /\ Cardinality(In(Counted))' = Cardinality(In(Counted)) + 1 - 0
    BY <1>1, <1>2, <1>4, <2>1, JobMoves
  <2>3. Cardinality(In(Permitted)) \in Nat /\ Cardinality(In(Counted)) \in Nat
    BY Finite
  <2>4. QED
    BY <1>1, <2>2, <2>3 DEF LaneInv, Sums, Holding, Counting
<1>9. QED
  BY <1>5, <1>6, <1>7, <1>8 DEF LaneInv

\* The dispatcher's end, with the receiver and what it holds.
LEMMA QuitStep ==
  ASSUME LaneInv, Quit
  PROVE  LaneInv'
<1>1. /\ dispatcher \in {"acquiring", "receiving"} /\ dispatcher' = "done" /\ queue' = <<>>
      /\ permits' = IF dispatcher = "receiving" THEN permits + 1 ELSE permits
      /\ job' = [j \in Jobs |-> IF job[j] = "queued" THEN "dropped" ELSE job[j]]
      /\ answer' = [j \in Jobs |-> IF job[j] = "queued" THEN "closed" ELSE answer[j]]
      /\ UNCHANGED <<laneClosed, flag, laneDropped, taken, laneAborted, count, laneCloser, stopped, active, woken>>
      /\ job \in [Jobs -> Places] /\ permits \in Nat /\ count \in Nat
  BY DEF Quit, admission, ends, LaneInv, WorkOK
<1>2. In(Permitted)' = In(Permitted) /\ In(Counted)' = In(Counted)
  BY <1>1 DEF In, Permitted, Counted
<1>3. Sums' /\ permits' \in Nat
  BY <1>1, <1>2, Finite DEF LaneInv, Sums, Holding, Counting
<1>4. WorkOK'
  BY <1>1, <1>3, LaneConstants DEF WorkOK, Places
<1>5. CallersOK'
  BY <1>1 DEF LaneInv, CallersOK
<1>6. QueueOK' /\ InHand'
  BY <1>1 DEF LaneInv, QueueOK, InHand
<1>7. QED
  BY <1>3, <1>4, <1>5, <1>6 DEF LaneInv

LEMMA SubmitStep ==
  ASSUME LaneInv, NEW j \in Jobs, Submit(j)
  PROVE  LaneInv'
<1>1. /\ job[j] = "new" /\ job' = [job EXCEPT ![j] = "queued"] /\ queue' = Append(queue, j)
      /\ Len(queue) < LaneCapacity /\ queue \in Seq(Jobs)
      /\ UNCHANGED <<dispatcher, laneClosed, flag, laneDropped, taken, laneAborted, permits, count, answer,
                     laneCloser, stopped, active, woken>>
      /\ job \in [Jobs -> Places] /\ permits \in Nat /\ count \in Nat
  BY DEF Submit, admission, ends, LaneInv, WorkOK
<1>2. /\ queue' \in Seq(Jobs) /\ Len(queue') = Len(queue) + 1 /\ Len(queue) \in Nat
      /\ \A i \in DOMAIN queue' : \/ (i \in DOMAIN queue /\ queue'[i] = queue[i])
                                  \/ (i = Len(queue) + 1 /\ queue'[i] = j)
      /\ queue' # <<>>
  <2>1. /\ DOMAIN queue = 1..Len(queue) /\ DOMAIN queue' = 1..Len(queue) + 1
        /\ Len(queue) \in Nat /\ queue'[Len(queue) + 1] = j
        /\ \A i \in 1..Len(queue) : queue'[i] = queue[i]
        /\ queue' \in Seq(Jobs) /\ Len(queue') = Len(queue) + 1
    BY <1>1
  <2>2. \A i \in DOMAIN queue' : i \in DOMAIN queue \/ i = Len(queue) + 1
    BY <2>1
  <2>3. queue' # <<>>
    BY <2>1
  <2>4. \A i \in DOMAIN queue' : \/ (i \in DOMAIN queue /\ queue'[i] = queue[i])
                                  \/ (i = Len(queue) + 1 /\ queue'[i] = j)
    BY <2>1, <2>2
  <2>5. QED
    BY <2>1, <2>3, <2>4
<1>3. WorkOK' /\ CallersOK'
  BY <1>1, <1>2, LaneConstants DEF LaneInv, WorkOK, CallersOK, Places
<1>4. \A i \in DOMAIN queue : queue[i] # j /\ queue[i] \in Jobs
  BY <1>1 DEF LaneInv, QueueOK
<1>5. QueueOK'
  BY <1>1, <1>2, <1>4 DEF LaneInv, QueueOK
<1>6. InHand'
  BY <1>1 DEF LaneInv, InHand
<1>7. Sums'
  <2>1. /\ At("queued", Permitted) = 0 /\ At("new", Permitted) = 0
        /\ At("queued", Counted) = 0 /\ At("new", Counted) = 0
    BY DEF At, Permitted, Counted
  <2>2. /\ Cardinality(In(Permitted))' = Cardinality(In(Permitted)) + 0 - 0
        /\ Cardinality(In(Counted))' = Cardinality(In(Counted)) + 0 - 0
    BY <1>1, <2>1, JobMoves
  <2>3. Cardinality(In(Permitted)) \in Nat /\ Cardinality(In(Counted)) \in Nat
    BY Finite
  <2>4. QED
    BY <1>1, <2>2, <2>3 DEF LaneInv, Sums, Holding, Counting
<1>8. QED
  BY <1>3, <1>5, <1>6, <1>7 DEF LaneInv

\* A thread moves its job on, and gives back what the new place does not hold.
Moved(j, to) ==
  /\ job' = [job EXCEPT ![j] = to] /\ to \in Places
  /\ job[j] \notin {"new", "queued", "received"} /\ to \notin {"queued", "received"}
  /\ UNCHANGED <<queue, dispatcher>>
  /\ permits' = permits + At(job[j], Permitted) - At(to, Permitted)
  /\ count' = count + At(to, Counted) - At(job[j], Counted)
  /\ At(to, Permitted) <= At(job[j], Permitted)

LEMMA ThreadStep ==
  ASSUME LaneInv, NEW j \in Jobs, NEW to, Moved(j, to), CallersOK'
  PROVE  LaneInv'
<1>1. job \in [Jobs -> Places] /\ permits \in Nat /\ count \in Nat
      /\ \A places : At(to, places) \in {0, 1} /\ At(job[j], places) \in {0, 1}
  BY DEF LaneInv, WorkOK, At
<1>2. /\ job'[j] = to /\ \A k \in Jobs \ {j} : job'[k] = job[k]
  BY <1>1 DEF Moved
<1>3. /\ Cardinality(In(Permitted)) \in Nat /\ Cardinality(In(Counted)) \in Nat
      /\ Cardinality(In(Permitted))' \in Nat /\ Cardinality(In(Counted))' \in Nat
      /\ Cardinality(In(Permitted))'
           = Cardinality(In(Permitted)) + At(to, Permitted) - At(job[j], Permitted)
      /\ Cardinality(In(Counted))'
           = Cardinality(In(Counted)) + At(to, Counted) - At(job[j], Counted)
  BY <1>1, Finite, JobMoves DEF Moved
<1>4. Holding' = Holding /\ Counting' = Counting /\ Holding \in {0, 1} /\ Counting \in {0, 1}
  BY DEF Holding, Counting, Moved
<1>5. Sums' /\ permits' \in Nat /\ count' \in Nat
  <2>1. /\ Cardinality(In(Permitted)) + permits + Holding = Concurrency
        /\ count = Cardinality(In(Counted)) + Counting
    BY DEF LaneInv, Sums
  <2>2. permits' \in Nat /\ Cardinality(In(Permitted))' + permits' + Holding = Concurrency
    BY <1>1, <1>3, <1>4, <2>1, LaneConstants DEF Moved
  <2>3. count' \in Nat /\ count' = Cardinality(In(Counted))' + Counting
    BY <1>1, <1>3, <1>4, <2>1 DEF Moved
  <2>4. QED
    BY <1>4, <2>2, <2>3 DEF Sums
<1>6. WorkOK'
  BY <1>1, <1>5 DEF LaneInv, WorkOK, Moved
<1>7. QueueOK'
  BY <1>2 DEF LaneInv, QueueOK, WorkOK, Moved
<1>8. InHand'
  BY <1>2 DEF LaneInv, InHand, Moved
<1>9. QED
  BY <1>5, <1>6, <1>7, <1>8 DEF LaneInv

LEMMA ThreadsStep ==
  ASSUME LaneInv, NEW j \in Jobs, Thread(j) \/ Finish(j)
  PROVE  LaneInv'
<1>1. /\ job \in [Jobs -> Places] /\ permits \in Nat /\ count \in Nat /\ CallersOK
  BY DEF LaneInv, WorkOK
<1>2. /\ UNCHANGED <<queue, dispatcher, laneClosed, flag, laneDropped, taken, laneAborted, laneCloser, stopped, active>>
      /\ answer' \in [Jobs -> {"none", "value", "panicked", "closed"}] /\ woken' \in SUBSET LaneClosers
  BY <1>1 DEF Thread, Begin, Finish, Release, Uncount, Notify, Step, admission, ends, CallersOK
<1>3. CallersOK'
  BY <1>1, <1>2 DEF CallersOK
<1>4. CASE Begin(j)
  <2>1. /\ job[j] = "pool" /\ job' = [job EXCEPT ![j] = "running"] /\ "running" \in Places
        /\ permits' = permits /\ count' = count
        /\ At("pool", Permitted) = 1 /\ At("running", Permitted) = 1
        /\ At("pool", Counted) = 1 /\ At("running", Counted) = 1
    BY <1>4 DEF Begin, Step, Places, At, Permitted, Counted
  <2>2. permits' = permits + 1 - 1 /\ count' = count + 1 - 1
    BY <1>1, <2>1
  <2>3. Moved(j, "running")
    BY <1>2, <2>1, <2>2 DEF Moved
  <2>4. QED
    BY <1>3, <2>3, ThreadStep
<1>5. CASE Finish(j)
  <2>1. /\ job[j] = "running" /\ job' = [job EXCEPT ![j] = "finished"] /\ "finished" \in Places
        /\ permits' = permits /\ count' = count
        /\ At("running", Permitted) = 1 /\ At("finished", Permitted) = 1
        /\ At("running", Counted) = 1 /\ At("finished", Counted) = 1
    BY <1>5 DEF Finish, Step, Places, At, Permitted, Counted
  <2>2. permits' = permits + 1 - 1 /\ count' = count + 1 - 1
    BY <1>1, <2>1
  <2>3. Moved(j, "finished")
    BY <1>2, <2>1, <2>2 DEF Moved
  <2>4. QED
    BY <1>3, <2>3, ThreadStep
<1>6. CASE Release(j)
  <2>1. /\ job[j] = "finished" /\ job' = [job EXCEPT ![j] = "released"] /\ "released" \in Places
        /\ permits' = permits + 1 /\ count' = count
        /\ At("finished", Permitted) = 1 /\ At("released", Permitted) = 0
        /\ At("finished", Counted) = 1 /\ At("released", Counted) = 1
    BY <1>6 DEF Release, Step, Places, At, Permitted, Counted
  <2>2. permits' = permits + 1 - 0 /\ count' = count + 1 - 1
    BY <1>1, <2>1
  <2>3. Moved(j, "released")
    BY <1>2, <2>1, <2>2 DEF Moved
  <2>4. QED
    BY <1>3, <2>3, ThreadStep
<1>7. CASE Uncount(j)
  <2>1. /\ job[j] = "released" /\ job' = [job EXCEPT ![j] = "uncounted"] /\ "uncounted" \in Places
        /\ permits' = permits /\ count' = count - 1
        /\ At("released", Permitted) = 0 /\ At("uncounted", Permitted) = 0
        /\ At("released", Counted) = 1 /\ At("uncounted", Counted) = 0
    BY <1>7 DEF Uncount, Step, Places, At, Permitted, Counted
  <2>2. permits' = permits + 0 - 0 /\ count' = count + 0 - 1
    BY <1>1, <2>1
  <2>3. Moved(j, "uncounted")
    BY <1>2, <2>1, <2>2 DEF Moved
  <2>4. QED
    BY <1>3, <2>3, ThreadStep
<1>8. CASE Notify(j)
  <2>1. /\ job[j] = "uncounted" /\ job' = [job EXCEPT ![j] = "over"] /\ "over" \in Places
        /\ permits' = permits /\ count' = count
        /\ At("uncounted", Permitted) = 0 /\ At("over", Permitted) = 0
        /\ At("uncounted", Counted) = 0 /\ At("over", Counted) = 0
    BY <1>8 DEF Notify, Step, Places, At, Permitted, Counted
  <2>2. permits' = permits + 0 - 0 /\ count' = count + 0 - 0
    BY <1>1, <2>1
  <2>3. Moved(j, "over")
    BY <1>2, <2>1, <2>2 DEF Moved
  <2>4. QED
    BY <1>3, <2>3, ThreadStep
<1>9. QED
  BY <1>4, <1>5, <1>6, <1>7, <1>8 DEF Thread

LEMMA NextLaneInv == LaneInv /\ [LaneNext]_laneVars => LaneInv'
<1> SUFFICES ASSUME LaneInv, [LaneNext]_laneVars PROVE LaneInv'
  OBVIOUS
<1>1. CASE LaneNext
  BY <1>1, PollingStep, ReceiveStep, LaunchStep, QuitStep, DropLaneStep, SubmitStep, ThreadsStep,
     CloserStep DEF LaneNext, Dispatcher
<1>2. CASE UNCHANGED laneVars
  <2>1. UNCHANGED <<queue, dispatcher, work>> /\ CallersOK'
    BY <1>2 DEF laneVars, work, ends, admission, LaneInv, CallersOK
  <2>2. QED
    BY <2>1, CallerStep
<1>3. QED
  BY <1>1, <1>2

\* The accounts bound the permits.
LEMMA Bounded == LaneInv => LaneTypeOK /\ PermitsAccounted
<1> SUFFICES ASSUME LaneInv PROVE LaneTypeOK /\ PermitsAccounted
  OBVIOUS
<1>1. /\ Cardinality(In({"pool", "running", "finished"})) + permits + Holding = Concurrency
      /\ Cardinality(In({"pool", "running", "finished"})) \in Nat /\ permits \in Nat
      /\ Holding \in {0, 1}
  BY Finite DEF LaneInv, Sums, Permitted, WorkOK, Holding
<1>2. permits \in 0..Concurrency
  BY <1>1, LaneConstants
<1>3. PermitsAccounted
  BY <1>1 DEF PermitsAccounted, Holding
<1>4. QED
  BY <1>2, <1>3 DEF LaneInv, WorkOK, CallersOK, LaneTypeOK, Places

-----------------------------------------------------------------------------
(* One shutdown *)

Once == \A c, e \in LaneClosers : c = e

Joined == {"idling", "enabled", "looked", "waiting", "reporting", "done"}

\* The only shutdown takes the dispatcher's handle, and joins it before it looks.
JoinedFirst ==
  \A c \in LaneClosers :
    /\ laneCloser[c] = "idle" /\ taken => laneDropped
    /\ laneCloser[c] = "closed" => ~taken
    /\ laneCloser[c] \in Joined => dispatcher = "done"

\* While the dispatcher is gone nothing is started.
LEMMA Shrinks ==
  ASSUME LaneInv, [LaneNext]_laneVars, dispatcher = "done"
  PROVE  dispatcher' = "done" /\ In(Executable)' \subseteq In(Executable)
<1>1. \A j \in Jobs : job[j] # "received"
  BY DEF LaneInv, InHand
<1>2. ASSUME NEW j \in Jobs, Thread(j) \/ Finish(j)
      PROVE  dispatcher' = dispatcher /\ In(Executable)' \subseteq In(Executable)
  <2>1. PICK to \in {"running", "finished", "released", "uncounted", "over"} :
          /\ job' = [job EXCEPT ![j] = to] /\ dispatcher' = dispatcher
          /\ to \in Executable => job[j] \in Executable
    BY <1>2 DEF Thread, Begin, Finish, Release, Uncount, Notify, Step, Executable
  <2>2. job \in [Jobs -> Places]
    BY DEF LaneInv, WorkOK
  <2>3. QED
    BY <2>1, <2>2 DEF In
<1>3. CASE UNCHANGED <<dispatcher, job>>
  BY <1>3 DEF In
<1>4. ~Dispatcher
  BY DEF Dispatcher, Acquire, Poll, Receive, Count, Launch, Quit
<1>5. \A j \in Jobs : ~Submit(j)
  BY DEF Submit
<1>6. ASSUME NEW c \in LaneClosers,
             Close(c) \/ LaneCloser(c) \/ JoinTimesOut(c) \/ WaitTimesOut(c) \/ Abandon(c)
      PROVE  UNCHANGED <<dispatcher, job>>
  BY <1>6 DEF Close, LaneCloser, JoinTimesOut, WaitTimesOut, Abandon, Signal, Join, Enable, Look, Wait,
              Wake, Report, LaneMoves, work
<1>7. DropLane \/ UNCHANGED laneVars => UNCHANGED <<dispatcher, job>>
  BY DEF DropLane, laneVars, work
<1>8. QED
  BY <1>2, <1>3, <1>4, <1>5, <1>6, <1>7 DEF LaneNext

\* What no caller of shutdown does leaves all of them where they are.
LEMMA Bystanders ==
  ASSUME LaneInv, Dispatcher \/ (\E j \in Jobs : Submit(j) \/ Thread(j) \/ Finish(j))
  PROVE  UNCHANGED <<laneCloser, active, taken, laneDropped>>
BY DEF Dispatcher, Acquire, Poll, Receive, Count, Launch, Quit, Submit, Thread, Begin, Finish,
       Release, Uncount, Notify, Step, ends, admission

LEMMA NextJoinedFirst ==
  ASSUME LaneInv, Once, JoinedFirst, [LaneNext]_laneVars
  PROVE  JoinedFirst'
<1>1. dispatcher = "done" => dispatcher' = "done"
  BY Shrinks
<1>2. ASSUME UNCHANGED <<laneCloser, taken, laneDropped>> PROVE JoinedFirst'
  BY <1>1, <1>2 DEF JoinedFirst
<1>3. CASE DropLane
  BY <1>3 DEF DropLane, JoinedFirst, ends, Joined
<1>4. ASSUME NEW c \in LaneClosers,
             Close(c) \/ LaneCloser(c) \/ JoinTimesOut(c) \/ WaitTimesOut(c) \/ Abandon(c)
      PROVE  JoinedFirst'
  <2>1. \A e \in LaneClosers : e = c
    BY DEF Once
  <2>2. laneCloser \in [LaneClosers -> {"idle", "closed", "joining", "aborting", "idling", "enabled",
                             "looked", "waiting", "reporting", "done", "abandoned"}]
    BY DEF LaneInv, CallersOK
  <2>3. CASE Close(c)
    BY <1>1, <2>1, <2>2, <2>3 DEF Close, LaneMoves, JoinedFirst, Joined
  <2>4. CASE Signal(c)
    BY <1>1, <2>1, <2>2, <2>4 DEF Signal, LaneMoves, JoinedFirst, Joined
  <2>5. CASE Join(c)
    BY <1>1, <2>1, <2>2, <2>5 DEF Join, LaneMoves, JoinedFirst, Joined
  <2>6. CASE Enable(c) \/ Look(c) \/ Wait(c) \/ Wake(c) \/ WaitTimesOut(c) \/ Report(c)
    <3>1. laneCloser[c] \in Joined /\ laneCloser'[c] \in Joined
      BY <2>2, <2>6 DEF Enable, Look, Wait, Wake, WaitTimesOut, Report, LaneMoves, Joined
    <3>2. QED
      BY <1>1, <2>1, <3>1 DEF JoinedFirst, Joined
  <2>7. CASE JoinTimesOut(c) \/ Abandon(c)
    BY <1>1, <2>1, <2>2, <2>7 DEF JoinTimesOut, Abandon, LaneMoves, JoinedFirst, Joined
  <2>8. QED
    BY <1>4, <2>3, <2>4, <2>5, <2>6, <2>7 DEF LaneCloser
<1>5. CASE UNCHANGED laneVars
  BY <1>2, <1>5 DEF laneVars, ends, admission
<1>6. QED
  BY <1>2, <1>3, <1>4, <1>5, Bystanders DEF LaneNext

LEMMA NextCovers ==
  ASSUME LaneInv, Once, JoinedFirst, ReportCovers, [LaneNext]_laneVars
  PROVE  ReportCovers'
<1> DEFINE Left == Cardinality(In(Executable))
<1>1. Left \in Nat /\ Left' \in Nat
  <2>1. IsFiniteSet(In(Executable)) /\ Left \in Nat
    BY Finite
  <2>2. In(Executable)' \subseteq Jobs
    BY DEF In
  <2>3. QED
    BY <2>1, <2>2, LaneConstants, FS_Subset, FS_CardinalityType
<1>2. dispatcher = "done" => Left' <= Left
  BY Shrinks, Finite, FS_Subset
<1>3. ReportCovers <=> \A c \in LaneClosers : laneCloser[c] = "done" => Left <= active[c]
  BY DEF ReportCovers, Executable
<1>4. ReportCovers' <=> \A c \in LaneClosers : laneCloser'[c] = "done" => Left' <= active'[c]
  BY DEF ReportCovers, Executable
<1>5. active \in [LaneClosers -> Nat] /\ count \in Nat
      /\ laneCloser \in [LaneClosers -> {"idle", "closed", "joining", "aborting", "idling", "enabled",
                             "looked", "waiting", "reporting", "done", "abandoned"}]
  BY DEF LaneInv, CallersOK, WorkOK
<1>6. dispatcher = "done" => Left <= count
  <2> SUFFICES ASSUME dispatcher = "done" PROVE Left <= count
    OBVIOUS
  <2>1. In(Executable) \subseteq In(Counted)
    BY DEF LaneInv, InHand, In, Executable, Counted
  <2>2. count = Cardinality(In(Counted)) /\ IsFiniteSet(In(Counted))
    BY Finite DEF LaneInv, Sums, Counting
  <2>3. QED
    BY <2>1, <2>2, FS_Subset
<1> HIDE DEF Left
<1>7. ASSUME NEW c \in LaneClosers, laneCloser'[c] = "done"
      PROVE  Left' <= active'[c]
  <2>1. CASE laneCloser[c] = "done"
    <3>1. Left <= active[c] /\ dispatcher = "done"
      BY <1>3, <2>1 DEF JoinedFirst, Joined
    <3>2. active'[c] = active[c]
      <4>1. \A e \in LaneClosers : e = c
        BY DEF Once
      <4>2. CASE \E e \in LaneClosers : \/ Close(e) \/ LaneCloser(e) \/ JoinTimesOut(e) \/ WaitTimesOut(e)
                                   \/ Abandon(e)
        BY <2>1, <4>1, <4>2 DEF Close, LaneCloser, JoinTimesOut, WaitTimesOut, Abandon, Signal, Join,
                                Enable, Look, Wait, Wake, Report, LaneMoves
      <4>3. CASE DropLane \/ UNCHANGED laneVars
        BY <4>3 DEF DropLane, laneVars, ends
      <4>4. QED
        BY <4>2, <4>3, Bystanders DEF LaneNext
    <3>3. active[c] \in Nat
      BY <1>5
    <3>4. QED
      BY <1>1, <1>2, <3>1, <3>2, <3>3
  <2>2. CASE laneCloser[c] # "done"
    <3>1. Report(c)
      <4>1. \A e \in LaneClosers : e = c
        BY DEF Once
      <4>2. CASE \E e \in LaneClosers : \/ Close(e) \/ LaneCloser(e) \/ JoinTimesOut(e) \/ WaitTimesOut(e)
                                   \/ Abandon(e)
        BY <1>5, <1>7, <2>2, <4>1, <4>2
           DEF Close, LaneCloser, JoinTimesOut, WaitTimesOut, Abandon, Signal, Join, Enable, Look, Wait,
               Wake, LaneMoves
      <4>3. CASE DropLane \/ UNCHANGED laneVars
        BY <1>7, <2>2, <4>3 DEF DropLane, laneVars, ends
      <4>4. QED
        BY <1>7, <2>2, <4>2, <4>3, Bystanders DEF LaneNext
    <3>2. active'[c] = count /\ laneCloser[c] = "reporting"
      BY <1>5, <3>1 DEF Report, LaneMoves
    <3>3. dispatcher = "done"
      BY <3>2 DEF JoinedFirst, Joined
    <3>4. QED
      BY <1>1, <1>2, <1>5, <1>6, <3>2, <3>3
  <2>3. QED
    BY <2>1, <2>2
<1>8. QED
  BY <1>4, <1>7

-----------------------------------------------------------------------------
(* The theorems *)

LEMMA LaneInvariance == LaneSafety => []LaneInv
BY InitLaneInv, NextLaneInv, PTL DEF LaneSafety

\* The types of the lane's state (BlockingLane).
THEOREM LaneTyping == LaneSafety => []LaneTypeOK
BY LaneInvariance, Bounded, PTL

\* At every moment, whatever panics, times out or is dropped, each permit is free,
\* the dispatcher's, or a thread's (run, Activity, shutdown).
THEOREM PermitsTheorem == LaneSafety => []PermitsAccounted
BY LaneInvariance, Bounded, PTL

\* A lane that is shut down by one caller reports all that may still execute
\* (BlockingLane::shutdown, finish_dispatcher, wait_until_idle).
THEOREM ReportTheorem == ASSUME Once PROVE LaneSafety => []ReportCovers
<1>1. LaneInit => JoinedFirst /\ ReportCovers
  BY DEF LaneInit, JoinedFirst, ReportCovers, Joined
<1>2. LaneInv /\ JoinedFirst /\ ReportCovers /\ [LaneNext]_laneVars => LaneInv' /\ JoinedFirst' /\ ReportCovers'
  BY NextLaneInv, NextJoinedFirst, NextCovers
<1>3. LaneInit /\ [][LaneNext]_laneVars => [](LaneInv /\ JoinedFirst /\ ReportCovers)
  BY InitLaneInv, <1>1, <1>2, PTL
<1>4. QED
  BY <1>3, PTL DEF LaneSafety

\* Every job and every permit of a lane is accounted for, for any jobs, callers of
\* shutdown and capacities (blocking.rs).
THEOREM LaneTheorem == LaneSafety => []PermitsSound
BY LaneTyping, PermitsTheorem, PTL DEF PermitsSound
=============================================================================
