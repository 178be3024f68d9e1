------------------------------ MODULE TaskGroup -------------------------------
(***************************************************************************)
(* TaskGroup (task.rs): one generation of workers behind a mutex.  Anyone  *)
(* may spawn, a worker's own cleanup included; callers of shutdown may     *)
(* overlap, and may be dropped where they wait.                            *)
(***************************************************************************)
EXTENDS FiniteSets

CONSTANTS GroupWorkers, GroupClosers

VARIABLES
  gate,    \* open, closed, dropped: TaskGroupState.closed, and the group
  handles, \* TaskGroupState.handles; their order is left open
  life,   \* worker -> new, running, aborted, over
  groupCloser,  \* caller of shutdown -> idle, aborting, joining, returned, abandoned
  batch,   \* caller -> the handles it has taken
  left     \* caller -> those of them it is not through with

groupVars == <<gate, handles, life, groupCloser, batch, left>>

GroupInit ==
  /\ gate = "open" /\ handles = {} /\ life = [w \in GroupWorkers |-> "new"]
  /\ groupCloser = [c \in GroupClosers |-> "idle"]
  /\ batch = [c \in GroupClosers |-> {}] /\ left = [c \in GroupClosers |-> {}]

Alive(w) == life[w] \in {"running", "aborted"}

\* Mutant: the gate is not looked at.
SpawnAnyway(w) ==
  /\ gate # "dropped" /\ life[w] = "new"
  /\ handles' = {v \in handles : Alive(v)} \cup {w}
  /\ life' = [life EXCEPT ![w] = "running"]
  /\ UNCHANGED <<gate, groupCloser, batch, left>>

\* Mutant: the wrong ones are dropped.
SpawnForgets(w) ==
  /\ gate = "open" /\ life[w] = "new"
  /\ handles' = {v \in handles : ~Alive(v)} \cup {w}
  /\ life' = [life EXCEPT ![w] = "running"]
  /\ UNCHANGED <<gate, groupCloser, batch, left>>

\* spawn; a finished worker's handle is dropped with the next one's arrival.
GroupSpawn(w) ==
  /\ gate # "dropped" /\ life[w] = "new"
  /\ IF gate = "open"
     THEN /\ handles' = {v \in handles : Alive(v)} \cup {w}
          /\ life' = [life EXCEPT ![w] = "running"]
     ELSE life' = [life EXCEPT ![w] = "over"] /\ UNCHANGED handles
  /\ UNCHANGED <<gate, groupCloser, batch, left>>

Aborting(set) ==
  [w \in GroupWorkers |-> IF w \in set /\ life[w] = "running" THEN "aborted" ELSE life[w]]

\* abort, under the lock.
Abort ==
  /\ gate # "dropped" /\ gate' = "closed" /\ life' = Aborting(handles)
  /\ UNCHANGED <<handles, groupCloser, batch, left>>

\* Mutant: the handles stay in the group.
CloseLeaves(c) ==
  /\ gate # "dropped" /\ groupCloser[c] = "idle" /\ gate' = "closed"
  /\ groupCloser' = [groupCloser EXCEPT ![c] = "aborting"]
  /\ UNCHANGED <<handles, life, batch, left>>

\* shutdown, up to the unlock.
GroupClose(c) ==
  /\ gate # "dropped" /\ groupCloser[c] = "idle" /\ gate' = "closed"
  /\ batch' = [batch EXCEPT ![c] = handles] /\ left' = [left EXCEPT ![c] = handles]
  /\ handles' = {} /\ groupCloser' = [groupCloser EXCEPT ![c] = "aborting"]
  /\ UNCHANGED life

\* Mutant: one worker is aborted, and joined before the next.
AbortFirst(c) ==
  /\ groupCloser[c] = "aborting" /\ groupCloser' = [groupCloser EXCEPT ![c] = "joining"]
  /\ \/ left[c] = {} /\ UNCHANGED life
     \/ \E w \in left[c] : life' = Aborting({w})
  /\ UNCHANGED <<gate, handles, batch, left>>

\* abort_and_join: the whole batch, before it waits.
AbortBatch(c) ==
  /\ groupCloser[c] = "aborting"
  /\ IF left[c] = {}
     THEN /\ groupCloser' = [groupCloser EXCEPT ![c] = "joining"]
          /\ left' = [left EXCEPT ![c] = batch[c]] /\ UNCHANGED life
     ELSE /\ \E w \in left[c] : life' = Aborting({w}) /\ left' = [left EXCEPT ![c] = @ \ {w}]
          /\ UNCHANGED groupCloser
  /\ UNCHANGED <<gate, handles, batch>>

\* One handle after the other is awaited.
GroupJoin(c) ==
  /\ groupCloser[c] = "joining"
  /\ IF left[c] = {}
     THEN groupCloser' = [groupCloser EXCEPT ![c] = "returned"] /\ UNCHANGED left
     ELSE /\ \E w \in left[c] : ~Alive(w) /\ left' = [left EXCEPT ![c] = @ \ {w}]
          /\ UNCHANGED groupCloser
  /\ UNCHANGED <<gate, handles, life, batch>>

\* The future of shutdown is dropped where it waits.
GroupAbandon(c) ==
  /\ groupCloser[c] = "joining" /\ \E w \in left[c] : Alive(w)
  /\ groupCloser' = [groupCloser EXCEPT ![c] = "abandoned"]
  /\ UNCHANGED <<gate, handles, life, batch, left>>

\* Drop: nobody borrows the group any more.
DropGroup ==
  /\ gate # "dropped" /\ \A c \in GroupClosers : groupCloser[c] \in {"idle", "returned", "abandoned"}
  /\ gate' = "dropped" /\ life' = Aborting(handles) /\ handles' = {}
  /\ UNCHANGED <<groupCloser, batch, left>>

\* A worker's end: its own, or the abort's when it is next scheduled.
End(w) ==
  /\ life[w] = "running" /\ life' = [life EXCEPT ![w] = "over"]
  /\ UNCHANGED <<gate, handles, groupCloser, batch, left>>
GroupAbortLands(w) ==
  /\ life[w] = "aborted" /\ life' = [life EXCEPT ![w] = "over"]
  /\ UNCHANGED <<gate, handles, groupCloser, batch, left>>

GroupNext ==
  \/ \E w \in GroupWorkers : GroupSpawn(w) \/ End(w) \/ GroupAbortLands(w)
  \/ \E c \in GroupClosers : GroupClose(c) \/ AbortBatch(c) \/ GroupJoin(c) \/ GroupAbandon(c)
  \/ Abort \/ DropGroup

GroupSafety == GroupInit /\ [][GroupNext]_groupVars

\* Aborts land and a caller's future is polled; workers need not end.
GroupFairness ==
  /\ \A w \in GroupWorkers : WF_groupVars(GroupAbortLands(w))
  /\ \A c \in GroupClosers : WF_groupVars(AbortBatch(c) \/ GroupJoin(c))

GroupSpec == GroupSafety /\ GroupFairness

-----------------------------------------------------------------------------
\* The types.
GroupTypeOK ==
  /\ gate \in {"open", "closed", "dropped"} /\ handles \subseteq GroupWorkers
  /\ life \in [GroupWorkers -> {"new", "running", "aborted", "over"}]
  /\ groupCloser \in [GroupClosers -> {"idle", "aborting", "joining", "returned", "abandoned"}]
  /\ batch \in [GroupClosers -> SUBSET GroupWorkers] /\ left \in [GroupClosers -> SUBSET GroupWorkers]

InHand(w) == \E c \in GroupClosers :
  groupCloser[c] = "aborting" /\ w \in left[c]

\* Once the gate is closed nothing runs that was not aborted, or is about to be
\* by a caller between its unlock and its first wait: a dropped caller loses no
\* worker, and a late spawn adds none (lines 35 to 59 and 72 to 79).
NothingEscapes ==
  gate # "open" => \A w \in GroupWorkers : life[w] = "running" => InHand(w)

\* As long as the group is open every worker can be reached through it: only
\* finished ones are dropped from it (line 39).
NothingIsForgotten ==
  gate = "open" => \A w \in GroupWorkers : Alive(w) => w \in handles

\* The return of shutdown means that no worker is left, unless another caller
\* has taken them and is still at it, or has given up (lines 54 to 59).
GroupShutdownJoins ==
  \A c \in GroupClosers : groupCloser[c] = "returned" =>
    \A w \in GroupWorkers : Alive(w) =>
      \E d \in GroupClosers \ {c} :
        groupCloser[d] \in {"aborting", "joining", "abandoned"} /\ w \in batch[d]

\* After shutdown, abort or Drop all workers end (lines 44 to 69).
GroupEnds == gate # "open" ~> \A w \in GroupWorkers : ~Alive(w)

\* Together: no worker escapes the group, whatever interrupts its shutdown.
WorkersAreKnown == GroupTypeOK /\ NothingEscapes /\ NothingIsForgotten /\ GroupShutdownJoins
=============================================================================
