------------------------------ MODULE SocketPath ------------------------------
(***************************************************************************)
(* SocketPath (socket/path.rs): several daemons bind one socket path.  A   *)
(* lock file, never removed, is held from before the look at the path to   *)
(* after the socket is unlinked.  A crash gives the lock up and leaves the *)
(* socket, which the next daemon removes once connecting to it is refused. *)
(*                                                                         *)
(* Inodes are numbers that do not come again.  External: somebody who does *)
(* not take the lock may rebind the path himself (Foreign), also between a *)
(* daemon's look at the path and the use it makes of it.  Checks of names, *)
(* owners and modes refuse before anything changes and are left out.       *)
(***************************************************************************)
EXTENDS Naturals, FiniteSets

CONSTANTS
  Daemons,
  MaxInodes,  \* bound on sockets made
  MaxForeign  \* bound on foreign sockets among them

None == "none"

ASSUME PathConstants == {MaxInodes, MaxForeign} \subseteq Nat /\ None \notin Daemons

VARIABLES
  lock,    \* the daemon whose open file holds the lock, or None
  path,    \* the inode at the path, 0 where there is none
  made,    \* sockets made so far
  listens, \* inodes a process listens on
  foreign, \* those of somebody else
  daemon   \* per daemon, where it is, the inode it looked at or bound, the identity it
           \* remembers and, as history, those late for its look

pathVars == <<lock, path, made, listens, foreign, daemon>>
Fresh == [pc |-> "down", seen |-> 0, own |-> 0, late |-> {}]

PathInit ==
  /\ lock = None /\ path = 0 /\ made = 0 /\ listens = {} /\ foreign = {}
  /\ daemon = [d \in Daemons |-> Fresh]

DaemonMoves(d, from, to) == daemon[d].pc = from /\ daemon' = [daemon EXCEPT ![d].pc = to]

\* Mutant: the lock is not waited for, and not needed.
LockAnyway(d) ==
  /\ DaemonMoves(d, "down", "locked") /\ lock' = d
  /\ UNCHANGED <<path, made, listens, foreign>>

\* flock without waiting: a daemon that does not get it gives up.
Lock(d) ==
  /\ lock = None /\ lock' = d /\ DaemonMoves(d, "down", "locked")
  /\ UNCHANGED <<path, made, listens, foreign>>

PathLook(d) ==
  /\ daemon[d].pc = "locked"
  /\ daemon' = [daemon EXCEPT ![d].seen = path,
                              ![d].pc = IF path = 0 THEN "binding" ELSE "probing"]
  /\ UNCHANGED <<lock, path, made, listens, foreign>>

\* Mutant: no answer in time counts as refused.
ProbeImpatient(d) ==
  /\ DaemonMoves(d, "probing", "refused")
  /\ UNCHANGED <<lock, path, made, listens, foreign>>

\* Mutant: the lock outlives the bind that failed.
GivesUpLocked(d) == UNCHANGED lock /\ daemon' = [daemon EXCEPT ![d] = Fresh]

GivesUp(d) == lock' = None /\ daemon' = [daemon EXCEPT ![d] = Fresh]

\* Only a refused connection means stale; an accepted, slow or failed one ends bind,
\* as a path that has gone by now does.
Probe(d) ==
  /\ daemon[d].pc = "probing"
  /\ IF path # 0 /\ path \notin listens
     THEN DaemonMoves(d, "probing", "refused") /\ UNCHANGED lock
     ELSE GivesUp(d)
  /\ UNCHANGED <<path, made, listens, foreign>>

Recheck(d) ==
  /\ daemon[d].pc = "refused"
  /\ IF path = daemon[d].seen THEN DaemonMoves(d, "refused", "removing") /\ UNCHANGED lock
     ELSE GivesUp(d)
  /\ UNCHANGED <<path, made, listens, foreign>>

Remove(d) ==
  /\ daemon[d].pc = "removing"
  /\ IF path # 0 THEN path' = 0 /\ DaemonMoves(d, "removing", "binding") /\ UNCHANGED lock
     ELSE GivesUp(d) /\ UNCHANGED path
  /\ UNCHANGED <<made, listens, foreign>>

\* A path that exists by now is an error.
Bind(d) ==
  /\ daemon[d].pc = "binding"
  /\ IF path = 0
     THEN /\ made < MaxInodes /\ made' = made + 1 /\ path' = made + 1
          /\ listens' = listens \cup {made + 1}
          /\ daemon' = [daemon EXCEPT ![d].pc = "bound", ![d].seen = made + 1]
          /\ UNCHANGED lock
     ELSE GivesUp(d) /\ UNCHANGED <<path, made, listens>>
  /\ UNCHANGED foreign

\* The identity is read from the path.
Identify(d) ==
  /\ daemon[d].pc = "bound"
  /\ IF path # 0 THEN daemon' = [daemon EXCEPT ![d].pc = "serving", ![d].own = path]
                      /\ UNCHANGED <<lock, listens>>
     ELSE GivesUp(d) /\ listens' = listens \ {daemon[d].seen}
  /\ UNCHANGED <<path, made, foreign>>

\* Mutant: whatever is at the path is removed.
DropLooksAway(d) ==
  /\ DaemonMoves(d, "serving", IF path # 0 THEN "leaving" ELSE "unlinked")
  /\ UNCHANGED <<lock, path, made, listens, foreign>>

\* Drop looks whether its inode is still at the path.
DropLooks(d) ==
  /\ DaemonMoves(d, "serving", IF path = daemon[d].own THEN "leaving" ELSE "unlinked")
  /\ UNCHANGED <<lock, path, made, listens, foreign>>

\* It removes by name, so what is there by now.
Unlink(d) ==
  /\ DaemonMoves(d, "leaving", "unlinked") /\ path' = 0
  /\ UNCHANGED <<lock, made, listens, foreign>>

\* The fields go in their order: the listener, and the lock last.
CloseListener(d) ==
  /\ DaemonMoves(d, "unlinked", "closed") /\ listens' = listens \ {daemon[d].seen}
  /\ UNCHANGED <<lock, path, made, foreign>>

Unlock(d) ==
  /\ daemon[d].pc = "closed" /\ GivesUp(d) /\ UNCHANGED <<path, made, listens, foreign>>

Listening(d) == daemon[d].pc \in {"bound", "serving", "leaving", "unlinked"}

\* A process dies wherever it is: its descriptors are closed, the path stays.
Crash(d) ==
  /\ daemon[d].pc # "down"
  /\ daemon' = [daemon EXCEPT ![d] = Fresh]
  /\ lock' = IF lock = d THEN None ELSE lock
  /\ listens' = listens \ (IF Listening(d) THEN {daemon[d].seen} ELSE {})
  /\ UNCHANGED <<path, made, foreign>>

\* Between a look at the path and the use made of it: before the unlink of what was
\* refused, the look for the own inode after bind, and the unlink of Drop.
Exposed(d) == daemon[d].pc \in {"removing", "bound", "leaving"}

\* External: the path is replaced without the lock.
Foreign ==
  /\ made < MaxInodes /\ Cardinality(foreign) < MaxForeign
  /\ made' = made + 1 /\ path' = made + 1
  /\ listens' = listens \cup {made + 1} /\ foreign' = foreign \cup {made + 1}
  /\ daemon' = [d \in Daemons |->
       [daemon[d] EXCEPT !.late = @ \cup IF Exposed(d) THEN {made + 1} ELSE {}]]
  /\ UNCHANGED lock

Step(d) ==
  \/ Lock(d) \/ PathLook(d) \/ Probe(d) \/ Recheck(d) \/ Remove(d) \/ Bind(d) \/ Identify(d)
  \/ DropLooks(d) \/ Unlink(d) \/ CloseListener(d) \/ Unlock(d)

ForeignCloses ==
  /\ \E i \in foreign \cap listens : listens' = listens \ {i}
  /\ UNCHANGED <<lock, path, made, foreign, daemon>>

PathNext == Foreign \/ ForeignCloses \/ \E d \in Daemons : Step(d) \/ Crash(d)

PathSpec == PathInit /\ [][PathNext]_pathVars

-----------------------------------------------------------------------------
(* Properties *)

HoldsLock(d) == daemon[d].pc # "down"

\* Every variable has its type, and the lock has a process that holds it.
PathTypeOK ==
  /\ lock # None => HoldsLock(lock)
  /\ lock \in Daemons \cup {None} /\ made \in 0..MaxInodes /\ path \in 0..made
  /\ listens \subseteq 1..made /\ foreign \subseteq 1..made
  /\ \A d \in Daemons : /\ daemon[d].seen \in 0..made /\ daemon[d].own \in 0..made
                         /\ daemon[d].late \subseteq foreign

\* One daemon at a time is between the lock and its release, crashes included.
OneBinder == \A d, e \in Daemons : HoldsLock(d) /\ HoldsLock(e) => d = e

\* "Never ... unlink a live listener" (socket.rs:152): a daemon unlinks a socket that
\* listens only if it is its own, bound by itself, or one of somebody else that came
\* between a look of this daemon at the path and its use, or before it read back the
\* identity of its own; never another daemon's, and never one that stood at the path
\* when it was looked at, or came while the daemon served.  So Drop does not always
\* unlink "only the inode this listener created" (docs/unix-jsonl.md:12).
LiveIsKept ==
  [][path' = 0 /\ path \in listens =>
       \E d \in Daemons :
         \/ daemon[d].pc = "leaving" /\ path = daemon[d].seen
         \/ /\ daemon[d].pc \in {"removing", "leaving"}
            /\ path \in daemon[d].late \cap foreign]_pathVars

\* Without foreign sockets a daemon that serves is reachable at the path, until Drop
\* unlinks it, whatever crashed before it and whoever tries to bind beside it.
ServingIsReachable ==
  foreign = {} =>
    \A d \in Daemons :
      daemon[d].pc \in {"serving", "leaving"} => path = daemon[d].own /\ path \in listens

\* Together: one daemon has the lock and the path leads to it.
PathSound == PathTypeOK /\ OneBinder /\ ServingIsReachable
=============================================================================
