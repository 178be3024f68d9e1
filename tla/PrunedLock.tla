------------------------------ MODULE PrunedLock ------------------------------
(***************************************************************************)
(* PrunedLock (shelllist-local-build, lock.rs): local inputs are taken out *)
(* of a lock's root, and of the nodes what cannot be reached any more.  A  *)
(* link is a node or a path of inputs to follow from the root, in which    *)
(* there may be further paths.                                             *)
(***************************************************************************)
EXTENDS Naturals, Sequences, FiniteSets

CONSTANTS
  Nodes, LockRoot, \* Nodes: names a link may have, of nodes there are or not
  Locks,       \* functions from the nodes there are to the links of their inputs
  InputNames,  \* names of inputs
  LocalNames   \* the inputs that may be local

NoNode == "none"
Link == [node : Nodes \cup {NoNode}, path : Seq(InputNames)]

\* The paths in the links of a lock.
Routes(lock) == UNION {{lock[n][i].path : i \in DOMAIN lock[n]} : n \in DOMAIN lock}

\* What a lock file may hold: finitely much, and a root.
IsLock(lock) ==
  /\ LockRoot \in DOMAIN lock /\ DOMAIN lock \subseteq Nodes /\ IsFiniteSet(Routes(lock))
  /\ \A n \in DOMAIN lock : /\ DOMAIN lock[n] \subseteq InputNames
                           /\ \A i \in DOMAIN lock[n] : lock[n][i] \in Link

ASSUME LockConstants ==
  LockRoot \in Nodes /\ NoNode \notin Nodes /\ \A lock \in Locks : IsLock(lock)

VARIABLES
  lockfile,  \* the inputs of every node
  pending,   \* nodes still to look at
  reachable, \* nodes looked at
  outcome    \* running, an error, or done

lockVars == <<lockfile, pending, reachable, outcome>>

RemoveInputs(inputs, names) == [n \in DOMAIN inputs \ names |-> inputs[n]]

LockInit ==
  /\ \E locks \in Locks, names \in SUBSET LocalNames :
       lockfile = [locks EXCEPT ![LockRoot] = RemoveInputs(@, names)]
  /\ pending = {LockRoot} /\ reachable = {} /\ outcome = "running"

\* resolve of a path in a lock, from a node on: the node it leads to, or NoNode.  Links
\* on its way are resolved from the root; a path met again inside itself is a cycle.
Follow(lock) ==
  LET Calls == [current : Nodes, rest : Seq(InputNames), trail : SUBSET Routes(lock)]
      follow[call \in Calls] ==
        IF call.rest = <<>> THEN call.current
        ELSE IF call.current \notin DOMAIN lock THEN NoNode
        ELSE IF Head(call.rest) \notin DOMAIN lock[call.current] THEN NoNode
        ELSE LET link == lock[call.current][Head(call.rest)]
                 next == IF link.node # NoNode THEN link.node
                         ELSE IF link.path \in call.trail THEN NoNode
                         ELSE follow[[current |-> LockRoot, rest |-> link.path,
                                      trail |-> call.trail \cup {link.path}]]
             IN  IF next = NoNode THEN NoNode
                 ELSE follow[[current |-> next, rest |-> Tail(call.rest), trail |-> call.trail]]
  IN follow

\* The node a link stands for.
Resolve(lock, link) ==
  IF link.node # NoNode THEN link.node
  ELSE Follow(lock)[[current |-> LockRoot, rest |-> link.path, trail |-> {link.path}]]

\* Mutant: a followed input is for the node it belongs to to keep.
ChildrenDirect(node) == {lockfile[node][i].node : i \in DOMAIN lockfile[node]} \ {NoNode}

Children(node) == {Resolve(lockfile, lockfile[node][i]) : i \in DOMAIN lockfile[node]}

\* Mutant: inputs that lead back are taken for follows that do.
BrokenByCycle(node) ==
  node \in DOMAIN lockfile => NoNode \in Children(node) \/ Children(node) \cap reachable # {}

\* Without its node, or with an input that does not resolve.
Broken(node) == node \in DOMAIN lockfile => NoNode \in Children(node)

VisitNode(node) ==
  /\ outcome = "running" /\ node \in pending /\ ~Broken(node)
  /\ reachable' = reachable \cup {node}
  /\ pending' = (pending \cup Children(node)) \ reachable'
  /\ UNCHANGED <<lockfile, outcome>>

\* A missing node, a missing edge or a cycle: the file stays as it was.
Fail(node) ==
  /\ outcome = "running" /\ node \in pending /\ Broken(node)
  /\ outcome' = "failed" /\ UNCHANGED <<lockfile, pending, reachable>>

Retain ==
  /\ outcome = "running" /\ pending = {} /\ outcome' = "done"
  /\ lockfile' = [n \in reachable |-> lockfile[n]] /\ UNCHANGED <<pending, reachable>>

LockNext == Retain \/ \E node \in Nodes : VisitNode(node) \/ Fail(node)

LockSpec == LockInit /\ [][LockNext]_lockVars
-----------------------------------------------------------------------------
\* What the inputs of a node lead to, and what can be reached from the root: what is
\* in every set of nodes that has the root and whatever its members lead to.
Resolved(node) == {Resolve(lockfile, lockfile[node][i]) : i \in DOMAIN lockfile[node]}
Closed(set) ==
  LockRoot \in set /\ \A n \in set \cap DOMAIN lockfile : Resolved(n) \cap Nodes \subseteq set
FromRoot(node) == \A set \in SUBSET Nodes : Closed(set) => node \in set

\* The pruned lock is complete and nothing more: every link in it resolves, along
\* paths that are in it too, and every node is reached from the root.
PrunedIsClosed ==
  outcome = "done" =>
    /\ \A n \in DOMAIN lockfile : Resolved(n) \subseteq DOMAIN lockfile
    /\ DOMAIN lockfile = {n \in Nodes : FromRoot(n)}

\* Pruning fails only over a lock that has no meaning without its local inputs:
\* something that can be reached in it does not resolve.
FailsOnlyBroken ==
  outcome = "failed" =>
    \E n \in Nodes : FromRoot(n) /\ (n \notin DOMAIN lockfile \/ NoNode \in Resolved(n))

\* Together: what pruning keeps, and when it fails.
PruningIsExact == PrunedIsClosed /\ FailsOnlyBroken
=============================================================================
