------------------------------- MODULE MCWork --------------------------------
(***************************************************************************)
(* Small instances of the parts that admit, run and end work: OwnedTasks,  *)
(* BlockingLane, ServiceBoundary, TaskGroup and OwnerLoss.  They share no  *)
(* state, so in each behaviour one of them moves, and part says which.     *)
(***************************************************************************)
EXTENDS OwnedTasks, BlockingLane, ServiceBoundary, TaskGroup, OwnerLoss, TLC

CONSTANTS Parts, query, apply

\* A method that reads and one with effects, whose policies differ in both limits.
MCMethods == {query, apply}
MCReads == {query}
MCMaxMethod == [m \in MCMethods |-> IF m = query THEN 2 ELSE 1]
MCMaxOwner == [m \in MCMethods |-> IF m = query THEN 1 ELSE 2]

VARIABLE part

Init ==
  /\ part \in Parts
  /\ TasksInit /\ LaneInit /\ BoundaryInit /\ GroupInit /\ LossInit
  /\ part # "loss" => \A w \in Waiters : NameOf(w) = CHOOSE n \in Names : TRUE
  /\ part # "boundary" => \A r \in Requests :
       request[r] = [lane |-> "calls", owner |-> CHOOSE p \in Callers : TRUE, method |-> query]

Next ==
  /\ UNCHANGED part
  /\ \/ part = "tasks" /\ TasksNext /\ UNCHANGED <<laneVars, boundaryVars, groupVars, lossVars>>
     \/ part = "lane" /\ LaneNext /\ UNCHANGED <<tasksVars, boundaryVars, groupVars, lossVars>>
     \/ part = "boundary" /\ BoundaryNext /\ UNCHANGED <<tasksVars, laneVars, groupVars, lossVars>>
     \/ part = "group" /\ GroupNext /\ UNCHANGED <<tasksVars, laneVars, boundaryVars, lossVars>>
     \/ part = "loss" /\ LossNext /\ UNCHANGED <<tasksVars, laneVars, boundaryVars, groupVars>>

Safety == Init /\ [][Next]_<<part, tasksVars, laneVars, boundaryVars, groupVars, lossVars>>

\* Fairness, which nothing that rests may stand in the way of.
Spec ==
  /\ Safety /\ TasksFairness /\ BoundaryFairness /\ GroupFairness
  /\ WF_laneVars(part = "lane" /\ Dispatcher)
  /\ \A j \in Jobs : WF_laneVars(Thread(j))
  /\ \A c \in LaneClosers : WF_laneVars(LaneCloser(c))
  /\ WF_lossVars(Publish \/ StopMonitor)
  /\ \A w \in Waiters : WF_lossVars(part = "loss" /\ OfWaiter(w))

\* One set of names stands for workers, jobs and requests: only one part moves.
Symmetry == Permutations(Workers) \cup Permutations(Ids)
=============================================================================
