--------------------------- MODULE ServiceBoundary ---------------------------
(***************************************************************************)
(* ServiceBoundary (service.rs): admission of D-Bus calls.  A permit of a  *)
(* lane and, for calls with a declared policy, a quota of the caller and   *)
(* of the method travel with the request: through the work, which is a     *)
(* task, into the encoder, which is a blocking job.  The caller waits for  *)
(* that task under a deadline.  A read is aborted when its caller stops    *)
(* waiting; an effect goes on.                                             *)
(*                                                                         *)
(* Sizes are left out: a request that is too large is refused before it    *)
(* has any state, a result that is too large is an unknown outcome.        *)
(***************************************************************************)
EXTENDS Naturals, FiniteSets

CONSTANTS
  Requests, Callers, Methods,
  Reads,      \* methods whose policy is ExecutionMode::Read; the rest have effects
  Calls,      \* permits of the lane of calls
  Controls,   \* permits of the lane of cancellations
  MaxMethod,  \* max_in_flight of each method's policy
  MaxOwner    \* max_owner_in_flight of each method's policy

ASSUME BoundaryConstants ==
  /\ IsFiniteSet(Requests) /\ Reads \subseteq Methods
  /\ Calls \in Nat /\ Controls \in Nat
  /\ MaxMethod \in [Methods -> Nat] /\ MaxOwner \in [Methods -> Nat]

VARIABLES
  free,     \* per lane, permits of the semaphore
  owners,   \* Usage.owners, an absent entry being 0
  methods,  \* Usage.methods
  stage,    \* per request, where the admission and what it covers are
  request,  \* per request, the lane, owner and method it was made with
  waiter,   \* per request, its caller's run future
  outcome   \* per request, what the task or the admission ended with

boundaryVars == <<free, owners, methods, stage, request, waiter, outcome>>

Lanes == {"calls", "controls"}
Capacity == [lane \in Lanes |-> IF lane = "calls" THEN Calls ELSE Controls]

BoundaryInit ==
  /\ free = Capacity
  /\ owners = [o \in Callers |-> 0] /\ methods = [m \in Methods |-> 0]
  /\ stage = [r \in Requests |-> "new"]
  /\ request \in [Requests -> [lane : Lanes, owner : Callers, method : Methods]]
  /\ waiter = [r \in Requests |-> "none"] /\ outcome = [r \in Requests |-> "none"]

Lane(r) == request[r].lane
Owner(r) == request[r].owner
Method(r) == request[r].method
IsRead(r) == Method(r) \in Reads
Advances(r, from, to) == stage[r] = from /\ stage' = [stage EXCEPT ![r] = to]

-----------------------------------------------------------------------------
(* Admission *)

\* enter: raw, subscribe and cancel keep the permit only; call_policy goes on to
\* check the quotas, holding the permit.
Enter(r) ==
  /\ free[Lane(r)] > 0
  /\ free' = [free EXCEPT ![Lane(r)] = @ - 1]
  /\ \E to \in IF Lane(r) = "calls" THEN {"entered", "direct"} ELSE {"direct"} :
       Advances(r, "new", to)
  /\ UNCHANGED <<owners, methods, request, waiter, outcome>>

Reject(r) ==
  /\ free[Lane(r)] = 0
  /\ Advances(r, "new", "over") /\ outcome' = [outcome EXCEPT ![r] = "rejected"]
  /\ UNCHANGED <<free, owners, methods, request, waiter>>

\* Mutant: only the method's quota is looked at.
MethodWithinQuota(r) == methods[Method(r)] < MaxMethod[Method(r)]

WithinQuota(r) ==
  owners[Owner(r)] < MaxOwner[Method(r)] /\ methods[Method(r)] < MaxMethod[Method(r)]

\* call_policy, under the mutex of the usage.
Admit(r) ==
  /\ WithinQuota(r)
  /\ Advances(r, "entered", "admitted")
  /\ owners' = [owners EXCEPT ![Owner(r)] = @ + 1]
  /\ methods' = [methods EXCEPT ![Method(r)] = @ + 1]
  /\ UNCHANGED <<free, request, waiter, outcome>>

\* The admission, so far a permit, is dropped.
RejectQuota(r) ==
  /\ ~WithinQuota(r)
  /\ Advances(r, "entered", "unquoted") /\ outcome' = [outcome EXCEPT ![r] = "rejected"]
  /\ UNCHANGED <<free, owners, methods, request, waiter>>

\* The caller is done with an admission without a policy: it has encoded its
\* result in place, or dropped it, or called run, which refuses to execute.
EndDirect(r) ==
  /\ Advances(r, "direct", "unquoted")
  /\ \E result \in {"result", "rejected"} : outcome' = [outcome EXCEPT ![r] = result]
  /\ UNCHANGED <<free, owners, methods, request, waiter>>

\* The future of run is dropped before its first poll, and the admission with it.
DropAdmitted(r) ==
  /\ Advances(r, "admitted", "dropping") /\ outcome' = [outcome EXCEPT ![r] = "rejected"]
  /\ UNCHANGED <<free, owners, methods, request, waiter>>

-----------------------------------------------------------------------------
(* run: the task *)

RunWork(r) ==
  /\ Advances(r, "admitted", "working") /\ waiter' = [waiter EXCEPT ![r] = "waiting"]
  /\ UNCHANGED <<free, owners, methods, request, outcome>>

\* The value goes to a blocking job, and the admission with it.
Work(r) ==
  /\ Advances(r, "working", "encoding")
  /\ UNCHANGED <<free, owners, methods, request, waiter, outcome>>

\* The work panics: its future is dropped, and the admission with it.
WorkPanics(r) ==
  /\ Advances(r, "working", "dropping") /\ outcome' = [outcome EXCEPT ![r] = "unknown"]
  /\ UNCHANGED <<free, owners, methods, request, waiter>>

\* Mutant: an abort takes the encoder's admission away.
AbortLandsAnywhere(r) ==
  /\ IsRead(r) /\ waiter[r] \in {"timedOut", "lost"}
  /\ stage[r] \in {"working", "encoding"} /\ stage' = [stage EXCEPT ![r] = "dropping"]
  /\ owners' = [owners EXCEPT ![Owner(r)] = @ - 1]
  /\ UNCHANGED <<free, methods, request, waiter, outcome>>

\* Mutant: only the deadline aborts; a caller that is dropped leaves the task alone.
AbortLandsAtDeadline(r) ==
  /\ IsRead(r) /\ waiter[r] = "timedOut"
  /\ Advances(r, "working", "dropping")
  /\ UNCHANGED <<free, owners, methods, request, waiter, outcome>>

\* AbortOnDrop of a read: the task is dropped where it awaits the work.  Where it
\* awaits the encoder the job goes on by itself.
WorkAborted(r) ==
  /\ IsRead(r) /\ waiter[r] \in {"timedOut", "lost"}
  /\ Advances(r, "working", "dropping")
  /\ UNCHANGED <<free, owners, methods, request, waiter, outcome>>

\* encode: within the limit, beyond it, or a panic; the closure ends and drops
\* the admission before the task sees the response.
Encode(r) ==
  /\ Advances(r, "encoding", "dropping")
  /\ \E result \in {"result", "unknown"} : outcome' = [outcome EXCEPT ![r] = result]
  /\ UNCHANGED <<free, owners, methods, request, waiter>>

\* Mutant: the owner's entry survives.
DropQuotaOfMethod(r) ==
  /\ Advances(r, "dropping", "unquoted")
  /\ methods' = [methods EXCEPT ![Method(r)] = @ - 1]
  /\ UNCHANGED <<free, owners, request, waiter, outcome>>

\* Dropping Admitted: Quota::drop, then the permit.
DropQuota(r) ==
  /\ Advances(r, "dropping", "unquoted")
  /\ owners' = [owners EXCEPT ![Owner(r)] = @ - 1]
  /\ methods' = [methods EXCEPT ![Method(r)] = @ - 1]
  /\ UNCHANGED <<free, request, waiter, outcome>>

\* Mutant: the permit is given back by the caller that waits, if one does.
DropPermitOfWaiter(r) ==
  /\ waiter[r] \notin {"timedOut", "lost"}
  /\ Advances(r, "unquoted", "over")
  /\ free' = [free EXCEPT ![Lane(r)] = @ + 1]
  /\ UNCHANGED <<owners, methods, request, waiter, outcome>>

DropPermit(r) ==
  /\ Advances(r, "unquoted", "over")
  /\ free' = [free EXCEPT ![Lane(r)] = @ + 1]
  /\ UNCHANGED <<owners, methods, request, waiter, outcome>>

-----------------------------------------------------------------------------
(* run: the caller *)

Answer(r) ==
  /\ stage[r] = "over" /\ waiter[r] = "waiting"
  /\ waiter' = [waiter EXCEPT ![r] = "answered"]
  /\ UNCHANGED <<free, owners, methods, stage, request, outcome>>

\* Mutant: effects have no deadline.
DeadlineOfReads(r) ==
  /\ IsRead(r) /\ waiter[r] = "waiting" /\ stage[r] # "over"
  /\ waiter' = [waiter EXCEPT ![r] = "timedOut"]
  /\ UNCHANGED <<free, owners, methods, stage, request, outcome>>

\* ack_budget_ms; a finished task is seen first.
Deadline(r) ==
  /\ waiter[r] = "waiting" /\ stage[r] # "over"
  /\ waiter' = [waiter EXCEPT ![r] = "timedOut"]
  /\ UNCHANGED <<free, owners, methods, stage, request, outcome>>

\* The future of run is dropped while it waits.
Lose(r) ==
  /\ waiter[r] = "waiting" /\ waiter' = [waiter EXCEPT ![r] = "lost"]
  /\ UNCHANGED <<free, owners, methods, stage, request, outcome>>

Runtime(r) == WorkAborted(r) \/ Encode(r) \/ DropQuota(r) \/ DropPermit(r) \/ Answer(r)

BoundaryNext ==
  \E r \in Requests :
    \/ Enter(r) \/ Reject(r) \/ Admit(r) \/ RejectQuota(r) \/ EndDirect(r)
    \/ DropAdmitted(r) \/ RunWork(r) \/ Work(r) \/ WorkPanics(r) \/ Runtime(r)
    \/ Deadline(r) \/ Lose(r)

BoundarySafety == BoundaryInit /\ [][BoundaryNext]_boundaryVars

\* The runtime drops, encodes and answers, and timers fire.  Work need not end.
BoundaryFairness ==
  \A r \in Requests : WF_boundaryVars(Runtime(r)) /\ WF_boundaryVars(Deadline(r))

BoundarySpec == BoundarySafety /\ BoundaryFairness

-----------------------------------------------------------------------------
(* Properties *)

Phases == {"new", "entered", "direct", "admitted", "working", "encoding", "dropping",
           "unquoted", "over"}

\* Every variable has its type; no count goes below zero or above its limit.
BoundaryTypeOK ==
  /\ free \in [Lanes -> Nat] /\ \A lane \in Lanes : free[lane] <= Capacity[lane]
  /\ owners \in [Callers -> Nat] /\ methods \in [Methods -> Nat]
  /\ stage \in [Requests -> Phases]
  /\ request \in [Requests -> [lane : Lanes, owner : Callers, method : Methods]]
  /\ waiter \in [Requests -> {"none", "waiting", "answered", "timedOut", "lost"}]
  /\ outcome \in [Requests -> {"none", "rejected", "result", "unknown"}]

HasPermit(r) == stage[r] \notin {"new", "over"}
HasQuota(r) == stage[r] \in {"admitted", "working", "encoding", "dropping"}

\* Through refusals, deadlines, lost callers, aborts and panics capacity is what is
\* left by the requests in progress: nothing is lost, nothing given back twice.
CapacityAccounted ==
  /\ \A lane \in Lanes :
       free[lane] + Cardinality({r \in Requests : Lane(r) = lane /\ HasPermit(r)})
         = Capacity[lane]
  /\ \A o \in Callers : owners[o] = Cardinality({r \in Requests : Owner(r) = o /\ HasQuota(r)})
  /\ \A m \in Methods : methods[m] = Cardinality({r \in Requests : Method(r) = m /\ HasQuota(r)})

\* What executes for a method or an owner, encoders of abandoned requests included,
\* stays within the limits the policies declare.
ExecutionBounded ==
  LET executing == {r \in Requests : stage[r] \in {"working", "encoding"}}
      Of(o) == {r \in executing : Owner(r) = o}
  IN /\ \A m \in Methods : Cardinality({r \in executing : Method(r) = m}) <= MaxMethod[m]
     /\ \A o \in Callers :
          Of(o) # {} => \E r \in Of(o) : Cardinality(Of(o)) <= MaxOwner[Method(r)]

\* Every caller is answered, or gives up, at the latest at its deadline.
CallersReturn == \A r \in Requests : (waiter[r] = "waiting") ~> (waiter[r] # "waiting")

\* The read of a caller that has stopped waiting gives its capacity back, though
\* its work would never end.
AbandonedReadsEnd ==
  \A r \in Requests :
    (IsRead(r) /\ waiter[r] \in {"timedOut", "lost"}) ~> (stage[r] = "over")

\* If its work ends, an effect gives its capacity back, wherever its caller went.
EffectsRelease ==
  \A r \in Requests :
    (stage[r] = "working" ~> stage[r] # "working") => (stage[r] = "working" ~> stage[r] = "over")

\* Together: permits and quotas follow the work through timeouts, aborts and
\* abandoned encoders, to the last one.
WorkAccounted == BoundaryTypeOK /\ CapacityAccounted /\ ExecutionBounded

\* Together: callers get their answer, and what they leave behind its end.
RequestsSettle == CallersReturn /\ AbandonedReadsEnd /\ EffectsRelease
=============================================================================
