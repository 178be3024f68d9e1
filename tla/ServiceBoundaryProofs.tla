------------------------ MODULE ServiceBoundaryProofs ------------------------
(***************************************************************************)
(* The accounting of ServiceBoundary for all requests, policies and sizes  *)
(* of the lanes.                                                           *)
(***************************************************************************)
EXTENDS ServiceBoundary, FiniteSetTheorems, TLAPS

-----------------------------------------------------------------------------
(* The inductive invariant *)

Quoted == {"admitted", "working", "encoding", "dropping"}

InLane(lane) == {r \in Requests : Lane(r) = lane /\ HasPermit(r)}
OfOwner(o) == {r \in Requests : Owner(r) = o /\ HasQuota(r)}
OfMethod(m) == {r \in Requests : Method(r) = m /\ HasQuota(r)}

\* One of any requests of an owner was the last to be admitted, and found room.
LastFound(S) == S = {} \/ \E r \in S : Cardinality(S) <= MaxOwner[Method(r)]

WithinPolicies ==
  /\ \A m \in Methods : methods[m] <= MaxMethod[m]
  /\ \A o \in Callers : \A S \in SUBSET OfOwner(o) : LastFound(S)

IInv == BoundaryTypeOK /\ CapacityAccounted /\ WithinPolicies

\* The types of what no count depends on.
CallersOK ==
  /\ waiter \in [Requests -> {"none", "waiting", "answered", "timedOut", "lost"}]
  /\ outcome \in [Requests -> {"none", "rejected", "result", "unknown"}]

-----------------------------------------------------------------------------
(* Counting *)

In(r, S) == IF r \in S THEN 1 ELSE 0

\* What a request in a phase holds of its lane, and of its quotas.
Permits(at) == IF at \in {"new", "over"} THEN 0 ELSE 1
Quotas(at) == IF at \in Quoted THEN 1 ELSE 0

\* A count that changes by n.
Shift(f, at, n) == [x \in DOMAIN f |-> IF x = at THEN f[x] + n ELSE f[x]]

LEMMA Shifts ==
  ASSUME NEW S, NEW f \in [S -> Nat], NEW at \in S
  PROVE  /\ f = Shift(f, at, 0)
         /\ [f EXCEPT ![at] = @ + 1] = Shift(f, at, 1)
         /\ [f EXCEPT ![at] = @ - 1] = Shift(f, at, -1)
<1>1. f = Shift(f, at, 0)
  BY DEF Shift
<1>2. [f EXCEPT ![at] = @ + 1] = Shift(f, at, 1)
  BY DEF Shift
<1>3. [f EXCEPT ![at] = @ - 1] = Shift(f, at, -1)
  <2>1. f[at] \in Nat /\ f[at] - 1 = f[at] + (-1)
    OBVIOUS
  <2>2. [f EXCEPT ![at] = @ - 1] = [x \in S |-> IF x = at THEN f[x] - 1 ELSE f[x]]
    OBVIOUS
  <2>3. QED
    BY <2>1, <2>2 DEF Shift
<1>4. QED
  BY <1>1, <1>2, <1>3

\* Where two sets differ in one element at most, so do their sizes.
LEMMA CountMoves ==
  ASSUME NEW S, NEW T, NEW r, IsFiniteSet(S), T \ {r} = S \ {r}
  PROVE  /\ IsFiniteSet(T) /\ Cardinality(T) \in Nat
         /\ Cardinality(T) = Cardinality(S) + In(r, T) - In(r, S)
<1>1. Cardinality(S) \in Nat
  BY FS_CardinalityType
<1>2. CASE r \in S /\ r \notin T
  <2>1. T = S \ {r}
    BY <1>2
  <2>2. IsFiniteSet(T) /\ Cardinality(T) = Cardinality(S) - 1
    BY <1>2, <2>1, FS_RemoveElement
  <2>3. Cardinality(T) \in Nat
    BY <2>2, FS_CardinalityType
  <2>4. QED
    BY <1>1, <1>2, <2>2, <2>3 DEF In
<1>3. CASE r \notin S /\ r \in T
  <2>1. T = S \cup {r}
    BY <1>3
  <2>2. IsFiniteSet(T) /\ Cardinality(T) = Cardinality(S) + 1
    BY <1>3, <2>1, FS_AddElement
  <2>3. QED
    BY <1>1, <1>3, <2>2 DEF In
<1>4. CASE (r \in S) <=> (r \in T)
  <2>1. T = S
    BY <1>4
  <2>2. QED
    BY <1>1, <2>1 DEF In
<1>5. QED
  BY <1>2, <1>3, <1>4

\* The requests in progress are finite in number.
LEMMA Finite ==
  /\ \A lane : IsFiniteSet(InLane(lane)) /\ Cardinality(InLane(lane)) \in Nat
  /\ \A o : IsFiniteSet(OfOwner(o)) /\ Cardinality(OfOwner(o)) \in Nat
  /\ \A m : IsFiniteSet(OfMethod(m)) /\ Cardinality(OfMethod(m)) \in Nat
<1>1. \A S \in SUBSET Requests : IsFiniteSet(S) /\ Cardinality(S) \in Nat
  BY BoundaryConstants, FS_Subset, FS_CardinalityType
<1>2. QED
  BY <1>1 DEF InLane, OfOwner, OfMethod

\* The accounts, as equations between numbers.
LEMMA Accounts ==
  CapacityAccounted <=>
    /\ \A lane \in Lanes : free[lane] + Cardinality(InLane(lane)) = Capacity[lane]
    /\ \A o \in Callers : owners[o] = Cardinality(OfOwner(o))
    /\ \A m \in Methods : methods[m] = Cardinality(OfMethod(m))
BY DEF CapacityAccounted, InLane, OfOwner, OfMethod

-----------------------------------------------------------------------------
(* The steps *)

\* Nothing is in progress at the start.
LEMMA InitIInv == BoundaryInit => IInv
<1> SUFFICES ASSUME BoundaryInit PROVE IInv
  OBVIOUS
<1>1. BoundaryTypeOK
  BY BoundaryConstants DEF BoundaryInit, BoundaryTypeOK, Lanes, Capacity, Phases
<1>2. /\ \A lane \in Lanes : InLane(lane) = {}
      /\ \A o \in Callers : OfOwner(o) = {}
      /\ \A m \in Methods : OfMethod(m) = {}
  BY DEF BoundaryInit, InLane, OfOwner, OfMethod, HasPermit, HasQuota
<1>3. CapacityAccounted
  <2>1. Capacity \in [Lanes -> Nat]
    BY BoundaryConstants DEF Capacity
  <2>2. Cardinality({}) = 0
    BY FS_EmptySet
  <2>3. ASSUME NEW lane \in Lanes
        PROVE  free[lane] + Cardinality(InLane(lane)) = Capacity[lane]
    <3>1. Cardinality(InLane(lane)) = 0
      BY <1>2, <2>2
    <3>2. free[lane] = Capacity[lane] /\ Capacity[lane] \in Nat
      BY <2>1 DEF BoundaryInit
    <3>3. QED
      BY <3>1, <3>2
  <2>4. /\ \A o \in Callers : owners[o] = Cardinality(OfOwner(o))
        /\ \A m \in Methods : methods[m] = Cardinality(OfMethod(m))
    BY <1>2, <2>2 DEF BoundaryInit
  <2>5. QED
    BY <2>3, <2>4, Accounts
<1>4. WithinPolicies
  BY BoundaryConstants, <1>2 DEF WithinPolicies, LastFound, BoundaryInit
<1>5. QED
  BY <1>1, <1>3, <1>4 DEF IInv

\* A step that moves one request keeps the accounts if it gives back exactly what the
\* request had, takes exactly what it has next, and takes only what there is.
LEMMA StepIInv ==
  ASSUME IInv, NEW r \in Requests, NEW to \in Phases,
         stage' = [stage EXCEPT ![r] = to], request' = request,
         CallersOK',
         free' = Shift(free, Lane(r), Permits(stage[r]) - Permits(to)),
         owners' = Shift(owners, Owner(r), Quotas(to) - Quotas(stage[r])),
         methods' = Shift(methods, Method(r), Quotas(to) - Quotas(stage[r])),
         Permits(stage[r]) < Permits(to) => free[Lane(r)] > 0,
         Quotas(stage[r]) < Quotas(to) => WithinQuota(r)
  PROVE  IInv'
<1>1. /\ free \in [Lanes -> Nat] /\ owners \in [Callers -> Nat] /\ methods \in [Methods -> Nat]
      /\ stage \in [Requests -> Phases]
      /\ request \in [Requests -> [lane : Lanes, owner : Callers, method : Methods]]
  BY DEF IInv, BoundaryTypeOK
<1>2. Lane(r) \in Lanes /\ Owner(r) \in Callers /\ Method(r) \in Methods
  BY <1>1 DEF Lane, Owner, Method
<1>3. /\ stage'[r] = to /\ \A q \in Requests \ {r} : stage'[q] = stage[q]
      /\ \A q \in Requests : Lane(q)' = Lane(q) /\ Owner(q)' = Owner(q) /\ Method(q)' = Method(q)
  BY <1>1 DEF Lane, Owner, Method
<1>4. /\ \A lane : InLane(lane)' \ {r} = InLane(lane) \ {r}
      /\ \A o : OfOwner(o)' \ {r} = OfOwner(o) \ {r}
      /\ \A m : OfMethod(m)' \ {r} = OfMethod(m) \ {r}
  BY <1>3 DEF InLane, OfOwner, OfMethod, HasPermit, HasQuota
<1>5. \A lane \in Lanes : /\ free'[lane] + Cardinality(InLane(lane)') = Capacity[lane]
                          /\ free'[lane] \in Nat /\ free'[lane] <= Capacity[lane]
  <2> SUFFICES ASSUME NEW lane \in Lanes
               PROVE  /\ free'[lane] + Cardinality(InLane(lane)') = Capacity[lane]
                      /\ free'[lane] \in Nat /\ free'[lane] <= Capacity[lane]
    OBVIOUS
  <2>1. free[lane] + Cardinality(InLane(lane)) = Capacity[lane] /\ free[lane] \in Nat
    BY <1>1, Accounts DEF IInv
  <2>2. /\ Cardinality(InLane(lane)) \in Nat /\ Cardinality(InLane(lane)') \in Nat
        /\ Cardinality(InLane(lane)')
             = Cardinality(InLane(lane)) + In(r, InLane(lane)') - In(r, InLane(lane))
    BY <1>4, Finite, CountMoves
  <2>3. CASE lane = Lane(r)
    <3>1. In(r, InLane(lane)) = Permits(stage[r]) /\ In(r, InLane(lane)') = Permits(to)
      BY <1>3, <2>3 DEF In, InLane, Permits, HasPermit
    <3>2. free'[lane] = free[lane] + (Permits(stage[r]) - Permits(to))
      BY <1>1, <1>2, <2>3 DEF Shift
    <3>3. Permits(stage[r]) < Permits(to) => free[lane] > 0
      BY <2>3
    <3>4. Permits(stage[r]) \in {0, 1} /\ Permits(to) \in {0, 1}
      BY DEF Permits
    <3>5. QED
      BY <2>1, <2>2, <3>1, <3>2, <3>3, <3>4
  <2>4. CASE lane # Lane(r)
    <3>1. In(r, InLane(lane)) = 0 /\ In(r, InLane(lane)') = 0
      BY <1>3, <2>4 DEF In, InLane
    <3>2. free'[lane] = free[lane]
      BY <1>1, <2>4 DEF Shift
    <3>3. QED
      BY <2>1, <2>2, <3>1, <3>2
  <2>5. QED
    BY <2>3, <2>4
<1>6. \A o \in Callers : /\ owners'[o] = Cardinality(OfOwner(o)') /\ owners'[o] \in Nat
                         /\ owners'[o] = owners[o] + In(r, OfOwner(o)') - In(r, OfOwner(o))
  <2> SUFFICES ASSUME NEW o \in Callers
               PROVE  /\ owners'[o] = Cardinality(OfOwner(o)') /\ owners'[o] \in Nat
                      /\ owners'[o] = owners[o] + In(r, OfOwner(o)') - In(r, OfOwner(o))
    OBVIOUS
  <2>1. owners[o] = Cardinality(OfOwner(o))
    BY Accounts DEF IInv
  <2>2. /\ Cardinality(OfOwner(o)) \in Nat /\ Cardinality(OfOwner(o)') \in Nat
        /\ Cardinality(OfOwner(o)')
             = Cardinality(OfOwner(o)) + In(r, OfOwner(o)') - In(r, OfOwner(o))
    BY <1>4, Finite, CountMoves
  <2>3. owners'[o] = owners[o] + In(r, OfOwner(o)') - In(r, OfOwner(o))
    <3>1. CASE o = Owner(r)
      <4>1. In(r, OfOwner(o)) = Quotas(stage[r]) /\ In(r, OfOwner(o)') = Quotas(to)
        BY <1>3, <3>1 DEF In, OfOwner, Quotas, Quoted, HasQuota
      <4>2. owners'[o] = owners[o] + (Quotas(to) - Quotas(stage[r])) /\ owners[o] \in Nat
        BY <1>1, <1>2, <3>1 DEF Shift
      <4>3. Quotas(to) \in {0, 1} /\ Quotas(stage[r]) \in {0, 1}
        BY DEF Quotas
      <4>4. QED
        BY <4>1, <4>2, <4>3
    <3>2. CASE o # Owner(r)
      <4>1. In(r, OfOwner(o)) = 0 /\ In(r, OfOwner(o)') = 0
        BY <1>3, <3>2 DEF In, OfOwner
      <4>2. owners'[o] = owners[o] /\ owners[o] \in Nat
        BY <1>1, <3>2 DEF Shift
      <4>3. QED
        BY <4>1, <4>2
    <3>3. QED
      BY <3>1, <3>2
  <2>4. QED
    BY <2>1, <2>2, <2>3
<1>7. \A m \in Methods : /\ methods'[m] = Cardinality(OfMethod(m)') /\ methods'[m] \in Nat
                         /\ methods'[m] = methods[m] + In(r, OfMethod(m)') - In(r, OfMethod(m))
  <2> SUFFICES ASSUME NEW m \in Methods
               PROVE  /\ methods'[m] = Cardinality(OfMethod(m)') /\ methods'[m] \in Nat
                      /\ methods'[m] = methods[m] + In(r, OfMethod(m)') - In(r, OfMethod(m))
    OBVIOUS
  <2>1. methods[m] = Cardinality(OfMethod(m))
    BY Accounts DEF IInv
  <2>2. /\ Cardinality(OfMethod(m)) \in Nat /\ Cardinality(OfMethod(m)') \in Nat
        /\ Cardinality(OfMethod(m)')
             = Cardinality(OfMethod(m)) + In(r, OfMethod(m)') - In(r, OfMethod(m))
    BY <1>4, Finite, CountMoves
  <2>3. methods'[m] = methods[m] + In(r, OfMethod(m)') - In(r, OfMethod(m))
    <3>1. CASE m = Method(r)
      <4>1. In(r, OfMethod(m)) = Quotas(stage[r]) /\ In(r, OfMethod(m)') = Quotas(to)
        BY <1>3, <3>1 DEF In, OfMethod, Quotas, Quoted, HasQuota
      <4>2. methods'[m] = methods[m] + (Quotas(to) - Quotas(stage[r])) /\ methods[m] \in Nat
        BY <1>1, <1>2, <3>1 DEF Shift
      <4>3. Quotas(to) \in {0, 1} /\ Quotas(stage[r]) \in {0, 1}
        BY DEF Quotas
      <4>4. QED
        BY <4>1, <4>2, <4>3
    <3>2. CASE m # Method(r)
      <4>1. In(r, OfMethod(m)) = 0 /\ In(r, OfMethod(m)') = 0
        BY <1>3, <3>2 DEF In, OfMethod
      <4>2. methods'[m] = methods[m] /\ methods[m] \in Nat
        BY <1>1, <3>2 DEF Shift
      <4>3. QED
        BY <4>1, <4>2
    <3>3. QED
      BY <3>1, <3>2
  <2>4. QED
    BY <2>1, <2>2, <2>3
<1>8. CapacityAccounted'
  BY <1>5, <1>6, <1>7 DEF CapacityAccounted, InLane, OfOwner, OfMethod
<1>9. BoundaryTypeOK'
  <2>1. /\ free' = [lane \in Lanes |-> free'[lane]] /\ owners' = [o \in Callers |-> owners'[o]]
        /\ methods' = [m \in Methods |-> methods'[m]]
    BY <1>1 DEF Shift
  <2>2. /\ free' \in [Lanes -> Nat] /\ owners' \in [Callers -> Nat] /\ methods' \in [Methods -> Nat]
        /\ \A lane \in Lanes : free'[lane] <= Capacity[lane]
    BY <1>5, <1>6, <1>7, <2>1
  <2>3. stage' \in [Requests -> Phases] /\ request' \in [Requests -> [lane : Lanes, owner : Callers, method : Methods]]
    BY <1>1
  <2>4. QED
    BY <2>2, <2>3 DEF BoundaryTypeOK, CallersOK
<1>10. stage[r] \notin Quoted /\ to \in Quoted => WithinQuota(r)
  BY DEF Quotas
<1>11. \A m \in Methods : methods'[m] <= MaxMethod[m]
  <2> SUFFICES ASSUME NEW m \in Methods PROVE methods'[m] <= MaxMethod[m]
    OBVIOUS
  <2>1. methods[m] <= MaxMethod[m] /\ methods[m] \in Nat /\ methods'[m] \in Nat /\ MaxMethod[m] \in Nat
    BY <1>1, <1>7, BoundaryConstants DEF IInv, WithinPolicies
  <2>2. CASE r \notin OfMethod(m) /\ r \in OfMethod(m)'
    <3>1. m = Method(r) /\ stage[r] \notin Quoted /\ to \in Quoted
      BY <1>3, <2>2 DEF OfMethod, HasQuota, Quoted
    <3>2. methods[m] < MaxMethod[m]
      BY <1>10, <3>1 DEF WithinQuota
    <3>3. methods'[m] = methods[m] + 1
      BY <1>7, <2>1, <2>2 DEF In
    <3>4. QED
      BY <2>1, <3>2, <3>3
  <2>3. CASE ~(r \notin OfMethod(m) /\ r \in OfMethod(m)')
    BY <1>7, <2>1, <2>3 DEF In
  <2>4. QED
    BY <2>2, <2>3
<1>12. \A o \in Callers : \A S \in SUBSET OfOwner(o)' : LastFound(S)'
  <2> SUFFICES ASSUME NEW o \in Callers, NEW S \in SUBSET OfOwner(o)', S # {}
               PROVE  \E q \in S : Cardinality(S) <= MaxOwner[Method(q)']
    BY DEF LastFound
  <2>1. \A q \in S : q \in Requests /\ Method(q)' = Method(q)
    BY <1>3 DEF OfOwner
  <2>2. CASE S \subseteq OfOwner(o)
    <3>1. \E q \in S : Cardinality(S) <= MaxOwner[Method(q)]
      BY <2>2 DEF IInv, WithinPolicies, LastFound
    <3>2. QED
      BY <2>1, <3>1
  <2>3. CASE ~(S \subseteq OfOwner(o))
    <3>1. r \in S /\ r \notin OfOwner(o) /\ r \in OfOwner(o)'
      BY <1>4, <2>3
    <3>2. Owner(r) = o /\ stage[r] \notin Quoted /\ to \in Quoted
      BY <1>3, <3>1 DEF OfOwner, HasQuota, Quoted
    <3>3. owners[o] < MaxOwner[Method(r)]
      BY <1>10, <3>2 DEF WithinQuota
    <3>4. owners'[o] = owners[o] + 1 /\ owners[o] \in Nat /\ MaxOwner[Method(r)] \in Nat
      BY <1>1, <1>2, <1>6, <3>1, BoundaryConstants DEF In
    <3>5. Cardinality(S) <= owners'[o] /\ Cardinality(S) \in Nat
      <4>1. IsFiniteSet(OfOwner(o)')
        BY <1>4, Finite, CountMoves
      <4>2. QED
        BY <1>6, <4>1, FS_Subset, FS_CardinalityType
    <3>6. QED
      BY <2>1, <3>1, <3>3, <3>4, <3>5
  <2>4. QED
    BY <2>2, <2>3
<1>13. QED
  BY <1>8, <1>9, <1>11, <1>12 DEF IInv, WithinPolicies

\* What a request stands for: a lane, an owner and a method.
LEMMA Requested ==
  ASSUME IInv, NEW r \in Requests
  PROVE  /\ Lane(r) \in Lanes /\ Owner(r) \in Callers /\ Method(r) \in Methods
         /\ free \in [Lanes -> Nat] /\ owners \in [Callers -> Nat] /\ methods \in [Methods -> Nat]
BY DEF IInv, BoundaryTypeOK, Lane, Owner, Method

\* A step that leaves all capacity where it is.
LEMMA QuietStep ==
  ASSUME IInv, NEW r \in Requests, NEW to \in Phases,
         stage' = [stage EXCEPT ![r] = to], UNCHANGED <<request, free, owners, methods>>,
         CallersOK',
         Permits(stage[r]) = Permits(to), Quotas(stage[r]) = Quotas(to)
  PROVE  IInv'
<1>1. Permits(stage[r]) - Permits(to) = 0 /\ Quotas(to) - Quotas(stage[r]) = 0
  BY DEF Permits, Quotas
<1>2. /\ free' = Shift(free, Lane(r), Permits(stage[r]) - Permits(to))
      /\ owners' = Shift(owners, Owner(r), Quotas(to) - Quotas(stage[r]))
      /\ methods' = Shift(methods, Method(r), Quotas(to) - Quotas(stage[r]))
  BY <1>1, Requested, Shifts
<1>3. ~(Permits(stage[r]) < Permits(to)) /\ ~(Quotas(stage[r]) < Quotas(to))
  BY DEF Permits, Quotas
<1>4. QED
  BY <1>2, <1>3, StepIInv

\* What a caller does changes none of the accounts.
LEMMA CallerStep ==
  ASSUME IInv, NEW r \in Requests, Answer(r) \/ Deadline(r) \/ Lose(r)
  PROVE  IInv'
<1>1. UNCHANGED <<request, free, owners, methods, stage, outcome>>
  BY DEF Answer, Deadline, Lose
<1>2. stage' = [stage EXCEPT ![r] = stage[r]] /\ stage[r] \in Phases
  BY <1>1 DEF IInv, BoundaryTypeOK
<1>3. CallersOK'
  BY <1>1 DEF IInv, BoundaryTypeOK, CallersOK, Answer, Deadline, Lose
<1>4. QED
  BY <1>1, <1>2, <1>3, QuietStep

\* A request that is refused at once, run, worked on, or lost on the way.
LEMMA PassingStep ==
  ASSUME IInv, NEW r \in Requests,
         \/ Reject(r) \/ RejectQuota(r) \/ EndDirect(r) \/ DropAdmitted(r)
         \/ RunWork(r) \/ Work(r) \/ WorkPanics(r) \/ WorkAborted(r) \/ Encode(r)
  PROVE  IInv'
<1>1. CallersOK
  BY DEF IInv, BoundaryTypeOK, CallersOK
<1>2. CallersOK' /\ UNCHANGED <<request, free, owners, methods>>
  BY <1>1 DEF CallersOK, Reject, RejectQuota, EndDirect, DropAdmitted, RunWork, Work, WorkPanics, WorkAborted, Encode
<1>3. \E to \in Phases : /\ stage' = [stage EXCEPT ![r] = to]
                         /\ Permits(stage[r]) = Permits(to) /\ Quotas(stage[r]) = Quotas(to)
  BY DEF Reject, RejectQuota, EndDirect, DropAdmitted, RunWork, Work, WorkPanics, WorkAborted, Encode,
         Advances, Phases, Permits, Quotas, Quoted
<1>4. QED
  BY <1>2, <1>3, QuietStep

\* The steps that take or give back: a permit, or the quotas.
LEMMA EnterStep ==
  ASSUME IInv, NEW r \in Requests, Enter(r)
  PROVE  IInv'
<1>1. PICK to \in {"entered", "direct"} : Advances(r, "new", to)
  BY DEF Enter
<1>2. /\ stage' = [stage EXCEPT ![r] = to] /\ to \in Phases /\ UNCHANGED request
      /\ Permits(stage[r]) - Permits(to) = -1 /\ Quotas(to) - Quotas(stage[r]) = 0
      /\ free[Lane(r)] > 0 /\ ~(Quotas(stage[r]) < Quotas(to))
  <2>1. /\ stage' = [stage EXCEPT ![r] = to] /\ to \in Phases /\ UNCHANGED request
        /\ Permits(stage[r]) = 0 /\ Permits(to) = 1 /\ Quotas(stage[r]) = 0 /\ Quotas(to) = 0
        /\ free[Lane(r)] > 0
    BY <1>1 DEF Enter, Advances, Phases, Permits, Quotas, Quoted
  <2>2. QED
    BY <2>1
<1>3. /\ free' = Shift(free, Lane(r), Permits(stage[r]) - Permits(to))
      /\ owners' = Shift(owners, Owner(r), Quotas(to) - Quotas(stage[r]))
      /\ methods' = Shift(methods, Method(r), Quotas(to) - Quotas(stage[r]))
  <2>1. free' = Shift(free, Lane(r), Permits(stage[r]) - Permits(to))
    <3>1. [free EXCEPT ![Lane(r)] = @ - 1] = Shift(free, Lane(r), -1)
      BY Requested, Shifts
    <3>2. QED
      BY <1>2, <3>1 DEF Enter
  <2>2. owners' = Shift(owners, Owner(r), Quotas(to) - Quotas(stage[r]))
    BY <1>2, Requested, Shifts DEF Enter
  <2>3. methods' = Shift(methods, Method(r), Quotas(to) - Quotas(stage[r]))
    BY <1>2, Requested, Shifts DEF Enter
  <2>4. QED
    BY <2>1, <2>2, <2>3
<1>4. CallersOK'
  BY DEF IInv, BoundaryTypeOK, CallersOK, Enter
<1>5. QED
  BY <1>2, <1>3, <1>4, StepIInv

LEMMA AdmitStep ==
  ASSUME IInv, NEW r \in Requests, Admit(r)
  PROVE  IInv'
<1>1. stage' = [stage EXCEPT ![r] = "admitted"] /\ "admitted" \in Phases /\ UNCHANGED request
  BY DEF Admit, Advances, Phases
<1>2. /\ Permits(stage[r]) - Permits("admitted") = 0 /\ Quotas("admitted") - Quotas(stage[r]) = 1
      /\ ~(Permits(stage[r]) < Permits("admitted")) /\ WithinQuota(r)
  BY DEF Admit, Advances, Permits, Quotas, Quoted
<1>3. /\ free' = Shift(free, Lane(r), Permits(stage[r]) - Permits("admitted"))
      /\ owners' = Shift(owners, Owner(r), Quotas("admitted") - Quotas(stage[r]))
      /\ methods' = Shift(methods, Method(r), Quotas("admitted") - Quotas(stage[r]))
  <2>1. free' = Shift(free, Lane(r), Permits(stage[r]) - Permits("admitted"))
    BY <1>2, Requested, Shifts DEF Admit
  <2>2. owners' = Shift(owners, Owner(r), Quotas("admitted") - Quotas(stage[r]))
    <3>1. [owners EXCEPT ![Owner(r)] = @ + 1] = Shift(owners, Owner(r), 1)
      BY Requested, Shifts
    <3>2. QED
      BY <1>2, <3>1 DEF Admit
  <2>3. methods' = Shift(methods, Method(r), Quotas("admitted") - Quotas(stage[r]))
    <3>1. [methods EXCEPT ![Method(r)] = @ + 1] = Shift(methods, Method(r), 1)
      BY Requested, Shifts
    <3>2. QED
      BY <1>2, <3>1 DEF Admit
  <2>4. QED
    BY <2>1, <2>2, <2>3
<1>4. CallersOK'
  BY DEF IInv, BoundaryTypeOK, CallersOK, Admit
<1>5. QED
  BY <1>1, <1>2, <1>3, <1>4, StepIInv

LEMMA DropQuotaStep ==
  ASSUME IInv, NEW r \in Requests, DropQuota(r)
  PROVE  IInv'
<1>1. stage' = [stage EXCEPT ![r] = "unquoted"] /\ "unquoted" \in Phases /\ UNCHANGED request
  BY DEF DropQuota, Advances, Phases
<1>2. /\ Permits(stage[r]) - Permits("unquoted") = 0 /\ Quotas("unquoted") - Quotas(stage[r]) = -1
      /\ ~(Permits(stage[r]) < Permits("unquoted")) /\ ~(Quotas(stage[r]) < Quotas("unquoted"))
  BY DEF DropQuota, Advances, Permits, Quotas, Quoted
<1>3. /\ free' = Shift(free, Lane(r), Permits(stage[r]) - Permits("unquoted"))
      /\ owners' = Shift(owners, Owner(r), Quotas("unquoted") - Quotas(stage[r]))
      /\ methods' = Shift(methods, Method(r), Quotas("unquoted") - Quotas(stage[r]))
  <2>1. free' = Shift(free, Lane(r), Permits(stage[r]) - Permits("unquoted"))
    BY <1>2, Requested, Shifts DEF DropQuota
  <2>2. owners' = Shift(owners, Owner(r), Quotas("unquoted") - Quotas(stage[r]))
    <3>1. [owners EXCEPT ![Owner(r)] = @ - 1] = Shift(owners, Owner(r), -1)
      BY Requested, Shifts
    <3>2. QED
      BY <1>2, <3>1 DEF DropQuota
  <2>3. methods' = Shift(methods, Method(r), Quotas("unquoted") - Quotas(stage[r]))
    <3>1. [methods EXCEPT ![Method(r)] = @ - 1] = Shift(methods, Method(r), -1)
      BY Requested, Shifts
    <3>2. QED
      BY <1>2, <3>1 DEF DropQuota
  <2>4. QED
    BY <2>1, <2>2, <2>3
<1>4. CallersOK'
  BY DEF IInv, BoundaryTypeOK, CallersOK, DropQuota
<1>5. QED
  BY <1>1, <1>2, <1>3, <1>4, StepIInv

LEMMA DropPermitStep ==
  ASSUME IInv, NEW r \in Requests, DropPermit(r)
  PROVE  IInv'
<1>1. stage' = [stage EXCEPT ![r] = "over"] /\ "over" \in Phases /\ UNCHANGED request
  BY DEF DropPermit, Advances, Phases
<1>2. /\ Permits(stage[r]) - Permits("over") = 1 /\ Quotas("over") - Quotas(stage[r]) = 0
      /\ ~(Permits(stage[r]) < Permits("over")) /\ ~(Quotas(stage[r]) < Quotas("over"))
  BY DEF DropPermit, Advances, Permits, Quotas, Quoted
<1>3. /\ free' = Shift(free, Lane(r), Permits(stage[r]) - Permits("over"))
      /\ owners' = Shift(owners, Owner(r), Quotas("over") - Quotas(stage[r]))
      /\ methods' = Shift(methods, Method(r), Quotas("over") - Quotas(stage[r]))
  <2>1. free' = Shift(free, Lane(r), Permits(stage[r]) - Permits("over"))
    <3>1. [free EXCEPT ![Lane(r)] = @ + 1] = Shift(free, Lane(r), 1)
      BY Requested, Shifts
    <3>2. QED
      BY <1>2, <3>1 DEF DropPermit
  <2>2. owners' = Shift(owners, Owner(r), Quotas("over") - Quotas(stage[r]))
    BY <1>2, Requested, Shifts DEF DropPermit
  <2>3. methods' = Shift(methods, Method(r), Quotas("over") - Quotas(stage[r]))
    BY <1>2, Requested, Shifts DEF DropPermit
  <2>4. QED
    BY <2>1, <2>2, <2>3
<1>4. CallersOK'
  BY DEF IInv, BoundaryTypeOK, CallersOK, DropPermit
<1>5. QED
  BY <1>1, <1>2, <1>3, <1>4, StepIInv

LEMMA NextIInv == IInv /\ [BoundaryNext]_boundaryVars => IInv'
<1> SUFFICES ASSUME IInv, [BoundaryNext]_boundaryVars PROVE IInv'
  OBVIOUS
<1>1. CASE BoundaryNext
  BY <1>1, EnterStep, AdmitStep, PassingStep, CallerStep, DropQuotaStep, DropPermitStep
     DEF BoundaryNext, Runtime
<1>2. CASE UNCHANGED boundaryVars
  BY <1>2, SMTT(40) DEF boundaryVars, IInv, BoundaryTypeOK, CapacityAccounted, WithinPolicies, LastFound,
                        OfOwner, HasPermit, HasQuota, Lane, Owner, Method
<1>3. QED
  BY <1>1, <1>2

\* What executes has its quotas.
LEMMA Executing == IInv => ExecutionBounded
<1> SUFFICES ASSUME IInv PROVE ExecutionBounded
  OBVIOUS
<1> DEFINE executing == {r \in Requests : stage[r] \in {"working", "encoding"}}
           Of(o) == {r \in executing : Owner(r) = o}
<1>1. ASSUME NEW m \in Methods
      PROVE  Cardinality({r \in executing : Method(r) = m}) <= MaxMethod[m]
  <2>1. {r \in executing : Method(r) = m} \subseteq OfMethod(m)
    BY DEF OfMethod, HasQuota
  <2>2. /\ Cardinality({r \in executing : Method(r) = m}) <= Cardinality(OfMethod(m))
        /\ Cardinality({r \in executing : Method(r) = m}) \in Nat
    BY <2>1, Finite, FS_Subset, FS_CardinalityType
  <2>3. Cardinality(OfMethod(m)) <= MaxMethod[m] /\ Cardinality(OfMethod(m)) \in Nat
    BY Accounts, Finite DEF IInv, WithinPolicies
  <2>4. MaxMethod[m] \in Nat
    BY BoundaryConstants
  <2> HIDE DEF executing
  <2>5. QED
    BY <2>2, <2>3, <2>4
<1>2. ASSUME NEW o \in Callers, Of(o) # {}
      PROVE  \E r \in Of(o) : Cardinality(Of(o)) <= MaxOwner[Method(r)]
  <2>1. Of(o) \in SUBSET OfOwner(o)
    BY DEF OfOwner, HasQuota
  <2>2. QED
    BY <1>2, <2>1 DEF IInv, WithinPolicies, LastFound
<1>3. QED
  BY <1>1, <1>2 DEF ExecutionBounded

-----------------------------------------------------------------------------
(* The theorems *)

LEMMA Invariance == BoundarySafety => []IInv
BY InitIInv, NextIInv, PTL DEF BoundarySafety

\* The types: no count goes below zero or beyond its lane (ServiceBoundary, Usage).
THEOREM Typing == BoundarySpec => []BoundaryTypeOK
<1>1. IInv => BoundaryTypeOK
  BY DEF IInv
<1>2. QED
  BY Invariance, <1>1, PTL DEF BoundarySpec

\* Capacity is exactly what the requests in progress leave, whatever is refused,
\* abandoned, aborted or panics (ServiceBoundary::enter, call_policy, run, Quota::drop).
THEOREM AccountingTheorem == BoundarySpec => []CapacityAccounted
<1>1. IInv => CapacityAccounted
  BY DEF IInv
<1>2. QED
  BY Invariance, <1>1, PTL DEF BoundarySpec

\* The work of a method or an owner stays within the declared limits, encoders that
\* nobody waits for included (call_policy).
THEOREM LimitsTheorem == BoundarySpec => []ExecutionBounded
BY Invariance, Executing, PTL DEF BoundarySpec

\* Permits and quotas account for all work of the boundary, for any requests,
\* callers, methods and limits (service.rs).
THEOREM SoundTheorem == BoundarySpec => []WorkAccounted
BY Typing, AccountingTheorem, LimitsTheorem, PTL DEF WorkAccounted
=============================================================================
