------------------------- MODULE OutputActorProofs -------------------------
(***************************************************************************)
(* Invariants of OutputActor for every set of ids and routes, every limit  *)
(* and every behaviour.                                                    *)
(***************************************************************************)
EXTENDS OutputActor, FiniteSetTheorems, TLAPS

-----------------------------------------------------------------------------
(* The operations on OutputState *)

\* suppress() touches the cancellation history only, and remembers the id.
LEMMA SuppressFrame ==
  ASSUME NEW s \in StateType, NEW i \in Ids, OrderOK(s)
  PROVE  /\ Suppress(s, i) \in StateType
         /\ Suppress(s, i).active = s.active
         /\ Suppress(s, i).pending = s.pending
         /\ Suppress(s, i).suppressed \subseteq s.suppressed \cup {i}
         /\ PendingLimit > 0 => i \in Suppress(s, i).suppressed
<1> USE ConstantsAssumption
<1>1. CASE PendingLimit = 0 \/ i \in s.suppressed
  BY <1>1 DEF Suppress, StateType
<1>2. CASE ~(PendingLimit = 0 \/ i \in s.suppressed)
  <2> DEFINE full == Len(s.order) >= PendingLimit
             kept == IF full THEN Tail(s.order) ELSE s.order
             dropped == IF full THEN {Head(s.order)} ELSE {}
  <2>1. Suppress(s, i) = [s EXCEPT !.suppressed = (s.suppressed \ dropped) \cup {i},
                                   !.order = Append(kept, i)]
    BY <1>2 DEF Suppress
  <2>2. kept \in Seq(Ids)
    BY <1>2 DEF StateType
  <2>3. Append(kept, i) \in Seq(Ids)
    BY <2>2
  <2> HIDE DEF kept, dropped
  <2>4. QED
    BY <2>1, <2>3, ZenonT(40) DEF StateType
<1>3. QED
  BY <1>1, <1>2

\* suppress() keeps the history in step with the set, free of duplicates and
\* within its limit.
LEMMA SuppressOrder ==
  ASSUME NEW s \in StateType, NEW i \in Ids, OrderOK(s)
  PROVE  OrderOK(Suppress(s, i))
<1> USE ConstantsAssumption
<1>1. CASE PendingLimit = 0 \/ i \in s.suppressed
  BY <1>1 DEF Suppress
<1>2. CASE ~(PendingLimit = 0 \/ i \in s.suppressed) /\ Len(s.order) >= PendingLimit
  <2> DEFINE t == Suppress(s, i)
             n == Len(s.order)
  <2>1. /\ s.order \in Seq(Ids) /\ n \in Nat /\ n = PendingLimit /\ n > 0
        /\ s.suppressed = {s.order[k] : k \in 1..n}
        /\ \A j, k \in 1..n : s.order[j] = s.order[k] => j = k
    BY <1>2 DEF OrderOK, StateType
  <2>2. /\ t.suppressed = (s.suppressed \ {s.order[1]}) \cup {i}
        /\ t.order = Append(Tail(s.order), i)
    BY <1>2, <2>1 DEF Suppress, StateType
  <2>3. /\ Len(t.order) = n /\ t.order[n] = i
        /\ \A k \in 1..(n - 1) : t.order[k] = s.order[k + 1]
    BY <2>1, <2>2
  <2>4. \A k \in 1..n : s.order[k] # i
    BY <1>2, <2>1
  <2>5. t.suppressed = {t.order[k] : k \in 1..n}
    <3>1. ASSUME NEW x \in t.suppressed PROVE \E k \in 1..n : x = t.order[k]
      <4>1. CASE x = i
        BY <4>1, <2>1, <2>3
      <4>2. CASE x # i
        <5>1. PICK k \in 1..n : x = s.order[k] /\ k # 1
          BY <4>2, <2>1, <2>2
        <5>2. k - 1 \in 1..(n - 1) /\ x = t.order[k - 1]
          BY <5>1, <2>1, <2>3
        <5>3. QED
          BY <5>2, <2>1
      <4>3. QED
        BY <4>1, <4>2
    <3>2. ASSUME NEW k \in 1..n PROVE t.order[k] \in t.suppressed
      <4>1. CASE k = n
        BY <4>1, <2>2, <2>3
      <4>2. CASE k # n
        BY <4>2, <2>1, <2>2, <2>3
      <4>3. QED
        BY <4>1, <4>2
    <3>3. QED
      BY <3>1, <3>2
  <2>6. \A j, k \in 1..n : t.order[j] = t.order[k] => j = k
    BY <2>1, <2>3, <2>4
  <2>7. QED
    BY <2>1, <2>3, <2>5, <2>6 DEF OrderOK
<1>3. CASE ~(PendingLimit = 0 \/ i \in s.suppressed) /\ ~(Len(s.order) >= PendingLimit)
  <2> DEFINE t == Suppress(s, i)
             n == Len(s.order)
  <2>1. /\ s.order \in Seq(Ids) /\ n \in Nat /\ n < PendingLimit
        /\ s.suppressed = {s.order[k] : k \in 1..n}
        /\ \A j, k \in 1..n : s.order[j] = s.order[k] => j = k
    BY <1>3 DEF OrderOK, StateType
  <2>2. t.suppressed = s.suppressed \cup {i} /\ t.order = Append(s.order, i)
    BY <1>3, <2>1 DEF Suppress, StateType
  <2>3. /\ Len(t.order) = n + 1 /\ t.order[n + 1] = i
        /\ \A k \in 1..n : t.order[k] = s.order[k]
    BY <2>1, <2>2
  <2>4. t.suppressed = {t.order[k] : k \in 1..(n + 1)}
    BY <2>1, <2>2, <2>3, SMTT(40)
  <2>5. \A j, k \in 1..(n + 1) : t.order[j] = t.order[k] => j = k
    BY <1>3, <2>1, <2>3, SMTT(40)
  <2>6. QED
    BY <2>1, <2>3, <2>4, <2>5 DEF OrderOK
<1>4. QED
  BY <1>1, <1>2, <1>3

StateOK(s) ==
  /\ s \in StateType /\ Agree(s) /\ OrderOK(s)
  /\ IsFiniteSet(s.pending) /\ Cardinality(s.pending) <= PendingLimit

\* OutputState::new, and what reset_correlation leaves, agree and are within bounds.
LEMMA InitialStateOK == StateOK(InitialState)
<1>1. InitialState \in StateType
  BY DEF InitialState, StateType
<1>2. Agree(InitialState) /\ OrderOK(InitialState)
  BY ConstantsAssumption DEF InitialState, Agree, OrderOK, IsActive
<1>3. IsFiniteSet(InitialState.pending) /\ Cardinality(InitialState.pending) <= PendingLimit
  BY ConstantsAssumption, FS_EmptySet DEF InitialState
<1>4. QED
  BY <1>1, <1>2, <1>3 DEF StateOK

\* Fewer events held back are still within the limit.
LEMMA FewerPending ==
  ASSUME NEW S, NEW T \in SUBSET S, IsFiniteSet(S), Cardinality(S) <= PendingLimit
  PROVE  IsFiniteSet(T) /\ Cardinality(T) <= PendingLimit
<1>1. /\ IsFiniteSet(T) /\ Cardinality(T) <= Cardinality(S)
      /\ Cardinality(T) \in Nat /\ Cardinality(S) \in Nat
  BY FS_Subset, FS_CardinalityType
<1>2. QED
  BY <1>1, ConstantsAssumption

\* cancelled() ends the id, withdraws what is held back for it, and remembers it.
LEMMA CancelledOK ==
  ASSUME NEW s, StateOK(s), NEW i \in Ids
  PROVE  LET t == Cancelled(s, i)
         IN  /\ StateOK(t)
             /\ t.active = [s.active EXCEPT ![i] = Inactive]
             /\ t.pending = {e \in s.pending : e.id # i}
             /\ t.suppressed \subseteq s.suppressed \cup {i}
             /\ PendingLimit > 0 => i \in t.suppressed
<1> DEFINE u == [s EXCEPT !.active[i] = Inactive, !.pending = {e \in @ : e.id # i}]
           t == Cancelled(s, i)
<1>1. s \in StateType /\ Agree(s) /\ OrderOK(s)
  BY DEF StateOK
<1>2. /\ u \in StateType
      /\ u.active = [s.active EXCEPT ![i] = Inactive]
      /\ u.pending = {e \in s.pending : e.id # i}
      /\ u.suppressed = s.suppressed /\ u.order = s.order
  BY <1>1 DEF StateType
<1>3. OrderOK(u)
  BY <1>1, <1>2 DEF OrderOK
<1>4. t = Suppress(u, i)
  BY DEF Cancelled
<1> HIDE DEF u, t
<1>5. /\ t \in StateType /\ t.active = u.active /\ t.pending = u.pending
      /\ t.suppressed \subseteq u.suppressed \cup {i}
      /\ PendingLimit > 0 => i \in t.suppressed
      /\ OrderOK(t)
  BY <1>2, <1>3, <1>4, SuppressFrame, SuppressOrder
<1>6. Agree(t)
  <2>1. ASSUME NEW j \in t.suppressed PROVE ~IsActive(t, j)
    BY <1>1, <1>2, <1>5 DEF Agree, IsActive, StateType
  <2>2. ASSUME NEW e \in t.pending PROVE e.id \in Ids \ t.suppressed /\ ~IsActive(t, e.id)
    BY <1>1, <1>2, <1>5 DEF Agree, IsActive, StateType
  <2>3. QED
    BY <2>1, <2>2 DEF Agree
<1>7. IsFiniteSet(t.pending) /\ Cardinality(t.pending) <= PendingLimit
  BY <1>2, <1>5, FewerPending DEF StateOK
<1>8. QED
  BY <1>2, <1>5, <1>6, <1>7 DEF StateOK, t

\* The route an acknowledged id ends up with is a route or none.
LEMMA AcknowledgeType ==
  ASSUME NEW old \in Routes \cup {NoRoute, Inactive}, NEW r \in ResponseType
  PROVE  Acknowledge(old, r) \in Routes \cup {NoRoute} /\ Acknowledge(old, r) # Inactive
BY ConstantsAssumption DEF Acknowledge, ResponseType

\* activate() opens a tracked id that is not remembered as cancelled, and hands
\* over all that is held back for it.
LEMMA ActivateOK ==
  ASSUME NEW s, StateOK(s), NEW r \in ResponseType
  PROVE  LET t == Activate(s, r)
         IN  /\ StateOK(t)
             /\ Activates(s, r) => r.id \in Ids /\ IsActive(t, r.id)
             /\ t.active = IF Activates(s, r)
                           THEN [s.active EXCEPT ![r.id] = Acknowledge(@, r)] ELSE s.active
             /\ t.pending = s.pending \ TakenPending(s, r) /\ t.suppressed = s.suppressed
<1> DEFINE t == Activate(s, r)
<1>1. s \in StateType /\ Agree(s) /\ OrderOK(s)
  BY DEF StateOK
<1>2. CASE ~Activates(s, r)
  BY <1>2 DEF Activate, TakenPending
<1>3. CASE Activates(s, r)
  <2>1. r.id \in Ids /\ r.id \notin s.suppressed
    BY <1>3 DEF Activates, ResponseType
  <2>2. s.active[r.id] \in Routes \cup {NoRoute, Inactive}
    BY <1>1, <2>1 DEF StateType
  <2>3. /\ t \in StateType
        /\ t.active = [s.active EXCEPT ![r.id] = Acknowledge(@, r)]
        /\ t.pending = {e \in s.pending : e.id # r.id}
        /\ t.suppressed = s.suppressed /\ t.order = s.order
    BY <1>1, <1>3, <2>1, <2>2, AcknowledgeType DEF Activate, StateType
  <2> HIDE DEF t
  <2>a. Acknowledge(s.active[r.id], r) # Inactive
    BY <2>2, AcknowledgeType
  <2>4. t.active[r.id] # Inactive
    BY <1>1, <2>1, <2>3, <2>a DEF StateType
  <2>5. Agree(t)
    BY <1>1, <2>1, <2>3 DEF Agree, IsActive, StateType
  <2>6. IsFiniteSet(t.pending) /\ Cardinality(t.pending) <= PendingLimit
    BY <2>3, FewerPending DEF StateOK
  <2>7. StateOK(t)
    BY <1>1, <2>3, <2>5, <2>6 DEF StateOK, OrderOK
  <2>8. QED
    BY <1>3, <2>1, <2>3, <2>4, <2>7 DEF IsActive, TakenPending, t
<1>4. QED
  BY <1>2, <1>3

\* buffer() with room left.
LEMMA HoldOK ==
  ASSUME NEW s, StateOK(s), NEW e \in Event, HasRoom(s),
         e.id \in Ids \ s.suppressed, ~IsActive(s, e.id)
  PROVE  StateOK([s EXCEPT !.pending = @ \cup {e}])
<1> DEFINE t == [s EXCEPT !.pending = s.pending \cup {e}]
<1>1. s \in StateType /\ Agree(s) /\ OrderOK(s) /\ IsFiniteSet(s.pending)
  BY DEF StateOK
<1>2. /\ t \in StateType /\ t.active = s.active /\ t.pending = s.pending \cup {e}
      /\ t.suppressed = s.suppressed /\ t.order = s.order
  BY <1>1 DEF StateType
<1> HIDE DEF t
<1>a. /\ IsFiniteSet(t.pending)
      /\ Cardinality(t.pending) \in {Cardinality(s.pending), Cardinality(s.pending) + 1}
  BY <1>1, <1>2, FS_AddElement, SMTT(40)
<1>b. Cardinality(s.pending) \in Nat /\ Cardinality(s.pending) < PendingLimit
  BY <1>1, FS_CardinalityType DEF HasRoom
<1>3. IsFiniteSet(t.pending) /\ Cardinality(t.pending) <= PendingLimit
  BY <1>a, <1>b, ConstantsAssumption
<1>4. Agree(t) /\ OrderOK(t)
  BY <1>1, <1>2 DEF Agree, OrderOK, IsActive
<1>5. QED
  BY <1>2, <1>3, <1>4 DEF StateOK, t

-----------------------------------------------------------------------------
(* The inductive invariant *)

\* What the actor holds active is what its reader has seen, but for the line
\* being written.
LineExplains ==
  state.active =
    IF line.kind = "ack" /\ line.activates
    THEN [acked EXCEPT ![line.response.id] = Acknowledge(@, line.response)]
    ELSE IF line.kind = "event" /\ line.event.id # NoId /\ line.event.terminal
         THEN [acked EXCEPT ![line.event.id] = Inactive]
         ELSE acked

\* A released batch has one id, which is active or has just been remembered.
Settled(s, i) == i \in s.suppressed \/ IsActive(s, i)

DrainOK ==
  /\ \A e \in drain : e.id \in Ids /\ Settled(state, e.id)
  /\ \A e, f \in drain : e.id = f.id
  /\ drain # {} => PendingLimit > 0

LineOK ==
  /\ line.kind = "ack" /\ line.activates => line.response.id \in Ids
  /\ line.kind = "failure" => Cardinality(state.pending) = PendingLimit
  /\ RoutedAsAcknowledged

IInv == TypeOK /\ StateOK(state) /\ LineExplains /\ DrainOK /\ LineOK

\* A fresh actor satisfies the invariant.
LEMMA InitIInv == Init => IInv
<1> SUFFICES ASSUME Init PROVE IInv
  OBVIOUS
<1>1. StateOK(state)
  BY InitialStateOK DEF Init
<1>2. TypeOK
  BY <1>1 DEF Init, TypeOK, StateOK, Line
<1>3. LineExplains /\ DrainOK /\ LineOK
  BY DEF Init, LineExplains, DrainOK, LineOK, RoutedAsAcknowledged, NoLine, InitialState
<1>4. QED
  BY <1>1, <1>2, <1>3 DEF IInv

\* accept_event, run when no line is due, keeps every part of the invariant that
\* its event can disturb, and leaves the event's id settled if it was.
LEMMA AcceptEventOK ==
  ASSUME IInv, line = NoLine, actor = "running", NEW e \in Event,
         NEW last \in {NoLine, Failure}, AcceptEvent(e, last), UNCHANGED acked
  PROVE  /\ StateOK(state)' /\ line' \in Line /\ LineExplains' /\ LineOK'
         /\ actor' \in {"running", "failing", "failed"}
         /\ PendingLimit > 0 /\ Settled(state, e.id) /\ e.id \in Ids => Settled(state, e.id)'
<1>1. /\ StateOK(state) /\ state.active = acked /\ line.kind = "none"
      /\ state \in StateType /\ line \in Line
  BY DEF IInv, LineExplains, NoLine, TypeOK
<1>2. CASE e.id \in state.suppressed /\ UNCHANGED <<state, line, actor>>
  BY <1>1, <1>2 DEF LineExplains, LineOK, RoutedAsAcknowledged, Settled, IsActive
<1>3. CASE /\ e.id \in Ids \ state.suppressed /\ ~IsActive(state, e.id)
           /\ HasRoom(state)
           /\ state' = [state EXCEPT !.pending = @ \cup {e}] /\ UNCHANGED <<line, actor>>
  <2>1. StateOK(state)'
    BY <1>1, <1>3, HoldOK
  <2>2. state'.active = acked'
    BY <1>1, <1>3 DEF StateType
  <2>3. QED
    BY <1>1, <1>3, <2>1, <2>2 DEF LineExplains, LineOK, RoutedAsAcknowledged, Settled
<1>4. CASE /\ e.id \in Ids \ state.suppressed /\ ~IsActive(state, e.id)
           /\ ~HasRoom(state)
           /\ actor' = IF last = NoLine THEN "failed" ELSE "failing"
           /\ line' = last /\ UNCHANGED state
  <2>1. Cardinality(state.pending) = PendingLimit
    BY <1>1, <1>4, FS_CardinalityType, ConstantsAssumption DEF HasRoom, StateOK
  <2>2. line'.kind \in {"none", "failure"} /\ line' \in Line
    BY <1>4 DEF NoLine, Failure, Line
  <2>3. QED
    BY <1>1, <1>4, <2>1, <2>2 DEF LineExplains, LineOK, RoutedAsAcknowledged, Settled
<1>5. CASE /\ e.id \notin state.suppressed /\ (e.id = NoId \/ IsActive(state, e.id))
           /\ line' = EventLine(state, e) /\ state' = AfterEvent(state, e) /\ UNCHANGED actor
  <2>1. RouteOf(acked, e) \in Routes \cup {NoRoute}
    BY DEF RouteOf
  <2>2. /\ line'.kind = "event" /\ line'.event = e /\ line'.route = RouteOf(acked, e)
        /\ line' \in Line
    BY <1>1, <1>5, <2>1 DEF EventLine, Line
  <2>3. CASE e.id # NoId /\ e.terminal
    <3>1. e.id \in Ids /\ state' = Cancelled(state, e.id)
      BY <1>5, <2>3 DEF AfterEvent, Event
    <3>2. /\ StateOK(state') /\ state'.active = [state.active EXCEPT ![e.id] = Inactive]
          /\ PendingLimit > 0 => e.id \in state'.suppressed
      BY <1>1, <3>1, CancelledOK
    <3>3. QED
      BY <1>1, <1>5, <2>2, <2>3, <3>1, <3>2
      DEF LineExplains, LineOK, RoutedAsAcknowledged, Settled
  <2>4. CASE ~(e.id # NoId /\ e.terminal)
    <3>1. state' = state
      BY <1>5, <2>4 DEF AfterEvent
    <3>2. QED
      BY <1>1, <1>5, <2>2, <2>4, <3>1
      DEF LineExplains, LineOK, RoutedAsAcknowledged, Settled
  <2>5. QED
    BY <2>3, <2>4
<1>6. QED
  BY <1>2, <1>3, <1>4, <1>5 DEF AcceptEvent, IsSuppressed

-----------------------------------------------------------------------------
(* One lemma per action of the actor *)

\* What the actor takes from the priority lane is a command, and its ids are ids.
LEMMA CommandType ==
  ASSUME TypeOK, priority # <<>>
  PROVE  /\ Head(priority) \in Commands /\ Tail(priority) \in Seq(Commands)
         /\ Head(priority).op = "response" =>
              Head(priority) \in Responses /\ Head(priority) \in ResponseType
         /\ Head(priority).op = "cancelled" => Head(priority).id \in Ids
<1>1. Head(priority) \in Commands /\ Tail(priority) \in Seq(Commands)
  BY DEF TypeOK
<1> DEFINE c == Head(priority)
<1> HIDE DEF c
<1>2. ASSUME c \in Commands
      PROVE  /\ c.op = "response" => c \in Responses /\ c \in ResponseType
             /\ c.op = "cancelled" => c.id \in Ids
  <2>1. CASE c \in Responses
    BY <2>1, ConstantsAssumption DEF ResponseType
  <2>2. CASE c \in [op : {"cancelled"}, id : Ids]
    BY <2>2
  <2>3. CASE c \in [op : {"query", "reset", "plain"}]
    BY <2>3
  <2>4. QED
    BY <1>2, <2>1, <2>2, <2>3 DEF Commands
<1>3. QED
  BY <1>1, <1>2 DEF c

\* emit_response, up to its acknowledgement, keeps the invariant.
LEMMA TakeResponseOK == IInv /\ TakeResponse => IInv'
<1> SUFFICES ASSUME IInv, TakeResponse PROVE IInv'
  OBVIOUS
<1> DEFINE r == Head(priority)
           s == IF r.cancels = NoId THEN state ELSE Cancelled(state, r.cancels)
<1>1. /\ TypeOK /\ StateOK(state) /\ line = NoLine /\ state.active = acked
      /\ drain = {} /\ priority # <<>> /\ actor = "running"
  BY DEF IInv, TakeResponse, TakeCommand, Idle, LineExplains, NoLine
<1>2. r \in Responses /\ r \in ResponseType /\ Tail(priority) \in Seq(Commands)
  BY <1>1, CommandType DEF TakeResponse, TakeCommand
<1>3. r.cancels \in Ids \cup {NoId}
  BY <1>2 DEF ResponseType
<1>4. /\ state' = Activate(s, r) /\ drain' = TakenPending(s, r) /\ End(r.cancels)
      /\ line' = [kind |-> "ack", response |-> r, activates |-> Activates(s, r)]
      /\ priority' = Tail(priority) /\ UNCHANGED <<events, open, actor, sent, issued, delivered>>
  BY DEF TakeResponse, TakeCommand
<1>5. /\ StateOK(s) /\ s.active = acked' /\ s.pending \subseteq state.pending
      /\ acked' \in [Ids -> Routes \cup {NoRoute, Inactive}] /\ ended' \in SUBSET Ids
  <2>1. CASE r.cancels = NoId
    BY <1>1, <1>4, <2>1 DEF End, TypeOK
  <2>2. CASE r.cancels \in Ids
    <3>1. /\ StateOK(s) /\ s.active = [state.active EXCEPT ![r.cancels] = Inactive]
          /\ s.pending \subseteq state.pending
      BY <1>1, <2>2, CancelledOK, ConstantsAssumption
    <3>2. /\ acked' = [acked EXCEPT ![r.cancels] = Inactive]
          /\ ended' = ended \cup {r.cancels}
      BY <1>4, <2>2, ConstantsAssumption DEF End
    <3>3. QED
      BY <1>1, <2>2, <3>1, <3>2 DEF TypeOK
  <2>3. QED
    BY <1>3, <2>1, <2>2
<1> HIDE DEF s, r
<1>6. /\ StateOK(state')
      /\ Activates(s, r) => r.id \in Ids /\ IsActive(state', r.id)
      /\ state'.active = IF Activates(s, r)
                         THEN [s.active EXCEPT ![r.id] = Acknowledge(@, r)] ELSE s.active
  BY <1>2, <1>4, <1>5, ActivateOK
<1>7. line'.kind = "ack" /\ line'.response = r /\ line'.activates = Activates(s, r)
  BY <1>4
<1>8. line' \in Line
  <2>1. Activates(s, r) \in BOOLEAN
    BY DEF Activates
  <2>2. QED
    BY <1>2, <1>4, <2>1 DEF Line
<1>9. LineExplains'
  BY <1>5, <1>6, <1>7 DEF LineExplains
<1>10. LineOK'
  BY <1>6, <1>7 DEF LineOK, RoutedAsAcknowledged
<1>11. DrainOK'
  <2>1. \A e \in drain' : e.id = r.id /\ e \in state.pending /\ Activates(s, r)
    BY <1>4, <1>5 DEF TakenPending
  <2>2. drain' # {} => PendingLimit > 0
    <3>1. state.pending # {} => Cardinality(state.pending) # 0 /\ Cardinality(state.pending) \in Nat
      BY <1>1, FS_EmptySet, FS_CardinalityType DEF StateOK
    <3>2. QED
      BY <1>1, <2>1, <3>1, ConstantsAssumption DEF StateOK
  <2>3. QED
    BY <1>6, <2>1, <2>2 DEF DrainOK, Settled
<1>12. TypeOK'
  <2>1. drain' \in SUBSET Event
    BY <1>1, <1>4, <1>5 DEF TypeOK, TakenPending, StateType
  <2>2. state' \in StateType
    BY <1>6 DEF StateOK
  <2>3. QED
    BY <1>1, <1>2, <1>4, <1>5, <1>8, <2>1, <2>2 DEF TypeOK, r
<1>13. QED
  BY <1>6, <1>9, <1>10, <1>11, <1>12 DEF IInv

\* The commands that write at most a plain line.
LEMMA TakeOtherOK ==
  IInv /\ (TakeCancelled \/ TakeQuery \/ TakeReset \/ TakePlain) => IInv'
<1> SUFFICES ASSUME IInv, TakeCancelled \/ TakeQuery \/ TakeReset \/ TakePlain PROVE IInv'
  OBVIOUS
<1>1. /\ TypeOK /\ StateOK(state) /\ line = NoLine /\ state.active = acked
      /\ drain = {} /\ priority # <<>> /\ priority' = Tail(priority) /\ UNCHANGED drain
      /\ UNCHANGED <<events, open, actor, sent, issued, delivered>>
  BY DEF IInv, TakeCancelled, TakeQuery, TakeReset, TakePlain, TakeCommand, Idle,
         LineExplains, NoLine
<1>2. Tail(priority) \in Seq(Commands)
  BY <1>1, CommandType
<1>3. line' \in Line /\ line'.kind \in {"none", "plain"}
  BY <1>1 DEF TakeCancelled, TakeQuery, TakeReset, TakePlain, Line, NoLine, Plain
<1>4. /\ StateOK(state') /\ state'.active = acked'
      /\ acked' \in [Ids -> Routes \cup {NoRoute, Inactive}] /\ ended' \in SUBSET Ids
  <2>1. CASE TakeCancelled
    <3>1. Head(priority).id \in Ids
      BY <1>1, <2>1, CommandType DEF TakeCancelled, TakeCommand
    <3>2. /\ state' = Cancelled(state, Head(priority).id)
          /\ acked' = [acked EXCEPT ![Head(priority).id] = Inactive]
          /\ ended' = ended \cup {Head(priority).id}
      BY <2>1, <3>1, ConstantsAssumption DEF TakeCancelled, End
    <3>3. QED
      BY <1>1, <3>1, <3>2, CancelledOK DEF TypeOK
  <2>2. CASE TakeQuery \/ TakePlain
    BY <1>1, <2>2 DEF TakeQuery, TakePlain, TypeOK
  <2>3. CASE TakeReset
    BY <2>3, InitialStateOK DEF TakeReset, InitialState
  <2>4. QED
    BY <2>1, <2>2, <2>3
<1>5. TypeOK'
  BY <1>1, <1>2, <1>3, <1>4 DEF TypeOK, StateOK
<1>6. LineExplains' /\ LineOK' /\ DrainOK'
  BY <1>1, <1>3, <1>4 DEF LineExplains, LineOK, RoutedAsAcknowledged, DrainOK
<1>7. QED
  BY <1>4, <1>5, <1>6 DEF IInv

\* Taking an event from its lane keeps the invariant.
LEMMA TakeEventOK == IInv /\ TakeEvent => IInv'
<1> SUFFICES ASSUME IInv, TakeEvent PROVE IInv'
  OBVIOUS
<1> DEFINE e == Head(events)
<1>1. /\ TypeOK /\ line = NoLine /\ actor = "running" /\ drain = {} /\ events # <<>>
      /\ events' = Tail(events) /\ AcceptEvent(e, Failure)
      /\ UNCHANGED <<priority, open, drain, sent, issued, acked, ended, delivered>>
  BY DEF IInv, TakeEvent, Idle, history
<1>2. e \in Event /\ events' \in Seq(Event)
  BY <1>1 DEF TypeOK
<1> HIDE DEF e
<1>3. /\ StateOK(state)' /\ line' \in Line /\ LineExplains' /\ LineOK'
      /\ actor' \in {"running", "failing", "failed"}
  BY <1>1, <1>2, AcceptEventOK
<1>4. TypeOK' /\ DrainOK'
  BY <1>1, <1>2, <1>3 DEF TypeOK, StateOK, DrainOK
<1>5. QED
  BY <1>3, <1>4 DEF IInv

\* So does each event a response released.
LEMMA DrainEventOK == IInv /\ DrainEvent => IInv'
<1> SUFFICES ASSUME IInv, DrainEvent PROVE IInv'
  OBVIOUS
<1>1. PICK e \in drain : drain' = drain \ {e} /\ AcceptEvent(e, NoLine)
  BY DEF DrainEvent
<1>2. /\ TypeOK /\ DrainOK /\ line = NoLine /\ actor = "running"
      /\ UNCHANGED <<priority, events, open, sent, issued, acked, ended, delivered>>
  BY DEF IInv, DrainEvent, lanes, history
<1>3. e \in Event /\ Settled(state, e.id) /\ e.id \in Ids /\ PendingLimit > 0
  BY <1>2 DEF TypeOK, DrainOK
<1>4. /\ StateOK(state)' /\ line' \in Line /\ LineExplains' /\ LineOK'
      /\ actor' \in {"running", "failing", "failed"} /\ Settled(state, e.id)'
  BY <1>1, <1>2, <1>3, AcceptEventOK
<1>5. DrainOK'
  <2>1. \A f \in drain' : f.id = e.id
    BY <1>1, <1>2 DEF DrainOK
  <2>2. QED
    BY <1>3, <1>4, <2>1 DEF DrainOK, Settled
<1>6. TypeOK'
  BY <1>1, <1>2, <1>4 DEF TypeOK, StateOK
<1>7. QED
  BY <1>4, <1>5, <1>6 DEF IInv

\* A written line brings the reader's view up to the actor's.
LEMMA WriteLineOK == IInv /\ WriteLine => IInv'
<1> SUFFICES ASSUME IInv, WriteLine PROVE IInv'
  OBVIOUS
<1>1. /\ TypeOK /\ StateOK(state) /\ LineExplains /\ DrainOK /\ LineOK
      /\ UNCHANGED <<priority, events, open, sent, issued, state, drain>>
      /\ line' = NoLine /\ actor' \in {"running", "failing", "failed", "finished"}
  BY DEF IInv, WriteLine, lanes, TypeOK
<1>2. line' \in Line /\ line'.kind = "none"
  BY <1>1 DEF Line, NoLine
<1>3. /\ state'.active = acked' /\ ended' \in SUBSET Ids /\ delivered' \in SUBSET Event
  <2>1. CASE line.kind = "event"
    <3>1. line.event \in Event
      BY <1>1, <2>1 DEF TypeOK, Line, NoLine, Plain, Failure
    <3>2. line.event.id \in Ids \cup {NoId} /\ line.event.terminal \in BOOLEAN
      BY <3>1 DEF Event
    <3>3. /\ delivered' = delivered \cup {line.event}
          /\ End(IF line.event.terminal THEN line.event.id ELSE NoId)
      BY <2>1 DEF WriteLine
    <3>4. QED
      BY <1>1, <2>1, <3>1, <3>2, <3>3 DEF End, LineExplains, TypeOK
  <2>2. CASE line.kind # "event"
    BY <1>1, <2>2 DEF WriteLine, LineExplains, TypeOK
  <2>3. QED
    BY <2>1, <2>2
<1>4. TypeOK'
  BY <1>1, <1>2, <1>3 DEF TypeOK, StateType
<1>5. LineExplains' /\ LineOK' /\ DrainOK' /\ StateOK(state)'
  BY <1>1, <1>2, <1>3 DEF LineExplains, LineOK, RoutedAsAcknowledged, DrainOK, Settled
<1>6. QED
  BY <1>4, <1>5 DEF IInv

\* Senders, and the ends of the task, leave all tables alone.
LEMMA OthersOK ==
  IInv /\ (SendCommand \/ SendEvent \/ DropHandles \/ WriteFails \/ Finish \/ UNCHANGED vars)
    => IInv'
<1> SUFFICES ASSUME IInv, SendCommand \/ SendEvent \/ DropHandles \/ WriteFails \/ Finish
                                       \/ UNCHANGED vars
             PROVE  IInv'
  OBVIOUS
<1>1. UNCHANGED <<state, line, drain, acked, ended, delivered>>
  BY DEF SendCommand, SendEvent, DropHandles, WriteFails, Finish, vars, lanes, history
<1>2. /\ StateOK(state)' /\ LineExplains' /\ DrainOK' /\ LineOK'
  BY <1>1 DEF IInv, LineExplains, DrainOK, Settled, LineOK, RoutedAsAcknowledged
<1>3. priority' \in Seq(Commands) /\ events' \in Seq(Event) /\ sent' \in Nat /\ issued' \in Nat
  <2>1. CASE SendEvent
    <3>1. PICK k \in EventKinds :
            events' = Append(events, [n |-> sent + 1, id |-> k.id, sub |-> k.sub, terminal |-> k.terminal])
      BY <2>1 DEF SendEvent
    <3>2. [n |-> sent + 1, id |-> k.id, sub |-> k.sub, terminal |-> k.terminal] \in Event
      BY ConstantsAssumption DEF IInv, TypeOK, Event, KindType
    <3>3. QED
      BY <2>1, <3>1, <3>2 DEF IInv, TypeOK, SendEvent
  <2>2. CASE SendCommand
    BY <2>2 DEF IInv, TypeOK, SendCommand
  <2>3. CASE DropHandles \/ WriteFails \/ Finish \/ UNCHANGED vars
    BY <2>3 DEF IInv, TypeOK, DropHandles, WriteFails, Finish, vars, lanes
  <2>4. QED
    BY <2>1, <2>2, <2>3
<1>4. open' \in BOOLEAN /\ actor' \in {"running", "failing", "failed", "finished"}
  BY DEF IInv, TypeOK, SendCommand, SendEvent, DropHandles, WriteFails, Finish, vars, lanes
<1>5. TypeOK'
  BY <1>1, <1>3, <1>4 DEF IInv, TypeOK
<1>6. QED
  BY <1>2, <1>5 DEF IInv

\* The invariant holds throughout.
LEMMA Invariance == Safety => []IInv
<1>1. IInv /\ [Next]_vars => IInv'
  BY TakeResponseOK, TakeOtherOK, TakeEventOK, DrainEventOK, WriteLineOK, OthersOK
  DEF Next, Step, Rest
<1>2. QED
  BY InitIInv, <1>1, PTL DEF Safety

-----------------------------------------------------------------------------
(* Theorems *)

\* Every variable keeps its type.
THEOREM Typing == Safety => []TypeOK
<1>1. IInv => TypeOK
  BY DEF IInv
<1>2. QED
  BY <1>1, Invariance, PTL

\* An event is never held back behind an acknowledgement that has passed, nor for
\* an id remembered as cancelled, and a remembered id is not active.
THEOREM Tables == Safety => []TablesAgree
<1>1. IInv => TablesAgree
  BY DEF IInv, StateOK, TablesAgree
<1>2. QED
  BY <1>1, Invariance, PTL

\* The cancellation history and the held back events stay within the limit, and
\* the history lists each remembered id once.
THEOREM Bounds == Safety => []TablesBounded
<1>1. IInv => TablesBounded
  BY DEF IInv, StateOK, TablesBounded
<1>2. QED
  BY <1>1, Invariance, PTL

\* Between commands the actor's active ids and routes are those acknowledged to
\* the reader.
THEOREM Agreement == Safety => []ReaderAgrees
<1>1. IInv => ReaderAgrees
  BY DEF IInv, ReaderAgrees, Idle, LineExplains, NoLine
<1>2. QED
  BY <1>1, Invariance, PTL

\* Room runs out only for an event on its way in, and only when the limit is met.
THEOREM Room == Safety => []FailsOnlyWhenFull
<1>1. IInv => FailsOnlyWhenFull
  BY DEF IInv, FailsOnlyWhenFull, DrainOK, Settled, LineOK, Failure
<1>2. QED
  BY <1>1, Invariance, PTL

\* Every event line carries the route its subscription was acknowledged with.
THEOREM Routing == Safety => []RoutedAsAcknowledged
<1>1. IInv => RoutedAsAcknowledged
  BY DEF IInv, LineOK
<1>2. QED
  BY <1>1, Invariance, PTL

\* The actor's tables are sound at every moment, for any ids, routes, replies and
\* limits (output_actor.rs).
THEOREM TablesTheorem == Safety => []TablesSound
BY Typing, Tables, Bounds, Room, PTL DEF TablesSound

\* Every line is addressed as its reader was told (output_actor.rs).
THEOREM RoutesTheorem == Safety => []LinesAreRouted
BY Agreement, Routing, PTL DEF LinesAreRouted

-----------------------------------------------------------------------------
(* The refinement of OrderedDelivery: the invariant it needs *)

\* An id is remembered as cancelled when it has ended, or when its last event is
\* being written.
RememberedEnded ==
  \A i \in state.suppressed :
    i \in ended \/ (line.kind = "event" /\ line.event.terminal /\ line.event.id = i)

\* The event being written is the first of those owed for its id, which is
\* acknowledged; what a response releases is of the id it acknowledges.
LineIsFirst ==
  /\ line.kind = "event" =>
       /\ \A f \in drain : line.event.n <= f.n /\ f # line.event
       /\ \A f \in state.pending : f.id # line.event.id
       /\ line.event.id \in Ids => acked[line.event.id] # Inactive
  /\ line.kind = "ack" => \A f \in drain : line.activates /\ f.id = line.response.id
  /\ actor = "failing" <=> line = Failure /\ Alive

Ordered == RememberedEnded /\ LineIsFirst

\* The lines are told apart by their kinds.
LEMMA LineKinds ==
  ASSUME TypeOK
  PROVE  /\ line = NoLine <=> line.kind = "none"
         /\ line = Plain <=> line.kind = "plain"
         /\ line = Failure <=> line.kind = "failure"
         /\ line.kind = "event" => line.event \in Event
         /\ line.kind = "ack" => line.response \in Responses /\ line.activates \in BOOLEAN
         /\ line.kind \in {"none", "plain", "failure", "event", "ack"}
BY DEF TypeOK, Line, NoLine, Plain, Failure

\* accept_event, run when no line is due: the event is refused, held back, or
\* written, and otherwise ends the connection.
LEMMA AcceptOutcome ==
  ASSUME IInv, line = NoLine, NEW e \in Event, NEW last \in {NoLine, Failure},
         AcceptEvent(e, last)
  PROVE  \/ e.id \in state.suppressed /\ UNCHANGED <<state, line, actor>>
         \/ /\ e.id \in Ids \ state.suppressed /\ ~IsActive(state, e.id) /\ UNCHANGED <<line, actor>>
            /\ state'.pending = state.pending \cup {e} /\ state'.suppressed = state.suppressed
         \/ /\ e.id \in Ids \ state.suppressed /\ ~IsActive(state, e.id) /\ UNCHANGED state
            /\ actor' = (IF last = NoLine THEN "failed" ELSE "failing") /\ line' = last
         \/ /\ e.id \notin state.suppressed /\ (e.id = NoId \/ IsActive(state, e.id)) /\ UNCHANGED actor
            /\ line'.kind = "event" /\ line'.event = e
            /\ state'.pending = state.pending
            /\ \A f \in state.pending : f.id # e.id
            /\ \A i \in state'.suppressed : i \in state.suppressed \/ (e.terminal /\ e.id = i)
<1>1. StateOK(state) /\ state \in StateType
  BY DEF IInv, StateOK
<1>2. CASE e.id \in state.suppressed /\ UNCHANGED <<state, line, actor>>
  BY <1>2
<1>3. CASE /\ e.id \in Ids \ state.suppressed /\ ~IsActive(state, e.id)
           /\ IF HasRoom(state)
              THEN state' = [state EXCEPT !.pending = @ \cup {e}] /\ UNCHANGED <<line, actor>>
              ELSE /\ actor' = IF last = NoLine THEN "failed" ELSE "failing"
                   /\ line' = last
                   /\ UNCHANGED state
  BY <1>1, <1>3 DEF StateType
<1>4. CASE /\ e.id \notin state.suppressed /\ (e.id = NoId \/ IsActive(state, e.id))
           /\ line' = EventLine(state, e) /\ state' = AfterEvent(state, e) /\ UNCHANGED actor
  <2>1. \A f \in state.pending : f.id # e.id
    BY <1>1, <1>4, ConstantsAssumption DEF StateOK, Agree
  <2>2. line'.kind = "event" /\ line'.event = e
    BY <1>4 DEF EventLine
  <2>3. CASE e.id # NoId /\ e.terminal
    <3>1. e.id \in Ids /\ state' = Cancelled(state, e.id)
      BY <1>4, <2>3 DEF AfterEvent, Event
    <3>2. /\ state'.pending = {f \in state.pending : f.id # e.id}
          /\ state'.suppressed \subseteq state.suppressed \cup {e.id}
      BY <1>1, <3>1, CancelledOK
    <3>3. QED
      BY <1>4, <2>1, <2>2, <2>3, <3>2
  <2>4. CASE ~(e.id # NoId /\ e.terminal)
    BY <1>4, <2>1, <2>2, <2>4 DEF AfterEvent
  <2>5. QED
    BY <2>3, <2>4
<1>5. QED
  BY <1>2, <1>3, <1>4 DEF AcceptEvent, IsSuppressed

\* A fresh actor owes nothing.
LEMMA InitOrdered == Init => Ordered
BY DEF Init, Ordered, RememberedEnded, LineIsFirst, NoLine, Failure, InitialState, Alive

-----------------------------------------------------------------------------
(* The refinement of OrderedDelivery: its steps *)

Mapped == <<acked, sent, events, Owed, ended, delivered, actor = "running">>

Refines == Ordered' /\ (Delivery!Next \/ UNCHANGED Mapped)

\* What is owed once the acknowledgement has been written.
OfAcknowledged == {e \in drain : e.id \in Ids /\ acked[e.id] # Inactive}

\* emit_response: a cancellation ends its id, the response itself withdraws nothing.
LEMMA TakeResponseRefines ==
  ASSUME IInv, IInv', Ordered, TakeResponse
  PROVE  Refines
<1> DEFINE r == Head(priority)
           s == IF r.cancels = NoId THEN state ELSE Cancelled(state, r.cancels)
<1>1. /\ TypeOK /\ StateOK(state) /\ line = NoLine /\ drain = {} /\ actor = "running"
      /\ priority # <<>> /\ r \in Responses /\ r \in ResponseType
  BY CommandType DEF IInv, TakeResponse, TakeCommand, Idle
<1>2. /\ state' = Activate(s, r) /\ drain' = TakenPending(s, r) /\ End(r.cancels)
      /\ line' = [kind |-> "ack", response |-> r, activates |-> Activates(s, r)]
      /\ UNCHANGED <<events, open, actor, sent, issued, delivered>>
  BY DEF TakeResponse, TakeCommand
<1>3. /\ StateOK(s)
      /\ s.pending = (IF r.cancels = NoId THEN state.pending ELSE {e \in state.pending : e.id # r.cancels})
      /\ s.suppressed \subseteq state.suppressed \cup (IF r.cancels = NoId THEN {} ELSE {r.cancels})
  <2>1. CASE r.cancels = NoId
    BY <1>1, <2>1
  <2>2. CASE r.cancels \in Ids
    <3>1. r.cancels # NoId /\ s = Cancelled(state, r.cancels)
      BY <2>2, ConstantsAssumption
    <3>2. /\ StateOK(s) /\ s.pending = {e \in state.pending : e.id # r.cancels}
          /\ s.suppressed \subseteq state.suppressed \cup {r.cancels}
      BY <1>1, <2>2, <3>1, CancelledOK
    <3>3. QED
      BY <3>1, <3>2
  <2>3. QED
    BY <1>1, <2>1, <2>2 DEF ResponseType
<1> HIDE DEF s, r
<1>4. state'.pending = s.pending \ TakenPending(s, r) /\ state'.suppressed = s.suppressed
  BY <1>1, <1>2, <1>3, ActivateOK
<1>5. line'.kind = "ack" /\ line'.response = r /\ line'.activates = Activates(s, r) /\ line.kind = "none"
  BY <1>1, <1>2 DEF NoLine
<1>6. Owed = state.pending /\ Owed' = s.pending
  <2>1. Owed = state.pending
    BY <1>1, <1>5 DEF Owed
  <2>2. Owed' = state'.pending \cup drain'
    BY <1>5 DEF Owed
  <2>3. TakenPending(s, r) \subseteq s.pending
    BY DEF TakenPending
  <2>4. QED
    BY <1>2, <1>4, <2>1, <2>2, <2>3
<1>7. Ordered'
  <2>1. RememberedEnded'
    <3>1. state.suppressed \subseteq ended
      BY <1>5 DEF Ordered, RememberedEnded
    <3>2. ended' = ended \cup (IF r.cancels = NoId THEN {} ELSE {r.cancels})
      BY <1>2 DEF End
    <3>3. QED
      BY <1>3, <1>4, <3>1, <3>2 DEF RememberedEnded
  <2>2. LineIsFirst'
    <3>1. \A f \in drain' : line'.activates /\ f.id = line'.response.id
      BY <1>2, <1>5 DEF TakenPending
    <3>2. line' # Failure /\ actor' = "running"
      BY <1>1, <1>2, <1>5 DEF Failure
    <3>3. QED
      BY <1>5, <3>1, <3>2 DEF LineIsFirst
  <2>3. QED
    BY <2>1, <2>2 DEF Ordered
<1>8. Delivery!Next \/ UNCHANGED Mapped
  <2>1. CASE r.cancels = NoId
    BY <1>2, <1>3, <1>6, <2>1 DEF Mapped, End
  <2>2. CASE r.cancels # NoId
    <3>1. /\ r.cancels \in Ids /\ acked' = [acked EXCEPT ![r.cancels] = Inactive]
          /\ ended' = ended \cup {r.cancels} /\ Owed' = {e \in Owed : e.id # r.cancels}
      BY <1>1, <1>2, <1>3, <1>6, <2>2 DEF End, ResponseType
    <3>2. Delivery!End
      BY <1>1, <1>2, <3>1 DEF Delivery!End, Delivery!Without
    <3>3. QED
      BY <3>2 DEF Delivery!Next
  <2>3. QED
    BY <2>1, <2>2
<1>9. QED
  BY <1>7, <1>8 DEF Refines

\* The commands without a response: an end, a reset, or nothing the reader could tell.
LEMMA TakeOtherRefines ==
  ASSUME IInv, IInv', Ordered, TakeCancelled \/ TakeQuery \/ TakeReset \/ TakePlain
  PROVE  Refines
<1>1. /\ TypeOK /\ StateOK(state) /\ line = NoLine /\ drain = {} /\ actor = "running"
      /\ line' \in {NoLine, Plain}
      /\ UNCHANGED <<events, open, actor, sent, issued, delivered, drain>>
  BY DEF IInv, TakeCancelled, TakeQuery, TakeReset, TakePlain, TakeCommand, Idle
<1>2. line.kind = "none" /\ line'.kind \in {"none", "plain"} /\ line' # Failure
  BY <1>1 DEF NoLine, Plain, Failure
<1>3. Owed = state.pending /\ Owed' = state'.pending
  BY <1>1, <1>2 DEF Owed
<1>4. LineIsFirst'
  BY <1>1, <1>2 DEF LineIsFirst
<1>5. state.suppressed \subseteq ended
  BY <1>2 DEF Ordered, RememberedEnded
<1>6. RememberedEnded' /\ (Delivery!Next \/ UNCHANGED Mapped)
  <2>1. CASE TakeCancelled
    <3> DEFINE i == Head(priority).id
    <3>1. i \in Ids
      BY <1>1, <2>1, CommandType DEF TakeCancelled, TakeCommand
    <3>2. /\ state' = Cancelled(state, i) /\ acked' = [acked EXCEPT ![i] = Inactive]
          /\ ended' = ended \cup {i}
      BY <2>1, <3>1, ConstantsAssumption DEF TakeCancelled, End
    <3> HIDE DEF i
    <3>3. state'.pending = {e \in state.pending : e.id # i} /\ state'.suppressed \subseteq state.suppressed \cup {i}
      BY <1>1, <3>1, <3>2, CancelledOK
    <3>4. Delivery!End
      BY <1>1, <1>3, <3>1, <3>2, <3>3 DEF Delivery!End, Delivery!Without
    <3>5. QED
      BY <1>5, <3>2, <3>3, <3>4 DEF RememberedEnded, Delivery!Next
  <2>2. CASE TakeQuery \/ TakePlain
    <3>1. UNCHANGED <<state, acked, ended>>
      BY <2>2 DEF TakeQuery, TakePlain
    <3>2. QED
      BY <1>1, <1>3, <1>5, <3>1 DEF RememberedEnded, Mapped
  <2>3. CASE TakeReset
    <3>1. state'.pending = {} /\ state'.suppressed = {} /\ acked' = [i \in Ids |-> Inactive] /\ ended' = {}
      BY <2>3 DEF TakeReset, InitialState
    <3>2. Delivery!Reset
      BY <1>1, <1>3, <3>1 DEF Delivery!Reset
    <3>3. QED
      BY <3>1, <3>2 DEF RememberedEnded, Delivery!Next
  <2>4. QED
    BY <2>1, <2>2, <2>3
<1>7. QED
  BY <1>4, <1>6 DEF Refines, Ordered

\* An event leaves its lane: it is taken in, refused, or stops the connection.
LEMMA TakeEventRefines ==
  ASSUME IInv, IInv', Ordered, TakeEvent
  PROVE  Refines
<1> DEFINE e == Head(events)
<1>1. /\ TypeOK /\ StateOK(state) /\ line = NoLine /\ drain = {} /\ actor = "running" /\ events # <<>>
      /\ events' = Tail(events) /\ AcceptEvent(e, Failure) /\ state.active = acked
      /\ UNCHANGED <<priority, open, drain, sent, issued, acked, ended, delivered>>
  BY DEF IInv, TakeEvent, Idle, history, LineExplains, NoLine
<1>2. e \in Event
  BY <1>1 DEF TypeOK
<1>3. events' = Tail(events) /\ e = Head(events) /\ events # <<>> /\ actor = "running"
      /\ UNCHANGED <<acked, sent, ended, delivered>>
  BY <1>1
<1> HIDE DEF e
<1>4. ASSUME Owed' = Owed \cup {e}, UNCHANGED actor PROVE Delivery!TakeIn
  BY <1>3, <1>4 DEF Delivery!TakeIn
<1>5. line.kind = "none" /\ Owed = state.pending /\ state.suppressed \subseteq ended
  BY <1>1 DEF NoLine, Owed, Ordered, RememberedEnded
<1>6. \A f \in state.pending : f.id \in Ids \ state.suppressed /\ state.active[f.id] = Inactive
  BY <1>1 DEF StateOK, Agree, IsActive
<1>7. \A i \in state.suppressed : i \in Ids /\ acked[i] = Inactive
  BY <1>1 DEF StateOK, Agree, IsActive, StateType
<1>8. CASE e.id \in state.suppressed /\ UNCHANGED <<state, line, actor>>
  <2>1. Owed' = Owed
    BY <1>1, <1>5, <1>8 DEF Owed
  <2>2. Delivery!Refuse
    <3>1. e.id \in ended /\ acked[e.id] = Inactive /\ \A f \in Owed : f.id # e.id
      BY <1>5, <1>6, <1>7, <1>8
    <3>2. QED
      BY <1>3, <1>8, <2>1, <3>1 DEF Delivery!Refuse
  <2>3. RememberedEnded' /\ LineIsFirst'
    BY <1>1, <1>5, <1>8 DEF Ordered, RememberedEnded, LineIsFirst, NoLine, Failure
  <2>4. QED
    BY <2>2, <2>3 DEF Refines, Ordered, Delivery!Next
<1>9. CASE /\ e.id \in Ids \ state.suppressed /\ ~IsActive(state, e.id) /\ UNCHANGED <<line, actor>>
           /\ state'.pending = state.pending \cup {e} /\ state'.suppressed = state.suppressed
  <2>1. Owed' = Owed \cup {e}
    BY <1>1, <1>5, <1>9 DEF Owed
  <2>2. Delivery!TakeIn
    BY <1>4, <1>9, <2>1
  <2>3. RememberedEnded' /\ LineIsFirst'
    BY <1>1, <1>5, <1>9 DEF Ordered, RememberedEnded, LineIsFirst, NoLine, Failure
  <2>4. QED
    BY <2>2, <2>3 DEF Refines, Ordered, Delivery!Next
<1>10. CASE UNCHANGED state /\ actor' = "failing" /\ line' = Failure
  <2>1. line'.kind = "failure" /\ line' = Failure
    BY <1>10 DEF Failure
  <2>2. Owed' = Owed
    BY <1>1, <1>5, <1>10, <2>1 DEF Owed
  <2>3. Delivery!Stop
    BY <1>3, <1>10, <2>2 DEF Delivery!Stop
  <2>4. RememberedEnded' /\ LineIsFirst'
    BY <1>1, <1>5, <1>10, <2>1 DEF RememberedEnded, LineIsFirst, Alive
  <2>5. QED
    BY <2>3, <2>4 DEF Refines, Ordered, Delivery!Next
<1>11. CASE /\ e.id \notin state.suppressed /\ (e.id = NoId \/ IsActive(state, e.id)) /\ UNCHANGED actor
            /\ line'.kind = "event" /\ line'.event = e /\ state'.pending = state.pending
            /\ \A f \in state.pending : f.id # e.id
            /\ \A i \in state'.suppressed : i \in state.suppressed \/ (e.terminal /\ e.id = i)
  <2>1. Owed' = Owed \cup {e}
    BY <1>1, <1>5, <1>11 DEF Owed
  <2>2. Delivery!TakeIn
    BY <1>4, <1>11, <2>1
  <2>3. RememberedEnded'
    BY <1>1, <1>5, <1>11 DEF RememberedEnded
  <2>4. LineIsFirst'
    <3>1. e.id \in Ids => acked[e.id] # Inactive
      BY <1>1, <1>11, ConstantsAssumption DEF IsActive
    <3>2. line' # Failure
      BY <1>11 DEF Failure
    <3>3. QED
      BY <1>1, <1>11, <3>1, <3>2 DEF LineIsFirst
  <2>5. QED
    BY <2>2, <2>3, <2>4 DEF Refines, Ordered, Delivery!Next
<1>12. QED
  <2>1. IInv
    OBVIOUS
  <2>2. Failure # NoLine
    BY DEF Failure, NoLine
  <2>3. QED
    BY <1>1, <1>2, <1>8, <1>9, <1>10, <1>11, <2>2, AcceptOutcome

\* An event that was released stays owed until it is written; what follows the last
\* event of its id is owed no longer.
LEMMA DrainEventRefines ==
  ASSUME IInv, IInv', Ordered, DrainEvent
  PROVE  Refines
<1>1. PICK e \in drain : /\ \A f \in drain : e.n <= f.n
                         /\ drain' = drain \ {e} /\ AcceptEvent(e, NoLine)
  BY DEF DrainEvent
<1>2. /\ TypeOK /\ StateOK(state) /\ DrainOK /\ line = NoLine /\ actor = "running"
      /\ state.active = acked
      /\ UNCHANGED <<priority, events, open, sent, issued, acked, ended, delivered>>
  BY DEF IInv, DrainEvent, lanes, history, LineExplains, NoLine
<1>3. e \in Event /\ e.id \in Ids /\ Settled(state, e.id)
  BY <1>1, <1>2 DEF TypeOK, DrainOK
<1>4. line.kind = "none" /\ Owed = state.pending \cup OfAcknowledged /\ state.suppressed \subseteq ended
  BY <1>2 DEF NoLine, Owed, OfAcknowledged, Ordered, RememberedEnded
<1>5. CASE e.id \in state.suppressed /\ UNCHANGED <<state, line, actor>>
  <2>1. acked[e.id] = Inactive
    BY <1>2, <1>3, <1>5 DEF StateOK, Agree, IsActive
  <2>2. Owed' = state.pending \cup {f \in drain' : f.id \in Ids /\ acked[f.id] # Inactive}
    BY <1>2, <1>4, <1>5 DEF Owed
  <2>3. Owed' = Owed
    BY <1>1, <1>4, <2>1, <2>2 DEF OfAcknowledged
  <2>4. RememberedEnded' /\ LineIsFirst'
    BY <1>2, <1>4, <1>5 DEF Ordered, RememberedEnded, LineIsFirst, NoLine, Failure
  <2>5. QED
    BY <1>2, <1>5, <2>3, <2>4 DEF Refines, Ordered, Mapped
<1>6. CASE /\ e.id \notin state.suppressed /\ (e.id = NoId \/ IsActive(state, e.id)) /\ UNCHANGED actor
           /\ line'.kind = "event" /\ line'.event = e /\ state'.pending = state.pending
           /\ \A f \in state.pending : f.id # e.id
           /\ \A i \in state'.suppressed : i \in state.suppressed \/ (e.terminal /\ e.id = i)
  <2>1. acked[e.id] # Inactive
    BY <1>2, <1>3, <1>6, ConstantsAssumption DEF IsActive
  <2>2. Owed' = state.pending \cup {e} \cup {f \in drain' : f.id \in Ids /\ acked[f.id] # Inactive}
    BY <1>2, <1>6 DEF Owed
  <2>3. Owed' = Owed
    BY <1>1, <1>3, <1>4, <2>1, <2>2 DEF OfAcknowledged
  <2>4. RememberedEnded'
    BY <1>2, <1>4, <1>6 DEF RememberedEnded
  <2>5. LineIsFirst'
    <3>1. line' # Failure
      BY <1>6 DEF Failure
    <3>2. QED
      BY <1>1, <1>2, <1>6, <2>1, <3>1 DEF LineIsFirst
  <2>6. QED
    BY <1>2, <1>6, <2>3, <2>4, <2>5 DEF Refines, Ordered, Mapped
<1>7. QED
  <2>1. e.id \in state.suppressed \/ IsActive(state, e.id)
    BY <1>3 DEF Settled
  <2>2. QED
    BY <1>1, <1>2, <1>3, <1>5, <1>6, <2>1, AcceptOutcome

\* A line that is written delivers its event, or shows the reader an acknowledgement.
LEMMA WriteLineRefines ==
  ASSUME IInv, IInv', Ordered, WriteLine
  PROVE  Refines
<1>1. /\ TypeOK /\ StateOK(state) /\ LineExplains /\ DrainOK /\ LineOK /\ LineIsFirst
      /\ UNCHANGED <<priority, events, open, sent, issued, state, drain>>
      /\ line # NoLine /\ Alive /\ line' = NoLine
      /\ actor' = IF actor = "failing" THEN "failed" ELSE actor
  BY DEF IInv, WriteLine, lanes, Ordered
<1>2. /\ line'.kind = "none" /\ line' # Failure
      /\ Owed' = state.pending \cup {f \in drain : f.id \in Ids /\ acked'[f.id] # Inactive}
  BY <1>1 DEF NoLine, Failure, Owed
<1>3. LineIsFirst'
  BY <1>1, <1>2 DEF LineIsFirst, Alive
<1>4. CASE line.kind = "event"
  <2> DEFINE e == line.event
  <2>1. /\ e \in Event /\ actor = "running" /\ actor' = actor
        /\ delivered' = delivered \cup {e}
        /\ End(IF e.terminal THEN e.id ELSE NoId)
    BY <1>1, <1>4, LineKinds DEF WriteLine, LineIsFirst, Failure, Alive
  <2>2. /\ \A f \in drain : e.n <= f.n /\ f # e
        /\ \A f \in state.pending : f.id # e.id
        /\ e.id \in Ids => acked[e.id] # Inactive
    BY <1>1, <1>4 DEF LineIsFirst
  <2>3. Owed = state.pending \cup {e} \cup OfAcknowledged
    BY <1>4 DEF Owed, OfAcknowledged
  <2>4. e.id \in Ids \cup {NoId} /\ e.terminal \in BOOLEAN /\ e.n \in Nat
    BY <2>1 DEF Event
  <2> HIDE DEF e
  <2>5. \A f \in Owed : f.id = e.id => e.n <= f.n
    BY <2>2, <2>3, <2>4 DEF OfAcknowledged
  <2>6. CASE e.terminal /\ e.id # NoId
    <3>1. e.id \in Ids /\ acked' = [acked EXCEPT ![e.id] = Inactive] /\ ended' = ended \cup {e.id}
      BY <2>1, <2>4, <2>6 DEF End
    <3>2. \A f \in drain : f.id \in Ids =>
            (acked'[f.id] # Inactive <=> acked[f.id] # Inactive /\ f.id # e.id)
      BY <1>1, <3>1 DEF TypeOK
    <3>3. Owed' = {f \in Owed : f.id # e.id}
      BY <1>2, <2>2, <2>3, <3>2 DEF OfAcknowledged
    <3>4. Delivery!Deliver
      BY <1>1, <2>1, <2>2, <2>3, <2>5, <2>6, <3>1, <3>3 DEF Delivery!Deliver, Delivery!Without
    <3>5. RememberedEnded'
      BY <1>1, <1>4, <3>1 DEF Ordered, RememberedEnded, e
    <3>6. QED
      BY <1>3, <3>4, <3>5 DEF Refines, Ordered, Delivery!Next
  <2>7. CASE ~(e.terminal /\ e.id # NoId)
    <3>1. UNCHANGED <<acked, ended>>
      BY <2>1, <2>7 DEF End
    <3>2. Owed' = Owed \ {e}
      BY <1>2, <2>2, <2>3, <3>1 DEF OfAcknowledged
    <3>3. Delivery!Deliver
      BY <1>1, <2>1, <2>2, <2>3, <2>5, <2>7, <3>1, <3>2 DEF Delivery!Deliver
    <3>4. RememberedEnded'
      <4>1. ASSUME NEW i \in state.suppressed, e.terminal, e.id = i PROVE FALSE
        BY <1>1, <2>7, <4>1, ConstantsAssumption DEF StateOK, StateType
      <4>2. QED
        BY <1>1, <1>4, <3>1, <4>1 DEF Ordered, RememberedEnded, e
    <3>5. QED
      BY <1>3, <3>3, <3>4 DEF Refines, Ordered, Delivery!Next
  <2>8. QED
    BY <2>6, <2>7
<1>5. CASE line.kind # "event"
  <2>1. RememberedEnded' /\ UNCHANGED <<ended, delivered>>
    BY <1>1, <1>5 DEF WriteLine, Ordered, RememberedEnded
  <2>2. CASE line.kind = "ack" /\ line.activates
    <3> DEFINE i == line.response.id
               r == Acknowledge(acked[i], line.response)
    <3>1. /\ i \in Ids /\ line.response \in ResponseType /\ acked[i] \in Routes \cup {NoRoute, Inactive}
          /\ actor = "running" /\ actor' = actor
      BY <1>1, <2>2, LineKinds, ConstantsAssumption DEF LineOK, TypeOK, LineIsFirst, Alive, Failure
    <3>2. r \in Routes \cup {NoRoute} /\ r # Inactive
      BY <3>1, AcknowledgeType
    <3>3. r = NoRoute => acked[i] \in {Inactive, NoRoute}
      BY <3>1 DEF Acknowledge
    <3>4. acked' = [acked EXCEPT ![i] = r]
      BY <2>2 DEF WriteLine
    <3>5. \A f \in drain : f.id = i
      BY <1>1, <2>2 DEF LineIsFirst
    <3> HIDE DEF i, r
    <3>6. Owed' = Owed
      <4>1. Owed = state.pending \cup drain
        BY <2>2 DEF Owed
      <4>2. acked'[i] = r
        BY <1>1, <3>1, <3>4 DEF TypeOK
      <4>3. QED
        BY <1>2, <3>1, <3>2, <3>5, <4>1, <4>2
    <3>7. Delivery!Acknowledge
      BY <1>1, <2>1, <3>1, <3>2, <3>3, <3>4, <3>6 DEF Delivery!Acknowledge
    <3>8. QED
      BY <1>3, <2>1, <3>7 DEF Refines, Ordered, Delivery!Next
  <2>3. CASE ~(line.kind = "ack" /\ line.activates)
    <3>1. acked' = acked
      BY <1>5, <2>3 DEF WriteLine
    <3>2. Owed' = Owed
      <4>1. line.kind = "ack" => drain = {}
        BY <1>1, <2>3 DEF LineIsFirst
      <4>2. QED
        BY <1>2, <1>5, <3>1, <4>1 DEF Owed
    <3>3. (actor = "running") = (actor' = "running")
      BY <1>1 DEF Alive
    <3>4. UNCHANGED Mapped
      BY <1>1, <2>1, <3>1, <3>2, <3>3 DEF Mapped
    <3>5. QED
      BY <1>3, <2>1, <3>4 DEF Refines, Ordered
  <2>4. QED
    BY <2>2, <2>3
<1>6. QED
  BY <1>4, <1>5

\* Senders, and the ends of the task.
LEMMA OthersRefine ==
  ASSUME IInv, IInv', Ordered,
         SendCommand \/ SendEvent \/ DropHandles \/ WriteFails \/ Finish \/ UNCHANGED vars
  PROVE  Refines
<1>1. UNCHANGED <<state, line, drain, acked, ended, delivered>>
  BY DEF SendCommand, SendEvent, DropHandles, WriteFails, Finish, vars, lanes, history
<1>2. Owed' = Owed
  BY <1>1 DEF Owed
<1>3. RememberedEnded'
  BY <1>1 DEF Ordered, RememberedEnded
<1>4. CASE SendEvent
  <2>1. actor' = actor /\ LineIsFirst'
    BY <1>1, <1>4 DEF SendEvent, Ordered, LineIsFirst, Alive
  <2>2. PICK k \in EventKinds :
          events' = Append(events, [n |-> sent + 1, id |-> k.id, sub |-> k.sub, terminal |-> k.terminal])
    BY <1>4 DEF SendEvent
  <2>3. /\ k.id \in Ids \cup {NoId} /\ k.sub \in Ids \cup {NoId} /\ k.terminal \in BOOLEAN
        /\ sent' = sent + 1
    BY <1>4, ConstantsAssumption DEF KindType, SendEvent
  <2>4. Delivery!Send
    BY <1>1, <1>2, <2>1, <2>2, <2>3 DEF Delivery!Send
  <2>5. QED
    BY <1>3, <2>1, <2>4 DEF Refines, Ordered, Delivery!Next
<1>5. CASE SendCommand \/ DropHandles \/ UNCHANGED vars
  <2>1. actor' = actor /\ events' = events /\ sent' = sent
    BY <1>5 DEF SendCommand, DropHandles, vars, lanes
  <2>2. LineIsFirst'
    BY <1>1, <2>1 DEF Ordered, LineIsFirst, Alive
  <2>3. QED
    BY <1>1, <1>2, <1>3, <2>1, <2>2 DEF Refines, Ordered, Mapped
<1>6. CASE WriteFails \/ Finish
  <2>1. actor' \in {"failed", "finished"} /\ Alive /\ UNCHANGED <<events, sent>>
    BY <1>6 DEF WriteFails, Finish, Idle, Alive, lanes
  <2>2. LineIsFirst'
    BY <1>1, <2>1 DEF Ordered, LineIsFirst, Alive
  <2>3. CASE actor = "running"
    <3>1. Delivery!Stop
      BY <1>1, <1>2, <2>1, <2>3 DEF Delivery!Stop
    <3>2. QED
      BY <1>3, <2>2, <3>1 DEF Refines, Ordered, Delivery!Next
  <2>4. CASE actor # "running"
    BY <1>1, <1>2, <1>3, <2>1, <2>2, <2>4 DEF Refines, Ordered, Mapped
  <2>5. QED
    BY <2>3, <2>4
<1>7. QED
  BY <1>4, <1>5, <1>6

\* Every step of the actor is one of the delivery, or leaves it as it is.
LEMMA StepRefines == IInv /\ IInv' /\ Ordered /\ [Next]_vars => Refines
BY TakeResponseRefines, TakeOtherRefines, TakeEventRefines, DrainEventRefines,
   WriteLineRefines, OthersRefine
DEF Next, Step, Rest

\* A fresh actor is a fresh delivery.
LEMMA InitRefines == Init => Delivery!Init
<1> SUFFICES ASSUME Init PROVE Delivery!Init
  OBVIOUS
<1>1. line.kind = "none" /\ drain = {} /\ state.pending = {}
  BY DEF Init, NoLine, InitialState
<1>2. Owed = {}
  BY <1>1 DEF Owed
<1>3. QED
  BY <1>2 DEF Init, Delivery!Init

\* Every behaviour of the actor is one of OrderedDelivery: per id, events reach the
\* reader behind the acknowledgement, in the order they were sent, without a gap and
\* none after the end; what cannot be kept stops the connection (output_actor.rs).
THEOREM DeliveryTheorem == Safety => DeliveryInOrder
<1>1. IInv /\ IInv' /\ Ordered /\ [Next]_vars => Ordered' /\ [Delivery!Next]_(Delivery!vars)
  BY StepRefines DEF Refines, Mapped, Delivery!vars
<1>2. QED
  BY InitOrdered, InitRefines, <1>1, Invariance, PTL DEF Safety, DeliveryInOrder, Delivery!Spec
=============================================================================
