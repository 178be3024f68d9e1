-------------------------- MODULE LifecycleProofs --------------------------
(***************************************************************************)
(* The safety of OwnerLoss and of TaskGroup for any number of owners and   *)
(* waiters, every capacity of the broadcast, and every set of workers and of *)
(* callers; and that RecentResults and Frames are exact, for every limit,  *)
(* retention and history of results, and for every stream and every way it *)
(* is cut into reads.                                                      *)
(***************************************************************************)
EXTENDS OwnerLoss, TaskGroup, RecentResults, Frames, FiniteSetTheorems, SequenceTheorems,
    WellFoundedInduction, TLAPS

-----------------------------------------------------------------------------
(* The owner-loss monitor: the inductive invariant *)

LossStages == {"new", "checking", "receiving", "ok", "error"}

\* The types, with each waiter's place within the log.
LossTypes ==
  /\ present \subseteq Names /\ up \in BOOLEAN
  /\ monitor \in {"idle", "running", "stopped"}
  /\ inbox \in Seq(Names) /\ log \in Seq(Names)
  /\ wait \in [Waiters -> [pc : LossStages, owner : Names, pos : Nat]]
  /\ \A w \in Waiters : wait[w].pos <= Len(log)

\* Whom the bus or the monitor calls lost has left.
Truthful ==
  /\ \A i \in DOMAIN inbox : inbox[i] \notin present
  /\ \A i \in DOMAIN log : log[i] \notin present

\* Who has subscribed has started the monitor, which runs as long as the connection.
Monitored ==
  /\ \A w \in Waiters : wait[w].pc \in {"checking", "receiving"} => monitor # "idle"
  /\ monitor = "stopped" => ~up

LossIInv == LossTypes /\ Truthful /\ Monitored /\ OkMeansGone /\ NewsAhead

\* At the start nobody waits and nothing was lost.
LEMMA InitLoss == LossInit => LossIInv
BY DEF LossInit, LossIInv, LossTypes, LossStages, Truthful, Monitored, OkMeansGone, NewsAhead,
    NameOf

-----------------------------------------------------------------------------
(* The steps *)

\* A name that leaves is on its way to the monitor of whoever waits for it.
LEMMA LeaveStep ==
  ASSUME LossIInv, NEW o \in Names, NameLeaves(o)
  PROVE  LossIInv'
<1>1. /\ present' = present \ {o} /\ UNCHANGED <<up, monitor, log, wait>>
      /\ inbox' = IF up /\ monitor = "running" THEN Append(inbox, o) ELSE inbox
  BY DEF NameLeaves
<1>2. LossTypes
  BY DEF LossIInv
<1>3. /\ inbox' \in Seq(Names)
      /\ \A i \in DOMAIN inbox' : (i \in DOMAIN inbox /\ inbox'[i] = inbox[i]) \/ inbox'[i] = o
      /\ \A i \in DOMAIN inbox : i \in DOMAIN inbox' /\ inbox'[i] = inbox[i]
      /\ up /\ monitor = "running" => \E i \in DOMAIN inbox' : inbox'[i] = o
  <2>1. CASE up /\ monitor = "running"
    <3>1. inbox' = Append(inbox, o) /\ inbox \in Seq(Names)
      BY <1>1, <1>2, <2>1 DEF LossTypes
    <3>2. /\ DOMAIN inbox' = 1..Len(inbox) + 1 /\ DOMAIN inbox = 1..Len(inbox)
          /\ inbox'[Len(inbox) + 1] = o /\ \A i \in 1..Len(inbox) : inbox'[i] = inbox[i]
          /\ Len(inbox) \in Nat /\ inbox' \in Seq(Names)
      BY <3>1
    <3>3. \A i \in DOMAIN inbox' : i \in DOMAIN inbox \/ i = Len(inbox) + 1
      BY <3>2
    <3>4. Len(inbox) + 1 \in DOMAIN inbox'
      BY <3>2
    <3>5. DOMAIN inbox \subseteq DOMAIN inbox'
      BY <3>2
    <3>6. QED
      BY <3>2, <3>3, <3>4, <3>5
  <2>2. CASE ~(up /\ monitor = "running")
    BY <1>1, <1>2, <2>2 DEF LossTypes
  <2>3. QED
    BY <2>1, <2>2
<1>4. LossTypes'
  BY <1>1, <1>2, <1>3 DEF LossTypes
<1>5. Truthful' /\ Monitored'
  BY <1>1, <1>3 DEF LossIInv, Truthful, Monitored
<1>6. OkMeansGone'
  BY <1>1 DEF LossIInv, OkMeansGone, NameOf
<1>7. NewsAhead'
  <2> SUFFICES ASSUME NEW w \in Waiters, wait[w].pc = "receiving", NameOf(w) \notin present', up
               PROVE  Pending(w) \/ \E i \in DOMAIN inbox' : inbox'[i] = NameOf(w)
    BY <1>1 DEF NewsAhead, Pending, NameOf
  <2>1. monitor = "running"
    BY <1>2 DEF LossIInv, LossTypes, Monitored
  <2>2. QED
    BY <1>1, <1>3, <2>1 DEF LossIInv, NewsAhead
<1>8. QED
  BY <1>4, <1>5, <1>6, <1>7 DEF LossIInv

\* The connection closes, or the monitor notices it.
LEMMA ClosingStep ==
  ASSUME LossIInv, BusCloses \/ StopMonitor
  PROVE  LossIInv'
<1>1. ~up' /\ UNCHANGED <<present, inbox, log, wait>> /\ monitor' \in {monitor, "stopped"}
  BY DEF BusCloses, StopMonitor
<1>2. up' \in BOOLEAN
  BY DEF BusCloses, StopMonitor, LossIInv, LossTypes
<1>3. LossTypes' /\ Truthful' /\ Monitored'
  BY <1>1, <1>2 DEF LossIInv, LossTypes, Truthful, Monitored
<1>4. OkMeansGone' /\ NewsAhead'
  BY <1>1 DEF LossIInv, OkMeansGone, NewsAhead, NameOf
<1>5. QED
  BY <1>3, <1>4 DEF LossIInv

\* A signal that is published is still ahead of everyone.
LEMMA PublishStep ==
  ASSUME LossIInv, Publish
  PROVE  LossIInv'
<1>1. /\ log' = Append(log, Head(inbox)) /\ inbox' = Tail(inbox) /\ inbox # <<>>
      /\ UNCHANGED <<present, up, monitor, wait>>
  BY DEF Publish
<1>2. LossTypes
  BY DEF LossIInv
<1>3. /\ log' \in Seq(Names) /\ inbox' \in Seq(Names)
      /\ DOMAIN log = 1..Len(log) /\ DOMAIN log' = 1..Len(log) + 1 /\ Len(log') = Len(log) + 1
      /\ log'[Len(log) + 1] = inbox[1] /\ \A i \in 1..Len(log) : log'[i] = log[i]
      /\ DOMAIN inbox = 1..Len(inbox) /\ DOMAIN inbox' = 1..Len(inbox) - 1
      /\ \A i \in 1..Len(inbox) - 1 : inbox'[i] = inbox[i + 1]
      /\ Len(inbox) \in Nat \ {0} /\ Len(log) \in Nat
  BY <1>1, <1>2 DEF LossTypes
<1>4. LossTypes'
  BY <1>1, <1>2, <1>3 DEF LossTypes
<1>5. Truthful'
  <2>1. \A i \in DOMAIN inbox' : i + 1 \in DOMAIN inbox
    BY <1>3
  <2>2. 1 \in DOMAIN inbox /\ \A i \in DOMAIN log' : i \in DOMAIN log \/ i = Len(log) + 1
    BY <1>3
  <2>3. QED
    BY <1>1, <1>3, <2>1, <2>2 DEF LossIInv, Truthful
<1>6. Monitored' /\ OkMeansGone'
  BY <1>1 DEF LossIInv, Monitored, OkMeansGone, NameOf
<1>7. NewsAhead'
  <2> SUFFICES ASSUME NEW w \in Waiters, wait[w].pc = "receiving", NameOf(w) \notin present, up
               PROVE  \/ \E i \in wait[w].pos + 1..Len(log') : log'[i] = NameOf(w)
                      \/ \E i \in DOMAIN inbox' : inbox'[i] = NameOf(w)
    BY <1>1 DEF NewsAhead, Pending, NameOf
  <2>1. wait[w].pos \in Nat /\ wait[w].pos <= Len(log)
    BY <1>2 DEF LossTypes
  <2>2. CASE Pending(w)
    <3>1. PICK i \in wait[w].pos + 1..Len(log) : log[i] = NameOf(w)
      BY <2>2 DEF Pending
    <3>2. i \in wait[w].pos + 1..Len(log') /\ log'[i] = NameOf(w)
      BY <1>3, <2>1, <3>1
    <3>3. QED
      BY <3>2
  <2>3. CASE \E i \in DOMAIN inbox : inbox[i] = NameOf(w)
    <3>1. PICK i \in DOMAIN inbox : inbox[i] = NameOf(w)
      BY <2>3
    <3>2. CASE i = 1
      <4>1. Len(log) + 1 \in wait[w].pos + 1..Len(log')
        BY <1>3, <2>1
      <4>2. QED
        BY <1>3, <3>1, <3>2, <4>1
    <3>3. CASE i # 1
      <4>1. i - 1 \in 1..Len(inbox) - 1 /\ (i - 1) + 1 = i
        BY <1>3, <3>1, <3>3
      <4>2. QED
        BY <1>3, <3>1, <4>1
    <3>4. QED
      BY <3>2, <3>3
  <2>4. QED
    BY <2>2, <2>3 DEF LossIInv, NewsAhead
<1>8. QED
  BY <1>4, <1>5, <1>6, <1>7 DEF LossIInv

\* Where a waiter is, and how far it has read.
At(w, pc, pos) == [wait EXCEPT ![w].pc = pc, ![w].pos = pos]

\* A step of one waiter to a place that is right for it.
Moved(w, pc, pos) ==
  /\ wait' = At(w, pc, pos) /\ pc \in LossStages /\ pos \in Nat /\ pos <= Len(log)
  /\ UNCHANGED <<present, up, inbox, log>>
  /\ monitor' = monitor \/ (monitor = "idle" /\ monitor' = "running")
  /\ pc \in {"checking", "receiving"} => monitor' # "idle"
  /\ pc = "ok" => NameOf(w) \notin present
  /\ pc = "receiving" /\ NameOf(w) \notin present /\ up =>
       \/ \E i \in pos + 1..Len(log) : log[i] = NameOf(w)
       \/ \E i \in DOMAIN inbox : inbox[i] = NameOf(w)

LEMMA WaiterStep ==
  ASSUME LossIInv, NEW w \in Waiters, NEW pc, NEW pos, Moved(w, pc, pos)
  PROVE  LossIInv'
<1>1. wait \in [Waiters -> [pc : LossStages, owner : Names, pos : Nat]]
  BY DEF LossIInv, LossTypes
<1>2. /\ wait'[w].pc = pc /\ wait'[w].pos = pos /\ wait'[w].owner = wait[w].owner
      /\ \A v \in Waiters \ {w} : wait'[v] = wait[v]
      /\ wait' \in [Waiters -> [pc : LossStages, owner : Names, pos : Nat]]
  BY <1>1 DEF At, Moved
<1>3. \A v \in Waiters : NameOf(v)' = NameOf(v)
  BY <1>2 DEF NameOf
<1>4. LossTypes'
  BY <1>2 DEF LossIInv, LossTypes, Moved
<1>5. Truthful' /\ Monitored'
  BY <1>2 DEF LossIInv, Truthful, Monitored, Moved
<1>6. OkMeansGone'
  BY <1>2, <1>3 DEF LossIInv, OkMeansGone, Moved
<1>7. NewsAhead'
  <2> SUFFICES ASSUME NEW v \in Waiters,
                      wait'[v].pc = "receiving", NameOf(v) \notin present, up
               PROVE  \/ \E i \in wait'[v].pos + 1..Len(log) : log[i] = NameOf(v)
                      \/ \E i \in DOMAIN inbox : inbox[i] = NameOf(v)
    BY <1>3 DEF NewsAhead, Pending, Moved
  <2>1. CASE v = w
    BY <1>2, <2>1 DEF Moved
  <2>2. CASE v # w
    BY <1>2, <2>2 DEF LossIInv, NewsAhead, Pending
  <2>3. QED
    BY <2>1, <2>2
<1>8. QED
  BY <1>4, <1>5, <1>6, <1>7 DEF LossIInv

LEMMA WaitStep ==
  ASSUME LossIInv, NEW w \in Waiters, OfWaiter(w)
  PROVE  LossIInv'
<1>1. /\ wait \in [Waiters -> [pc : LossStages, owner : Names, pos : Nat]]
      /\ Len(log) \in Nat /\ wait[w].pos \in Nat /\ wait[w].pos <= Len(log)
      /\ wait[w].pc \in LossStages /\ log \in Seq(Names)
  BY DEF LossIInv, LossTypes
<1>2. ASSUME NEW pc \in LossStages, wait' = [wait EXCEPT ![w].pc = pc]
      PROVE  wait' = At(w, pc, wait[w].pos)
  BY <1>1, <1>2 DEF At
<1>3. CASE Subscribe(w)
  <2>1. CASE wait' = At(w, "checking", Len(log))
             /\ monitor' = IF monitor = "idle" THEN "running" ELSE monitor
    <3>1. "checking" \in LossStages /\ UNCHANGED <<present, up, inbox, log>> /\ Len(log) <= Len(log)
      BY <1>1, <1>3 DEF Subscribe, LossStages
    <3>2. \/ monitor' = monitor /\ monitor # "idle"
          \/ monitor = "idle" /\ monitor' = "running"
      BY <2>1
    <3>3. Moved(w, "checking", Len(log))
      BY <1>1, <2>1, <3>1, <3>2 DEF Moved
    <3>4. QED
      BY <3>3, WaiterStep
  <2>2. CASE wait' = [wait EXCEPT ![w].pc = "error"] /\ UNCHANGED monitor
    <3>1. "error" \in LossStages
      BY DEF LossStages
    <3>2. wait' = At(w, "error", wait[w].pos)
      BY <1>2, <2>2, <3>1
    <3>3. Moved(w, "error", wait[w].pos)
      BY <1>1, <1>3, <2>2, <3>1, <3>2 DEF Moved, Subscribe
    <3>4. QED
      BY <3>3, WaiterStep
  <2>3. QED
    BY <1>3, <2>1, <2>2 DEF Subscribe, WaitMoves, At
<1>4. CASE Check(w)
  <2>1. PICK pc \in {"error", "receiving", "ok"} :
          /\ wait' = [wait EXCEPT ![w].pc = pc] /\ wait[w].pc = "checking"
          /\ pc = "ok" => NameOf(w) \notin present
          /\ pc = "receiving" => NameOf(w) \in present
    BY <1>4 DEF Check, WaitMoves
  <2>2. pc \in LossStages
    BY DEF LossStages
  <2>3. wait' = At(w, pc, wait[w].pos)
    BY <1>2, <2>1, <2>2
  <2>4. monitor # "idle"
    BY <2>1 DEF LossIInv, Monitored
  <2>5. Moved(w, pc, wait[w].pos)
    BY <1>1, <1>4, <2>1, <2>2, <2>3, <2>4 DEF Moved, Check
  <2>6. QED
    BY <2>5, WaiterStep
<1>5. CASE Recv(w)
  <2>1. /\ wait[w].pc = "receiving" /\ wait[w].pos < Len(log) /\ monitor # "idle"
        /\ UNCHANGED <<present, up, monitor, inbox, log>>
    BY <1>5 DEF Recv, LossIInv, Monitored
  <2>2. CASE Len(log) - wait[w].pos > LossCapacity
    <3>1. wait' = At(w, "checking", Len(log) - LossCapacity)
      BY <1>1, <1>5, <2>2 DEF Recv, At
    <3>2. Len(log) - LossCapacity \in Nat /\ Len(log) - LossCapacity <= Len(log)
          /\ "checking" \in LossStages
      BY <1>1, <2>2, LossConstants DEF LossStages
    <3>3. Moved(w, "checking", Len(log) - LossCapacity)
      BY <2>1, <3>1, <3>2 DEF Moved
    <3>4. QED
      BY <3>3, WaiterStep
  <2>3. CASE Len(log) - wait[w].pos <= LossCapacity /\ log[wait[w].pos + 1] = NameOf(w)
    <3>1. wait' = At(w, "ok", wait[w].pos + 1)
      BY <1>1, <1>5, <2>3, LossConstants DEF Recv, At
    <3>2. wait[w].pos + 1 \in DOMAIN log
      BY <1>1, <2>1
    <3>3. NameOf(w) \notin present
      BY <2>3, <3>2 DEF LossIInv, Truthful
    <3>4. wait[w].pos + 1 \in Nat /\ wait[w].pos + 1 <= Len(log) /\ "ok" \in LossStages
      BY <1>1, <2>1 DEF LossStages
    <3>5. Moved(w, "ok", wait[w].pos + 1)
      BY <2>1, <3>1, <3>3, <3>4 DEF Moved
    <3>6. QED
      BY <3>5, WaiterStep
  <2>4. CASE Len(log) - wait[w].pos <= LossCapacity /\ log[wait[w].pos + 1] # NameOf(w)
    <3>1. wait' = At(w, "receiving", wait[w].pos + 1)
      <4>1. wait' = [wait EXCEPT ![w].pos = wait[w].pos + 1, ![w].pc = @]
        <5>1. ~(Len(log) - wait[w].pos > LossCapacity)
          BY <1>1, <2>4, LossConstants
        <5>2. QED
          BY <1>5, <2>4, <5>1 DEF Recv
      <4>2. QED
        BY <1>1, <2>1, <4>1 DEF At
    <3>2. wait[w].pos + 1 \in Nat /\ wait[w].pos + 1 <= Len(log) /\ "receiving" \in LossStages
      BY <1>1, <2>1 DEF LossStages
    <3>3. ASSUME NameOf(w) \notin present, up
          PROVE  \/ \E i \in (wait[w].pos + 1) + 1..Len(log) : log[i] = NameOf(w)
                 \/ \E i \in DOMAIN inbox : inbox[i] = NameOf(w)
      <4>1. ASSUME NEW i \in wait[w].pos + 1..Len(log), log[i] = NameOf(w)
            PROVE  i \in (wait[w].pos + 1) + 1..Len(log)
        BY <1>1, <2>4, <4>1
      <4>2. Pending(w) \/ \E i \in DOMAIN inbox : inbox[i] = NameOf(w)
        BY <2>1, <3>3 DEF LossIInv, NewsAhead
      <4>3. QED
        BY <4>1, <4>2 DEF Pending
    <3>4. Moved(w, "receiving", wait[w].pos + 1)
      BY <2>1, <3>1, <3>2, <3>3 DEF Moved
    <3>5. QED
      BY <3>4, WaiterStep
  <2>5. QED
    BY <1>1, <2>2, <2>3, <2>4, LossConstants
<1>6. CASE RecvStopped(w)
  <2>1. "error" \in LossStages /\ wait' = [wait EXCEPT ![w].pc = "error"]
    BY <1>6 DEF RecvStopped, WaitMoves, LossStages
  <2>2. wait' = At(w, "error", wait[w].pos)
    BY <1>2, <2>1
  <2>3. Moved(w, "error", wait[w].pos)
    BY <1>1, <1>6, <2>1, <2>2 DEF Moved, RecvStopped
  <2>4. QED
    BY <2>3, WaiterStep
<1>7. QED
  BY <1>3, <1>4, <1>5, <1>6 DEF OfWaiter

LEMMA NextLoss == LossIInv /\ [LossNext]_lossVars => LossIInv'
<1> SUFFICES ASSUME LossIInv, [LossNext]_lossVars PROVE LossIInv'
  OBVIOUS
<1>1. CASE LossNext
  BY <1>1, LeaveStep, ClosingStep, PublishStep, WaitStep DEF LossNext
<1>2. CASE UNCHANGED lossVars
  BY <1>2
  DEF lossVars, LossIInv, LossTypes, Truthful, Monitored, OkMeansGone, NewsAhead, Pending, NameOf
<1>3. QED
  BY <1>1, <1>2

-----------------------------------------------------------------------------
(* The theorems *)

LEMMA LossInvariance == LossSafety => []LossIInv
BY InitLoss, NextLoss, PTL DEF LossSafety

\* A wait that ends well is right: its owner has left the bus (OwnerLoss::wait).
THEOREM GoneTheorem == LossSpec => []OkMeansGone
<1>1. LossIInv => OkMeansGone
  BY DEF LossIInv
<1>2. QED
  BY LossInvariance, <1>1, PTL DEF LossSpec

\* No departure is missed, between the subscription and the check, through a lag, or
\* among any number of others (OwnerLoss::subscribe, wait, OwnerLossReceiver::recv).
THEOREM NewsTheorem == LossSpec => []NewsAhead
<1>1. LossIInv => NewsAhead
  BY DEF LossIInv
<1>2. QED
  BY LossInvariance, <1>1, PTL DEF LossSpec

\* A wait for an owner's loss tells the truth, for any names, waiters and capacity
\* (owner.rs).
THEOREM TruthTheorem == LossSpec => []WaitIsTruthful
BY GoneTheorem, NewsTheorem, PTL DEF WaitIsTruthful

-----------------------------------------------------------------------------
(* The task group: the inductive invariant *)

\* The first caller of shutdown closes the gate and leaves no handle behind.
Taken == (\E c \in GroupClosers : groupCloser[c] # "idle") => gate # "open" /\ handles = {}

\* A worker that is not over is in the group, or was taken, or the group was
\* dropped without a shutdown.
Known ==
  \A w \in GroupWorkers : Alive(w) =>
    \/ w \in handles
    \/ \E d \in GroupClosers : groupCloser[d] # "idle" /\ w \in batch[d]
    \/ gate = "dropped" /\ \A d \in GroupClosers : groupCloser[d] = "idle"

\* What a caller is through with has ended, and all of it when it returns.
Joined ==
  \A c \in GroupClosers :
    /\ groupCloser[c] = "joining" => \A w \in batch[c] \ left[c] : ~Alive(w)
    /\ groupCloser[c] = "returned" => \A w \in batch[c] : ~Alive(w)

GroupIInv == GroupTypeOK /\ Taken /\ Known /\ Joined /\ NothingEscapes

\* Nothing has been spawned, nobody has called.
LEMMA InitGroupIInv == GroupInit => GroupIInv
BY DEF GroupInit, GroupIInv, GroupTypeOK, Taken, Known, Joined, NothingEscapes, Alive

\* While the gate is open, all callers are idle and all workers in the group.
LEMMA OpenFacts ==
  ASSUME GroupIInv, gate = "open"
  PROVE  /\ \A c \in GroupClosers : groupCloser[c] = "idle"
         /\ \A w \in GroupWorkers : Alive(w) => w \in handles
BY DEF GroupIInv, Taken, Known

\* Before the first shutdown, and unless it was dropped, the group has all workers.
LEMMA IdleFacts ==
  ASSUME GroupIInv, gate # "dropped", \A c \in GroupClosers : groupCloser[c] = "idle"
  PROVE  \A w \in GroupWorkers : Alive(w) => w \in handles
BY DEF GroupIInv, Known

\* No step but GroupSpawn makes a worker alive, and aborting one leaves it alive.
LEMMA AbortingFacts ==
  ASSUME GroupTypeOK, NEW set \in SUBSET GroupWorkers, life' = Aborting(set)
  PROVE  /\ life' \in [GroupWorkers -> {"new", "running", "aborted", "over"}]
         /\ \A w \in GroupWorkers : Alive(w)' = Alive(w)
         /\ \A w \in GroupWorkers : life'[w] = "running" => life[w] = "running" /\ w \notin set
BY DEF GroupTypeOK, Aborting, Alive

-----------------------------------------------------------------------------
(* The steps *)

LEMMA SpawnStep ==
  ASSUME GroupIInv, NEW w \in GroupWorkers, GroupSpawn(w)
  PROVE  GroupIInv'
<1>1. CASE gate = "open"
  <2>1. GroupTypeOK'
    BY <1>1 DEF GroupIInv, GroupTypeOK, GroupSpawn
  <2>2. \A c \in GroupClosers : groupCloser[c] = "idle"
    BY <1>1, OpenFacts
  <2>3. \A v \in GroupWorkers : Alive(v)' => v \in handles'
    BY <1>1, OpenFacts DEF GroupIInv, GroupTypeOK, GroupSpawn, Alive
  <2>4. QED
    BY <1>1, <2>1, <2>2, <2>3 DEF GroupIInv, GroupSpawn, Taken, Known, Joined, NothingEscapes
<1>2. CASE gate # "open"
  <2>1. GroupTypeOK'
    BY <1>2 DEF GroupIInv, GroupTypeOK, GroupSpawn
  <2>2. \A v \in GroupWorkers : (Alive(v)' => Alive(v))
        /\ (life'[v] = "running" => life[v] = "running")
    BY <1>2 DEF GroupIInv, GroupTypeOK, GroupSpawn, Alive
  <2>3. QED
    BY <1>2, <2>1, <2>2
    DEF GroupIInv, GroupTypeOK, GroupSpawn, Taken, Known, Joined, NothingEscapes, InHand
<1>3. QED
  BY <1>1, <1>2

LEMMA EndStep ==
  ASSUME GroupIInv, NEW w \in GroupWorkers, End(w) \/ GroupAbortLands(w)
  PROVE  GroupIInv'
<1>1. GroupTypeOK'
  BY DEF GroupIInv, GroupTypeOK, End, GroupAbortLands
<1>2. \A v \in GroupWorkers : (Alive(v)' => Alive(v))
      /\ (life'[v] = "running" => life[v] = "running")
  BY DEF GroupIInv, GroupTypeOK, End, GroupAbortLands, Alive
<1>3. UNCHANGED <<gate, handles, groupCloser, batch, left>>
  BY DEF End, GroupAbortLands
<1>4. QED
  BY <1>1, <1>2, <1>3 DEF GroupIInv, GroupTypeOK, Taken, Known, Joined, NothingEscapes, InHand

LEMMA AbortStep ==
  ASSUME GroupIInv, Abort
  PROVE  GroupIInv'
<1>1. handles \in SUBSET GroupWorkers /\ life' = Aborting(handles) /\ GroupTypeOK
  BY DEF GroupIInv, GroupTypeOK, Abort
<1>2. GroupTypeOK'
  BY <1>1, AbortingFacts DEF GroupTypeOK, Abort
<1>3. NothingEscapes'
  <2>1. CASE gate = "open"
    BY <1>1, <2>1, AbortingFacts, OpenFacts DEF NothingEscapes, Alive
  <2>2. CASE gate # "open"
    BY <1>1, <2>2, AbortingFacts DEF GroupIInv, NothingEscapes, InHand, Abort
  <2>3. QED
    BY <2>1, <2>2
<1>4. QED
  BY <1>1, <1>2, <1>3, AbortingFacts DEF GroupIInv, GroupTypeOK, Abort, Taken, Known, Joined

LEMMA DropStep ==
  ASSUME GroupIInv, DropGroup
  PROVE  GroupIInv'
<1>1. handles \in SUBSET GroupWorkers /\ life' = Aborting(handles) /\ GroupTypeOK
  BY DEF GroupIInv, GroupTypeOK, DropGroup
<1>2. GroupTypeOK'
  BY <1>1, AbortingFacts DEF GroupTypeOK, DropGroup
<1>3. Taken' /\ Joined'
  BY <1>1, AbortingFacts DEF GroupIInv, GroupTypeOK, DropGroup, Taken, Joined
<1>4. Known'
  <2>1. CASE \A c \in GroupClosers : groupCloser[c] = "idle"
    BY <2>1 DEF DropGroup, Known
  <2>2. CASE ~\A c \in GroupClosers : groupCloser[c] = "idle"
    BY <1>1, <2>2, AbortingFacts DEF GroupIInv, DropGroup, Taken, Known
  <2>3. QED
    BY <2>1, <2>2
<1>5. NothingEscapes'
  <2>1. CASE gate = "open"
    BY <1>1, <2>1, AbortingFacts, OpenFacts DEF NothingEscapes, Alive
  <2>2. CASE gate # "open"
    BY <1>1, <2>2, AbortingFacts DEF GroupIInv, NothingEscapes, InHand, DropGroup
  <2>3. QED
    BY <2>1, <2>2
<1>6. QED
  BY <1>2, <1>3, <1>4, <1>5 DEF GroupIInv

LEMMA CloseStep ==
  ASSUME GroupIInv, NEW c \in GroupClosers, GroupClose(c)
  PROVE  GroupIInv'
<1>1. GroupTypeOK'
  BY DEF GroupIInv, GroupTypeOK, GroupClose
<1>2. Taken'
  BY DEF GroupIInv, GroupTypeOK, GroupClose, Taken
<1>3. /\ \A w \in GroupWorkers : Alive(w)' = Alive(w)
      /\ \A d \in GroupClosers \ {c} : groupCloser'[d] = groupCloser[d]
         /\ batch'[d] = batch[d] /\ left'[d] = left[d]
      /\ groupCloser'[c] = "aborting" /\ batch'[c] = handles /\ left'[c] = handles
  BY DEF GroupIInv, GroupTypeOK, GroupClose, Alive
<1>4. Known'
  <2> SUFFICES ASSUME NEW w \in GroupWorkers, Alive(w)
               PROVE  \E d \in GroupClosers : groupCloser'[d] # "idle" /\ w \in batch'[d]
    BY <1>3 DEF Known
  <2>1. w \in handles \/ \E d \in GroupClosers : groupCloser[d] # "idle" /\ w \in batch[d]
    BY DEF GroupIInv, Known, GroupClose
  <2>2. QED
    BY <1>3, <2>1 DEF GroupClose
<1>5. Joined'
  BY <1>3 DEF GroupIInv, GroupTypeOK, Joined
<1>6. NothingEscapes'
  <2> SUFFICES ASSUME NEW w \in GroupWorkers, life[w] = "running"
               PROVE  \E d \in GroupClosers : groupCloser'[d] = "aborting" /\ w \in left'[d]
    BY DEF NothingEscapes, InHand, GroupClose
  <2>1. CASE gate = "open"
    BY <1>3, <2>1, OpenFacts DEF Alive
  <2>2. CASE gate # "open"
    <3>1. PICK d \in GroupClosers : groupCloser[d] = "aborting" /\ w \in left[d]
      BY <2>2 DEF GroupIInv, NothingEscapes, InHand
    <3>2. d # c
      BY <3>1 DEF GroupClose
    <3>3. QED
      BY <1>3, <3>1, <3>2
  <2>3. QED
    BY <2>1, <2>2
<1>7. QED
  BY <1>1, <1>2, <1>4, <1>5, <1>6 DEF GroupIInv

LEMMA AbortBatchStep ==
  ASSUME GroupIInv, NEW c \in GroupClosers, AbortBatch(c)
  PROVE  GroupIInv'
<1>1. CASE left[c] = {}
  <2>1. GroupTypeOK' /\ Taken' /\ Known'
    BY <1>1 DEF GroupIInv, GroupTypeOK, Taken, Known, AbortBatch, Alive
  <2>2. Joined'
    BY <1>1 DEF GroupIInv, GroupTypeOK, Joined, AbortBatch, Alive
  <2>3. NothingEscapes'
    BY <1>1 DEF GroupIInv, GroupTypeOK, NothingEscapes, InHand, AbortBatch
  <2>4. QED
    BY <2>1, <2>2, <2>3 DEF GroupIInv
<1>2. CASE left[c] # {}
  <2>1. PICK w \in left[c] : life' = Aborting({w}) /\ left' = [left EXCEPT ![c] = @ \ {w}]
    BY <1>2 DEF AbortBatch
  <2>2. {w} \in SUBSET GroupWorkers /\ GroupTypeOK
    BY <2>1 DEF GroupIInv, GroupTypeOK
  <2>3. UNCHANGED <<gate, handles, groupCloser, batch>> /\ groupCloser[c] = "aborting"
    BY <1>2 DEF AbortBatch
  <2>4. GroupTypeOK'
    BY <2>1, <2>2, <2>3, AbortingFacts DEF GroupTypeOK
  <2>5. Taken' /\ Known'
    BY <2>1, <2>2, <2>3, AbortingFacts DEF GroupIInv, Taken, Known
  <2>6. Joined'
    BY <2>1, <2>2, <2>3, AbortingFacts DEF GroupIInv, GroupTypeOK, Joined
  <2>7. NothingEscapes'
    BY <2>1, <2>2, <2>3, AbortingFacts DEF GroupIInv, GroupTypeOK, NothingEscapes, InHand
  <2>8. QED
    BY <2>4, <2>5, <2>6, <2>7 DEF GroupIInv
<1>3. QED
  BY <1>1, <1>2

LEMMA JoinStep ==
  ASSUME GroupIInv, NEW c \in GroupClosers, GroupJoin(c) \/ GroupAbandon(c)
  PROVE  GroupIInv'
<1>1. GroupTypeOK'
  BY DEF GroupIInv, GroupTypeOK, GroupJoin, GroupAbandon
<1>2. /\ UNCHANGED <<gate, handles, life, batch>>
      /\ groupCloser[c] = "joining" /\ groupCloser'[c] \in {"joining", "returned", "abandoned"}
      /\ \A d \in GroupClosers \ {c} : groupCloser'[d] = groupCloser[d] /\ left'[d] = left[d]
  BY DEF GroupIInv, GroupTypeOK, GroupJoin, GroupAbandon
<1>3. Taken' /\ Known'
  BY <1>2 DEF GroupIInv, Taken, Known, Alive
<1>4. Joined'
  BY DEF GroupIInv, GroupTypeOK, Joined, GroupJoin, GroupAbandon, Alive
<1>5. NothingEscapes'
  BY <1>2 DEF GroupIInv, NothingEscapes, InHand
<1>6. QED
  BY <1>1, <1>3, <1>4, <1>5 DEF GroupIInv

LEMMA NextGroupIInv == GroupIInv /\ [GroupNext]_groupVars => GroupIInv'
<1> SUFFICES ASSUME GroupIInv, [GroupNext]_groupVars PROVE GroupIInv'
  OBVIOUS
<1>1. ASSUME NEW w \in GroupWorkers, GroupSpawn(w) PROVE GroupIInv'
  BY <1>1, SpawnStep
<1>2. ASSUME NEW w \in GroupWorkers, End(w) \/ GroupAbortLands(w) PROVE GroupIInv'
  BY <1>2, EndStep
<1>3. ASSUME NEW c \in GroupClosers, GroupClose(c) PROVE GroupIInv'
  BY <1>3, CloseStep
<1>4. ASSUME NEW c \in GroupClosers, AbortBatch(c) PROVE GroupIInv'
  BY <1>4, AbortBatchStep
<1>5. ASSUME NEW c \in GroupClosers, GroupJoin(c) \/ GroupAbandon(c) PROVE GroupIInv'
  BY <1>5, JoinStep
<1>6. CASE Abort
  BY <1>6, AbortStep
<1>7. CASE DropGroup
  BY <1>7, DropStep
<1>8. CASE UNCHANGED groupVars
  BY <1>8 DEF GroupIInv, GroupTypeOK, Taken, Known, Joined, NothingEscapes, InHand, Alive, groupVars
<1>9. QED
  BY <1>1, <1>2, <1>3, <1>4, <1>5, <1>6, <1>7, <1>8 DEF GroupNext

\* What a caller finds when its shutdown returns follows from what all have taken.
LEMMA GroupIInvJoins == GroupIInv => GroupShutdownJoins /\ NothingIsForgotten
<1> SUFFICES ASSUME GroupIInv PROVE GroupShutdownJoins /\ NothingIsForgotten
  OBVIOUS
<1>1. ASSUME NEW c \in GroupClosers, groupCloser[c] = "returned", NEW w \in GroupWorkers, Alive(w)
      PROVE  \E d \in GroupClosers \ {c} :
               groupCloser[d] \in {"aborting", "joining", "abandoned"} /\ w \in batch[d]
  <2>1. PICK d \in GroupClosers : groupCloser[d] # "idle" /\ w \in batch[d]
    BY <1>1 DEF GroupIInv, Taken, Known
  <2>2. groupCloser[d] # "returned" /\ d # c
    BY <1>1, <2>1 DEF GroupIInv, Joined
  <2>3. QED
    BY <2>1, <2>2 DEF GroupIInv, GroupTypeOK
<1>2. QED
  BY <1>1, OpenFacts DEF GroupShutdownJoins, NothingIsForgotten

-----------------------------------------------------------------------------
(* The theorems *)

\* The types of TaskGroup's state.
THEOREM GroupTyping == GroupSpec => []GroupTypeOK
<1>1. GroupIInv => GroupTypeOK
  BY DEF GroupIInv
<1>2. QED
  BY InitGroupIInv, NextGroupIInv, <1>1, PTL DEF GroupSpec, GroupSafety

\* Behind the closed gate nothing runs that was not aborted or is about to be
\* (TaskGroup::spawn, abort, shutdown, Drop).
THEOREM EscapeTheorem == GroupSpec => []NothingEscapes
<1>1. GroupIInv => NothingEscapes
  BY DEF GroupIInv
<1>2. QED
  BY InitGroupIInv, NextGroupIInv, <1>1, PTL DEF GroupSpec, GroupSafety

\* A shutdown that returns leaves no worker but those of another caller
\* (TaskGroup::shutdown).
THEOREM JoinTheorem == GroupSpec => []GroupShutdownJoins
BY InitGroupIInv, NextGroupIInv, GroupIInvJoins, PTL DEF GroupSpec, GroupSafety

\* As long as the group is open it knows all workers that are not finished
\* (TaskGroup::spawn, abort, shutdown).
THEOREM KnownTheorem == GroupSpec => []NothingIsForgotten
BY InitGroupIInv, NextGroupIInv, GroupIInvJoins, PTL DEF GroupSpec, GroupSafety

\* No worker escapes its group, for any workers and callers (task.rs).
THEOREM KeptTheorem == GroupSpec => []WorkersAreKnown
BY GroupTyping, EscapeTheorem, KnownTheorem, JoinTheorem, PTL DEF WorkersAreKnown

-----------------------------------------------------------------------------
(* Counting places *)

\* The k-th of a finite set of numbers: there is one for each k, they increase, and
\* each number is one of them.
LEMMA KthFacts ==
  ASSUME NEW S, S \subseteq Nat, IsFiniteSet(S)
  PROVE  /\ Cardinality(S) \in Nat
         /\ \A k \in 1..Cardinality(S) : Kth(S, k) \in S
         /\ \A k \in 1..Cardinality(S) : Cardinality({j \in S : j <= Kth(S, k)}) = k
         /\ \A k, l \in 1..Cardinality(S) : k < l => Kth(S, k) < Kth(S, l)
         /\ \A i \in S : \E k \in 1..Cardinality(S) : Kth(S, k) = i
<1> DEFINE Upto(i) == {j \in S : j <= i}
           rank == [i \in S |-> Cardinality(Upto(i))]
           size == Cardinality(S)
<1>1. size \in Nat
  BY FS_CardinalityType
<1>2. ASSUME NEW i \in S
      PROVE  /\ IsFiniteSet(Upto(i)) /\ Cardinality(Upto(i)) \in Nat
             /\ Cardinality(Upto(i)) <= size /\ Cardinality(Upto(i)) > 0
  <2>1. Upto(i) \in SUBSET S /\ i \in Upto(i)
    BY <1>2
  <2>2. IsFiniteSet(Upto(i)) /\ Cardinality(Upto(i)) <= size
    BY <2>1, FS_Subset
  <2>3. Cardinality(Upto(i)) \in Nat
    BY <2>2, FS_CardinalityType
  <2>4. Cardinality(Upto(i)) # 0
    BY <2>1, <2>2, FS_EmptySet
  <2>5. QED
    BY <2>2, <2>3, <2>4
<1>3. ASSUME NEW i \in S, NEW j \in S, i < j PROVE Cardinality(Upto(i)) < Cardinality(Upto(j))
  <2>1. /\ Upto(i) \in SUBSET Upto(j) /\ j \in Upto(j) /\ j \notin Upto(i)
    <3>1. /\ i \in Nat /\ j \in Nat /\ j <= j /\ ~(j <= i)
          /\ \A x \in S : x \in Nat /\ (x <= i => x <= j)
      BY <1>3
    <3>2. QED
      BY <3>1
  <2>2. /\ Cardinality(Upto(i)) <= Cardinality(Upto(j))
        /\ Cardinality(Upto(j)) = Cardinality(Upto(i)) => Upto(j) = Upto(i)
    BY <1>2, <2>1, FS_Subset
  <2>3. Cardinality(Upto(j)) # Cardinality(Upto(i))
    BY <2>1, <2>2
  <2>4. QED
    BY <1>2, <2>2, <2>3
<1>4. rank \in [S -> 1..size]
  BY <1>1, <1>2
<1>5. \A i, j \in S : i # j => rank[i] # rank[j]
  <2>1. \A i \in S : rank[i] = Cardinality(Upto(i)) /\ rank[i] \in Nat /\ i \in Nat
    BY <1>2
  <2> HIDE DEF Upto, rank
  <2>2. \A i, j \in S : i < j => rank[i] < rank[j]
    BY <1>3, <2>1
  <2>3. QED
    BY <2>1, <2>2
<1>6. rank \in Surjection(S, 1..size)
  <2>1. rank \in Injection(S, 1..size)
    BY <1>4, <1>5 DEF Injection, IsInjective
  <2>2. IsFiniteSet(1..size) /\ Cardinality(1..size) = size
    BY <1>1, FS_Interval
  <2> HIDE DEF rank
  <2>3. QED
    BY <2>1, <2>2, FS_Injection
<1>7. \A k \in 1..size : \E i \in S : rank[i] = k
  BY <1>6 DEF Surjection
<1>8. \A k : Kth(S, k) = CHOOSE i \in S : Cardinality(Upto(i)) = k
  BY DEF Kth
<1>9. \A i \in S : rank[i] = Cardinality(Upto(i))
  OBVIOUS
<1> HIDE DEF Upto, rank
<1>10. \A k \in 1..size : Kth(S, k) \in S /\ rank[Kth(S, k)] = k
  <2> SUFFICES ASSUME NEW k \in 1..size PROVE Kth(S, k) \in S /\ rank[Kth(S, k)] = k
    OBVIOUS
  <2>1. \E i \in S : Cardinality(Upto(i)) = k
    BY <1>7, <1>9
  <2>2. Kth(S, k) \in S /\ Cardinality(Upto(Kth(S, k))) = k
    BY <1>8, <2>1, Zenon
  <2>3. QED
    BY <1>9, <2>2
<1>11. ASSUME NEW i \in S PROVE \E k \in 1..size : Kth(S, k) = i
  <2>1. rank[i] \in 1..size
    BY <1>4
  <2>2. Kth(S, rank[i]) \in S /\ rank[Kth(S, rank[i])] = rank[i]
    BY <1>10, <2>1
  <2>3. Kth(S, rank[i]) = i
    BY <1>5, <2>2
  <2>4. QED
    BY <2>1, <2>3
<1>12. ASSUME NEW k \in 1..size, NEW l \in 1..size, k < l PROVE Kth(S, k) < Kth(S, l)
  <2>1. /\ Kth(S, k) \in S /\ Kth(S, l) \in S /\ rank[Kth(S, k)] = k /\ rank[Kth(S, l)] = l
    BY <1>10
  <2>2. Kth(S, l) < Kth(S, k) => rank[Kth(S, l)] < rank[Kth(S, k)]
    BY <1>3, <1>9, <2>1
  <2>4. k \in Nat /\ l \in Nat /\ ~(l < k) /\ k # l
    BY <1>1, <1>12
  <2>3. Kth(S, k) # Kth(S, l) /\ Kth(S, k) \in Nat /\ Kth(S, l) \in Nat
    BY <2>1, <2>4
  <2>5. ~(Kth(S, l) < Kth(S, k))
    BY <2>1, <2>2, <2>4
  <2>6. QED
    BY <2>3, <2>5
<1>13. \A k \in 1..size : Cardinality(Upto(Kth(S, k))) = k
  BY <1>9, <1>10
<1>14. QED
  BY <1>1, <1>10, <1>11, <1>12, <1>13 DEF Upto

\* The order of the naturals, as a relation.
Less == {ss \in Nat \X Nat : ss[1] < ss[2]}

\* Every set of naturals has a least member.
LEMMA LeastElement ==
  ASSUME NEW S \in SUBSET Nat, S # {}
  PROVE  \E x \in S : \A y \in S : x <= y
<1>1. IsWellFoundedOn(Less, Nat)
  BY NatLessThanWellFounded DEF OpToRel, Less
<1>2. PICK x \in S : \A y \in S : ~ (<<y, x>> \in Less)
  BY <1>1, WFMin
<1>3. ASSUME NEW y \in S PROVE x <= y
  <2>1. x \in Nat /\ y \in Nat
    OBVIOUS
  <2>2. <<y, x>> \in Nat \X Nat
    BY <2>1
  <2>3. ~ (<<y, x>>[1] < <<y, x>>[2])
    BY <1>2, <2>2 DEF Less
  <2>4. QED
    BY <2>1, <2>3
<1>4. QED
  BY <1>2, <1>3

-----------------------------------------------------------------------------
(* RecentResults: what is left of a queue *)

\* One sequence has some places of another, in order.
Retains(s, q, S) ==
  \E r \in [1..Len(s) -> S] :
    /\ \A k \in 1..Len(s) : s[k] = q[r[k]]
    /\ \A k, l \in 1..Len(s) : k < l => r[k] < r[l]
    /\ \A i \in S : \E k \in 1..Len(s) : r[k] = i

\* A queue of which some places are kept.
LEMMA RetainedFacts ==
  ASSUME NEW T, NEW q \in Seq(T), NEW S, S \subseteq 1..Len(q)
  PROVE  Retained(q, S) \in Seq(T) /\ Retains(Retained(q, S), q, S)
<1>1. Len(q) \in Nat /\ S \subseteq Nat /\ \A i \in S : q[i] \in T
  OBVIOUS
<1>2. IsFiniteSet(1..Len(q)) /\ Cardinality(1..Len(q)) = Len(q)
  <2>1. 1 \in Int /\ Len(q) \in Int /\ (1 > Len(q) => Len(q) = 0) /\ Len(q) - 1 + 1 = Len(q)
    BY <1>1
  <2>2. QED
    BY <2>1, FS_Interval
<1>3. IsFiniteSet(S) /\ Cardinality(S) <= Len(q)
  BY <1>2, FS_Subset
<1> DEFINE size == Cardinality(S)
           r == [k \in 1..size |-> Kth(S, k)]
<1>4. /\ size \in Nat /\ \A k \in 1..size : Kth(S, k) \in S
      /\ \A k, l \in 1..size : k < l => Kth(S, k) < Kth(S, l)
      /\ \A i \in S : \E k \in 1..size : Kth(S, k) = i
  BY <1>1, <1>3, KthFacts
<1>5. Retained(q, S) = [k \in 1..size |-> q[Kth(S, k)]]
  BY DEF Retained
<1> HIDE DEF size
<1>6. Retained(q, S) \in [1..size -> T]
  BY <1>1, <1>4, <1>5
<1>7. Retained(q, S) \in Seq(T) /\ Len(Retained(q, S)) = size
  BY <1>4, <1>6
<1>8. /\ r \in [1..size -> S]
      /\ \A k \in 1..size : Retained(q, S)[k] = q[r[k]]
      /\ \A k, l \in 1..size : k < l => r[k] < r[l]
      /\ \A i \in S : \E k \in 1..size : r[k] = i
  BY <1>4, <1>5
<1> DEFINE s == Retained(q, S)
<1>9. s \in Seq(T) /\ Len(s) = size /\ \A k \in 1..size : s[k] = q[r[k]]
  BY <1>7, <1>8
<1> HIDE DEF r, s
<1>10. Retains(s, q, S)
  BY <1>8, <1>9 DEF Retains
<1>11. QED
  BY <1>9, <1>10 DEF s

-----------------------------------------------------------------------------
(* Recent results: the inductive invariant *)

EntryRecords == [id : Ids, owner : Owners, value : Nat, recorded : Nat]

\* The later records, in some history.
LaterIn(last, id) == {other \in Ids : last[other].value > last[id].value}

\* The ids that were recorded.
Recorded == {id \in Ids : latest[id].value > 0}

\* A queue has entries as the history has them, in its order, and whatever is later than
\* an entry that it has.
Holding(q, last) ==
  /\ q \in Seq(EntryRecords)
  /\ \A i \in 1..Len(q) :
       /\ last[q[i].id].value = q[i].value /\ q[i].value > 0
       /\ last[q[i].id].owner = q[i].owner /\ last[q[i].id].recorded = q[i].recorded
  /\ \A i, j \in 1..Len(q) : i < j => q[i].value < q[j].value
  /\ \A i \in 1..Len(q), id \in Ids :
       last[id].value > q[i].value => \E j \in 1..Len(q) : q[j].id = id

\* What was recorded and is not there has expired, or enough is later.
Excused(q, last, time) ==
  \A id \in Ids :
    last[id].value > 0 =>
      \/ \E i \in 1..Len(q) : q[i].id = id
      \/ Expired(last[id], time)
      \/ Cardinality(LaterIn(last, id)) >= limit

\* The parameters, and what the history of records is.
HistoryTypes ==
  /\ limit \in Nat /\ retention \in Nat \cup {Forever} /\ now \in Nat /\ records \in Nat
  /\ latest \in [Ids -> [owner : Owners \cup {Never.owner}, value : Nat, recorded : Nat]]
  /\ IsFiniteSet(Recorded)

HistoryInOrder ==
  /\ \A id \in Ids : /\ latest[id].value <= records /\ latest[id].recorded <= now
                     /\ latest[id].value = 0 => latest[id] = Never
  /\ \A a, b \in Ids : latest[a].value < latest[b].value => latest[a].recorded <= latest[b].recorded
  /\ \A a, b \in Ids : latest[a].value = latest[b].value /\ latest[a].value > 0 => a = b

ResultsIInv ==
  /\ HistoryTypes /\ HistoryInOrder /\ Holding(entries, latest) /\ Len(entries) <= limit
  /\ Excused(entries, latest, now) /\ LookupIsExact

-----------------------------------------------------------------------------
(* Queues and the history *)

\* As many ids are later than an entry as entries are behind it.
LEMMA LaterCount ==
  ASSUME NEW q, NEW last, Holding(q, last), NEW i \in 1..Len(q)
  PROVE  /\ IsFiniteSet(LaterIn(last, q[i].id))
         /\ Cardinality(LaterIn(last, q[i].id)) = Len(q) - i
<1>1. Len(q) \in Nat /\ i \in Nat /\ i <= Len(q) /\ \A j \in 1..Len(q) : q[j] \in EntryRecords
  BY DEF Holding
<1>2. \A j \in 1..Len(q) : /\ q[j].id \in Ids /\ q[j].value \in Nat
                           /\ last[q[j].id].value = q[j].value
  BY <1>1 DEF Holding, EntryRecords
<1> DEFINE T == LaterIn(last, q[i].id)
           behind == (i + 1)..Len(q)
           f == [j \in behind |-> q[j].id]
<1>3. \A j \in behind : j \in 1..Len(q) /\ j > i
  BY <1>1
<1>4. \A id \in T : id \in Ids /\ last[id].value > q[i].value
  BY <1>2 DEF LaterIn
<1>5. ASSUME NEW j \in behind PROVE q[j].id \in T
  <2>1. q[i].value < q[j].value
    BY <1>1, <1>3, <1>5 DEF Holding
  <2>2. last[q[j].id].value > last[q[i].id].value
    BY <1>2, <1>3, <1>5, <2>1
  <2>3. QED
    BY <1>2, <1>3, <1>5, <2>2 DEF LaterIn
<1>6. ASSUME NEW id \in T PROVE \E j \in behind : q[j].id = id
  <2>1. PICK j \in 1..Len(q) : q[j].id = id
    BY <1>4, <1>6 DEF Holding
  <2>2. q[j].value > q[i].value
    BY <1>2, <1>4, <1>6, <2>1
  <2>3. ~(j < i) /\ j # i
    <3>1. j < i => q[j].value < q[i].value
      BY DEF Holding
    <3>2. QED
      BY <1>2, <2>2, <3>1
  <2>4. j \in behind
    BY <1>1, <2>3
  <2>5. QED
    BY <2>1, <2>4
<1>7. f \in [behind -> T] /\ \A j \in behind : f[j] = q[j].id
  BY <1>5
<1>8. \A j, k \in behind : f[j] = f[k] => j = k
  <2>1. \A j, k \in 1..Len(q) : j < k => q[j].value < q[k].value
    BY DEF Holding
  <2>2. \A j, k \in 1..Len(q) : q[j].value = q[k].value => j = k
    BY <1>1, <1>2, <2>1
  <2>3. \A j, k \in behind : q[j].id = q[k].id => q[j].value = q[k].value
    BY <1>2, <1>3
  <2>4. QED
    BY <1>3, <1>7, <2>2, <2>3
<1>9. IsFiniteSet(behind) /\ Cardinality(behind) = Len(q) - i
  <2>1. i + 1 \in Int /\ Len(q) \in Int /\ Len(q) - (i + 1) + 1 = Len(q) - i
        /\ (i + 1 > Len(q) => Len(q) - i = 0)
    BY <1>1
  <2>2. QED
    BY <2>1, FS_Interval
<1> HIDE DEF behind, T, f
<1>10. f \in Surjection(behind, T)
  BY <1>6, <1>7 DEF Surjection
<1>11. f \in Injection(behind, T)
  BY <1>7, <1>8 DEF Injection, IsInjective
<1>12. IsFiniteSet(T) /\ Cardinality(T) = Cardinality(behind)
  BY <1>9, <1>10, <1>11, FS_Surjection
<1>13. QED
  BY <1>9, <1>12 DEF T

\* What is behind some place of a sequence.
IsTail(r, q, k) == Len(r) = Len(q) - k /\ \A i \in 1..Len(r) : r[i] = q[k + i]

\* The end of a queue is a queue.
LEMMA TailHolds ==
  ASSUME NEW q, NEW last, Holding(q, last), NEW k \in 0..Len(q)
  PROVE  LET r == SubSeq(q, k + 1, Len(q)) IN Holding(r, last) /\ IsTail(r, q, k)
<1> DEFINE r == SubSeq(q, k + 1, Len(q))
<1>0. r = SubSeq(q, k + 1, Len(q))
  OBVIOUS
<1> HIDE DEF r
<1>1. PICK n \in Nat : n = Len(q)
  BY DEF Holding
<1>2. /\ q \in Seq(EntryRecords) /\ k \in Nat /\ k <= n
      /\ \A j \in 1..n : q[j].value \in Nat
  <2>1. q \in Seq(EntryRecords) /\ \A j \in 1..n : q[j] \in EntryRecords
    BY <1>1 DEF Holding
  <2>2. k \in Nat /\ k <= n
    BY <1>1
  <2>3. QED
    BY <2>1, <2>2 DEF EntryRecords
<1>3. /\ r \in Seq(EntryRecords) /\ Len(r) = n - k /\ n - k \in Nat
      /\ \A i \in 1..(n - k) : r[i] = q[k + i]
  BY <1>0, <1>1, <1>2
<1>4. \A i \in 1..(n - k) : k + i \in 1..n
  BY <1>2
<1>5. \A j \in 1..n : j > k => j - k \in 1..(n - k) /\ r[j - k] = q[j]
  BY <1>2, <1>3
<1>6. \A i, j \in 1..n : i < j => q[i].value < q[j].value
  BY <1>1 DEF Holding
<1>7. ASSUME NEW i \in 1..(n - k), NEW id \in Ids, last[id].value > r[i].value
      PROVE  \E j \in 1..(n - k) : r[j].id = id
  <2>1. last[id].value > q[k + i].value
    BY <1>3, <1>7
  <2>2. PICK j \in 1..n : q[j].id = id
    BY <1>1, <1>4, <2>1 DEF Holding
  <2>3. last[id].value = q[j].value
    BY <1>1, <2>2 DEF Holding
  <2>4. k + i \in 1..n
    BY <1>4
  <2>5. j < k + i => q[j].value < q[k + i].value
    BY <1>6, <2>4
  <2>6. ~(j < k + i)
    BY <1>2, <2>1, <2>3, <2>4, <2>5
  <2>7. j > k
    BY <1>2, <2>6
  <2>8. QED
    BY <1>5, <2>2, <2>7
<1>8. \A i, j \in 1..(n - k) : i < j => r[i].value < r[j].value
  <2> SUFFICES ASSUME NEW i \in 1..(n - k), NEW j \in 1..(n - k), i < j
               PROVE  r[i].value < r[j].value
    OBVIOUS
  <2>1. k + i < k + j /\ k + i \in 1..n /\ k + j \in 1..n
    BY <1>2, <1>4
  <2>2. q[k + i].value < q[k + j].value
    BY <1>6, <2>1
  <2>3. QED
    BY <1>3, <2>2
<1>9. \A i \in 1..(n - k) :
        /\ last[r[i].id].value = r[i].value /\ r[i].value > 0
        /\ last[r[i].id].owner = r[i].owner /\ last[r[i].id].recorded = r[i].recorded
  BY <1>1, <1>3, <1>4 DEF Holding
<1>10. Holding(r, last)
  <2>1. Len(r) = n - k /\ r \in Seq(EntryRecords)
    BY <1>3
  <2>2. QED
    BY <1>7, <1>8, <1>9, <2>1 DEF Holding
<1>11. IsTail(r, q, k)
  BY <1>1, <1>3 DEF IsTail
<1>12. QED
  BY <1>10, <1>11 DEF r

\* What expired stays so, and what is older has expired too.
LEMMA ExpiredFacts ==
  ASSUME retention \in Nat \cup {Forever}, NEW e, NEW f, NEW s \in Int, NEW t \in Int, s <= t,
         e.recorded \in Nat, f.recorded \in Nat, e.recorded <= f.recorded, Expired(f, s)
  PROVE  Expired(e, t)
BY DEF Expired, Age, Forever

\* Pruning drops from the front just what has expired.
LEMMA PrunedFacts ==
  ASSUME HistoryTypes, HistoryInOrder, Holding(entries, latest), NEW time \in Int
  PROVE  \E k \in 0..Len(entries) :
           /\ Pruned(time) = SubSeq(entries, k + 1, Len(entries))
           /\ \A i \in 1..Len(entries) : i <= k <=> Expired(entries[i], time)
<1>1. PICK n \in Nat : n = Len(entries)
  BY DEF Holding
<1>2. entries \in Seq(EntryRecords) /\ DOMAIN entries = 1..n
  BY <1>1 DEF Holding
<1>3. \A i \in 1..n : /\ entries[i].recorded \in Nat /\ entries[i].id \in Ids
                      /\ entries[i].value \in Nat
  <2>1. \A i \in 1..n : entries[i] \in EntryRecords
    BY <1>1, <1>2
  <2>2. QED
    BY <2>1 DEF EntryRecords
<1>4. \A i, j \in 1..n : i <= j => entries[i].recorded <= entries[j].recorded
  <2>1. \A i, j \in 1..n : i < j => entries[i].value < entries[j].value
    BY <1>1 DEF Holding
  <2>2. \A i \in 1..n : /\ latest[entries[i].id].value = entries[i].value
                        /\ latest[entries[i].id].recorded = entries[i].recorded
    BY <1>1 DEF Holding
  <2>3. \A i, j \in 1..n : i < j => entries[i].recorded <= entries[j].recorded
    BY <1>3, <2>1, <2>2 DEF HistoryInOrder
  <2>4. QED
    BY <1>3, <2>3
<1>5. \A i, j \in 1..n : i <= j /\ Expired(entries[j], time) => Expired(entries[i], time)
  <2>1. time <= time
    OBVIOUS
  <2>2. retention \in Nat \cup {Forever}
    BY DEF HistoryTypes
  <2>3. QED
    BY <1>3, <1>4, <2>1, <2>2, ExpiredFacts
<1> DEFINE expired == {i \in 1..n : \A j \in 1..i : Expired(entries[j], time)}
           Fresh == {i \in Nat \ {0} : i \notin expired}
           skipped == IF expired = {} THEN 0 ELSE CHOOSE i \in expired : i + 1 \notin expired
<1>6. \A i \in 1..n : i \in expired <=> Expired(entries[i], time)
  BY <1>5
<1>7. Pruned(time) = SubSeq(entries, 1 + skipped, Len(entries))
  BY <1>2 DEF Pruned
<1>8. skipped \in 0..n /\ \A i \in 1..n : i <= skipped <=> i \in expired
  <2>1. CASE expired = {}
    BY <2>1
  <2>2. CASE expired # {}
    <3>1. Fresh \in SUBSET Nat /\ n + 1 \in Fresh
      OBVIOUS
    <3>2. PICK m \in Fresh : \A y \in Fresh : m <= y
      BY <3>1, LeastElement
    <3>3. 1 \in expired
      BY <2>2, <1>6, <1>5
    <3>4. /\ m \in Nat /\ m > 0 /\ m # 1 /\ m \notin expired
          /\ m - 1 \notin Fresh /\ m - 1 \in Nat \ {0}
      BY <3>2, <3>3
    <3>5. m - 1 \in expired /\ (m - 1) + 1 \notin expired
      BY <3>4
    <3> HIDE DEF expired
    <3>6. skipped \in expired /\ skipped + 1 \notin expired
      BY <2>2, <3>5
    <3>7. \A i \in expired : i \in 1..n
      BY DEF expired
    <3> HIDE DEF skipped
    <3>8. \A i \in 1..n : i <= skipped => i \in expired
      BY <1>5, <1>6, <3>6, <3>7
    <3>9. ASSUME NEW i \in 1..n, i \in expired, ~(i <= skipped) PROVE FALSE
      <4>1. skipped + 1 \in 1..n /\ skipped + 1 <= i
        BY <3>6, <3>7, <3>9
      <4>2. QED
        BY <1>5, <1>6, <3>6, <3>9, <4>1
    <3>10. QED
      BY <3>6, <3>7, <3>8, <3>9
  <2>3. QED
    BY <2>1, <2>2
<1> HIDE DEF skipped, expired
<1>9. 1 + skipped = skipped + 1
  BY <1>8
<1>10. QED
  BY <1>1, <1>6, <1>7, <1>8, <1>9

\* Pruning keeps a queue, and drops nothing that is not excused.
LEMMA PrunedHolds ==
  ASSUME HistoryTypes, HistoryInOrder, Holding(entries, latest), Excused(entries, latest, now),
         NEW time \in Int, time <= now
  PROVE  /\ Holding(Pruned(time), latest) /\ Excused(Pruned(time), latest, now)
         /\ Len(Pruned(time)) \in Nat /\ Len(Pruned(time)) <= Len(entries)
<1>1. PICK k \in 0..Len(entries) :
        /\ Pruned(time) = SubSeq(entries, k + 1, Len(entries))
        /\ \A i \in 1..Len(entries) : i <= k <=> Expired(entries[i], time)
  BY PrunedFacts
<1> DEFINE r == Pruned(time)
<1>2. r = SubSeq(entries, k + 1, Len(entries))
  BY <1>1
<1> HIDE DEF r
<1>3. /\ Holding(r, latest) /\ Len(r) = Len(entries) - k
      /\ \A i \in 1..Len(r) : r[i] = entries[k + i]
  <2>1. Holding(r, latest) /\ IsTail(r, entries, k)
    BY <1>2, TailHolds
  <2>2. QED
    BY <2>1 DEF IsTail
<1>4. PICK n \in Nat : n = Len(entries)
  BY DEF Holding
<1>5. Len(r) = n - k /\ Len(r) \in Nat /\ Len(r) <= n /\ k \in Nat
  BY <1>3, <1>4
<1>6. Excused(r, latest, now)
  <2> SUFFICES ASSUME NEW id \in Ids, latest[id].value > 0
               PROVE  \/ \E i \in 1..Len(r) : r[i].id = id
                      \/ Expired(latest[id], now)
                      \/ Cardinality(LaterIn(latest, id)) >= limit
    BY DEF Excused
  <2>1. CASE \E i \in 1..n : entries[i].id = id
    <3>1. PICK i \in 1..n : entries[i].id = id
      BY <2>1
    <3>2. CASE i <= k
      <4>1. Expired(entries[i], time)
        BY <1>1, <1>4, <3>2
      <4>2. entries[i].recorded = latest[id].recorded /\ latest[id].recorded \in Nat
        BY <1>4, <3>1 DEF Holding, HistoryTypes
      <4>3. retention \in Nat \cup {Forever} /\ now \in Int
        <5>1. retention \in Nat \cup {Forever} /\ now \in Nat
          BY Zenon DEF HistoryTypes
        <5>2. QED
          BY <5>1
      <4>6. latest[id].recorded <= entries[i].recorded
        BY <4>2
      <4>4. Expired(latest[id], now)
        BY <4>1, <4>2, <4>3, <4>6, ExpiredFacts
      <4>5. QED
        BY <4>4
    <3>3. CASE i > k
      <4>1. i - k \in 1..Len(r) /\ k + (i - k) = i
        BY <1>5, <3>3
      <4>2. r[i - k].id = id
        BY <1>3, <3>1, <4>1
      <4>3. QED
        BY <4>1, <4>2
    <3>4. QED
      BY <1>5, <3>2, <3>3
  <2>2. QED
    BY <1>4, <2>1 DEF Excused
<1>7. QED
  BY <1>3, <1>4, <1>5, <1>6 DEF r

\* What is left of a queue at most as long as the limit, once what has expired is gone:
\* the results that one may still ask for.
LEMMA KeptIsHeld ==
  ASSUME HistoryTypes, HistoryInOrder, Holding(entries, latest), Excused(entries, latest, now),
         Len(entries) <= limit, NEW id \in Ids
  PROVE  Kept(id) <=> \E i \in 1..Len(Pruned(now)) : Pruned(now)[i].id = id
<1>1. PICK k \in 0..Len(entries) :
        /\ Pruned(now) = SubSeq(entries, k + 1, Len(entries))
        /\ \A i \in 1..Len(entries) : i <= k <=> Expired(entries[i], now)
  <2>1. now \in Nat
    BY Zenon DEF HistoryTypes
  <2>2. now \in Int
    BY <2>1
  <2>3. QED
    BY <2>2, PrunedFacts
<1> DEFINE r == Pruned(now)
<1>2. r = SubSeq(entries, k + 1, Len(entries))
  BY <1>1
<1> HIDE DEF r
<1>3. /\ Holding(r, latest) /\ Len(r) = Len(entries) - k
      /\ \A i \in 1..Len(r) : r[i] = entries[k + i]
  <2>1. Holding(r, latest) /\ IsTail(r, entries, k)
    BY <1>2, TailHolds
  <2>2. QED
    BY <2>1 DEF IsTail
<1>4. PICK n \in Nat : n = Len(entries)
  BY DEF Holding
<1>5. Len(r) = n - k /\ Len(r) \in Nat /\ Len(r) <= n /\ k \in Nat
  BY <1>3, <1>4
<1>6. limit \in Nat /\ n <= limit /\ latest[id].value \in Nat
  BY <1>4 DEF HistoryTypes
<1>7. \A e, f : e.recorded = f.recorded => (Expired(e, now) <=> Expired(f, now))
  BY DEF Expired, Age
<1>8. Later(id) = LaterIn(latest, id)
  BY DEF Later, LaterIn
<1>9. ASSUME NEW i \in 1..Len(r), r[i].id = id PROVE Kept(id)
  <2>1. /\ latest[id].value = r[i].value /\ r[i].value > 0
        /\ latest[id].recorded = r[i].recorded
    BY <1>3, <1>9 DEF Holding
  <2>2. latest[id] # Never
    <3>1. latest[id].value # 0 /\ Never.value = 0
      BY <1>6, <2>1 DEF Never
    <3>2. QED
      BY <3>1
  <2>3. Cardinality(LaterIn(latest, r[i].id)) = Len(r) - i
    BY <1>3, LaterCount
  <2>4. Cardinality(Later(id)) < limit
    BY <1>5, <1>6, <1>8, <1>9, <2>3
  <2>5. k + i \in 1..n /\ ~(k + i <= k) /\ r[i] = entries[k + i]
    BY <1>3, <1>5
  <2>6. ~ Expired(r[i], now)
    BY <1>1, <1>4, <2>5
  <2>7. ~ Expired(latest[id], now)
    BY <1>7, <2>1, <2>6
  <2>8. QED
    BY <2>2, <2>4, <2>7 DEF Kept
<1>10. ASSUME Kept(id) PROVE \E i \in 1..Len(r) : r[i].id = id
  <2>1. latest[id].value # 0 /\ Cardinality(Later(id)) < limit /\ ~Expired(latest[id], now)
    BY <1>10 DEF Kept, HistoryInOrder
  <2>2. latest[id].value > 0
    BY <1>6, <2>1
  <2>3. Cardinality(Later(id)) >= limit => FALSE
    <3>1. IsFiniteSet(Later(id))
      <4>1. Later(id) \in SUBSET Recorded
        <5>1. \A o \in Ids : latest[o].value \in Nat
          BY DEF HistoryTypes
        <5>2. QED
          BY <1>6, <5>1 DEF Later, Recorded
      <4>2. QED
        BY <4>1, FS_Subset DEF HistoryTypes
    <3>2. QED
      BY <1>6, <2>1, <3>1, FS_CardinalityType
  <2>4. PICK i \in 1..n : entries[i].id = id
    BY <1>4, <1>8, <2>1, <2>2, <2>3 DEF Excused
  <2>5. entries[i].recorded = latest[id].recorded
    BY <1>4, <2>4 DEF Holding
  <2>6. ~(i <= k)
    BY <1>1, <1>4, <1>7, <2>1, <2>5
  <2>7. i - k \in 1..Len(r) /\ k + (i - k) = i
    BY <1>5, <2>6
  <2>8. QED
    BY <1>3, <2>4, <2>7
<1>11. QED
  BY <1>9, <1>10 DEF r

\* A lookup in a queue that holds entries of the history.
LEMMA FoundFacts ==
  ASSUME HistoryTypes, NEW q, Holding(q, latest), NEW id \in Ids, NEW owner \in Owners
  PROVE  Found(q, id, owner) =
           IF (\E i \in 1..Len(q) : q[i].id = id) /\ latest[id].owner = owner
           THEN latest[id].value ELSE 0
<1> DEFINE places == {i \in 1..Len(q) : q[i].id = id /\ q[i].owner = owner}
           first == CHOOSE i \in places : \A j \in places : i <= j
<1>1. \A i \in 1..Len(q) : q[i].id = id =>
        /\ latest[id].value = q[i].value /\ latest[id].owner = q[i].owner
  BY DEF Holding
<1>2. Found(q, id, owner) = IF places = {} THEN 0 ELSE q[first].value
  <2>1. DOMAIN q = 1..Len(q)
    BY DEF Holding
  <2>2. QED
    BY <2>1 DEF Found
<1>3. CASE places = {}
  BY <1>1, <1>2, <1>3
<1>4. CASE places # {}
  <2>1. places \in SUBSET Nat
    OBVIOUS
  <2>2. \E i \in places : \A j \in places : i <= j
    BY <1>4, <2>1, LeastElement
  <2>3. first \in places
    BY <2>2
  <2> HIDE DEF first
  <2>4. QED
    BY <1>1, <1>2, <1>4, <2>3
<1>5. QED
  BY <1>3, <1>4

\* Too long a queue loses what enough is later than.
LEMMA TrimmedHolds ==
  ASSUME limit \in Nat, NEW q, NEW last, NEW time, Holding(q, last), Excused(q, last, time)
  PROVE  /\ Holding(Trimmed(q), last) /\ Excused(Trimmed(q), last, time)
         /\ Len(Trimmed(q)) <= limit
<1>1. PICK n \in Nat : n = Len(q)
  BY DEF Holding
<1>2. CASE n > limit
  <2>0. PICK k \in 0..Len(q) : k = n - limit
    BY <1>1, <1>2
  <2> DEFINE r == SubSeq(q, k + 1, Len(q))
  <2>1. k \in Nat /\ Trimmed(q) = r
    BY <1>1, <1>2, <2>0 DEF Trimmed
  <2>2. r = SubSeq(q, k + 1, Len(q))
    OBVIOUS
  <2>3. Len(q) - k = limit
    BY <1>1, <2>0
  <2>4. \A i \in 1..n : i <= k => n - i >= limit
    BY <2>0
  <2>5. \A i \in 1..n : ~(i <= k) => i - k \in 1..limit /\ k + (i - k) = i
    BY <1>2, <2>0
  <2> HIDE DEF r
  <2>6. /\ Holding(r, last) /\ Len(r) = Len(q) - k
        /\ \A i \in 1..Len(r) : r[i] = q[k + i]
    <3>1. Holding(r, last) /\ IsTail(r, q, k)
      BY <2>2, TailHolds
    <3>2. QED
      BY <3>1 DEF IsTail
  <2>7. ASSUME NEW id \in Ids, last[id].value > 0
        PROVE  \/ \E i \in 1..Len(r) : r[i].id = id
               \/ Expired(last[id], time)
               \/ Cardinality(LaterIn(last, id)) >= limit
    <3>1. CASE \E i \in 1..n : q[i].id = id
      <4>1. PICK i \in 1..n : q[i].id = id
        BY <3>1
      <4>2. CASE i <= k
        <5>1. Cardinality(LaterIn(last, q[i].id)) = n - i
          BY <1>1, LaterCount
        <5>2. QED
          BY <2>4, <4>1, <4>2, <5>1
      <4>3. CASE ~(i <= k)
        <5>1. i - k \in 1..Len(r) /\ r[i - k] = q[i]
          BY <2>3, <2>5, <2>6, <4>3
        <5>2. QED
          BY <4>1, <5>1
      <4>4. QED
        BY <4>2, <4>3
    <3>2. QED
      BY <1>1, <2>7, <3>1 DEF Excused
  <2>8. Excused(r, last, time)
    BY <2>7 DEF Excused
  <2>9. QED
    BY <2>1, <2>3, <2>6, <2>8
<1>3. CASE ~(n > limit)
  BY <1>1, <1>3 DEF Trimmed
<1>4. QED
  BY <1>2, <1>3

\* A record goes behind what is there, in the place of the last one with its id.
LEMMA PlacedHolds ==
  ASSUME HistoryTypes, HistoryInOrder, NEW q, Holding(q, latest), Excused(q, latest, now),
         NEW id \in Ids, NEW owner \in Owners, NEW last,
         last = [latest EXCEPT ![id] = [owner |-> owner, value |-> records + 1, recorded |-> now]],
         IsFiniteSet({o \in Ids : last[o].value > 0})
  PROVE  LET placed == Placed(q, Entry(id, owner))
         IN Holding(placed, last) /\ Excused(placed, last, now)
<1> DEFINE e == Entry(id, owner)
           places == {i \in 1..Len(q) : q[i].id # id}
           others == Retained(q, places)
           size == Len(others)
           placed == Append(others, e)
<1>1. /\ e \in EntryRecords /\ e.id = id /\ e.value = records + 1 /\ e.owner = owner
      /\ e.recorded = now /\ records \in Nat
  <2>1. records \in Nat /\ now \in Nat
    BY Zenon DEF HistoryTypes
  <2>2. QED
    BY <2>1 DEF Entry, EntryRecords
<1>2. q \in Seq(EntryRecords) /\ DOMAIN q = 1..Len(q) /\ places \subseteq 1..Len(q)
  BY DEF Holding
<1>3. /\ others \in Seq(EntryRecords) /\ Len(others) = size /\ size \in Nat
      /\ \E r \in [1..size -> places] :
           /\ \A k \in 1..size : others[k] = q[r[k]]
           /\ \A k, l \in 1..size : k < l => r[k] < r[l]
           /\ \A i \in places : \E k \in 1..size : r[k] = i
  <2>1. places \subseteq 1..Len(q)
    OBVIOUS
  <2> HIDE DEF places
  <2>2. Retained(q, places) \in Seq(EntryRecords) /\ Retains(Retained(q, places), q, places)
    BY <1>2, <2>1, RetainedFacts
  <2> DEFINE kept == Retained(q, places)
  <2>3. kept \in Seq(EntryRecords) /\ Retains(kept, q, places)
    BY <2>2
  <2> HIDE DEF kept
  <2>4. Len(kept) \in Nat
    BY <2>3
  <2>5. QED
    BY <2>3, <2>4 DEF Retains, kept
<1>4. Placed(q, e) = placed
  BY <1>1, <1>2 DEF Placed
<1>5. \A i \in 1..Len(q) : q[i] \in EntryRecords /\ q[i].id \in Ids /\ q[i].value \in Nat
  <2>1. \A i \in 1..Len(q) : q[i] \in EntryRecords
    BY <1>2
  <2>2. QED
    BY <2>1 DEF EntryRecords
<1>6. \A i \in places : i \in 1..Len(q) /\ q[i].id # id
  OBVIOUS
<1>7. \A i \in 1..Len(q) : q[i].id # id => i \in places
  OBVIOUS
<1> HIDE DEF e, places, size, others
<1>8. /\ placed \in Seq(EntryRecords) /\ Len(placed) = size + 1 /\ placed[size + 1] = e
      /\ \A k \in 1..size : placed[k] = others[k]
  BY <1>1, <1>3
<1> HIDE DEF placed
<1>9. PICK r \in [1..size -> places] :
        /\ \A k \in 1..size : placed[k] = q[r[k]]
        /\ \A k, l \in 1..size : k < l => r[k] < r[l]
        /\ \A i \in places : \E k \in 1..size : r[k] = i
  BY <1>3, <1>8
<1>10. \A k \in 1..size : r[k] \in 1..Len(q) /\ q[r[k]].id # id /\ placed[k] = q[r[k]]
  BY <1>6, <1>9
<1>11. /\ last[id].value = records + 1 /\ last[id].owner = owner /\ last[id].recorded = now
       /\ \A o \in Ids : o # id => last[o] = latest[o]
  BY DEF HistoryTypes
<1>12. \A o \in Ids : latest[o].value \in Nat /\ latest[o].value <= records /\ last[o].value \in Nat
  <2>1. \A o \in Ids : latest[o].value \in Nat /\ latest[o].value <= records
    BY DEF HistoryTypes, HistoryInOrder
  <2>2. QED
    BY <1>1, <1>11, <2>1
<1>13. \A k \in 1..(size + 1) : k \in 1..size \/ k = size + 1
  BY <1>3
<1>14. \A i \in 1..Len(q) : i \in places => \E k \in 1..size : placed[k] = q[i]
  BY <1>9
<1>15. 1..size \subseteq 1..(size + 1) /\ size + 1 \in 1..(size + 1)
  BY <1>3
<1>16. Holding(placed, last)
  <2>1. ASSUME NEW k \in 1..size
        PROVE  /\ last[placed[k].id].value = placed[k].value /\ placed[k].value > 0
               /\ last[placed[k].id].owner = placed[k].owner
               /\ last[placed[k].id].recorded = placed[k].recorded
               /\ placed[k].value <= records /\ placed[k].value \in Nat
    <3>1. PICK i \in 1..Len(q) : i = r[k] /\ placed[k] = q[i] /\ q[i].id # id
      BY <1>10, <2>1
    <3>2. /\ latest[q[i].id].value = q[i].value /\ q[i].value > 0
          /\ latest[q[i].id].owner = q[i].owner /\ latest[q[i].id].recorded = q[i].recorded
      BY DEF Holding
    <3>3. q[i].id \in Ids /\ last[q[i].id] = latest[q[i].id]
      BY <1>5, <1>11, <3>1
    <3>4. QED
      BY <1>5, <1>12, <3>1, <3>2, <3>3
  <2>2. \A k \in 1..(size + 1) :
          /\ last[placed[k].id].value = placed[k].value /\ placed[k].value > 0
          /\ last[placed[k].id].owner = placed[k].owner
          /\ last[placed[k].id].recorded = placed[k].recorded
    BY <1>1, <1>8, <1>11, <1>13, <2>1
  <2>3. \A k, l \in 1..(size + 1) : k < l => placed[k].value < placed[l].value
    <3> SUFFICES ASSUME NEW k \in 1..(size + 1), NEW l \in 1..(size + 1), k < l
                 PROVE  placed[k].value < placed[l].value
      OBVIOUS
    <3>1. k \in 1..size
      BY <1>3
    <3>2. CASE l = size + 1
      BY <1>1, <1>8, <2>1, <3>1, <3>2
    <3>3. CASE l \in 1..size
      <4>1. r[k] < r[l] /\ r[k] \in 1..Len(q) /\ r[l] \in 1..Len(q)
        BY <1>9, <1>10, <3>1, <3>3
      <4>2. q[r[k]].value < q[r[l]].value
        BY <4>1 DEF Holding
      <4>3. QED
        BY <1>10, <3>1, <3>3, <4>2
    <3>4. QED
      BY <1>13, <3>2, <3>3
  <2>4. ASSUME NEW k \in 1..(size + 1), NEW o \in Ids, last[o].value > placed[k].value
        PROVE  \E l \in 1..(size + 1) : placed[l].id = o
    <3>1. CASE o = id
      BY <1>1, <1>8, <1>15, <3>1
    <3>2. CASE o # id
      <4>1. last[o].value = latest[o].value /\ latest[o].value <= records
        BY <1>11, <1>12, <3>2
      <4>2. k # size + 1
        BY <1>1, <1>8, <1>12, <2>4, <4>1
      <4>3. k \in 1..size /\ r[k] \in 1..Len(q) /\ placed[k] = q[r[k]]
        BY <1>10, <1>13, <4>2
      <4>4. PICK j \in 1..Len(q) : q[j].id = o
        BY <2>4, <4>1, <4>3 DEF Holding
      <4>5. PICK l \in 1..size : placed[l] = q[j]
        BY <1>7, <1>14, <3>2, <4>4
      <4>6. QED
        BY <1>15, <4>4, <4>5
    <3>3. QED
      BY <3>1, <3>2
  <2>5. QED
    BY <1>8, <2>2, <2>3, <2>4 DEF Holding
<1>17. Excused(placed, last, now)
  <2> SUFFICES ASSUME NEW o \in Ids, last[o].value > 0
               PROVE  \/ \E i \in 1..Len(placed) : placed[i].id = o
                      \/ Expired(last[o], now)
                      \/ Cardinality(LaterIn(last, o)) >= limit
    BY DEF Excused
  <2>1. CASE o = id
    BY <1>1, <1>8, <1>15, <2>1
  <2>2. CASE o # id
    <3>1. last[o] = latest[o]
      BY <1>11, <2>2
    <3>2. \/ \E i \in 1..Len(q) : q[i].id = o
          \/ Expired(latest[o], now)
          \/ Cardinality(LaterIn(latest, o)) >= limit
      BY <3>1 DEF Excused
    <3>3. ASSUME NEW i \in 1..Len(q), q[i].id = o PROVE \E k \in 1..Len(placed) : placed[k].id = o
      <4>1. PICK k \in 1..size : placed[k] = q[i]
        BY <1>7, <1>14, <2>2, <3>3
      <4>2. QED
        BY <1>8, <1>15, <3>3, <4>1
    <3>4. ASSUME Cardinality(LaterIn(latest, o)) >= limit
          PROVE  Cardinality(LaterIn(last, o)) >= limit
      <4>1. LaterIn(latest, o) \in SUBSET LaterIn(last, o)
        <5> SUFFICES ASSUME NEW x \in Ids, latest[x].value > latest[o].value
                     PROVE  last[x].value > last[o].value
          BY DEF LaterIn
        <5>1. CASE x = id
          BY <1>1, <1>11, <1>12, <3>1, <5>1
        <5>2. CASE x # id
          BY <1>11, <3>1, <5>2
        <5>3. QED
          BY <5>1, <5>2
      <4>2. LaterIn(last, o) \in SUBSET {x \in Ids : last[x].value > 0}
        BY <1>12 DEF LaterIn
      <4>3. IsFiniteSet(LaterIn(last, o))
        BY <4>2, FS_Subset
      <4>4. /\ IsFiniteSet(LaterIn(latest, o))
            /\ Cardinality(LaterIn(latest, o)) <= Cardinality(LaterIn(last, o))
        BY <4>1, <4>3, FS_Subset
      <4>5. /\ Cardinality(LaterIn(latest, o)) \in Nat /\ Cardinality(LaterIn(last, o)) \in Nat
            /\ limit \in Nat
        BY <4>3, <4>4, FS_CardinalityType DEF HistoryTypes
      <4>6. QED
        BY <3>4, <4>4, <4>5
    <3>5. QED
      BY <3>1, <3>2, <3>3, <3>4
  <2>3. QED
    BY <2>1, <2>2
<1>18. QED
  BY <1>4, <1>16, <1>17 DEF e

-----------------------------------------------------------------------------
(* The steps, and the theorem *)

\* At the start nothing was recorded.
LEMMA InitResults == ResultsInit => ResultsIInv
<1> SUFFICES ASSUME ResultsInit PROVE ResultsIInv
  OBVIOUS
<1>1. limit \in Nat /\ retention \in Nat \cup {Forever} /\ now \in Nat /\ records \in Nat
  BY ResultsConstants DEF ResultsInit
<1>2. \A id \in Ids : /\ latest[id] = Never /\ latest[id].value = 0 /\ latest[id].recorded = 0
                     /\ ~(latest[id].value > 0)
  <2>1. \A id \in Ids : latest[id] = Never
    BY DEF ResultsInit
  <2>2. Never.value = 0 /\ Never.recorded = 0
    BY DEF Never
  <2>3. QED
    BY <2>1, <2>2
<1>3. Recorded = {}
  BY <1>2 DEF Recorded
<1>4. HistoryTypes
  BY <1>1, <1>3, FS_EmptySet DEF ResultsInit, HistoryTypes, Never
<1>5. HistoryInOrder
  BY <1>1, <1>2 DEF ResultsInit, HistoryInOrder
<1>6. entries = <<>> /\ Len(entries) = 0
  BY DEF ResultsInit
<1>7. Holding(entries, latest)
  BY <1>6 DEF Holding
<1>8. Excused(entries, latest, now)
  BY <1>2 DEF Excused
<1>9. LookupIsExact
  BY DEF ResultsInit, LookupIsExact, Silent
<1>10. QED
  BY <1>1, <1>4, <1>5, <1>6, <1>7, <1>8, <1>9 DEF ResultsIInv

\* A result is recorded: behind the others, in the place of the last one of its id.
LEMMA RecordKeeps ==
  ASSUME ResultsIInv, NEW id \in Ids, NEW owner \in Owners, Record(id, owner)
  PROVE  ResultsIInv'
<1>0. PICK last : last = latest'
  OBVIOUS
<1>1. /\ HistoryTypes /\ HistoryInOrder /\ Holding(entries, latest) /\ Len(entries) <= limit
      /\ Excused(entries, latest, now)
  BY DEF ResultsIInv
<1>18. limit \in Nat /\ now \in Nat /\ records \in Nat
  BY <1>1, Zenon DEF HistoryTypes
<1>2. /\ limit' = limit /\ retention' = retention /\ now' = now /\ records' = records + 1
      /\ answer' = Silent /\ entries' = Trimmed(Placed(Pruned(now), Entry(id, owner)))
      /\ last = [latest EXCEPT ![id] = [owner |-> owner, value |-> records + 1,
                                           recorded |-> now]]
  BY <1>0 DEF Record, parameters
<1>3. \A o \in Ids : /\ latest[o].value \in Nat /\ latest[o].recorded \in Nat
                     /\ latest[o].value <= records /\ latest[o].recorded <= now
                     /\ latest[o].value = 0 => latest[o] = Never
  BY <1>1 DEF HistoryTypes, HistoryInOrder
<1> DEFINE Records == [owner : Owners \cup {Never.owner}, value : Nat, recorded : Nat]
           new == [owner |-> owner, value |-> records + 1, recorded |-> now]
<1>16. last \in [Ids -> Records] /\ last[id] = new /\ \A o \in Ids : o # id => last[o] = latest[o]
  <2>1. latest \in [Ids -> Records]
    BY <1>1, Zenon DEF HistoryTypes
  <2>2. new \in Records
    <3>1. owner \in Owners \cup {Never.owner} /\ records + 1 \in Nat /\ now \in Nat
      BY <1>18
    <3>2. QED
      BY <3>1
  <2>3. last = [latest EXCEPT ![id] = new]
    BY <1>2
  <2> HIDE DEF Records, new
  <2>4. QED
    BY <2>1, <2>2, <2>3
<1>17. new.value = records + 1 /\ new.recorded = now
  OBVIOUS
<1> HIDE DEF Records, new
<1>4. /\ last[id].value = records + 1 /\ last[id].recorded = now
      /\ \A o \in Ids : o # id => last[o] = latest[o]
  BY <1>16, <1>17
<1>5. IsFiniteSet(Recorded')
  <2>1. Recorded' = Recorded \cup {id}
    BY <1>0, <1>3, <1>4, <1>18 DEF Recorded
  <2>2. IsFiniteSet(Recorded)
    BY <1>1 DEF HistoryTypes
  <2>3. QED
    BY <2>1, <2>2, FS_AddElement
<1>6. HistoryTypes'
  BY <1>0, <1>1, <1>2, <1>16, <1>18, <1>5 DEF HistoryTypes, Records
<1>7. HistoryInOrder'
  <2>1. ASSUME NEW o \in Ids, o # id
        PROVE  /\ last[o].value \in Nat /\ last[o].value <= records /\ last[o].recorded \in Nat
               /\ last[o].recorded <= now /\ (last[o].value = 0 => last[o] = Never)
    <3>1. last[o] = latest[o]
      BY <1>4, <2>1
    <3>2. /\ latest[o].value \in Nat /\ latest[o].value <= records
          /\ latest[o].recorded \in Nat /\ latest[o].recorded <= now
          /\ (latest[o].value = 0 => latest[o] = Never)
      BY <1>3
    <3>3. QED
      BY <3>1, <3>2, Zenon
  <2>2. /\ last[id].value = records + 1 /\ last[id].recorded = now
        /\ last[id].value \in Nat /\ last[id].recorded \in Nat /\ last[id].value # 0
    BY <1>4, <1>18
  <2>3. ASSUME NEW o \in Ids
        PROVE  /\ last[o].value <= records + 1 /\ last[o].recorded <= now
               /\ (last[o].value = 0 => last[o] = Never)
    <3>1. CASE o = id
      BY <1>18, <2>2, <3>1
    <3>2. CASE o # id
      <4>1. /\ last[o].value \in Nat /\ last[o].value <= records /\ last[o].recorded <= now
            /\ (last[o].value = 0 => last[o] = Never)
        BY <2>1, <3>2
      <4>2. QED
        BY <1>18, <4>1
    <3>3. QED
      BY <3>1, <3>2
  <2>4. ASSUME NEW a \in Ids, NEW b \in Ids, last[a].value < last[b].value
        PROVE  last[a].recorded <= last[b].recorded
    <3>1. CASE b = id
      BY <2>2, <2>3, <3>1
    <3>2. CASE b # id /\ a = id
      <4>1. last[b].value \in Nat /\ last[b].value <= records
        BY <2>1, <3>2
      <4>2. QED
        BY <1>18, <2>2, <2>4, <3>2, <4>1
    <3>3. CASE b # id /\ a # id
      <4>1. last[a] = latest[a] /\ last[b] = latest[b]
        BY <1>4, <3>3
      <4>2. latest[a].value < latest[b].value
        BY <2>4, <4>1
      <4>3. latest[a].recorded <= latest[b].recorded
        BY <1>1, <4>2 DEF HistoryInOrder
      <4>4. QED
        BY <4>1, <4>3
    <3>4. QED
      BY <3>1, <3>2, <3>3
  <2>5. ASSUME NEW o \in Ids, o # id PROVE last[o].value # last[id].value
    <3>1. last[o].value \in Nat /\ last[o].value <= records
      BY <2>1, <2>5
    <3>2. QED
      BY <1>18, <2>2, <3>1
  <2>6. ASSUME NEW a \in Ids, NEW b \in Ids, a # b, last[a].value = last[b].value,
               last[a].value > 0
        PROVE  FALSE
    <3>1. a # id /\ b # id
      BY <2>5, <2>6
    <3>2. last[a] = latest[a] /\ last[b] = latest[b]
      BY <1>4, <3>1
    <3>3. QED
      BY <1>1, <2>6, <3>2 DEF HistoryInOrder
  <2>7. QED
    BY <1>0, <1>2, <2>3, <2>4, <2>6 DEF HistoryInOrder
<1>8. Holding(Pruned(now), latest) /\ Excused(Pruned(now), latest, now)
  <2>1. now \in Int /\ now <= now
    BY <1>18
  <2>2. QED
    BY <1>1, <2>1, PrunedHolds
<1> DEFINE placed == Placed(Pruned(now), Entry(id, owner))
<1>9. Holding(placed, last) /\ Excused(placed, last, now)
  <2>1. IsFiniteSet({o \in Ids : last[o].value > 0})
    BY <1>0, <1>5 DEF Recorded
  <2>2. QED
    BY <1>1, <1>2, <1>8, <2>1, PlacedHolds
<1> HIDE DEF placed
<1>10. /\ Holding(Trimmed(placed), last) /\ Excused(Trimmed(placed), last, now)
       /\ Len(Trimmed(placed)) <= limit
  BY <1>18, <1>9, TrimmedHolds
<1>11. entries' = Trimmed(placed)
  BY <1>2 DEF placed
<1>12. Holding(entries, latest)' /\ Len(entries)' <= limit'
  BY <1>0, <1>2, <1>10, <1>11
<1>13. Excused(entries, latest, now)'
  BY <1>0, <1>2, <1>10, <1>11 DEF Excused, Expired, Age
<1>14. LookupIsExact'
  BY <1>2 DEF LookupIsExact, Silent
<1>15. QED
  BY <1>6, <1>7, <1>12, <1>13, <1>14 DEF ResultsIInv

\* A step that leaves all but the queue and the answer.
LEMMA QueueSteps ==
  ASSUME ResultsIInv, NEW time \in Int, time <= now, entries' = Pruned(time),
         UNCHANGED <<parameters, now, history>>, LookupIsExact'
  PROVE  ResultsIInv'
<1>1. /\ HistoryTypes /\ HistoryInOrder /\ Holding(entries, latest) /\ Len(entries) <= limit
      /\ Excused(entries, latest, now) /\ limit \in Nat /\ Len(entries) \in Nat
  <2>1. /\ HistoryTypes /\ HistoryInOrder /\ Holding(entries, latest) /\ Len(entries) <= limit
        /\ Excused(entries, latest, now)
    BY DEF ResultsIInv
  <2>2. limit \in Nat
    BY <2>1, Zenon DEF HistoryTypes
  <2>3. Len(entries) \in Nat
    BY <2>1 DEF Holding
  <2>4. QED
    BY <2>1, <2>2, <2>3
<1>2. /\ limit' = limit /\ retention' = retention /\ now' = now /\ records' = records
      /\ latest' = latest
  BY DEF parameters, history
<1>3. /\ Holding(Pruned(time), latest) /\ Excused(Pruned(time), latest, now)
      /\ Len(Pruned(time)) \in Nat /\ Len(Pruned(time)) <= Len(entries)
  BY <1>1, PrunedHolds
<1>4. HistoryTypes' /\ HistoryInOrder'
  BY <1>1, <1>2 DEF HistoryTypes, HistoryInOrder, Recorded
<1>5. Holding(entries, latest)' /\ Len(entries)' <= limit'
  BY <1>1, <1>2, <1>3
<1>6. Excused(entries, latest, now)'
  BY <1>2, <1>3 DEF Excused, Expired, Age
<1>7. QED
  BY <1>4, <1>5, <1>6 DEF ResultsIInv

\* A lookup, which prunes first.
LEMMA GetOwnedKeeps ==
  ASSUME ResultsIInv, NEW id \in Ids, NEW owner \in Owners, GetOwned(id, owner)
  PROVE  ResultsIInv'
<1>1. /\ HistoryTypes /\ HistoryInOrder /\ Holding(entries, latest) /\ Len(entries) <= limit
      /\ Excused(entries, latest, now)
  BY DEF ResultsIInv
<1>2. now \in Nat
  BY <1>1, Zenon DEF HistoryTypes
<1>3. now \in Int /\ now <= now
  BY <1>2
<1>4. Holding(Pruned(now), latest)
  BY <1>1, <1>3, PrunedHolds
<1>5. Found(Pruned(now), id, owner) =
        IF (\E i \in 1..Len(Pruned(now)) : Pruned(now)[i].id = id) /\ latest[id].owner = owner
        THEN latest[id].value ELSE 0
  BY <1>1, <1>4, FoundFacts
<1>6. Kept(id) <=> \E i \in 1..Len(Pruned(now)) : Pruned(now)[i].id = id
  BY <1>1, KeptIsHeld
<1>7. /\ limit' = limit /\ retention' = retention /\ now' = now /\ records' = records
      /\ latest' = latest
  BY DEF GetOwned, parameters, history
<1>8. Kept(id)' <=> Kept(id)
  BY <1>7 DEF Kept, Later, Expired, Age
<1>9. /\ answer'.id = id /\ answer'.owner = owner
      /\ answer'.value = Found(Pruned(now), id, owner)
  BY DEF GetOwned
<1>10. Kept(answer.id)' <=> Kept(id)'
  BY <1>9 DEF Kept, Later, Expired, Age
<1>11. LookupIsExact'
  BY <1>5, <1>6, <1>7, <1>8, <1>9, <1>10 DEF LookupIsExact
<1>12. entries' = Pruned(now) /\ UNCHANGED <<parameters, now, history>>
  BY DEF GetOwned
<1>13. QED
  BY <1>3, <1>11, <1>12, QueueSteps

\* As time passes, what has expired stays so.
LEMMA TickKeeps == ResultsIInv /\ Tick => ResultsIInv'
<1> SUFFICES ASSUME ResultsIInv, Tick PROVE ResultsIInv'
  OBVIOUS
<1>1. /\ HistoryTypes /\ HistoryInOrder /\ Holding(entries, latest) /\ Len(entries) <= limit
      /\ Excused(entries, latest, now)
  BY DEF ResultsIInv
<1>2. /\ limit' = limit /\ retention' = retention /\ now' = now + 1 /\ records' = records
      /\ latest' = latest /\ entries' = entries /\ answer' = Silent
  BY DEF Tick, parameters, history
<1>3. now \in Nat /\ retention \in Nat \cup {Forever}
  BY <1>1, Zenon DEF HistoryTypes
<1>4. HistoryTypes'
  <2>1. now' \in Nat
    BY <1>2, <1>3
  <2>2. QED
    BY <1>1, <1>2, <2>1, Zenon DEF HistoryTypes, Recorded
<1>5. \A id \in Ids : latest[id].recorded \in Nat
  BY <1>1 DEF HistoryTypes
<1>6. HistoryInOrder'
  BY <1>1, <1>2, <1>3, <1>5 DEF HistoryInOrder
<1>7. \A id \in Ids : Expired(latest[id], now) => Expired(latest[id], now)'
  <2> SUFFICES ASSUME NEW id \in Ids, Expired(latest[id], now) PROVE Expired(latest[id], now)'
    OBVIOUS
  <2>1. now \in Int /\ now + 1 \in Int /\ now <= now + 1
    BY <1>3
  <2>2. latest[id].recorded \in Nat /\ latest[id].recorded <= latest[id].recorded
    BY <1>5
  <2>3. Expired(latest[id], now + 1)
    BY <1>3, <2>1, <2>2, ExpiredFacts
  <2>4. QED
    BY <1>2, <2>3 DEF Expired, Age
<1>8. Excused(entries, latest, now)'
  BY <1>1, <1>2, <1>7 DEF Excused
<1>9. LookupIsExact'
  BY <1>2 DEF LookupIsExact, Silent
<1>10. Holding(entries, latest)' /\ Len(entries)' <= limit'
  BY <1>1, <1>2
<1>11. QED
  BY <1>4, <1>6, <1>8, <1>9, <1>10 DEF ResultsIInv

\* Every step.
LEMMA NextResults == ResultsIInv /\ [ResultsNext]_resultsVars => ResultsIInv'
<1> SUFFICES ASSUME ResultsIInv, [ResultsNext]_resultsVars PROVE ResultsIInv'
  OBVIOUS
<1>1. now \in Nat
  BY Zenon DEF ResultsIInv, HistoryTypes
<1>2. ASSUME NEW time \in {now - 1, now}, Prune(time) PROVE ResultsIInv'
  <2>1. time \in Int /\ time <= now
    BY <1>1
  <2>2. LookupIsExact'
    BY <1>2 DEF Prune, LookupIsExact, Silent
  <2>3. entries' = Pruned(time) /\ UNCHANGED <<parameters, now, history>>
    BY <1>2 DEF Prune
  <2>4. QED
    BY <2>1, <2>2, <2>3, QueueSteps
<1>3. CASE UNCHANGED resultsVars
  BY <1>3 DEF resultsVars, parameters, history, ResultsIInv, HistoryTypes, HistoryInOrder, Recorded,
              Holding, Excused, LookupIsExact, LaterIn, Kept, Later, Expired, Age
<1>4. QED
  BY <1>2, <1>3, RecordKeeps, GetOwnedKeeps, TickKeeps DEF ResultsNext

\* A lookup finds the last result recorded for an id and an owner, if it is young enough
\* and less than the limit are newer, and nothing else; and results are in the order of
\* time that prune relies on (operation.rs lines 130 to 163).
THEOREM ResultsTheorem == ResultsSpec => []ResultsAreExact
<1>1. ResultsIInv => ResultsAreExact
  <2>1. Holding(entries, latest) => OldestFirst
    BY DEF Holding, OldestFirst
  <2>2. QED
    BY <2>1 DEF ResultsIInv, ResultsAreExact
<1>2. QED
  BY InitResults, NextResults, <1>1, PTL DEF ResultsSpec

-----------------------------------------------------------------------------
(* Frames: parts of the stream *)

N == Len(input)

\* A sequence is what the stream has from one position to another.
Cut(s, a, b) ==
  /\ s \in Seq(Symbols) /\ Len(s) = b - a + 1
  /\ \A i \in 1..(b - a + 1) : s[i] = input[a + i - 1]

\* A part of the stream is cut from it,
LEMMA PartIsCut ==
  ASSUME input \in Seq(Symbols), NEW a \in Nat \ {0}, NEW b \in Nat, a <= b + 1, b <= N
  PROVE  Cut(SubSeq(input, a, b), a, b)
<1>1. \A i \in a..b : input[i] \in Symbols
  <2>1. \A i \in a..b : i \in 1..Len(input)
    BY DEF N
  <2>2. QED
    BY <2>1
<1> DEFINE s == SubSeq(input, a, b)
<1>2. /\ s \in Seq(Symbols) /\ Len(s) = (IF a <= b THEN b - a + 1 ELSE 0)
      /\ \A i \in 1..(b - a + 1) : s[i] = input[a + i - 1]
  BY <1>1, SubSeqProperties
<1> HIDE DEF s
<1>3. Cut(s, a, b)
  BY <1>2 DEF Cut
<1>4. QED
  BY <1>3 DEF s

\* and nothing else is.
LEMMA CutIsUnique ==
  ASSUME NEW a, NEW b, NEW s, NEW t, Cut(s, a, b), Cut(t, a, b)
  PROVE  s = t
<1>1. /\ s \in Seq(Symbols) /\ t \in Seq(Symbols) /\ Len(s) = Len(t)
      /\ \A i \in 1..Len(s) : s[i] = t[i]
  BY DEF Cut
<1>2. QED
  BY <1>1, SeqEqual

\* One part behind another.
LEMMA CutsJoin ==
  ASSUME NEW a \in Nat, NEW b \in Nat, NEW c \in Nat, a <= b + 1, b <= c,
         NEW s, NEW t, Cut(s, a, b), Cut(t, b + 1, c)
  PROVE  Cut(s \o t, a, c)
<1>1. /\ s \in Seq(Symbols) /\ t \in Seq(Symbols) /\ Len(s) = b - a + 1 /\ Len(t) = c - b
      /\ \A i \in 1..(b - a + 1) : s[i] = input[a + i - 1]
      /\ \A i \in 1..(c - b) : t[i] = input[(b + 1) + i - 1]
  <2>1. c - (b + 1) + 1 = c - b
    OBVIOUS
  <2>2. QED
    BY <2>1 DEF Cut
<1> DEFINE u == s \o t
<1>2. /\ u \in Seq(Symbols) /\ Len(u) = c - a + 1
      /\ \A i \in 1..(c - a + 1) : u[i] = IF i <= b - a + 1 THEN s[i] ELSE t[i - (b - a + 1)]
  <2>1. /\ u \in Seq(Symbols) /\ Len(u) = Len(s) + Len(t)
        /\ \A i \in 1..Len(s) + Len(t) : u[i] = IF i <= Len(s) THEN s[i] ELSE t[i - Len(s)]
    <3>1. s \in Seq(Symbols) /\ t \in Seq(Symbols)
      BY <1>1
    <3>2. QED
      BY <3>1, ConcatProperties
  <2>2. Len(s) + Len(t) = c - a + 1 /\ Len(s) = b - a + 1
    BY <1>1
  <2> HIDE DEF u
  <2>3. QED
    BY <2>1, <2>2
<1> HIDE DEF u
<1>3. ASSUME NEW i \in 1..(c - a + 1) PROVE u[i] = input[a + i - 1]
  <2>1. CASE i <= b - a + 1
    BY <1>1, <1>2, <2>1
  <2>2. CASE ~(i <= b - a + 1)
    <3>1. /\ i - (b - a + 1) \in 1..(c - b)
          /\ (b + 1) + (i - (b - a + 1)) - 1 = a + i - 1
      BY <2>2
    <3>2. t[i - (b - a + 1)] = input[(b + 1) + (i - (b - a + 1)) - 1]
      BY <1>1, <3>1
    <3>3. QED
      BY <1>2, <2>2, <3>1, <3>2
  <2>3. QED
    BY <2>1, <2>2
<1>4. Cut(u, a, c)
  BY <1>2, <1>3 DEF Cut
<1>5. QED
  BY <1>4 DEF u

\* The front and the end of a part.
LEMMA CutParts ==
  ASSUME NEW a \in Nat, NEW b \in Nat, a <= b + 1, NEW s, Cut(s, a, b), NEW m \in 0..(b - a + 1)
  PROVE  /\ Cut(SubSeq(s, 1, m), a, a + m - 1)
         /\ Cut(SubSeq(s, m + 1, Len(s)), a + m, b)
<1>1. /\ s \in Seq(Symbols) /\ Len(s) = b - a + 1 /\ Len(s) \in Nat /\ m \in Nat /\ m <= Len(s)
      /\ \A i \in 1..(b - a + 1) : s[i] = input[a + i - 1] /\ s[i] \in Symbols
  BY DEF Cut
<1>2. Cut(SubSeq(s, 1, m), a, a + m - 1)
  <2>1. \A i \in 1..m : s[i] \in Symbols
    BY <1>1
  <2> DEFINE f == SubSeq(s, 1, m)
  <2>2. /\ f \in Seq(Symbols) /\ Len(f) = (IF 1 <= m THEN m - 1 + 1 ELSE 0)
        /\ \A i \in 1..(m - 1 + 1) : f[i] = s[1 + i - 1]
    BY <1>1, <2>1, SubSeqProperties
  <2> HIDE DEF f
  <2>3. /\ f \in Seq(Symbols) /\ Len(f) = (a + m - 1) - a + 1
        /\ \A i \in 1..((a + m - 1) - a + 1) : i \in 1..(b - a + 1) /\ f[i] = s[i]
    BY <1>1, <2>2
  <2>4. Cut(f, a, a + m - 1)
    BY <1>1, <2>3 DEF Cut
  <2>5. QED
    BY <2>4 DEF f
<1>3. Cut(SubSeq(s, m + 1, Len(s)), a + m, b)
  <2>1. \A i \in (m + 1)..Len(s) : s[i] \in Symbols
    BY <1>1
  <2> DEFINE e == SubSeq(s, m + 1, Len(s))
  <2>2. /\ e \in Seq(Symbols)
        /\ Len(e) = (IF m + 1 <= Len(s) THEN Len(s) - (m + 1) + 1 ELSE 0)
        /\ \A i \in 1..(Len(s) - (m + 1) + 1) : e[i] = s[(m + 1) + i - 1]
    <3>1. m + 1 \in Int /\ Len(s) \in Int
      BY <1>1
    <3>2. QED
      BY <2>1, <3>1, SubSeqProperties
  <2> HIDE DEF e
  <2>3. e \in Seq(Symbols) /\ Len(e) = b - (a + m) + 1
    BY <1>1, <2>2
  <2>4. ASSUME NEW i \in 1..(b - (a + m) + 1) PROVE e[i] = input[(a + m) + i - 1]
    <3>1. /\ i \in 1..(Len(s) - (m + 1) + 1) /\ (m + 1) + i - 1 \in 1..(b - a + 1)
          /\ a + ((m + 1) + i - 1) - 1 = (a + m) + i - 1
      BY <1>1
    <3>2. e[i] = s[(m + 1) + i - 1] /\ s[(m + 1) + i - 1] = input[a + ((m + 1) + i - 1) - 1]
      BY <1>1, <2>2, <3>1
    <3>3. QED
      BY <3>1, <3>2
  <2>5. Cut(e, a + m, b)
    BY <2>3, <2>4 DEF Cut
  <2>6. QED
    BY <2>5 DEF e
<1>4. QED
  BY <1>2, <1>3

-----------------------------------------------------------------------------
(* Where records start *)

\* A record starts at a position that only a newline can be right before, and there is
\* none between.
IsStart(a, i) ==
  /\ a \in 1..i /\ (a = 1 \/ a - 1 \in Newlines)
  /\ \A j \in Newlines : ~(a <= j /\ j < i)

\* It does,
LEMMA StartFacts ==
  ASSUME input \in Seq(Symbols), NEW i \in Nat \ {0}
  PROVE  IsStart(StartOf(i), i)
<1>1. Newlines \subseteq Nat \ {0}
  BY DEF Newlines
<1>2. CASE ~ \E j \in Newlines : j < i
  <2>1. StartOf(i) = 1
    BY <1>2 DEF StartOf
  <2>2. QED
    BY <1>1, <1>2, <2>1 DEF IsStart
<1>3. CASE \E j \in Newlines : j < i
  <2> DEFINE Back == {d \in Nat : i - d \in Newlines /\ d > 0}
             top == CHOOSE j \in Newlines : j < i /\ \A k \in Newlines : k < i => k <= j
  <2>1. Back \in SUBSET Nat /\ Back # {}
    <3>1. PICK j \in Newlines : j < i
      BY <1>3
    <3>2. i - j \in Nat /\ i - j > 0 /\ i - (i - j) = j
      BY <1>1, <3>1
    <3>3. i - j \in Back
      BY <3>1, <3>2
    <3>4. QED
      BY <3>3
  <2>2. PICK d \in Back : \A e \in Back : d <= e
    BY <2>1, LeastElement
  <2>3. i - d \in Newlines /\ i - d < i /\ d \in Nat
    OBVIOUS
  <2>4. ASSUME NEW k \in Newlines, k < i PROVE k <= i - d
    <3>1. i - k \in Nat /\ i - k > 0 /\ i - (i - k) = k /\ k \in Nat
      BY <1>1, <2>4
    <3>2. i - k \in Back
      BY <3>1
    <3>3. d <= i - k
      BY <2>2, <3>2
    <3>4. QED
      BY <2>3, <3>1, <3>3
  <2> HIDE DEF Back
  <2>5. top \in Newlines /\ top < i /\ \A k \in Newlines : k < i => k <= top
    <3>1. \E j \in Newlines : j < i /\ \A k \in Newlines : k < i => k <= j
      BY <2>3, <2>4
    <3>2. QED
      BY <3>1, Zenon
  <2>6. StartOf(i) = 1 + top
    BY <1>3 DEF StartOf
  <2> HIDE DEF top
  <2>7. top \in Nat \ {0}
    BY <1>1, <2>5
  <2>8. 1 + top \in 1..i /\ (1 + top) - 1 = top
    BY <2>5, <2>7
  <2>9. \A j \in Newlines : ~(1 + top <= j /\ j < i)
    BY <1>1, <2>5, <2>7
  <2>10. QED
    BY <2>5, <2>6, <2>8, <2>9 DEF IsStart
<1>4. QED
  BY <1>2, <1>3

\* and nowhere else.
LEMMA StartIsUnique ==
  ASSUME input \in Seq(Symbols), NEW i \in Nat \ {0}, NEW a, IsStart(a, i)
  PROVE  StartOf(i) = a
<1>1. PICK s : s = StartOf(i)
  OBVIOUS
<1>2. s \in 1..i /\ (s = 1 \/ s - 1 \in Newlines) /\ \A j \in Newlines : ~(s <= j /\ j < i)
  BY <1>1, StartFacts DEF IsStart
<1>3. a \in 1..i /\ (a = 1 \/ a - 1 \in Newlines) /\ \A j \in Newlines : ~(a <= j /\ j < i)
  BY DEF IsStart
<1>4. ~(s < a) /\ ~(a < s)
  BY <1>2, <1>3
<1>5. QED
  BY <1>1, <1>2, <1>3, <1>4

\* It is the same as long as there is no newline.
LEMMA StartStays ==
  ASSUME input \in Seq(Symbols), NEW i \in Nat \ {0}, NEW k \in Nat, i <= k,
         \A j \in Newlines : ~(i <= j /\ j < k)
  PROVE  StartOf(k) = StartOf(i)
<1>1. PICK s : s = StartOf(i)
  OBVIOUS
<1>2. s \in 1..i /\ (s = 1 \/ s - 1 \in Newlines) /\ \A j \in Newlines : ~(s <= j /\ j < i)
  BY <1>1, StartFacts DEF IsStart
<1>3. Newlines \subseteq Nat
  BY DEF Newlines
<1>4. s \in 1..k /\ \A j \in Newlines : ~(s <= j /\ j < k)
  BY <1>2, <1>3
<1>5. IsStart(s, k) /\ k \in Nat \ {0}
  BY <1>2, <1>4 DEF IsStart
<1>6. QED
  BY <1>1, <1>5, StartIsUnique

\* A newline ends a record.
LEMMA StartBehind ==
  ASSUME input \in Seq(Symbols), NEW i \in Newlines
  PROVE  StartOf(i + 1) = i + 1
<1>1. i \in Nat \ {0} /\ Newlines \subseteq Nat
  BY DEF Newlines
<1>2. IsStart(i + 1, i + 1) /\ i + 1 \in Nat \ {0}
  <2>1. i + 1 \in 1..(i + 1) /\ (i + 1) - 1 = i /\ i + 1 \in Nat \ {0}
    BY <1>1
  <2>2. \A j \in Newlines : ~(i + 1 <= j /\ j < i + 1)
    BY <1>1
  <2>3. QED
    BY <2>1, <2>2 DEF IsStart
<1>3. QED
  BY <1>2, StartIsUnique

-----------------------------------------------------------------------------
(* Frames: the inductive invariant *)

\* How far the stream was read.
Pos == N - Len(rest)

FrameTypes ==
  /\ input \in Seq(Symbols) /\ frames \in Seq({RecordAt(i) : i \in Ends})
  /\ Pos \in Nat /\ Cut(rest, Pos + 1, N)
  /\ oversized \in BOOLEAN /\ ended \in BOOLEAN

\* Frames are records, in order.
InPlace == \A n \in 1..Len(frames) : frames[n] = RecordAt(Kth(Ends, n))

\* In a record: what was read of it is kept, or it is too large.
Within ==
  /\ Len(frames) = Cardinality({i \in Ends : i <= Pos})
  /\ oversized <=> Pos + 1 - StartOf(Pos + 1) > Maximum + 1
  /\ IF oversized THEN bytes = <<>> ELSE Cut(bytes, StartOf(Pos + 1), Pos)

\* PastEnd the last one.
PastEnd == Pos = N /\ Len(frames) = Cardinality(Ends) /\ bytes = <<>> /\ oversized = FALSE

\* After the end nothing is missing, or the last is invalid.
EndsWell ==
  ended => Len(frames) = Cardinality(Ends) \/ (frames # <<>> /\ Last(frames) = Invalid)

FramesIInv == FrameTypes /\ InPlace /\ (Within \/ PastEnd) /\ EndsWell

\* Ends of records are positions.
LEMMA EndsFacts ==
  ASSUME input \in Seq(Symbols)
  PROVE  /\ Newlines \subseteq 1..N /\ Newlines \subseteq Ends /\ Ends \subseteq 1..(N + 1)
         /\ Ends \subseteq Nat /\ IsFiniteSet(Ends) /\ Cardinality(Ends) \in Nat
         /\ N \in Nat
         /\ N + 1 \in Ends <=> N > 0 /\ N \notin Newlines
         /\ N + 1 \notin Newlines
<1>1. N \in Nat /\ DOMAIN input = 1..N /\ (input = <<>> <=> N = 0)
  BY DEF N
<1>2. Newlines \subseteq 1..N /\ N + 1 \notin Newlines
  BY <1>1 DEF Newlines
<1>3. Ends \subseteq 1..(N + 1) /\ Newlines \subseteq Ends
  <2>1. 1..N \subseteq 1..(N + 1) /\ N + 1 \in 1..(N + 1)
    BY <1>1
  <2>2. Ends \subseteq Newlines \cup {N + 1} /\ Newlines \subseteq Ends
    BY DEF Ends, N
  <2>3. QED
    BY <1>2, <2>1, <2>2
<1>4. N + 1 \in Ends <=> N > 0 /\ N \notin Newlines
  <2>1. N > 0 => (N \in Newlines <=> Last(input) = LF)
    BY <1>1 DEF Newlines, Last, N
  <2>2. N + 1 \in Ends <=> input # <<>> /\ Last(input) # LF
    BY <1>2 DEF Ends, N
  <2>3. QED
    BY <1>1, <2>1, <2>2
<1>5. IsFiniteSet(Ends) /\ Ends \subseteq Nat
  <2>1. IsFiniteSet(1..(N + 1))
    BY <1>1, FS_Interval
  <2>2. IsFiniteSet(Ends)
    BY <1>3, <2>1, FS_Subset
  <2>3. QED
    BY <1>3, <2>2
<1>6. QED
  BY <1>1, <1>2, <1>3, <1>4, <1>5, FS_CardinalityType

\* The next end of a record is the one after as many as there are.
LEMMA NextEnd ==
  ASSUME input \in Seq(Symbols), NEW i \in Ends, NEW p \in Nat, p < i,
         \A j \in Ends : ~(p < j /\ j < i)
  PROVE  /\ Cardinality({j \in Ends : j <= i}) = Cardinality({j \in Ends : j <= p}) + 1
         /\ Cardinality({j \in Ends : j <= p}) \in Nat
         /\ Kth(Ends, Cardinality({j \in Ends : j <= p}) + 1) = i
<1>1. Ends \subseteq Nat /\ IsFiniteSet(Ends)
  BY EndsFacts
<1> DEFINE Before == {j \in Ends : j <= p}
           Upto == {j \in Ends : j <= i}
<1>2. Upto = Before \cup {i} /\ i \notin Before
  <2>1. \A j \in Ends : j <= i <=> j <= p \/ j = i
    BY <1>1
  <2>2. i <= i /\ ~(i <= p)
    BY <1>1
  <2>3. QED
    BY <2>1, <2>2
<1>3. IsFiniteSet(Before)
  <2>1. Before \in SUBSET Ends
    OBVIOUS
  <2>2. QED
    BY <1>1, <2>1, FS_Subset
<1>4. Cardinality(Upto) = Cardinality(Before) + 1 /\ Cardinality(Before) \in Nat
  <2> HIDE DEF Before, Upto
  <2>1. QED
    BY <1>2, <1>3, FS_AddElement, FS_CardinalityType
<1>5. PICK k \in 1..Cardinality(Ends) : Kth(Ends, k) = i
  BY <1>1, KthFacts
<1>6. Cardinality(Upto) = k
  <2>1. Cardinality({j \in Ends : j <= Kth(Ends, k)}) = k
    BY <1>1, KthFacts
  <2>2. QED
    BY <1>5, <2>1
<1>7. QED
  BY <1>4, <1>5, <1>6

\* A record is judged as the reference judges it.
LEMMA FinishFacts ==
  ASSUME FramesConstants, input \in Seq(Symbols), NEW i \in Nat \ {0}, i <= N + 1,
         NEW taken, NEW over \in BOOLEAN, NEW newline \in BOOLEAN,
         over <=> i - StartOf(i) > Maximum + 1,
         over => taken = <<>>, ~over => Cut(taken, StartOf(i), i - 1),
         newline <=> i \in Newlines,
         Finish(taken, over, newline)
  PROVE  /\ bytes' = <<>> /\ oversized' = FALSE /\ frames' = Append(frames, RecordAt(i))
         /\ ended' = (RecordAt(i) = Invalid)
<1>1. N \in Nat /\ Maximum \in Nat
  BY EndsFacts, FramesConstants DEF FramesConstants
<1>2. PICK a : a = StartOf(i)
  OBVIOUS
<1>3. a \in 1..i
  BY <1>2, StartFacts DEF IsStart
<1> DEFINE raw == SubSeq(input, a, i - 1)
<1>4. Cut(raw, a, i - 1)
  BY <1>1, <1>3, PartIsCut
<1> HIDE DEF raw
<1>5. raw \in Seq(Symbols) /\ Len(raw) = i - a /\ i - a \in Nat
  BY <1>3, <1>4 DEF Cut
<1> DEFINE Text(s, nl) == IF nl /\ s # <<>> /\ Last(s) = CR THEN Without(s) ELSE s
           Frame(s) == IF Holds(s, Bad) THEN Invalid ELSE Line(s)
           Judged(t) == IF Len(t) > Maximum THEN TooLarge ELSE Frame(t)
<1>6. RecordAt(i) = Judged(Text(raw, newline))
  BY <1>2 DEF RecordAt, raw
<1>7. /\ bytes' = <<>> /\ oversized' = FALSE
      /\ frames' = Append(frames, IF over THEN TooLarge ELSE Judged(Text(taken, newline)))
      /\ ended' = ((IF over THEN TooLarge ELSE Judged(Text(taken, newline))) = Invalid)
  BY DEF Finish
<1>8. CASE ~over
  <2>1. taken = raw
    BY <1>2, <1>4, <1>8, CutIsUnique
  <2>2. QED
    BY <1>6, <1>7, <1>8, <2>1
<1>9. CASE over
  <2>1. Len(raw) > Maximum + 1
    BY <1>2, <1>5, <1>9
  <2>2. Len(Without(raw)) = Len(raw) - 1
    <3>1. PICK m \in Nat : m = Len(raw) - 1 /\ m <= Len(raw) /\ 1 <= m /\ m - 1 + 1 = m
      BY <1>1, <1>5, <2>1
    <3>2. \A k \in 1..m : raw[k] \in Symbols
      BY <1>5, <3>1
    <3>3. Len(SubSeq(raw, 1, m)) = IF 1 <= m THEN m - 1 + 1 ELSE 0
      BY <3>1, <3>2, SubSeqProperties
    <3>4. Len(SubSeq(raw, 1, m)) = m
      BY <3>1, <3>3
    <3>5. QED
      BY <3>1, <3>4 DEF Without
  <2>3. Len(Text(raw, newline)) > Maximum
    BY <1>1, <1>5, <2>1, <2>2
  <2>4. RecordAt(i) = TooLarge
    BY <1>6, <2>3
  <2>5. QED
    BY <1>7, <1>9, <2>4
<1>10. QED
  BY <1>8, <1>9

-----------------------------------------------------------------------------
(* The steps *)

\* The stream is what it was.
LEMMA StreamStays ==
  ASSUME input' = input
  PROVE  /\ N' = N /\ Newlines' = Newlines /\ Ends' = Ends
         /\ \A i : StartOf(i)' = StartOf(i) /\ RecordAt(i)' = RecordAt(i)
         /\ \A s, a, b : Cut(s, a, b)' <=> Cut(s, a, b)
<1>1. N' = N /\ Newlines' = Newlines /\ Ends' = Ends
  BY DEF N, Newlines, Ends
<1>2. \A i : StartOf(i)' = StartOf(i)
  BY <1>1 DEF StartOf
<1>3. \A i : RecordAt(i)' = RecordAt(i)
  BY <1>1, <1>2 DEF RecordAt
<1>4. QED
  BY <1>1, <1>2, <1>3 DEF Cut

\* At the start nothing was read.
LEMMA InitFrames == FramesInit => FramesIInv
<1> SUFFICES ASSUME FramesInit PROVE FramesIInv
  OBVIOUS
<1>1. /\ input \in Seq(Symbols) /\ Maximum \in Nat /\ rest = input /\ bytes = <<>>
      /\ oversized = FALSE /\ frames = <<>> /\ ended = FALSE
  BY FramesConstants DEF FramesInit, FramesConstants
<1>2. N \in Nat /\ Pos = 0 /\ N = Len(input)
  BY <1>1 DEF N, Pos
<1>3. Cut(rest, Pos + 1, N)
  BY <1>1, <1>2 DEF Cut
<1>4. frames \in Seq({RecordAt(i) : i \in Ends}) /\ Len(frames) = 0
  BY <1>1
<1>5. FrameTypes
  BY <1>1, <1>2, <1>3, <1>4 DEF FrameTypes
<1>6. StartOf(1) = 1
  BY <1>1, StartFacts DEF IsStart
<1>7. {i \in Ends : i <= 0} = {}
  BY <1>1, EndsFacts
<1>8. Pos + 1 = 1 /\ Pos + 1 - 1 = 0 /\ ~(0 > Maximum + 1)
  BY <1>1, <1>2
<1>9. Cut(bytes, 1, 0)
  BY <1>1 DEF Cut
<1>10. Within
  BY <1>1, <1>2, <1>4, <1>6, <1>7, <1>8, <1>9, FS_EmptySet DEF Within
<1>11. InPlace /\ EndsWell
  BY <1>1, <1>4 DEF InPlace, EndsWell
<1>12. QED
  BY <1>5, <1>10, <1>11 DEF FramesIInv

\* What a read consumes: some bytes without a newline, and a newline or not.
LEMMA ReadFacts ==
  ASSUME FrameTypes, Read
  PROVE  \E m \in Nat, newline \in BOOLEAN :
           /\ ReadChunk(SubSeq(rest, 1, m), newline)
           /\ m <= Len(rest) /\ (m > 0 \/ newline)
           /\ \A j \in Newlines : ~(Pos < j /\ j <= Pos + m)
           /\ newline => Pos + m + 1 \in Newlines /\ m + 1 <= Len(rest)
           /\ rest' = SubSeq(rest, (IF newline THEN m + 1 ELSE m) + 1, Len(rest))
<1>1. PICK n \in 1..Len(rest) :
        LET available == SubSeq(rest, 1, n)
            newline == Holds(available, LF)
            count == IF newline
                     THEN CHOOSE i \in 1..n : rest[i] = LF /\ \A j \in 1..i - 1 : rest[j] # LF
                     ELSE n
        IN /\ ReadChunk(SubSeq(rest, 1, IF newline THEN count - 1 ELSE n), newline)
           /\ rest' = SubSeq(rest, count + 1, Len(rest))
  BY DEF Read
<1>2. /\ input \in Seq(Symbols) /\ Pos \in Nat /\ N \in Nat /\ rest \in Seq(Symbols)
      /\ Len(rest) = N - Pos /\ Len(rest) \in Nat /\ n \in Nat /\ n > 0 /\ n <= Len(rest)
      /\ \A i \in 1..(N - Pos) : rest[i] = input[Pos + i]
  <2>1. input \in Seq(Symbols) /\ Pos \in Nat /\ Cut(rest, Pos + 1, N)
    BY DEF FrameTypes
  <2>2. N \in Nat
    BY <2>1, EndsFacts
  <2>3. /\ rest \in Seq(Symbols) /\ Len(rest) = N - (Pos + 1) + 1
        /\ \A i \in 1..(N - (Pos + 1) + 1) : rest[i] = input[(Pos + 1) + i - 1]
    BY <2>1 DEF Cut
  <2>4. N - (Pos + 1) + 1 = N - Pos /\ \A i \in 1..(N - Pos) : (Pos + 1) + i - 1 = Pos + i
    BY <2>1, <2>2
  <2>5. Len(rest) \in Nat /\ n \in Nat /\ n > 0 /\ n <= Len(rest)
    BY <2>3
  <2>6. QED
    BY <2>1, <2>2, <2>3, <2>4, <2>5
<1>3. \A i \in 1..(N - Pos) : rest[i] = LF <=> Pos + i \in Newlines
  <2>1. \A i \in 1..(N - Pos) : Pos + i \in 1..N
    BY <1>2
  <2>2. DOMAIN input = 1..N
    BY <1>2 DEF N
  <2>3. QED
    BY <1>2, <2>1, <2>2 DEF Newlines
<1>4. \A j \in Newlines : j \in 1..N
  BY <1>2, EndsFacts
<1> DEFINE newline == Holds(SubSeq(rest, 1, n), LF)
           count == CHOOSE i \in 1..n : rest[i] = LF /\ \A j \in 1..i - 1 : rest[j] # LF
<1>5. newline <=> \E i \in 1..n : rest[i] = LF
  <2>1. DOMAIN SubSeq(rest, 1, n) = 1..n /\ \A i \in 1..n : SubSeq(rest, 1, n)[i] = rest[i]
    BY <1>2
  <2>2. QED
    BY <2>1 DEF Holds
<1>6. newline \in BOOLEAN
  BY DEF Holds
<1>7. /\ ReadChunk(SubSeq(rest, 1, IF newline THEN count - 1 ELSE n), newline)
      /\ rest' = SubSeq(rest, (IF newline THEN count ELSE n) + 1, Len(rest))
  BY <1>1
<1>8. CASE newline
  <2> DEFINE Lfs == {i \in 1..n : rest[i] = LF}
  <2>1. Lfs \in SUBSET Nat /\ Lfs # {}
    BY <1>5, <1>8
  <2>2. PICK i \in Lfs : \A j \in Lfs : i <= j
    BY <2>1, LeastElement
  <2>3. i \in 1..n /\ rest[i] = LF /\ \A j \in 1..i - 1 : rest[j] # LF
    BY <2>2, <1>2
  <2>4. count \in 1..n /\ rest[count] = LF /\ \A j \in 1..count - 1 : rest[j] # LF
    BY <2>3, Zenon
  <2> HIDE DEF count, newline
  <2>5. PICK m \in Nat : count = m + 1 /\ m = count - 1
    <3>1. count - 1 \in Nat /\ count = (count - 1) + 1
      BY <2>4
    <3>2. QED
      BY <3>1
  <2>6. /\ m + 1 <= Len(rest) /\ m <= Len(rest)
        /\ Pos + m + 1 = Pos + (m + 1) /\ m + 1 \in 1..(N - Pos)
    BY <1>2, <2>4, <2>5
  <2>7. Pos + m + 1 \in Newlines
    BY <1>3, <2>4, <2>5, <2>6
  <2>8. ASSUME NEW j \in Newlines, Pos < j, j <= Pos + m PROVE FALSE
    <3>1. j - Pos \in 1..(N - Pos) /\ Pos + (j - Pos) = j /\ j - Pos \in 1..count - 1
      <4>1. j \in Nat /\ Pos \in Nat /\ N \in Nat /\ m \in Nat /\ Pos < j /\ j <= Pos + m /\ j <= N
        BY <1>2, <1>4, <2>8
      <4>2. j - Pos \in 1..(N - Pos) /\ Pos + (j - Pos) = j /\ j - Pos \in 1..m
        BY <4>1
      <4>3. QED
        BY <2>5, <4>2
    <3>2. QED
      BY <1>3, <2>4, <2>8, <3>1
  <2>9. /\ ReadChunk(SubSeq(rest, 1, m), TRUE)
        /\ rest' = SubSeq(rest, (m + 1) + 1, Len(rest))
    BY <1>7, <1>8, <2>5
  <2>10. QED
    BY <2>6, <2>7, <2>8, <2>9
<1>9. CASE ~newline
  <2> HIDE DEF newline
  <2>1. ASSUME NEW j \in Newlines, Pos < j, j <= Pos + n PROVE FALSE
    <3>1. j - Pos \in 1..(N - Pos) /\ Pos + (j - Pos) = j /\ j - Pos \in 1..n
      BY <1>2, <1>4, <2>1
    <3>2. QED
      BY <1>3, <1>5, <1>9, <2>1, <3>1
  <2>2. /\ ReadChunk(SubSeq(rest, 1, n), FALSE)
        /\ rest' = SubSeq(rest, n + 1, Len(rest))
    BY <1>6, <1>7, <1>9
  <2>3. QED
    BY <1>2, <2>1, <2>2
<1>10. QED
  BY <1>8, <1>9

\* One more frame, which is the record that ends at i.
LEMMA FrameAdded ==
  ASSUME FrameTypes, InPlace, NEW i \in Ends, Kth(Ends, Len(frames) + 1) = i,
         frames' = Append(frames, RecordAt(i)), input' = input
  PROVE  /\ frames' \in Seq({RecordAt(k) : k \in Ends}) /\ InPlace'
         /\ Len(frames') = Len(frames) + 1 /\ frames' # <<>> /\ Last(frames') = RecordAt(i)
<1>1. PICK n \in Nat : n = Len(frames)
  BY DEF FrameTypes
<1>2. /\ frames' \in Seq({RecordAt(k) : k \in Ends}) /\ Len(frames') = n + 1
      /\ frames'[n + 1] = RecordAt(i) /\ \A k \in 1..n : frames'[k] = frames[k]
  BY <1>1 DEF FrameTypes
<1>3. \A k \in 1..n : frames[k] = RecordAt(Kth(Ends, k))
  BY <1>1 DEF InPlace
<1>4. \A k \in 1..(n + 1) : k \in 1..n \/ k = n + 1
  BY <1>1
<1>5. \A k \in 1..(n + 1) : frames'[k] = RecordAt(Kth(Ends, k))
  BY <1>1, <1>2, <1>3, <1>4
<1>6. /\ N' = N /\ Newlines' = Newlines /\ Ends' = Ends
      /\ \A k : StartOf(k)' = StartOf(k) /\ RecordAt(k)' = RecordAt(k)
  BY StreamStays
<1>7. \A k : Kth(Ends, k)' = Kth(Ends, k)
  BY <1>6 DEF Kth
<1>8. \A k : RecordAt(Kth(Ends, k))' = RecordAt(Kth(Ends, k))
  BY <1>6, <1>7 DEF RecordAt, StartOf, Newlines
<1>9. InPlace'
  BY <1>2, <1>5, <1>8 DEF InPlace
<1>10. QED
  BY <1>1, <1>2, <1>9 DEF Last

\* A read, of whatever size, with or without a newline.
LEMMA ReadKeeps == FramesIInv /\ Read => FramesIInv'
<1> SUFFICES ASSUME FramesIInv, Read PROVE FramesIInv'
  OBVIOUS
<1>1. FrameTypes /\ InPlace /\ (Within \/ PastEnd) /\ EndsWell
  BY DEF FramesIInv
<1>2. PICK m \in Nat, newline \in BOOLEAN :
        /\ ReadChunk(SubSeq(rest, 1, m), newline)
        /\ m <= Len(rest) /\ (m > 0 \/ newline)
        /\ \A j \in Newlines : ~(Pos < j /\ j <= Pos + m)
        /\ newline => Pos + m + 1 \in Newlines /\ m + 1 <= Len(rest)
        /\ rest' = SubSeq(rest, (IF newline THEN m + 1 ELSE m) + 1, Len(rest))
  BY <1>1, ReadFacts
<1>3. input \in Seq(Symbols) /\ Cut(rest, Pos + 1, N)
  BY <1>1 DEF FrameTypes
<1>4. PICK p \in Nat : p = Pos
  BY <1>1 DEF FrameTypes
<1>5. N \in Nat /\ Maximum \in Nat /\ input' = input /\ ~ended
  BY <1>3, EndsFacts, FramesConstants DEF FramesConstants, Read
<1>6. Len(rest) = N - p /\ p + m <= N
  BY <1>2, <1>3, <1>4, <1>5 DEF Cut
<1>7. Within
  <2>1. ~PastEnd
    BY <1>2, <1>4, <1>5, <1>6 DEF PastEnd
  <2>2. QED
    BY <1>1, <2>1
<1>8. PICK a : a = StartOf(p + 1)
  OBVIOUS
<1>9. a \in Nat /\ a > 0 /\ a <= p + 1
  <2>1. p + 1 \in Nat \ {0}
    OBVIOUS
  <2>2. IsStart(a, p + 1)
    BY <1>3, <1>8, <2>1, StartFacts
  <2>3. QED
    BY <2>2 DEF IsStart
<1>10. /\ Len(frames) = Cardinality({i \in Ends : i <= p})
       /\ oversized <=> p + 1 - a > Maximum + 1
       /\ oversized => bytes = <<>>
       /\ ~oversized => Cut(bytes, a, p)
  BY <1>4, <1>7, <1>8 DEF Within
<1> DEFINE chunk == SubSeq(rest, 1, m)
           over == oversized \/ ~Fits(chunk)
           taken == IF over THEN <<>> ELSE bytes \o chunk
           q == p + m
<1>11. Cut(chunk, p + 1, q)
  <2>1. m \in 0..(N - (p + 1) + 1) /\ (p + 1) + m - 1 = p + m /\ p + 1 <= N + 1 /\ p + 1 \in Nat
    BY <1>2, <1>5, <1>6
  <2>2. Cut(rest, p + 1, N)
    BY <1>3, <1>4
  <2>3. Cut(SubSeq(rest, 1, m), p + 1, (p + 1) + m - 1)
    BY <1>5, <2>1, <2>2, CutParts
  <2>4. QED
    BY <2>1, <2>3
<1> HIDE DEF chunk
<1>12. Len(chunk) = m
  BY <1>11 DEF Cut
<1>13. over <=> q + 1 - a > Maximum + 1
  <2>1. CASE oversized
    BY <1>5, <1>9, <1>10, <2>1
  <2>2. CASE ~oversized
    <3>1. Len(bytes) = p - a + 1
      BY <1>10, <2>2 DEF Cut
    <3>2. Fits(chunk) <=> (p - a + 1) + m <= Maximum + 1
      BY <1>12, <3>1 DEF Fits
    <3>3. QED
      BY <1>5, <1>9, <2>2, <3>2
  <2>3. QED
    BY <2>1, <2>2
<1>14. ASSUME ~over PROVE Cut(taken, a, q)
  <2>1. Cut(bytes, a, p)
    BY <1>10, <1>14
  <2>2. Cut(bytes \o chunk, a, q)
    BY <1>9, <1>11, <2>1, CutsJoin
  <2>3. QED
    BY <1>14, <2>2
<1>15. over \in BOOLEAN /\ (over => taken = <<>>)
  BY <1>1 DEF FrameTypes, Fits
<1>16. StartOf(q + 1) = a
  <2>1. p + 1 \in Nat \ {0} /\ q + 1 \in Nat /\ p + 1 <= q + 1
    OBVIOUS
  <2>2. \A j \in Newlines : j \in Nat
    BY <1>3, EndsFacts
  <2>3. \A j \in Newlines : ~(p + 1 <= j /\ j < q + 1)
    BY <1>2, <1>4, <2>2
  <2>4. QED
    BY <1>3, <1>8, <2>1, <2>3, StartStays
<1>17. /\ N' = N /\ Newlines' = Newlines /\ Ends' = Ends
       /\ \A i : StartOf(i)' = StartOf(i) /\ RecordAt(i)' = RecordAt(i)
       /\ \A s, b, c : Cut(s, b, c)' <=> Cut(s, b, c)
  BY <1>5, StreamStays
<1>18. ReadChunk(chunk, newline)
  BY <1>2 DEF chunk
<1>19. ASSUME NEW k \in Nat, k <= N - p, rest' = SubSeq(rest, k + 1, Len(rest))
       PROVE  Pos' = p + k /\ Cut(rest', p + k + 1, N)
  <2>1. k \in 0..(N - (p + 1) + 1) /\ (p + 1) + k = p + k + 1 /\ p + 1 <= N + 1 /\ p + 1 \in Nat
    BY <1>5, <1>6, <1>19
  <2>2. Cut(rest, p + 1, N)
    BY <1>3, <1>4
  <2>3. Cut(SubSeq(rest, k + 1, Len(rest)), (p + 1) + k, N)
    BY <1>5, <2>1, <2>2, CutParts
  <2>4. PICK r : r = rest'
    OBVIOUS
  <2>5. Cut(r, p + k + 1, N)
    BY <1>19, <2>1, <2>3, <2>4
  <2>6. Len(r) = N - (p + k)
    BY <1>5, <2>5 DEF Cut
  <2>7. Pos' = N - Len(r)
    BY <1>17, <2>4 DEF Pos
  <2>8. QED
    BY <1>5, <2>4, <2>5, <2>6, <2>7
<1>20. \A i \in Ends : i \in Nat /\ (i \in Newlines \/ i = N + 1)
  BY <1>3, EndsFacts DEF Ends, N
<1>21. CASE ~newline
  <2>1. /\ bytes' = taken /\ oversized' = over /\ frames' = frames /\ ended' = ended
    BY <1>18, <1>21 DEF ReadChunk
  <2>2. Pos' = q /\ Cut(rest', q + 1, N)
    <3>1. m <= N - p /\ rest' = SubSeq(rest, m + 1, Len(rest))
      BY <1>2, <1>6, <1>21
    <3>2. QED
      BY <1>19, <3>1
  <2>3. {i \in Ends : i <= q} = {i \in Ends : i <= p}
    <3>1. \A i \in Ends : i <= q <=> i <= p
      BY <1>2, <1>4, <1>5, <1>6, <1>20
    <3>2. QED
      BY <3>1
  <2> HIDE DEF over, taken
  <2>4. Within'
    <3>1. Len(frames') = Cardinality({i \in Ends' : i <= Pos'})
      BY <1>10, <1>17, <2>1, <2>2, <2>3
    <3>2. oversized' <=> Pos' + 1 - StartOf(Pos' + 1) > Maximum + 1
      BY <1>13, <1>16, <2>1, <2>2
    <3>3. IF oversized' THEN bytes' = <<>> ELSE Cut(bytes', StartOf(Pos' + 1), Pos')
      BY <1>14, <1>15, <1>16, <2>1, <2>2
    <3>4. StartOf(Pos + 1)' = StartOf(Pos' + 1)
      BY <1>17 DEF StartOf
    <3>5. Cut(bytes, StartOf(Pos + 1), Pos)' <=> Cut(bytes', StartOf(Pos' + 1), Pos')
      BY <1>5, <3>4 DEF Cut
    <3>6. QED
      BY <3>1, <3>2, <3>3, <3>4, <3>5 DEF Within
  <2>5. FrameTypes'
    <3>1. q \in Nat
      OBVIOUS
    <3>2. Cut(rest, Pos + 1, N)' <=> Cut(rest', Pos' + 1, N)
      BY <1>5, <1>17 DEF Cut
    <3>3. (frames \in Seq({RecordAt(i) : i \in Ends}))'
      BY <1>1, <1>17, <2>1 DEF FrameTypes
    <3>4. oversized' \in BOOLEAN /\ ended' \in BOOLEAN
      BY <1>1, <1>15, <2>1, Zenon DEF FrameTypes
    <3>5. QED
      BY <1>3, <1>5, <2>2, <3>1, <3>2, <3>3, <3>4 DEF FrameTypes
  <2>6. InPlace' /\ EndsWell'
    <3>1. \A k : Kth(Ends, k)' = Kth(Ends, k)
      BY <1>17 DEF Kth
    <3>2. \A k : RecordAt(Kth(Ends, k))' = RecordAt(Kth(Ends, k))
      BY <1>5, <1>17, <3>1 DEF RecordAt, StartOf, Newlines
    <3>3. InPlace'
      BY <1>1, <2>1, <3>2 DEF InPlace
    <3>4. EndsWell'
      BY <1>5, <2>1 DEF EndsWell
    <3>5. QED
      BY <3>3, <3>4
  <2>7. QED
    BY <2>4, <2>5, <2>6 DEF FramesIInv
<1>22. CASE newline
  <2> DEFINE i == q + 1
  <2>1. i \in Newlines /\ i \in Ends /\ i \in Nat \ {0} /\ i <= N
    <3>1. i \in Newlines
      BY <1>2, <1>4, <1>22
    <3>2. QED
      BY <1>3, <1>5, <3>1, EndsFacts
  <2>2. Finish(taken, over, newline)
    BY <1>18, <1>22 DEF ReadChunk
  <2>3. /\ bytes' = <<>> /\ oversized' = FALSE /\ frames' = Append(frames, RecordAt(i))
        /\ ended' = (RecordAt(i) = Invalid)
    <3>0. StartOf(i) = a
      BY <1>16
    <3>1. i - a = q + 1 - a /\ i - 1 = q
      BY <1>9
    <3> HIDE DEF over, taken, i
    <3>2. over <=> i - StartOf(i) > Maximum + 1
      BY <1>13, <3>0, <3>1
    <3>3. ~over => Cut(taken, StartOf(i), i - 1)
      BY <1>14, <3>0, <3>1
    <3>4. i <= N + 1 /\ (newline <=> i \in Newlines)
      BY <1>5, <1>22, <2>1
    <3>5. QED
      BY <1>3, <1>15, <2>1, <2>2, <3>2, <3>3, <3>4, FinishFacts, FramesConstants
  <2>4. Pos' = i /\ Cut(rest', i + 1, N)
    <3>1. m + 1 \in Nat /\ m + 1 <= N - p /\ rest' = SubSeq(rest, (m + 1) + 1, Len(rest))
      BY <1>2, <1>6, <1>22
    <3>2. Pos' = p + (m + 1) /\ Cut(rest', p + (m + 1) + 1, N)
      BY <1>19, <3>1
    <3>3. p + (m + 1) = i
      OBVIOUS
    <3>4. QED
      BY <3>2, <3>3
  <2>5. /\ Cardinality({j \in Ends : j <= i}) = Len(frames) + 1
        /\ Kth(Ends, Len(frames) + 1) = i
    <3>1. \A j \in Ends : ~(p < j /\ j < i)
      BY <1>2, <1>4, <1>5, <1>6, <1>20
    <3>2. p < i
      OBVIOUS
    <3>3. QED
      BY <1>3, <1>10, <2>1, <3>1, <3>2, NextEnd
  <2>6. StartOf(i + 1) = i + 1
    BY <1>3, <2>1, StartBehind
  <2> HIDE DEF i, over, taken
  <2>7. /\ frames' \in Seq({RecordAt(k) : k \in Ends}) /\ InPlace'
        /\ Len(frames') = Len(frames) + 1 /\ frames' # <<>> /\ Last(frames') = RecordAt(i)
    BY <1>1, <1>5, <2>1, <2>3, <2>5, FrameAdded
  <2>8. Within'
    <3>1. Len(frames') = Cardinality({j \in Ends' : j <= Pos'})
      BY <1>17, <2>4, <2>5, <2>7
    <3>2. StartOf(Pos + 1)' = StartOf(Pos' + 1)
      BY <1>17 DEF StartOf
    <3>3. StartOf(Pos' + 1) = i + 1 /\ Pos' = i /\ ~(i + 1 - (i + 1) > Maximum + 1)
      BY <1>5, <2>1, <2>4, <2>6
    <3>4. ~(Pos' + 1 - StartOf(Pos' + 1) > Maximum + 1)
      BY <3>3
    <3>5. Cut(<<>>, i + 1, i)
      <4>1. i - (i + 1) + 1 = 0
        BY <2>1
      <4>2. QED
        BY <4>1 DEF Cut
    <3>6. Cut(bytes, StartOf(Pos + 1), Pos)' <=> Cut(bytes', StartOf(Pos' + 1), Pos')
      BY <1>5, <3>2 DEF Cut
    <3>7. QED
      BY <2>3, <3>1, <3>2, <3>3, <3>4, <3>5, <3>6 DEF Within
  <2>9. FrameTypes'
    <3>1. Cut(rest, Pos + 1, N)' <=> Cut(rest', Pos' + 1, N)
      BY <1>5, <1>17 DEF Cut
    <3>2. (frames \in Seq({RecordAt(k) : k \in Ends}))'
      BY <1>17, <2>7
    <3>3. oversized' \in BOOLEAN /\ ended' \in BOOLEAN
      BY <2>3
    <3>4. QED
      BY <1>3, <1>5, <2>1, <2>4, <3>1, <3>2, <3>3 DEF FrameTypes
  <2>10. EndsWell'
    BY <2>3, <2>7 DEF EndsWell, Last
  <2>11. QED
    BY <2>7, <2>8, <2>9, <2>10 DEF FramesIInv
<1>23. QED
  BY <1>21, <1>22

\* The end of the stream.
LEMMA EndKeeps == FramesIInv /\ EndOfInput => FramesIInv'
<1> SUFFICES ASSUME FramesIInv, EndOfInput PROVE FramesIInv'
  OBVIOUS
<1>1. FrameTypes /\ InPlace /\ (Within \/ PastEnd) /\ EndsWell
  BY DEF FramesIInv
<1>2. input \in Seq(Symbols) /\ Cut(rest, Pos + 1, N)
  BY <1>1 DEF FrameTypes
<1>3. N \in Nat /\ Maximum \in Nat /\ ~ended /\ rest = <<>> /\ rest' = rest /\ input' = input
  BY <1>2, EndsFacts, FramesConstants DEF FramesConstants, EndOfInput
<1>4. Pos = N /\ Pos' = N
  BY <1>3 DEF Pos, N
<1>5. /\ N' = N /\ Newlines' = Newlines /\ Ends' = Ends
      /\ \A i : StartOf(i)' = StartOf(i) /\ RecordAt(i)' = RecordAt(i)
  BY <1>3, StreamStays
<1>6. Cut(rest, Pos + 1, N)'
  BY <1>2, <1>3, <1>4, <1>5 DEF Cut
<1>7. PICK a : a = StartOf(N + 1)
  OBVIOUS
<1>8. /\ a \in Nat /\ a > 0 /\ a <= N + 1 /\ (a = 1 \/ a - 1 \in Newlines)
      /\ \A j \in Newlines : ~(a <= j /\ j < N + 1)
  <2>1. N + 1 \in Nat \ {0}
    BY <1>3
  <2>2. IsStart(a, N + 1)
    BY <1>2, <1>7, <2>1, StartFacts
  <2>3. QED
    BY <1>3, <2>2 DEF IsStart
<1>9. /\ Newlines \subseteq 1..N /\ Ends \subseteq 1..(N + 1) /\ Cardinality(Ends) \in Nat
      /\ N + 1 \in Ends <=> N > 0 /\ N \notin Newlines
      /\ N + 1 \notin Newlines
  BY <1>2, EndsFacts
<1>10. Within =>
         /\ Len(frames) = Cardinality({i \in Ends : i <= N})
         /\ oversized <=> N + 1 - a > Maximum + 1
         /\ oversized => bytes = <<>>
         /\ ~oversized => Cut(bytes, a, N)
  BY <1>4, <1>7 DEF Within
<1>11. CASE oversized \/ bytes # <<>>
  <2>1. Within
    BY <1>1, <1>11 DEF PastEnd
  <2>2. Finish(bytes, oversized, FALSE)
    BY <1>11 DEF EndOfInput
  <2>3. a <= N
    <3>1. CASE oversized
      BY <1>3, <1>8, <1>10, <2>1, <3>1
    <3>2. CASE ~oversized
      <4>1. bytes # <<>> /\ bytes \in Seq(Symbols) /\ Len(bytes) = N - a + 1
        BY <1>10, <1>11, <2>1, <3>2 DEF Cut
      <4>2. Len(bytes) # 0
        BY <4>1
      <4>3. QED
        BY <1>3, <1>8, <4>1, <4>2
    <3>3. QED
      BY <3>1, <3>2
  <2>4. N + 1 \in Ends
    BY <1>3, <1>8, <1>9, <2>3
  <2>5. PICK i \in Nat \ {0} : i = N + 1 /\ i - 1 = N
    BY <1>3
  <2>6. /\ bytes' = <<>> /\ oversized' = FALSE /\ frames' = Append(frames, RecordAt(i))
        /\ ended' = (RecordAt(i) = Invalid)
    <3>0. StartOf(i) = a
      BY <1>7, <2>5, Zenon
    <3>1. oversized <=> i - StartOf(i) > Maximum + 1
      <4>1. oversized <=> N + 1 - a > Maximum + 1
        BY <1>10, <2>1, Zenon
      <4>2. i - StartOf(i) = N + 1 - a
        BY <1>3, <1>8, <2>5, <3>0
      <4>3. QED
        BY <4>1, <4>2
    <3>2. (oversized => bytes = <<>>) /\ (~oversized => Cut(bytes, StartOf(i), i - 1))
      BY <1>7, <1>10, <2>1, <2>5
    <3>3. i <= N + 1 /\ (FALSE <=> i \in Newlines) /\ oversized \in BOOLEAN
      BY <1>1, <1>9, <2>5 DEF FrameTypes
    <3>4. FALSE \in BOOLEAN
      OBVIOUS
    <3>5. QED
      BY <1>2, <2>2, <3>1, <3>2, <3>3, <3>4, FinishFacts, FramesConstants
  <2>7. /\ Cardinality({j \in Ends : j <= i}) = Len(frames) + 1
        /\ Kth(Ends, Len(frames) + 1) = i
    <3>1. \A j \in Ends : ~(N < j /\ j < i)
      BY <1>3, <1>9, <2>5
    <3>2. N < i /\ i \in Ends
      BY <1>3, <2>4, <2>5
    <3>3. QED
      BY <1>2, <1>3, <1>10, <2>1, <3>1, <3>2, NextEnd
  <2>8. {j \in Ends : j <= i} = Ends
    <3>1. \A j \in Ends : j <= i
      BY <1>3, <1>9, <2>5
    <3>2. QED
      BY <3>1
  <2>9. /\ frames' \in Seq({RecordAt(k) : k \in Ends}) /\ InPlace'
        /\ Len(frames') = Len(frames) + 1 /\ frames' # <<>> /\ Last(frames') = RecordAt(i)
    BY <1>1, <1>3, <2>4, <2>5, <2>6, <2>7, FrameAdded
  <2>10. Len(frames') = Cardinality(Ends)
    BY <2>7, <2>8, <2>9
  <2>11. PastEnd'
    BY <1>4, <1>5, <2>6, <2>10 DEF PastEnd
  <2>12. FrameTypes'
    <3>1. (frames \in Seq({RecordAt(k) : k \in Ends}))'
      BY <1>5, <2>9
    <3>2. oversized' \in BOOLEAN /\ ended' \in BOOLEAN
      BY <2>6
    <3>3. QED
      BY <1>2, <1>3, <1>4, <1>6, <3>1, <3>2 DEF FrameTypes
  <2>13. EndsWell'
    BY <1>5, <2>10 DEF EndsWell
  <2>14. QED
    BY <2>9, <2>11, <2>12, <2>13 DEF FramesIInv
<1>12. CASE ~(oversized \/ bytes # <<>>)
  <2>1. ended' = TRUE /\ bytes' = bytes /\ oversized' = oversized /\ frames' = frames
    BY <1>12 DEF EndOfInput
  <2>2. Len(frames) = Cardinality(Ends)
    <3>1. CASE PastEnd
      BY <3>1 DEF PastEnd
    <3>2. CASE Within
      <4>1. Cut(<<>>, a, N)
        BY <1>10, <1>12, <3>2
      <4>2. a = N + 1
        <5>1. 0 = N - a + 1
          BY <4>1 DEF Cut
        <5>2. QED
          BY <1>3, <1>8, <5>1
      <4>3. N = 0 \/ N \in Newlines
        BY <1>3, <1>8, <4>2
      <4>4. N + 1 \notin Ends
        BY <1>9, <4>3
      <4>5. {i \in Ends : i <= N} = Ends
        <5>1. \A i \in Ends : i <= N
          BY <1>3, <1>9, <4>4
        <5>2. QED
          BY <5>1
      <4>6. QED
        BY <1>10, <3>2, <4>5
    <3>3. QED
      BY <1>1, <3>1, <3>2
  <2>3. PastEnd'
    BY <1>4, <1>5, <1>12, <2>1, <2>2 DEF PastEnd
  <2>4. FrameTypes'
    <3>1. (frames \in Seq({RecordAt(k) : k \in Ends}))'
      BY <1>1, <1>5, <2>1 DEF FrameTypes
    <3>2. oversized' \in BOOLEAN /\ ended' \in BOOLEAN
      BY <1>1, <2>1 DEF FrameTypes
    <3>3. QED
      BY <1>2, <1>3, <1>4, <1>6, <3>1, <3>2 DEF FrameTypes
  <2>5. InPlace' /\ EndsWell'
    <3>1. \A k : Kth(Ends, k)' = Kth(Ends, k)
      BY <1>5 DEF Kth
    <3>2. \A k : RecordAt(Kth(Ends, k))' = RecordAt(Kth(Ends, k))
      BY <1>3, <1>5, <3>1 DEF RecordAt, StartOf, Newlines
    <3>3. InPlace'
      BY <1>1, <2>1, <3>2 DEF InPlace
    <3>4. EndsWell'
      BY <1>5, <2>1, <2>2 DEF EndsWell
    <3>5. QED
      BY <3>3, <3>4
  <2>6. QED
    BY <2>3, <2>4, <2>5 DEF FramesIInv
<1>13. QED
  BY <1>11, <1>12

\* What the invariant says of the frames.
LEMMA FramesImplies == FramesIInv => FramesAreExact
<1> SUFFICES ASSUME FramesIInv PROVE FramesAreExact
  OBVIOUS
<1>1. /\ FrameTypes /\ InPlace /\ (Within \/ PastEnd) /\ EndsWell /\ input \in Seq(Symbols)
      /\ Len(frames) \in Nat /\ DOMAIN frames = 1..Len(frames)
  BY DEF FramesIInv, FrameTypes
<1>2. \A n : EndOf(n) = Kth(Ends, n)
  BY DEF EndOf, Kth
<1>3. FramesAreRecords
  BY <1>1, <1>2 DEF InPlace, FramesAreRecords
<1>4. NothingIsLost
  <2>1. Ends \subseteq Nat /\ IsFiniteSet(Ends)
    BY <1>1, EndsFacts
  <2>2. \A i \in Ends : \E k \in 1..Cardinality(Ends) : Kth(Ends, k) = i
    BY <2>1, KthFacts
  <2>3. QED
    BY <1>1, <1>2, <2>2 DEF EndsWell, NothingIsLost
<1>5. RetentionBounded
  <2>1. N \in Nat /\ Maximum \in Nat /\ Pos \in Nat
    BY <1>1, EndsFacts, FramesConstants DEF FramesConstants, FrameTypes
  <2>2. CASE PastEnd
    BY <2>1, <2>2 DEF PastEnd, RetentionBounded
  <2>3. CASE Within
    <3>1. PICK a : a = StartOf(Pos + 1)
      OBVIOUS
    <3>2. a \in Nat /\ a <= Pos + 1
      <4>1. Pos + 1 \in Nat \ {0}
        BY <2>1
      <4>2. IsStart(a, Pos + 1)
        BY <1>1, <3>1, <4>1, StartFacts
      <4>3. QED
        BY <2>1, <4>2 DEF IsStart
    <3>3. /\ oversized <=> Pos + 1 - a > Maximum + 1
          /\ oversized => bytes = <<>>
          /\ ~oversized => Len(bytes) = Pos - a + 1
      BY <2>3, <3>1 DEF Within, Cut
    <3>4. Len(bytes) <= Maximum + 1
      <4>1. CASE oversized
        BY <2>1, <3>3, <4>1
      <4>2. CASE ~oversized
        BY <2>1, <3>2, <3>3, <4>2
      <4>3. QED
        BY <4>1, <4>2
    <3>5. QED
      BY <3>3, <3>4 DEF RetentionBounded
  <2>4. QED
    BY <1>1, <2>2, <2>3
<1>6. QED
  BY <1>3, <1>4, <1>5 DEF FramesAreExact

\* However a stream is cut into reads, and whichever are cancelled, the n-th frame is its
\* n-th record, none is missing at the end unless one was invalid, and no more than a
\* record and a CR is kept (jsonl_input.rs, Frames).
THEOREM FramesTheorem == FramesSpec => []FramesAreExact
<1>1. FramesIInv /\ UNCHANGED framesVars => FramesIInv'
  <2> SUFFICES ASSUME FramesIInv, UNCHANGED framesVars PROVE FramesIInv'
    OBVIOUS
  <2>1. UNCHANGED <<input, rest, bytes, oversized, frames, ended>>
    BY DEF framesVars
  <2>2. /\ N' = N /\ Newlines' = Newlines /\ Ends' = Ends
        /\ \A i : StartOf(i)' = StartOf(i) /\ RecordAt(i)' = RecordAt(i)
    BY <2>1, StreamStays
  <2>3. Pos' = Pos
    BY <2>1, <2>2 DEF Pos
  <2>4. FrameTypes'
    <3>1. Cut(rest, Pos + 1, N)' <=> Cut(rest, Pos + 1, N)
      BY <2>1, <2>2, <2>3 DEF Cut
    <3>2. (frames \in Seq({RecordAt(k) : k \in Ends}))'
      BY <2>1, <2>2 DEF FramesIInv, FrameTypes
    <3>3. QED
      BY <2>1, <2>3, <3>1, <3>2 DEF FramesIInv, FrameTypes
  <2>5. InPlace'
    <3>1. \A k : Kth(Ends, k)' = Kth(Ends, k)
      BY <2>2 DEF Kth
    <3>2. \A k : RecordAt(Kth(Ends, k))' = RecordAt(Kth(Ends, k))
      BY <2>1, <2>2, <3>1 DEF RecordAt, StartOf, Newlines
    <3>3. QED
      BY <2>1, <3>2 DEF FramesIInv, InPlace
  <2>6. Within' <=> Within
    <3>1. StartOf(Pos + 1)' = StartOf(Pos + 1)
      BY <2>2, <2>3 DEF StartOf
    <3>2. Cut(bytes, StartOf(Pos + 1), Pos)' <=> Cut(bytes, StartOf(Pos + 1), Pos)
      BY <2>1, <2>3, <3>1 DEF Cut
    <3>3. QED
      BY <2>1, <2>2, <2>3, <3>1, <3>2 DEF Within
  <2>7. (PastEnd' <=> PastEnd) /\ (EndsWell' <=> EndsWell)
    BY <2>1, <2>2, <2>3 DEF PastEnd, EndsWell
  <2>8. QED
    BY <2>4, <2>5, <2>6, <2>7 DEF FramesIInv
<1>2. FramesIInv /\ [FramesNext]_framesVars => FramesIInv'
  BY <1>1, ReadKeeps, EndKeeps DEF FramesNext
<1>3. QED
  BY InitFrames, FramesImplies, <1>2, PTL DEF FramesSpec
=============================================================================
