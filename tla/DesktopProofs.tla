--------------------------- MODULE DesktopProofs ---------------------------
(***************************************************************************)
(* The safety of Resumes, Forwarding, HyprlandEvents and HyprlandRequest   *)
(* for every behaviour: any number of suspensions and signals, of versions *)
(* and items, of causes and instances, and every capacity.  And of         *)
(* WorkAreas for every reply: any number of monitors of any size, of rules *)
(* and of windows in groups.                                               *)
(***************************************************************************)
EXTENDS Resumes, Forwarding, HyprlandEvents, HyprlandRequest, WorkAreas, FiniteSetTheorems,
        SequenceTheorems, WellFoundedInduction, TLAPS

-----------------------------------------------------------------------------
(* Resume detection: the inductive invariant *)

\* A suspension since the last sample that counts.
Overtaken == offset # NoSample /\ \A jitter \in Jitters : offset # clock + jitter

\* The types of the state.
ResumeTypes ==
  /\ clock \in Nat /\ offset \in Nat \cup {NoSample} /\ signals \in Nat /\ wire \in Nat
  /\ generation \in Nat /\ slept \in Nat
  /\ reported \in BOOLEAN /\ prompt \in BOOLEAN

\* Signals under way, and the clock, may each still announce.
AtMostTwo == generation + signals + wire + (IF Overtaken THEN 1 ELSE 0) <= 2 * slept

\* As long as all is prompt they announce one thing.
AtMostOne ==
  prompt => /\ signals + wire <= 1
            /\ generation + (IF Overtaken \/ (signals + wire > 0
               /\ ~reported) THEN 1 ELSE 0) <= slept

\* Resumes that were announced, or may still be, against the suspensions.
ResumeIInv == ResumeTypes /\ AtMostTwo /\ AtMostOne

\* Nobody has slept, and nothing is announced.
LEMMA InitResume == ResumeInit => ResumeIInv
<1> SUFFICES ASSUME ResumeInit PROVE ResumeIInv
  OBVIOUS
<1>1. reported \in BOOLEAN /\ prompt \in BOOLEAN /\ ~Overtaken
  BY DEF ResumeInit, Overtaken
<1>2. QED
  BY <1>1 DEF ResumeInit, ResumeIInv, ResumeTypes, AtMostTwo, AtMostOne

\* A sample that counts is of now; it tells the clock's change only if there was one.
LEMMA SampleFacts ==
  ASSUME ResumeTypes, NEW sample \in Samples, Observe(sample), clock' = clock
  PROVE  /\ offset' \in Nat \cup {NoSample}
         /\ OffsetChanged(sample) => Overtaken /\ sample # NoSample
         /\ sample # NoSample => ~Overtaken'
         /\ Overtaken' => Overtaken
<1>1. CASE sample = NoSample
  BY <1>1 DEF ResumeTypes, Observe, OffsetChanged, Overtaken
<1>2. CASE sample # NoSample
  <2>1. PICK jitter \in Jitters : sample = clock + jitter
    BY <1>2 DEF Samples
  <2>2. jitter \in Nat /\ offset' = sample /\ sample \in Nat
    BY <1>2, <2>1, ResumeConstants DEF Observe, ResumeTypes
  <2>3. ~Overtaken'
    BY <2>1, <2>2 DEF Overtaken
  <2>4. ASSUME OffsetChanged(sample), NEW other \in Jitters PROVE offset # clock + other
    <3>1. jitter - other <= Threshold /\ other \in Nat /\ Threshold \in Nat /\ clock \in Nat
      BY ResumeConstants DEF ResumeTypes
    <3>2. sample - offset > Threshold
      BY <2>4 DEF OffsetChanged
    <3>3. QED
      BY <2>1, <2>2, <3>1, <3>2
  <2>5. QED
    BY <1>2, <2>2, <2>3, <2>4 DEF OffsetChanged, Overtaken
<1>3. QED
  BY <1>1, <1>2

\* The clock's sample announces a suspension it overtook, once.
LEMMA PollResume ==
  ASSUME ResumeIInv, NEW sample \in Samples, Poll(sample)
  PROVE  ResumeIInv'
<1>0. ResumeTypes /\ AtMostTwo /\ AtMostOne
  BY DEF ResumeIInv
<1>1. /\ UNCHANGED <<clock, signals, wire, slept, prompt>> /\ Observe(sample)
      /\ reported' = (reported \/ OffsetChanged(sample))
      /\ generation' = IF OffsetChanged(sample) THEN generation + 1 ELSE generation
  BY DEF Poll, Publish
<1>2. /\ offset' \in Nat \cup {NoSample}
      /\ OffsetChanged(sample) => Overtaken /\ sample # NoSample
      /\ sample # NoSample => ~Overtaken'
      /\ Overtaken' => Overtaken
  BY <1>0, <1>1, SampleFacts
<1>3. reported' \in BOOLEAN
  BY <1>0, <1>1 DEF ResumeTypes
<1>4. CASE OffsetChanged(sample)
  <2>1. Overtaken /\ ~Overtaken' /\ reported' /\ generation' = generation + 1
    BY <1>1, <1>2, <1>4
  <2>2. ResumeTypes'
    BY <1>0, <1>1, <1>2, <1>3, <2>1 DEF ResumeTypes
  <2>3. AtMostTwo'
    BY <1>0, <1>1, <2>1 DEF ResumeTypes, AtMostTwo
  <2>4. AtMostOne'
    BY <1>0, <1>1, <2>1 DEF ResumeTypes, AtMostOne
  <2>5. QED
    BY <2>2, <2>3, <2>4 DEF ResumeIInv
<1>5. CASE ~OffsetChanged(sample)
  <2>1. generation' = generation /\ (reported' <=> reported)
    BY <1>1, <1>5
  <2>2. ResumeTypes'
    BY <1>0, <1>1, <1>2, <1>3, <2>1 DEF ResumeTypes
  <2>3. AtMostTwo'
    BY <1>0, <1>1, <1>2, <2>1 DEF ResumeTypes, AtMostTwo
  <2>4. AtMostOne'
    BY <1>0, <1>1, <1>2, <2>1 DEF ResumeTypes, AtMostOne
  <2>5. QED
    BY <2>2, <2>3, <2>4 DEF ResumeIInv
<1>6. QED
  BY <1>4, <1>5

\* The signal announces, unless the clock did since the machine slept.
LEMMA SignalResume ==
  ASSUME ResumeIInv, NEW sample \in Samples, Signal(sample)
  PROVE  ResumeIInv'
<1>0. ResumeTypes /\ AtMostTwo /\ AtMostOne
  BY DEF ResumeIInv
<1>1. /\ UNCHANGED <<clock, wire, slept>> /\ Observe(sample) /\ signals > 0
      /\ signals' = signals - 1 /\ reported' = FALSE
      /\ prompt' = (prompt /\ sample # NoSample)
      /\ generation' = IF OffsetChanged(sample) \/ ~reported THEN generation + 1 ELSE generation
  BY DEF Signal, Publish
<1>2. /\ offset' \in Nat \cup {NoSample}
      /\ OffsetChanged(sample) => Overtaken /\ sample # NoSample
      /\ sample # NoSample => ~Overtaken'
      /\ Overtaken' => Overtaken
  BY <1>0, <1>1, SampleFacts
<1>3. ResumeTypes'
  <2>1. reported' \in BOOLEAN /\ prompt' \in BOOLEAN
    BY <1>1
  <2>2. signals' \in Nat /\ generation' \in Nat
    BY <1>0, <1>1 DEF ResumeTypes
  <2>3. QED
    BY <1>0, <1>1, <1>2, <2>1, <2>2 DEF ResumeTypes
<1>4. AtMostTwo'
  BY <1>0, <1>1, <1>2 DEF ResumeTypes, AtMostTwo
<1>5. AtMostOne'
  <2>1. ASSUME prompt'
        PROVE  signals' + wire' = 0 /\ generation' <= slept' /\ ~Overtaken'
    <3>1. prompt /\ ~Overtaken'
      BY <1>1, <1>2, <2>1
    <3>2. /\ signals + wire <= 1
          /\ generation + (IF Overtaken \/ (signals + wire > 0 /\ ~reported) THEN 1 ELSE 0) <= slept
      BY <1>0, <3>1 DEF AtMostOne
    <3>3. signals' + wire' = 0
      BY <1>0, <1>1, <3>2 DEF ResumeTypes
    <3>4. generation' <= slept'
      <4>1. CASE OffsetChanged(sample) \/ ~reported
        <5>1. Overtaken \/ (signals + wire > 0 /\ ~reported)
          BY <1>0, <1>1, <1>2, <4>1 DEF ResumeTypes
        <5>2. QED
          BY <1>1, <3>2, <4>1, <5>1
      <4>2. CASE ~(OffsetChanged(sample) \/ ~reported)
        BY <1>0, <1>1, <3>2, <4>2 DEF ResumeTypes
      <4>3. QED
        BY <4>1, <4>2
    <3>5. QED
      BY <3>1, <3>3, <3>4
  <2>2. PICK s \in Nat : s = signals'
    BY <1>3 DEF ResumeTypes
  <2>3. PICK g \in Nat : g = generation'
    BY <1>3 DEF ResumeTypes
  <2>4. ASSUME prompt'
        PROVE  s + wire = 0 /\ g <= slept
    BY <1>1, <2>1, <2>2, <2>3, <2>4
  <2>5. ASSUME prompt'
        PROVE  /\ s + wire <= 1
               /\ g + (IF Overtaken' \/ (s + wire > 0 /\ ~reported') THEN 1 ELSE 0) <= slept
    BY <1>0, <2>1, <2>4, <2>5 DEF ResumeTypes
  <2>6. QED
    BY <1>1, <2>2, <2>3, <2>5 DEF AtMostOne
<1>6. QED
  BY <1>3, <1>4, <1>5 DEF ResumeIInv

\* Every suspension allows two announcements, and one as long as all is prompt.
LEMMA SuspendResume ==
  ASSUME ResumeIInv, NEW time \in {0, Long}, Suspend(time)
  PROVE  ResumeIInv'
<1>0. ResumeTypes /\ AtMostTwo /\ AtMostOne /\ Long \in Nat
  BY ResumeConstants DEF ResumeIInv
<1>1. /\ UNCHANGED <<offset, reported, signals, generation>>
      /\ slept' = slept + 1 /\ clock' = clock + time
      /\ (wire' = wire \/ wire' = wire + 1)
      /\ prompt' = (prompt /\ signals + wire = 0)
  BY DEF Suspend, detector
<1>2. ResumeTypes'
  <2>1. prompt' \in BOOLEAN
    BY <1>1
  <2>2. wire' \in Nat /\ clock' \in Nat /\ slept' \in Nat
    BY <1>0, <1>1 DEF ResumeTypes
  <2>3. QED
    BY <1>0, <1>1, <2>1, <2>2 DEF ResumeTypes
<1>3. AtMostTwo'
  BY <1>0, <1>1 DEF ResumeTypes, AtMostTwo
<1>4. AtMostOne'
  <2>1. PICK w \in {wire, wire + 1} : w = wire'
    BY <1>1
  <2>2. PICK bit \in Nat :
          bit <= 1 /\ bit = IF (Overtaken \/ (signals + wire > 0 /\ ~reported))' THEN 1 ELSE 0
    OBVIOUS
  <2>3. ASSUME prompt' PROVE signals + w <= 1 /\ generation + bit <= slept + 1
    <3>1. prompt /\ signals + wire = 0
      BY <1>1, <2>3
    <3>2. generation <= slept
      BY <1>0, <3>1 DEF ResumeTypes, AtMostOne
    <3>3. signals = 0 /\ wire = 0
      BY <1>0, <3>1 DEF ResumeTypes
    <3>4. signals + w <= 1
      BY <3>3
    <3>5. generation + bit <= slept + 1
      BY <1>0, <2>2, <3>2 DEF ResumeTypes
    <3>6. QED
      BY <3>4, <3>5
  <2>4. QED
    BY <1>1, <2>1, <2>2, <2>3 DEF AtMostOne
<1>5. QED
  BY <1>2, <1>3, <1>4 DEF ResumeIInv

\* What only loses signals, or takes them over, announces nothing.
LEMMA QuietResume ==
  ASSUME ResumeIInv, UNCHANGED <<clock, offset, reported, generation, slept, prompt>>,
         signals' \in Nat, wire' \in Nat, signals' + wire' <= signals + wire
  PROVE  ResumeIInv'
<1>0. ResumeTypes /\ AtMostTwo /\ AtMostOne
  BY DEF ResumeIInv
<1>1. ResumeTypes' /\ Overtaken' = Overtaken
  BY <1>0 DEF ResumeTypes, Overtaken
<1>2. PICK s \in Nat : s = signals'
  OBVIOUS
<1>3. PICK w \in Nat : w = wire'
  OBVIOUS
<1>4. s + w <= signals + wire
  BY <1>2, <1>3
<1>5. AtMostTwo'
  <2>1. generation + s + w + (IF Overtaken THEN 1 ELSE 0) <= 2 * slept
    BY <1>0, <1>4 DEF ResumeTypes, AtMostTwo
  <2>2. QED
    BY <1>1, <1>2, <1>3, <2>1 DEF AtMostTwo
<1>6. AtMostOne'
  <2>1. ASSUME prompt
        PROVE  /\ s + w <= 1
               /\ generation + (IF Overtaken \/ (s + w > 0 /\ ~reported) THEN 1 ELSE 0) <= slept
    BY <1>0, <1>4, <2>1 DEF ResumeTypes, AtMostOne
  <2>2. QED
    BY <1>1, <1>2, <1>3, <2>1 DEF AtMostOne
<1>7. QED
  BY <1>1, <1>5, <1>6 DEF ResumeIInv

\* Every step preserves the invariant.
LEMMA NextResume == ResumeIInv /\ [ResumeNext]_resumeVars => ResumeIInv'
<1> SUFFICES ASSUME ResumeIInv, [ResumeNext]_resumeVars PROVE ResumeIInv'
  OBVIOUS
<1>0. signals \in Nat /\ wire \in Nat
  BY DEF ResumeIInv, ResumeTypes
<1>1. CASE \E sample \in Samples : Poll(sample)
  BY <1>1, PollResume
<1>2. CASE \E sample \in Samples : Signal(sample)
  BY <1>2, SignalResume
<1>3. CASE \E time \in {0, Long} : Suspend(time)
  BY <1>3, SuspendResume
<1>4. CASE Stop \/ LogindStops \/ LogindConnects \/ Break \/ Retry \/ Forward \/ ConsumersLeave
           \/ UNCHANGED resumeVars
  <2>1. UNCHANGED <<clock, offset, reported, generation, slept, prompt>>
    BY <1>4 DEF Stop, LogindStops, LogindConnects, Break, Retry, Forward, ConsumersLeave,
                resumeVars, detector, history
  <2>2. signals' \in Nat /\ wire' \in Nat /\ signals' + wire' <= signals + wire
    BY <1>0, <1>4 DEF Stop, LogindStops, LogindConnects, Break, Retry, Forward, ConsumersLeave,
                      resumeVars, detector, history
  <2>3. QED
    BY <2>1, <2>2, QuietResume
<1>5. QED
  BY <1>1, <1>2, <1>3, <1>4 DEF ResumeNext

\* However the clock and the signals interleave, a suspension is announced twice
\* at the most; once, as long as none overtook a signal and no signal met a
\* preempted sample (resume.rs:33-55).
THEOREM CountTheorem == ResumeSpec => []ResumesCounted
<1>1. ResumeIInv => ResumesCounted
  BY DEF ResumeIInv, ResumeTypes, AtMostTwo, AtMostOne, ResumesCounted, AwakeIsNoResume,
      OncePerResume
<1>2. QED
  BY <1>1, InitResume, NextResume, PTL DEF ResumeSpec

-----------------------------------------------------------------------------
(* Forwarding: the inductive invariant *)

\* What the receiver relays: an item, or how many it lost.
Events == [item : Nat] \cup [lagged : Nat]

\* The types of the state.
ForwardTypes ==
  /\ version \in Nat /\ seen \in Nat /\ seen <= version /\ shown \in Seq(Nat)
  /\ sent \in Nat /\ next \in Nat \ {0} /\ relayed \in Seq(Events)

\* What was shown grew, and is seen; what is announced was not shown.
ShownGrew ==
  /\ \A i, j \in DOMAIN shown : i < j => shown[i] < shown[j]
  /\ \A i \in DOMAIN shown : shown[i] <= seen
  /\ watcher = "initial" => shown = <<>>
  /\ watcher = "changed" => \A i \in DOMAIN shown : shown[i] < seen

\* A function that counts what the events account for.
CountsOf(f, events) ==
  f = [n \in 0 .. Len(events) |-> IF n = 0 THEN 0 ELSE f[n - 1] + Amount(events[n])]

\* It exists, ends where the receiver is, and tells each item its number.
CountsExist == \E f : CountsOf(f, relayed)
CountsTell ==
  \A f : CountsOf(f, relayed) =>
    /\ f[Len(relayed)] = next - 1
    /\ \A i \in DOMAIN relayed : "item" \in DOMAIN relayed[i] => relayed[i].item = f[i]

\* Versions shown in order, and items accounted for one by one.
ForwardIInv == ForwardTypes /\ ShownGrew /\ CountsExist /\ CountsTell

\* An item accounts for itself, a loss for what was lost.
LEMMA EventFacts ==
  ASSUME NEW n \in Nat
  PROVE  /\ [item |-> n] \in Events /\ Amount([item |-> n]) = 1
         /\ [lagged |-> n] \in Events /\ Amount([lagged |-> n]) = n
         /\ "item" \notin DOMAIN [lagged |-> n]
<1>1. DOMAIN [item |-> n] = {"item"} /\ DOMAIN [lagged |-> n] = {"lagged"}
  OBVIOUS
<1>2. "item" # "lagged"
  OBVIOUS
<1>3. QED
  BY <1>1, <1>2 DEF Events, Amount

\* One more event.
LEMMA CountsAppend ==
  ASSUME NEW events \in Seq(Events), NEW e \in Events
  PROVE  /\ \A f : CountsOf(f, events) => \E g : CountsOf(g, Append(events, e))
         /\ \A g : CountsOf(g, Append(events, e)) =>
              \E f : /\ CountsOf(f, events)
                     /\ \A n \in 0 .. Len(events) : g[n] = f[n]
                     /\ g[Len(events) + 1] = f[Len(events)] + Amount(e)
<1> DEFINE longer == Append(events, e)
           l == Len(events)
<1>1. /\ l \in Nat /\ Len(longer) = l + 1 /\ longer[l + 1] = e
      /\ \A n \in 1 .. l : longer[n] = events[n]
  OBVIOUS
<1> HIDE DEF longer
<1>2. ASSUME NEW f, CountsOf(f, events) PROVE \E g : CountsOf(g, longer)
  <2> DEFINE g == [n \in 0 .. l + 1 |-> IF n = l + 1 THEN f[l] + Amount(e) ELSE f[n]]
  <2>1. \A n \in 0 .. l : f[n] = IF n = 0 THEN 0 ELSE f[n - 1] + Amount(events[n])
    BY <1>2 DEF CountsOf
  <2>2. ASSUME NEW n \in 0 .. l + 1
        PROVE  g[n] = IF n = 0 THEN 0 ELSE g[n - 1] + Amount(longer[n])
    <3>1. CASE n = l + 1
      <4>1. n # 0 /\ n - 1 = l /\ l \in 0 .. l + 1 /\ l # l + 1
        BY <1>1, <3>1
      <4>2. g[l] = f[l] /\ g[n] = f[l] + Amount(e)
        BY <3>1, <4>1
      <4>3. QED
        BY <1>1, <3>1, <4>1, <4>2
    <3>2. CASE n # l + 1
      <4>1. n \in 0 .. l /\ g[n] = f[n]
        BY <1>1, <3>2
      <4>2. CASE n = 0
        BY <2>1, <4>1, <4>2
      <4>3. CASE n # 0
        <5>1. n \in 1 .. l /\ n - 1 \in 0 .. l + 1 /\ n - 1 # l + 1
          BY <1>1, <4>1, <4>3
        <5>2. g[n - 1] = f[n - 1] /\ longer[n] = events[n]
          BY <1>1, <5>1
        <5>3. QED
          BY <2>1, <4>1, <4>3, <5>2
      <4>4. QED
        BY <4>2, <4>3
    <3>3. QED
      BY <3>1, <3>2
  <2>3. g = [n \in 0 .. l + 1 |-> IF n = 0 THEN 0 ELSE g[n - 1] + Amount(longer[n])]
    <3>1. g = [n \in 0 .. l + 1 |-> g[n]]
      OBVIOUS
    <3> HIDE DEF g
    <3>2. QED
      BY <2>2, <3>1
  <2> HIDE DEF g
  <2>4. CountsOf(g, longer)
    BY <1>1, <2>3 DEF CountsOf
  <2>5. QED
    BY <2>4
<1>3. ASSUME NEW g, CountsOf(g, longer)
      PROVE  \E f : /\ CountsOf(f, events)
                    /\ \A n \in 0 .. l : g[n] = f[n]
                    /\ g[l + 1] = f[l] + Amount(e)
  <2> DEFINE f == [n \in 0 .. l |-> g[n]]
  <2>1. \A n \in 0 .. l + 1 : g[n] = IF n = 0 THEN 0 ELSE g[n - 1] + Amount(longer[n])
    BY <1>1, <1>3 DEF CountsOf
  <2>2. ASSUME NEW n \in 0 .. l
        PROVE  f[n] = IF n = 0 THEN 0 ELSE f[n - 1] + Amount(events[n])
    <3>1. n \in 0 .. l + 1 /\ f[n] = g[n]
      BY <1>1
    <3>2. CASE n = 0
      BY <2>1, <3>1, <3>2
    <3>3. CASE n # 0
      <4>1. n - 1 \in 0 .. l /\ n \in 1 .. l
        BY <1>1, <3>3
      <4>2. f[n - 1] = g[n - 1] /\ longer[n] = events[n]
        BY <1>1, <4>1
      <4>3. QED
        BY <2>1, <3>1, <3>3, <4>2
    <3>4. QED
      BY <3>2, <3>3
  <2>3. f = [n \in 0 .. l |-> IF n = 0 THEN 0 ELSE f[n - 1] + Amount(events[n])]
    <3>1. f = [n \in 0 .. l |-> f[n]]
      OBVIOUS
    <3>2. \A n \in 0 .. l : g[n] = f[n]
      OBVIOUS
    <3> HIDE DEF f
    <3>3. QED
      BY <2>2, <3>1
  <2>4. g[l + 1] = f[l] + Amount(e)
    <3>1. l + 1 \in 0 .. l + 1 /\ l + 1 # 0 /\ (l + 1) - 1 = l /\ l \in 0 .. l
      BY <1>1
    <3>2. QED
      BY <1>1, <2>1, <3>1
  <2>5. \A n \in 0 .. l : g[n] = f[n]
    OBVIOUS
  <2> HIDE DEF f
  <2>6. CountsOf(f, events)
    BY <2>3 DEF CountsOf
  <2>7. QED
    BY <2>4, <2>5, <2>6
<1>4. QED
  BY <1>2, <1>3 DEF longer

\* Nothing has been shown or relayed.
LEMMA InitForward == ForwardInit => ForwardIInv
<1> SUFFICES ASSUME ForwardInit PROVE ForwardIInv
  OBVIOUS
<1>1. ForwardTypes /\ ShownGrew
  BY DEF ForwardInit, ForwardTypes, ShownGrew
<1>2. relayed = <<>> /\ next = 1 /\ Len(relayed) = 0 /\ DOMAIN relayed = {}
  BY DEF ForwardInit
<1>3. CountsExist
  <2> DEFINE f == [n \in 0 .. 0 |-> 0]
  <2>1. f = [n \in 0 .. 0 |-> IF n = 0 THEN 0 ELSE f[n - 1] + Amount(relayed[n])]
    OBVIOUS
  <2> HIDE DEF f
  <2>2. CountsOf(f, relayed)
    BY <1>2, <2>1 DEF CountsOf
  <2>3. QED
    BY <2>2 DEF CountsExist
<1>4. CountsTell
  <2>1. ASSUME NEW f, CountsOf(f, relayed) PROVE f[0] = 0
    BY <1>2, <2>1 DEF CountsOf
  <2>2. QED
    BY <1>2, <2>1 DEF CountsTell
<1>5. QED
  BY <1>1, <1>3, <1>4 DEF ForwardIInv

\* The event that is relayed accounts for what the receiver passes.
LEMMA RelayForward ==
  ASSUME ForwardIInv, NEW e \in Events, relayed' = Append(relayed, e),
         NEW n \in Nat \ {0}, next' = n, n = next + Amount(e),
         "item" \in DOMAIN e => e.item = n - 1
  PROVE  (CountsExist /\ CountsTell)'
<1>0. relayed \in Seq(Events) /\ next \in Nat \ {0} /\ CountsExist /\ CountsTell
  BY DEF ForwardIInv, ForwardTypes
<1>1. CountsExist'
  BY <1>0, CountsAppend DEF CountsExist
<1>2. ASSUME NEW g, CountsOf(g, Append(relayed, e))
      PROVE  /\ g[Len(relayed) + 1] = n - 1
             /\ \A i \in 1 .. Len(relayed) + 1 :
                  "item" \in DOMAIN Append(relayed, e)[i] => Append(relayed, e)[i].item = g[i]
  <2>1. PICK f : /\ CountsOf(f, relayed)
                 /\ \A k \in 0 .. Len(relayed) : g[k] = f[k]
                 /\ g[Len(relayed) + 1] = f[Len(relayed)] + Amount(e)
    BY <1>0, <1>2, CountsAppend
  <2>2. /\ f[Len(relayed)] = next - 1
        /\ \A i \in DOMAIN relayed : "item" \in DOMAIN relayed[i] => relayed[i].item = f[i]
    BY <1>0, <2>1 DEF CountsTell
  <2>3. Amount(e) = n - next /\ Amount(e) \in Int
    <3>1. e \in [item : Nat] \/ e \in [lagged : Nat]
      BY DEF Events
    <3>2. Amount(e) \in Nat
      BY <3>1 DEF Amount
    <3>3. QED
      BY <1>0, <3>2
  <2>4. g[Len(relayed) + 1] = n - 1
    BY <1>0, <2>1, <2>2, <2>3
  <2>5. ASSUME NEW i \in 1 .. Len(relayed) + 1, "item" \in DOMAIN Append(relayed, e)[i]
        PROVE  Append(relayed, e)[i].item = g[i]
    <3>1. CASE i = Len(relayed) + 1
      <4>1. Append(relayed, e)[i] = e
        BY <1>0, <3>1
      <4>2. QED
        BY <2>4, <2>5, <3>1, <4>1
    <3>2. CASE i # Len(relayed) + 1
      <4>1. i \in 1 .. Len(relayed) /\ i \in DOMAIN relayed /\ Append(relayed, e)[i] = relayed[i]
            /\ i \in 0 .. Len(relayed)
        BY <1>0, <3>2
      <4>2. QED
        BY <2>1, <2>2, <2>5, <4>1
    <3>3. QED
      BY <3>1, <3>2
  <2>6. QED
    BY <2>4, <2>5
<1>3. Len(relayed') = Len(relayed) + 1 /\ DOMAIN relayed' = 1 .. Len(relayed) + 1
  BY <1>0
<1>4. CountsTell'
  BY <1>2, <1>3 DEF CountsTell
<1>5. QED
  BY <1>1, <1>4

\* Every step preserves the invariant.
LEMMA NextForward == ForwardIInv /\ [ForwardNext]_forwardVars => ForwardIInv'
<1> SUFFICES ASSUME ForwardIInv, [ForwardNext]_forwardVars PROVE ForwardIInv'
  OBVIOUS
<1>0. ForwardTypes /\ ShownGrew /\ CountsExist /\ CountsTell
  BY DEF ForwardIInv
<1>1. CASE Receive
  <2>1. UNCHANGED <<version, seen, watcher, shown, sent>> /\ next <= sent
    BY <1>1 DEF Receive, watch
  <2>2. ShownGrew'
    BY <1>0, <2>1 DEF ShownGrew
  <2>3. Oldest \in Nat \ {0} /\ CastCapacity \in Nat \ {0}
    BY <1>0, ForwardConstants DEF ForwardTypes, Oldest
  <2>4. CASE next < Oldest
    <3> DEFINE e == [lagged |-> Oldest - next]
    <3>1. next' = Oldest /\ relayed' = Append(relayed, e) /\ Oldest - next \in Nat
      BY <1>0, <1>1, <2>3, <2>4 DEF Receive, ForwardTypes
    <3>2. e \in Events /\ Amount(e) = Oldest - next /\ "item" \notin DOMAIN e
      BY <3>1, EventFacts
    <3> HIDE DEF e
    <3>3. Oldest = next + Amount(e)
      BY <1>0, <2>3, <3>2 DEF ForwardTypes
    <3>4. (CountsExist /\ CountsTell)'
      BY <2>3, <3>1, <3>2, <3>3, RelayForward
    <3>5. ForwardTypes'
      <4>1. relayed' \in Seq(Events)
        BY <1>0, <3>1, <3>2 DEF ForwardTypes
      <4>2. QED
        BY <1>0, <2>1, <2>3, <3>1, <4>1 DEF ForwardTypes
    <3>6. QED
      BY <2>2, <3>4, <3>5 DEF ForwardIInv
  <2>5. CASE ~(next < Oldest)
    <3> DEFINE e == [item |-> next]
    <3>1. next' = next + 1 /\ relayed' = Append(relayed, e) /\ next \in Nat
      BY <1>0, <1>1, <2>3, <2>5 DEF Receive, ForwardTypes
    <3>2. e \in Events /\ Amount(e) = 1 /\ e.item = next
      BY <3>1, EventFacts
    <3> HIDE DEF e
    <3>3. next + 1 = next + Amount(e) /\ next + 1 \in Nat \ {0} /\ e.item = (next + 1) - 1
      BY <3>1, <3>2
    <3>4. (CountsExist /\ CountsTell)'
      BY <3>1, <3>2, <3>3, RelayForward
    <3>5. ForwardTypes'
      <4>1. relayed' \in Seq(Events)
        BY <1>0, <3>1, <3>2 DEF ForwardTypes
      <4>2. QED
        BY <1>0, <2>1, <3>1, <4>1 DEF ForwardTypes
    <3>6. QED
      BY <2>2, <3>4, <3>5 DEF ForwardIInv
  <2>6. QED
    BY <2>4, <2>5
<1>2. ASSUME UNCHANGED <<next, relayed>>, ForwardTypes', ShownGrew' PROVE ForwardIInv'
  BY <1>0, <1>2 DEF ForwardIInv, CountsExist, CountsTell
<1>3. CASE ChangeValue
  <2>1. ForwardTypes' /\ ShownGrew'
    BY <1>0, <1>3 DEF ChangeValue, broadcast, ForwardTypes, ShownGrew
  <2>2. QED
    BY <1>2, <1>3, <2>1 DEF ChangeValue, broadcast
<1>4. CASE Broadcast
  <2>1. ForwardTypes' /\ ShownGrew'
    BY <1>0, <1>4 DEF Broadcast, watch, ForwardTypes, ShownGrew
  <2>2. QED
    BY <1>2, <1>4, <2>1 DEF Broadcast
<1>5. CASE Close \/ CastEnds \/ CastEmitted \/ UNCHANGED forwardVars
  <2>1. UNCHANGED <<version, seen, watcher, shown, sent, next, relayed>>
    BY <1>5 DEF Close, CastEnds, CastEmitted, forwardVars, watch, broadcast
  <2>2. ForwardTypes' /\ ShownGrew'
    BY <1>0, <2>1 DEF ForwardTypes, ShownGrew
  <2>3. QED
    BY <1>2, <2>1, <2>2
<1>6. CASE SeesChange
  <2>1. /\ UNCHANGED <<version, shown, sent, next, relayed>> /\ seen # version
        /\ seen' = version /\ watcher' = "changed"
    BY <1>6 DEF SeesChange, broadcast
  <2>2. ForwardTypes'
    BY <1>0, <2>1 DEF ForwardTypes
  <2>3. ASSUME NEW i \in DOMAIN shown PROVE shown[i] < version
    <3>1. shown[i] \in Nat /\ shown[i] <= seen
      BY <1>0 DEF ForwardTypes, ShownGrew
    <3>2. QED
      BY <1>0, <2>1, <3>1 DEF ForwardTypes
  <2>4. \A i \in DOMAIN shown : shown[i] <= version
    <3>1. ASSUME NEW i \in DOMAIN shown PROVE shown[i] <= version
      <4>1. shown[i] \in Nat
        BY <1>0 DEF ForwardTypes
      <4>2. QED
        BY <1>0, <2>3, <4>1 DEF ForwardTypes
    <3>2. QED
      BY <3>1
  <2>5. ShownGrew'
    BY <1>0, <2>1, <2>3, <2>4 DEF ShownGrew
  <2>6. QED
    BY <1>2, <2>1, <2>2, <2>5
<1>7. CASE WatchEnds \/ WatchEmitted
  <2>1. UNCHANGED <<version, seen, shown, sent, next, relayed>> /\ watcher' \in {"ended", "waiting"}
    BY <1>7 DEF WatchEnds, WatchEmitted, broadcast
  <2>2. ForwardTypes' /\ ShownGrew'
    BY <1>0, <2>1 DEF ForwardTypes, ShownGrew
  <2>3. QED
    BY <1>2, <2>1, <2>2
<1>8. CASE Borrow
  <2>1. /\ UNCHANGED <<version, sent, next, relayed>> /\ watcher \in {"initial", "changed"}
        /\ watcher' = "emitting" /\ seen' = version /\ shown' = Append(shown, version)
    BY <1>8 DEF Borrow, broadcast
  <2>2. ForwardTypes'
    BY <1>0, <2>1 DEF ForwardTypes
  <2>3. /\ shown \in Seq(Nat) /\ Len(shown) \in Nat /\ version \in Nat /\ seen \in Nat
        /\ seen <= version
    BY <1>0 DEF ForwardTypes
  <2>4. ASSUME NEW i \in 1 .. Len(shown)
        PROVE  /\ Append(shown, version)[i] = shown[i] /\ shown[i] \in Nat /\ i \in DOMAIN shown
               /\ shown[i] < version
    <3>1. i \in DOMAIN shown /\ Append(shown, version)[i] = shown[i] /\ shown[i] \in Nat
      BY <2>3
    <3>2. shown[i] < seen
      BY <1>0, <2>1, <3>1 DEF ShownGrew
    <3>3. QED
      BY <2>3, <3>1, <3>2
  <2>5. Append(shown, version)[Len(shown) + 1] = version
        /\ DOMAIN Append(shown, version) = 1 .. Len(shown) + 1
    BY <2>3
  <2>6. ASSUME NEW i \in 1 .. Len(shown) + 1
        PROVE  Append(shown, version)[i] <= version
    BY <2>3, <2>4, <2>5
  <2>7. ASSUME NEW i \in 1 .. Len(shown) + 1, NEW j \in 1 .. Len(shown) + 1, i < j
        PROVE  Append(shown, version)[i] < Append(shown, version)[j]
    <3>1. i \in 1 .. Len(shown)
      BY <2>3, <2>7
    <3>2. CASE j = Len(shown) + 1
      BY <2>4, <2>5, <3>1, <3>2
    <3>3. CASE j # Len(shown) + 1
      <4>1. j \in 1 .. Len(shown)
        BY <2>3, <3>3
      <4>2. shown[i] < shown[j]
        BY <1>0, <2>4, <2>7, <3>1, <4>1 DEF ShownGrew
      <4>3. QED
        BY <2>4, <3>1, <4>1, <4>2
    <3>4. QED
      BY <3>2, <3>3
  <2>8. ShownGrew'
    BY <2>1, <2>5, <2>6, <2>7 DEF ShownGrew
  <2>9. QED
    BY <1>2, <2>1, <2>2, <2>8
<1>9. QED
  BY <1>1, <1>3, <1>4, <1>5, <1>6, <1>7, <1>8 DEF ForwardNext, ForwardWatch, Caster

\* The count that the invariant speaks of is the one of the property.
LEMMA ForwardImplies == ForwardIInv => ForwardingIsFaithful
<1> SUFFICES ASSUME ForwardIInv PROVE ForwardingIsFaithful
  OBVIOUS
<1>1. PICK f : CountsOf(f, relayed)
  BY DEF ForwardIInv, CountsExist
<1> DEFINE F(g) == [n \in 0 .. Len(relayed) |-> IF n = 0 THEN 0 ELSE g[n - 1] + Amount(relayed[n])]
<1>2. f = F(f)
  BY <1>1 DEF CountsOf
<1>3. Accounted = CHOOSE g : g = F(g)
  BY DEF Accounted
<1>4. Accounted = F(Accounted)
  BY <1>2, <1>3
<1>5. CountsOf(Accounted, relayed)
  BY <1>4 DEF CountsOf
<1>6. LagIsTold
  BY <1>5 DEF ForwardIInv, CountsTell, LagIsTold
<1>7. QED
  BY <1>6 DEF ForwardIInv, ShownGrew, NothingTwice, ForwardingIsFaithful

\* A forwarder shows ever newer versions, and relays every item or says that it
\* lost it (forward.rs:13-44).
THEOREM FaithfulTheorem == ForwardSpec => []ForwardingIsFaithful
<1>1. ForwardIInv => ForwardingIsFaithful
  BY ForwardImplies
<1>2. QED
  BY <1>1, InitForward, NextForward, PTL DEF ForwardSpec

-----------------------------------------------------------------------------
(* The compositor's events: what has been told, against where the watcher is *)

\* What the channel carries.
Tellable ==
  [kind : {"connected", "message", "disconnected", "failed"},
   cause : {No} \cup Causes]

\* The types of the state.
EventTypes ==
  /\ compositor \in {Up} \cup Causes
  /\ pc \in {"connecting", "reading", "sending", "sleeping", "ended"}
  /\ queue \in Seq(Tellable)

\* A connection has been told, and not its end.
Within == told = Connected /\ attempt = Established /\ last = No

\* Nothing was told since the failure that is remembered, and no connection.
Without == told \in IF last = No THEN {Event(No), Disconnected} ELSE {ConnectFailed(last)}

\* What is about to be told.
Telling ==
  \/ /\ event.what = Connected /\ event.then = "reading" /\ attempt = Established /\ last = No
     /\ told.kind # "connected"
  \/ event.what = Message /\ event.then = "reading" /\ Within
  \/ event.what = Disconnected /\ event.then = "sleeping" /\ Within
  \/ /\ event.what = ConnectFailed(attempt) /\ event.then = "sleeping"
     /\ attempt \in Causes /\ last = attempt
     /\ told.kind # "connected" /\ told # event.what

\* Each phase of the watcher, and what it has told by then.
Phases ==
  /\ pc = "connecting" => Without /\ last \in {No} \cup Causes
  /\ pc = "reading" => Within
  /\ pc = "sending" => Telling
  /\ pc = "sleeping" => /\ attempt \in {Established} \cup Causes
                        /\ last = IF attempt = Established THEN No ELSE attempt
                        /\ LastIsTold

EventsIInv == EventTypes /\ Phases

\* Nothing was attempted, and nothing told.
LEMMA InitEvents == EventsInit => EventsIInv
BY DEF EventsInit, EventsIInv, EventTypes, Phases, Without, LastIsTold

\* An attempt fails or succeeds.
LEMMA AttemptStep == EventsIInv /\ (Establish \/ Fail) => EventsIInv'
<1> SUFFICES ASSUME EventsIInv, Establish \/ Fail PROVE EventsIInv'
  OBVIOUS
<1>1. EventTypes'
  BY DEF EventsIInv, EventTypes, Establish, Fail, Send
<1>2. CASE Establish
  <2>1. told.kind # "connected"
    BY <1>2 DEF EventsIInv, Phases, Without, Establish, Event, Disconnected, ConnectFailed, No
  <2>2. QED
    BY <1>1, <1>2, <2>1 DEF EventsIInv, Phases, Telling, Establish, Send
<1>3. CASE Fail
  <2>1. /\ pc = "connecting" /\ compositor \in Causes /\ attempt' = compositor /\ told' = told
        /\ Without /\ last \in {No} \cup Causes /\ compositor # No /\ compositor # Established
    BY <1>3, EventsConstants DEF Fail, EventsIInv, EventTypes, Phases
  <2>2. CASE last # compositor /\ Send(ConnectFailed(compositor), "sleeping") /\ last' = compositor
    <3>1. told.kind # "connected" /\ told # ConnectFailed(compositor)
      BY <2>1, <2>2 DEF Without, Event, Disconnected, ConnectFailed, No
    <3>2. Telling'
      BY <2>1, <2>2, <3>1 DEF Send, Telling
    <3>3. QED
      BY <1>1, <2>2, <3>2 DEF EventsIInv, Phases, Send
  <2>3. CASE last = compositor /\ pc' = "sleeping" /\ UNCHANGED <<event, last>>
    BY <1>1, <2>1, <2>3 DEF Without, EventsIInv, Phases, LastIsTold
  <2>4. QED
    BY <1>3, <2>2, <2>3 DEF Fail
<1>4. QED
  BY <1>2, <1>3

\* A line is read, or the end.
LEMMA ReadStep == EventsIInv /\ Read => EventsIInv'
BY DEF EventsIInv, EventTypes, Phases, Read, Send, Telling, Within

\* An event goes into the channel.
LEMMA DeliverStep == EventsIInv /\ Deliver => EventsIInv'
<1> SUFFICES ASSUME EventsIInv, Deliver PROVE EventsIInv'
  OBVIOUS
<1>1. /\ Telling /\ pc' = event.then /\ queue' = Append(queue, event.what)
      /\ UNCHANGED <<compositor, attempt, last>>
  BY DEF EventsIInv, Phases, Deliver
<1>2. event.then \in {"reading", "sleeping"}
  BY <1>1 DEF Telling
<1>3. event.what \in Tellable
  BY <1>1 DEF Telling, Tellable, Event, Connected, Message, Disconnected, ConnectFailed
<1>4. EventTypes'
  BY <1>1, <1>2, <1>3 DEF EventsIInv, EventTypes
<1>5. told' = IF event.what = Message THEN told ELSE event.what
  BY DEF Deliver
<1>6. Phases'
  BY <1>1, <1>5, EventsConstants
     DEF Telling, Within, Phases, LastIsTold, Event, Connected, Message, Disconnected, ConnectFailed
<1>7. QED
  BY <1>4, <1>6 DEF EventsIInv

\* The watcher waits or ends.
LEMMA PauseStep == EventsIInv /\ (Wake \/ End) => EventsIInv'
<1> SUFFICES ASSUME EventsIInv, Wake \/ End PROVE EventsIInv'
  OBVIOUS
<1>1. EventTypes'
  BY DEF EventsIInv, EventTypes, Wake, End
<1>2. CASE Wake
  BY <1>1, <1>2, EventsConstants DEF EventsIInv, Phases, LastIsTold, Without, Wake
<1>3. CASE End
  BY <1>1, <1>3 DEF EventsIInv, Phases, LastIsTold, End
<1>4. QED
  BY <1>2, <1>3

\* The consumer and the compositor.
LEMMA OutsideStep ==
  EventsIInv /\ (Take \/ Leave \/ Turn \/ Emit \/ UNCHANGED eventsVars) => EventsIInv'
<1> SUFFICES ASSUME EventsIInv, Take \/ Leave \/ Turn \/ Emit \/ UNCHANGED eventsVars
             PROVE  EventsIInv'
  OBVIOUS
<1>1. UNCHANGED <<pc, event, last, attempt, told>>
  BY DEF Take, Leave, Turn, Emit, eventsVars
<1>2. compositor' \in {Up} \cup Causes
  BY DEF EventsIInv, EventTypes, Take, Leave, Turn, Emit, eventsVars
<1>3. queue' = queue \/ (queue # <<>> /\ queue' = Tail(queue))
  BY DEF Take, Leave, Turn, Emit, eventsVars
<1>4. EventTypes'
  BY <1>1, <1>2, <1>3 DEF EventsIInv, EventTypes
<1>5. Phases'
  BY <1>1 DEF EventsIInv, Phases, Within, Without, Telling, LastIsTold
<1>6. QED
  BY <1>4, <1>5 DEF EventsIInv

LEMMA NextEvents == EventsIInv /\ [EventsNext]_eventsVars => EventsIInv'
BY AttemptStep, ReadStep, DeliverStep, PauseStep, OutsideStep DEF EventsNext, Watcher

\* What goes into the channel follows from what was told before.
LEMMA EventsOrder ==
  ASSUME EventsIInv, [EventsNext]_eventsVars, queue' # queue, Len(queue') > Len(queue)
  PROVE  Expected(queue'[Len(queue')])
<1>1. queue \in Seq(Tellable)
  BY DEF EventsIInv, EventTypes
<1>2. CASE Take
  BY <1>1, <1>2 DEF Take
<1>3. CASE Deliver
  <2>1. Telling /\ queue' = Append(queue, event.what)
    BY <1>3 DEF EventsIInv, Phases, Deliver
  <2>2. queue'[Len(queue')] = event.what
    BY <1>1, <2>1
  <2>3. \/ event.what.kind = "connected" /\ told.kind # "connected"
        \/ event.what.kind \in {"message", "disconnected"} /\ told.kind = "connected"
        \/ event.what.kind = "failed" /\ told.kind # "connected" /\ told # event.what
    BY <2>1 DEF Telling, Within, Event, Connected, Message, Disconnected, ConnectFailed
  <2>4. Expected(event.what)
    BY <2>3 DEF Expected
  <2>5. QED
    BY <2>2, <2>4
<1>4. QED
  BY <1>2, <1>3
     DEF EventsNext, Watcher, Establish, Fail, Read, Wake, End, Leave, Turn, Emit, eventsVars

\* What the consumer hears of the compositor is in order, and the latest.
THEOREM StreamTheorem == EventsSpec => StreamIsTrue
<1>1. EventsIInv => LastIsTold
  BY DEF EventsIInv, Phases, LastIsTold
<1>2. EventsIInv /\ [EventsNext]_eventsVars
        => [queue' # queue /\ Len(queue') > Len(queue) => Expected(queue'[Len(queue')])]_eventsVars
  BY EventsOrder
<1>3. QED
  BY InitEvents, NextEvents, <1>1, <1>2, PTL DEF EventsSpec, StreamIsTrue, StreamIsOrderly

-----------------------------------------------------------------------------
(* One request to the compositor: where it looks, and in which order *)

\* The members of a sequence.
Listed(s) == {s[i] : i \in DOMAIN s}

\* The instance that is asked for by its name.
IsNamed(w, p) == w.kind = "valid" /\ p.signature = w.signature

\* The documented order, for the signature that is wanted.
RankOf(w, p) ==
  IF IsNamed(w, p) THEN p.root ELSE 2 + (p.root - 1) * Signatures + p.signature

\* Each path was missing at some time, or will be considered.
CoveredBy(w, alone, m, candidates, todo, roots) ==
  \A p \in Paths : \/ p \in m \cup Listed(candidates) \cup Listed(todo)
                   \/ ~IsNamed(w, p) /\ (alone \/ p.root \in Listed(roots))

\* Whatever ranks before a candidate was missing, or is a candidate before it.
InOrder(w, m, candidates) ==
  \A i \in DOMAIN candidates : \A p \in Paths :
    RankOf(w, p) < RankOf(w, candidates[i]) =>
      p \in m \/ \E j \in DOMAIN candidates : j < i /\ candidates[j] = p

\* Whatever ranks before a path to check was missing, is a candidate, or is checked before it.
ToCheckInOrder(w, m, candidates, todo) ==
  \A i \in DOMAIN todo : \A p \in Paths :
    RankOf(w, p) < RankOf(w, todo[i]) =>
      \/ p \in m \cup Listed(candidates)
      \/ \E j \in DOMAIN todo : j < i /\ todo[j] = p

\* An exact request looks at the paths of its signature.
AtHome(w, candidates, todo, roots) ==
  /\ w.kind = "valid" /\ roots = <<>>
  /\ \A p \in Listed(todo) \cup Listed(candidates) : p.signature = w.signature

\* Whatever ranks before a path was missing.
MissingBefore(w, m, q) == \A p \in Paths : RankOf(w, p) < RankOf(w, q) => p \in m

\* What a scan sees of a root is all that was never missing there.
SeesRoot(n, visible, root) ==
  /\ \A p \in visible : p.root = root
  /\ \A p \in Paths : p.root = root => p \in n \cup visible

\* The roots that are still to be scanned.
RootsAhead == {<<1, 2>>, <<2>>, <<>>}

\* The signature that is wanted, if any.
Wanted == [kind : {"valid"}, signature : 1 .. Signatures]
            \cup [kind : {"absent", "invalid"}, signature : {0}]

LEMMA RankFacts ==
  ASSUME NEW w \in Wanted, NEW p \in Paths
  PROVE  /\ p.root \in {1, 2} /\ p.signature \in 1 .. Signatures
         /\ IsNamed(w, p) => RankOf(w, p) = p.root
         /\ ~IsNamed(w, p) /\ p.root = 1 => RankOf(w, p) = 2 + p.signature
         /\ ~IsNamed(w, p) /\ p.root = 2 => RankOf(w, p) = 2 + Signatures + p.signature
<1>1. p.root \in {1, 2} /\ p.signature \in 1 .. Signatures /\ Signatures \in Nat
  BY RequestConstants DEF Paths
<1>2. ASSUME p.root = 1 PROVE (p.root - 1) * Signatures = 0
  BY <1>1, <1>2
<1>3. ASSUME p.root = 2 PROVE (p.root - 1) * Signatures = Signatures
  BY <1>1, <1>3
<1>4. QED
  BY <1>1, <1>2, <1>3 DEF RankOf

\* In which order two paths rank.
LEMMA RankOrder ==
  ASSUME NEW w \in Wanted, NEW p \in Paths, NEW q \in Paths, RankOf(w, p) < RankOf(w, q)
  PROVE  \/ IsNamed(w, p) /\ (IsNamed(w, q) => p.root = 1 /\ q.root = 2)
         \/ /\ ~IsNamed(w, p) /\ ~IsNamed(w, q)
            /\ \/ p.root = 1 /\ q.root = 2
               \/ p.root = q.root /\ p.signature < q.signature
<1>1. Signatures \in Nat
  BY RequestConstants
<1>2. /\ p.root \in {1, 2} /\ p.signature \in 1 .. Signatures
      /\ q.root \in {1, 2} /\ q.signature \in 1 .. Signatures
  BY RankFacts
<1>3. ASSUME IsNamed(w, q) PROVE IsNamed(w, p) /\ p.root = 1 /\ q.root = 2
  <2>1. RankOf(w, q) = q.root
    BY <1>3, RankFacts
  <2>2. IsNamed(w, p)
    BY <1>1, <1>2, <2>1, RankFacts
  <2>3. QED
    BY <1>1, <1>2, <2>1, <2>2, RankFacts
<1>4. ASSUME ~IsNamed(w, p), ~IsNamed(w, q)
      PROVE  \/ p.root = 1 /\ q.root = 2
             \/ p.root = q.root /\ p.signature < q.signature
  <2>1. RankOf(w, p) = IF p.root = 1 THEN 2 + p.signature ELSE 2 + Signatures + p.signature
    BY <1>2, <1>4, RankFacts
  <2>2. RankOf(w, q) = IF q.root = 1 THEN 2 + q.signature ELSE 2 + Signatures + q.signature
    BY <1>2, <1>4, RankFacts
  <2>3. QED
    BY <1>1, <1>2, <2>1, <2>2
<1>5. QED
  BY <1>3, <1>4

\* What is missing once has been missing ever since.
LEMMA StillMissing ==
  ASSUME NEW w, NEW alone, NEW m, NEW n, m \subseteq n, NEW candidates, NEW todo, NEW roots, NEW q
  PROVE  /\ CoveredBy(w, alone, m, candidates, todo, roots)
              => CoveredBy(w, alone, n, candidates, todo, roots)
         /\ InOrder(w, m, candidates) => InOrder(w, n, candidates)
         /\ ToCheckInOrder(w, m, candidates, todo) => ToCheckInOrder(w, n, candidates, todo)
         /\ MissingBefore(w, m, q) => MissingBefore(w, n, q)
<1>1. CoveredBy(w, alone, m, candidates, todo, roots)
        => CoveredBy(w, alone, n, candidates, todo, roots)
  BY DEF CoveredBy
<1>2. InOrder(w, m, candidates) => InOrder(w, n, candidates)
  BY DEF InOrder
<1>3. ToCheckInOrder(w, m, candidates, todo) => ToCheckInOrder(w, n, candidates, todo)
  BY DEF ToCheckInOrder
<1>4. MissingBefore(w, m, q) => MissingBefore(w, n, q)
  BY DEF MissingBefore
<1>5. QED
  BY <1>1, <1>2, <1>3, <1>4

\* A sequence without its head, and one with a member more.
LEMMA TailFacts ==
  ASSUME NEW S, NEW s \in Seq(S), s # <<>>
  PROVE  /\ Head(s) \in S /\ Tail(s) \in Seq(S) /\ 1 \in DOMAIN s /\ Head(s) = s[1]
         /\ \A i \in DOMAIN Tail(s) : i + 1 \in DOMAIN s /\ Tail(s)[i] = s[i + 1] /\ i \in Nat \ {0}
         /\ \A i \in DOMAIN s :
              i \in Nat /\ (i = 1 \/ (i - 1 \in DOMAIN Tail(s) /\ Tail(s)[i - 1] = s[i]))
OBVIOUS

LEMMA TailListed ==
  ASSUME NEW S, NEW s \in Seq(S), s # <<>>
  PROVE  Listed(s) = {Head(s)} \cup Listed(Tail(s))
<1>1. ASSUME NEW x \in Listed(s) PROVE x = Head(s) \/ x \in Listed(Tail(s))
  BY <1>1, TailFacts DEF Listed
<1>2. ASSUME NEW x \in Listed(Tail(s)) PROVE x \in Listed(s)
  BY <1>2, TailFacts DEF Listed
<1>3. Head(s) \in Listed(s)
  BY TailFacts DEF Listed
<1>4. QED
  BY <1>1, <1>2, <1>3

LEMMA AppendFacts ==
  ASSUME NEW S, NEW s \in Seq(S), NEW x \in S
  PROVE  /\ Append(s, x) \in Seq(S) /\ Len(s) \in Nat
         /\ DOMAIN Append(s, x) = DOMAIN s \cup {Len(s) + 1}
         /\ Append(s, x)[Len(s) + 1] = x
         /\ \A i \in DOMAIN s : i \in Nat /\ i <= Len(s) /\ i # Len(s) + 1 /\ Append(s, x)[i] = s[i]
OBVIOUS

LEMMA AppendListed ==
  ASSUME NEW S, NEW s \in Seq(S), NEW x \in S
  PROVE  Listed(Append(s, x)) = Listed(s) \cup {x}
BY AppendFacts DEF Listed

-----------------------------------------------------------------------------
\* A path was checked: it is a candidate now, or was one before, or is missing.
LEMMA CheckKeeps ==
  ASSUME NEW w, NEW alone, NEW m, NEW roots, NEW candidates \in Seq(Paths),
         NEW todo \in Seq(Paths), todo # <<>>, NEW found \in Seq(Paths),
         \/ found = Append(candidates, Head(todo))
         \/ found = candidates /\ Head(todo) \in m \cup Listed(candidates),
         CoveredBy(w, alone, m, candidates, todo, roots), InOrder(w, m, candidates),
         ToCheckInOrder(w, m, candidates, todo), alone => AtHome(w, candidates, todo, roots)
  PROVE  /\ CoveredBy(w, alone, m, found, Tail(todo), roots) /\ InOrder(w, m, found)
         /\ ToCheckInOrder(w, m, found, Tail(todo))
         /\ alone => AtHome(w, found, Tail(todo), roots)
<1> DEFINE h == Head(todo)
<1> DEFINE rest == Tail(todo)
<1>1. h \in Paths /\ rest \in Seq(Paths) /\ Listed(todo) = {h} \cup Listed(rest)
  BY TailFacts, TailListed
<1>a. found = Append(candidates, h) \/ (found = candidates /\ h \in m \cup Listed(candidates))
  OBVIOUS
<1>b. Listed(Append(candidates, h)) = Listed(candidates) \cup {h}
  BY <1>1, AppendListed
<1>4. /\ 1 \in DOMAIN todo /\ todo[1] = h
      /\ \A i \in DOMAIN rest : i + 1 \in DOMAIN todo /\ rest[i] = todo[i + 1] /\ i \in Nat \ {0}
      /\ \A i \in DOMAIN todo :
           i \in Nat /\ (i = 1 \/ (i - 1 \in DOMAIN rest /\ rest[i - 1] = todo[i]))
  BY TailFacts
<1> HIDE DEF h, rest
<1>2. /\ Listed(found) \subseteq Listed(candidates) \cup {h}
      /\ Listed(candidates) \subseteq Listed(found)
  BY <1>a, <1>b
<1>3. h \in m \cup Listed(found)
  BY <1>a, <1>b
<1>5. CoveredBy(w, alone, m, found, rest, roots)
  BY <1>1, <1>2, <1>3 DEF CoveredBy
<1>6. ToCheckInOrder(w, m, found, rest)
  <2> SUFFICES ASSUME NEW i \in DOMAIN rest, NEW p \in Paths, RankOf(w, p) < RankOf(w, rest[i]),
                      p \notin m \cup Listed(found)
               PROVE  \E j \in DOMAIN rest : j < i /\ rest[j] = p
    BY DEF ToCheckInOrder
  <2>a. /\ i + 1 \in DOMAIN todo /\ RankOf(w, p) < RankOf(w, todo[i + 1])
        /\ p \notin m \cup Listed(candidates)
    BY <1>2, <1>4
  <2>1. PICK j \in DOMAIN todo : j < i + 1 /\ todo[j] = p
    BY <2>a, SMTT(40) DEF ToCheckInOrder
  <2>2. j # 1
    BY <1>3, <1>4, <2>1
  <2>3. j - 1 \in DOMAIN rest /\ rest[j - 1] = p /\ j - 1 < i
    BY <1>4, <2>1, <2>2, SMTT(40)
  <2>4. QED
    BY <2>3
<1>7. InOrder(w, m, found)
  <2>1. CASE found = candidates
    BY <2>1
  <2>2. CASE found = Append(candidates, h)
    <3>1. /\ Len(candidates) \in Nat /\ DOMAIN found = DOMAIN candidates \cup {Len(candidates) + 1}
          /\ found[Len(candidates) + 1] = h
          /\ \A i \in DOMAIN candidates :
               /\ i \in Nat /\ i <= Len(candidates) /\ i # Len(candidates) + 1
               /\ found[i] = candidates[i]
      BY <1>1, <2>2, AppendFacts
    <3> SUFFICES ASSUME NEW i \in DOMAIN found, NEW p \in Paths,
                        RankOf(w, p) < RankOf(w, found[i]), p \notin m
                 PROVE  \E j \in DOMAIN found : j < i /\ found[j] = p
      BY DEF InOrder
    <3>2. CASE i \in DOMAIN candidates
      <4>1. PICK j \in DOMAIN candidates : j < i /\ candidates[j] = p
        BY <3>1, <3>2 DEF InOrder
      <4>2. QED
        BY <3>1, <4>1
    <3>3. CASE i = Len(candidates) + 1
      <4>1. ~ \E j \in DOMAIN todo : j < 1 /\ todo[j] = p
        BY <1>4
      <4>2. p \in Listed(candidates)
        BY <1>4, <3>1, <3>3, <4>1 DEF ToCheckInOrder
      <4>3. PICK j \in DOMAIN candidates : candidates[j] = p
        BY <4>2 DEF Listed
      <4>4. QED
        BY <3>1, <3>3, <4>3
    <3>4. QED
      BY <3>1, <3>2, <3>3
  <2>3. QED
    BY <1>a, <2>1, <2>2
<1>8. alone => AtHome(w, found, rest, roots)
  BY <1>1, <1>2 DEF AtHome
<1>9. QED
  BY <1>5, <1>6, <1>7, <1>8 DEF rest

\* The instances of the next root are to be checked.
LEMMA ScanKeeps ==
  ASSUME NEW w \in Wanted, NEW alone, NEW m, NEW candidates \in Seq(Paths),
         NEW roots \in RootsAhead, roots # <<>>,
         NEW n, m \subseteq n, NEW visible \in SUBSET Paths, NEW order \in ByName(visible),
         SeesRoot(n, visible, Head(roots)),
         CoveredBy(w, alone, m, candidates, <<>>, roots), InOrder(w, m, candidates),
         alone => AtHome(w, candidates, <<>>, roots)
  PROVE  /\ order \in Seq(Paths) /\ Tail(roots) \in RootsAhead /\ ~alone
         /\ CoveredBy(w, alone, n, candidates, order, Tail(roots)) /\ InOrder(w, n, candidates)
         /\ ToCheckInOrder(w, n, candidates, order)
<1>a. /\ \A p \in visible : p.root = Head(roots)
      /\ \A p \in Paths : p.root = Head(roots) => p \in n \cup visible
  BY DEF SeesRoot
<1>1. ~alone
  BY DEF AtHome
<1>2. /\ Head(roots) \in {1, 2} /\ Listed(roots) = {Head(roots)} \cup Listed(Tail(roots))
      /\ Tail(roots) \in RootsAhead
      /\ Head(roots) = 2 => Listed(roots) = {2}
  <2>1. CASE roots = <<1, 2>>
    BY <2>1 DEF Listed, RootsAhead
  <2>2. CASE roots = <<2>>
    BY <2>2 DEF Listed, RootsAhead
  <2>3. QED
    BY <2>1, <2>2 DEF RootsAhead
<1>3. IsFiniteSet(visible)
  <2>1. IsFiniteSet(1 .. Signatures) /\ IsFiniteSet({1, 2})
    <3>1. Signatures \in Int /\ 1 \in Int /\ 2 \in Int
      BY RequestConstants
    <3>2. IsFiniteSet(1 .. Signatures) /\ IsFiniteSet(1 .. 2)
      BY <3>1, FS_Interval
    <3>3. 1 .. 2 = {1, 2}
      OBVIOUS
    <3>4. QED
      BY <3>2, <3>3
  <2>2. IsFiniteSet(Paths)
    <3>1. IsFiniteSet({1, 2} \X (1 .. Signatures))
      BY <2>1, FS_Product
    <3> DEFINE f == [x \in {1, 2} \X (1 .. Signatures) |-> [root |-> x[1], signature |-> x[2]]]
    <3>2. f \in [{1, 2} \X (1 .. Signatures) -> Paths]
      BY DEF Paths
    <3>a. ASSUME NEW p \in Paths PROVE \E x \in {1, 2} \X (1 .. Signatures) : f[x] = p
      <4>1. /\ <<p.root, p.signature>> \in {1, 2} \X (1 .. Signatures)
            /\ p = [root |-> p.root, signature |-> p.signature]
        BY DEF Paths
      <4>2. f[<<p.root, p.signature>>] = p
        BY <4>1
      <4>3. QED
        BY <4>1, <4>2
    <3>b. f \in Surjection({1, 2} \X (1 .. Signatures), Paths)
      BY <3>2, <3>a DEF Surjection
    <3>3. QED
      BY <3>1, <3>b, FS_Surjection
  <2>3. QED
    BY <2>2, FS_Subset
<1>4. /\ Cardinality(visible) \in Nat /\ DOMAIN order = 1 .. Cardinality(visible)
      /\ \A i \in DOMAIN order : order[i] \in visible /\ i \in Nat
      /\ \A p \in visible : \E i \in DOMAIN order : order[i] = p
      /\ \A i, j \in DOMAIN order : i < j => order[i].signature < order[j].signature
  BY <1>3, FS_CardinalityType DEF ByName
<1>5. order \in Seq(Paths) /\ Listed(order) = visible
  <2>1. order \in [1 .. Cardinality(visible) -> Paths]
    BY DEF ByName
  <2>2. order \in Seq(Paths)
    BY <1>4, <2>1
  <2>3. Listed(order) = visible
    BY <1>4 DEF Listed
  <2>4. QED
    BY <2>2, <2>3
<1>6. Listed(<<>>) = {}
  BY DEF Listed
<1>7. CoveredBy(w, alone, n, candidates, order, Tail(roots))
  BY <1>a, <1>1, <1>2, <1>5, <1>6 DEF CoveredBy
<1>8. ToCheckInOrder(w, n, candidates, order)
  <2> SUFFICES ASSUME NEW i \in DOMAIN order, NEW p \in Paths, RankOf(w, p) < RankOf(w, order[i]),
                      p \notin n \cup Listed(candidates)
               PROVE  \E j \in DOMAIN order : j < i /\ order[j] = p
    BY DEF ToCheckInOrder
  <2> DEFINE q == order[i]
  <2>1. q \in Paths /\ q.root = Head(roots) /\ RankOf(w, p) < RankOf(w, q)
    BY <1>a, <1>4
  <2>2. ~IsNamed(w, p) /\ p.root \in Listed(roots)
    BY <1>1, <1>6 DEF CoveredBy
  <2>3. p.root = q.root /\ p.signature < q.signature
    BY <1>2, <2>1, <2>2, RankOrder
  <2>4. PICK j \in DOMAIN order : order[j] = p
    BY <1>a, <1>4, <2>1, <2>3
  <2>5. order[i].signature \in Nat /\ order[j].signature \in Nat
    BY <2>1, <2>4, RequestConstants DEF Paths
  <2>6. j < i
    BY <1>4, <2>3, <2>4, <2>5
  <2>7. QED
    BY <2>4, <2>6
<1>9. QED
  BY <1>1, <1>2, <1>5, <1>7, <1>8, StillMissing

\* A candidate does not answer: it is missing.
LEMMA PassOverKeeps ==
  ASSUME NEW w, NEW alone, NEW m, NEW candidates \in Seq(Paths), candidates # <<>>,
         Head(candidates) \in m, NEW roots,
         CoveredBy(w, alone, m, candidates, <<>>, roots), InOrder(w, m, candidates),
         alone => AtHome(w, candidates, <<>>, roots)
  PROVE  /\ CoveredBy(w, alone, m, Tail(candidates), <<>>, roots) /\ InOrder(w, m, Tail(candidates))
         /\ alone => AtHome(w, Tail(candidates), <<>>, roots)
<1> DEFINE rest == Tail(candidates)
<1>1. Listed(candidates) = {Head(candidates)} \cup Listed(rest)
  BY TailListed
<1>2. /\ 1 \in DOMAIN candidates /\ candidates[1] = Head(candidates)
      /\ \A i \in DOMAIN rest :
           i + 1 \in DOMAIN candidates /\ rest[i] = candidates[i + 1] /\ i \in Nat \ {0}
      /\ \A i \in DOMAIN candidates :
           i \in Nat /\ (i = 1 \/ (i - 1 \in DOMAIN rest /\ rest[i - 1] = candidates[i]))
  BY TailFacts
<1> HIDE DEF rest
<1>3. CoveredBy(w, alone, m, rest, <<>>, roots)
  BY <1>1 DEF CoveredBy
<1>4. InOrder(w, m, rest)
  <2> SUFFICES ASSUME NEW i \in DOMAIN rest, NEW p \in Paths,
                      RankOf(w, p) < RankOf(w, rest[i]), p \notin m
               PROVE  \E j \in DOMAIN rest : j < i /\ rest[j] = p
    BY DEF InOrder
  <2>1. PICK j \in DOMAIN candidates : j < i + 1 /\ candidates[j] = p
    BY <1>2 DEF InOrder
  <2>2. j - 1 \in DOMAIN rest /\ rest[j - 1] = p /\ j - 1 < i
    BY <1>2, <2>1
  <2>3. QED
    BY <2>2
<1>5. alone => AtHome(w, rest, <<>>, roots)
  BY <1>1 DEF AtHome
<1>6. QED
  BY <1>3, <1>4, <1>5 DEF rest

\* The first candidate is preferred to all that were not missing.
LEMMA FirstCandidate ==
  ASSUME NEW w, NEW m, NEW candidates \in Seq(Paths), candidates # <<>>, InOrder(w, m, candidates)
  PROVE  MissingBefore(w, m, Head(candidates)) /\ Head(candidates) \in Paths
<1>1. 1 \in DOMAIN candidates /\ candidates[1] = Head(candidates) /\ Head(candidates) \in Paths
      /\ \A j \in DOMAIN candidates : j \in Nat \ {0}
  OBVIOUS
<1>2. QED
  BY <1>1 DEF InOrder, MissingBefore

-----------------------------------------------------------------------------
\* The types of the state.
RequestTypes ==
  /\ socket \in [Paths -> Kinds] /\ exact \in BOOLEAN /\ pending \in BOOLEAN /\ wanted \in Wanted
  /\ request \in [pc : {"new", "looking", "connected", "sent", "broken", "ok", "failed"},
                  todo : Seq(Paths), roots : RootsAhead, candidates : Seq(Paths),
                  peer : {Nobody} \cup [path : Paths, kind : Kinds]]

\* What is no live compositor now is remembered, beside what would not be connected to.
Missing == \A p \in Paths : socket[p] # "live" => p \in missed

\* While it looks, every path is still ahead, and in the documented order.
LooksInOrder ==
  /\ request.pc = "new" => request.candidates = <<>>
  /\ request.pc = "looking" =>
       /\ CoveredBy(wanted, exact, missed, request.candidates, request.todo, request.roots)
       /\ InOrder(wanted, missed, request.candidates)
       /\ ToCheckInOrder(wanted, missed, request.candidates, request.todo)
       /\ exact => AtHome(wanted, request.candidates, request.todo, request.roots)

\* A peer is a live compositor, of the wanted signature if that is demanded, and
\* preferred to all that were not missing.
PeerOK ==
  /\ request.peer.kind = "live"
  /\ exact => request.peer.path.signature = wanted.signature
  /\ MissingBefore(wanted, missed, request.peer.path)

\* A command is sent to the peer, and executed there once.
SentOnce ==
  /\ request.pc \in {"new", "looking", "connected"} => ~pending /\ executed = <<>>
  /\ executed = <<>> \/ (executed = <<request.peer>> /\ ~pending)
  /\ request.pc \in {"connected", "sent", "broken", "ok"} => PeerOK
  /\ pending \/ executed # <<>> => PeerOK

RequestIInv == RequestTypes /\ Missing /\ LooksInOrder /\ SentOnce

LEMMA InitRequest == RequestInit => RequestIInv
<1> SUFFICES ASSUME RequestInit PROVE RequestIInv
  OBVIOUS
<1>1. RequestTypes
  <2>1. socket \in [Paths -> Kinds]
    BY DEF RequestInit, Kinds
  <2>2. <<>> \in Seq(Paths) /\ <<>> \in RootsAhead
    BY DEF RootsAhead
  <2>3. request \in [pc : {"new", "looking", "connected", "sent", "broken", "ok", "failed"},
                    todo : Seq(Paths), roots : RootsAhead, candidates : Seq(Paths),
                    peer : {Nobody} \cup [path : Paths, kind : Kinds]]
    BY <2>2 DEF RequestInit
  <2>4. exact \in BOOLEAN /\ pending \in BOOLEAN
    BY Zenon DEF RequestInit
  <2>5. wanted \in Wanted
    BY DEF RequestInit, Wanted
  <2>6. QED
    BY <2>1, <2>3, <2>4, <2>5 DEF RequestTypes
<1>2. Missing /\ LooksInOrder /\ SentOnce
  BY DEF RequestInit, Missing, LooksInOrder, SentOnce
<1>3. QED
  BY <1>1, <1>2 DEF RequestIInv

\* Where it begins: the named paths, in both roots, and all others afterwards.
LEMMA StartKeeps ==
  ASSUME NEW w \in Wanted, NEW alone \in BOOLEAN, NEW m, alone => w.kind = "valid",
         NEW todo, NEW roots,
         todo = IF w.kind = "valid"
                  THEN [i \in 1 .. 2 |-> [root |-> i, signature |-> w.signature]] ELSE <<>>,
         roots = IF alone THEN <<>> ELSE Roots
  PROVE  /\ todo \in Seq(Paths) /\ roots \in RootsAhead
         /\ CoveredBy(w, alone, m, <<>>, todo, roots) /\ InOrder(w, m, <<>>)
         /\ ToCheckInOrder(w, m, <<>>, todo)
         /\ alone => AtHome(w, <<>>, todo, roots)
<1>1. roots \in RootsAhead /\ Listed(<<1, 2>>) = {1, 2} /\ Listed(<<>>) = {}
  BY DEF Roots, Listed, RootsAhead
<1>2. CASE w.kind = "valid"
  <2>1. w.signature \in 1 .. Signatures
    BY <1>2 DEF Wanted
  <2>2. /\ DOMAIN todo = 1 .. 2
        /\ \A i \in 1 .. 2 : todo[i] = [root |-> i, signature |-> w.signature] /\ todo[i] \in Paths
    BY <1>2, <2>1 DEF Paths
  <2>3. todo \in Seq(Paths)
    <3>1. todo \in [1 .. 2 -> Paths]
      BY <1>2, <2>2
    <3>2. QED
      BY <3>1
  <2>4. \A p \in Listed(todo) : p.signature = w.signature
    BY <2>2 DEF Listed
  <2>5. \A p \in Paths : IsNamed(w, p) => p.root \in 1 .. 2 /\ todo[p.root] = p
    BY <2>2 DEF IsNamed, Paths
  <2>6. CoveredBy(w, alone, m, <<>>, todo, roots)
    <3> SUFFICES ASSUME NEW p \in Paths, p \notin Listed(todo)
                 PROVE  ~IsNamed(w, p) /\ (alone \/ p.root \in Listed(roots))
      BY DEF CoveredBy
    <3>1. ~IsNamed(w, p)
      BY <2>2, <2>5 DEF Listed
    <3>2. p.root \in {1, 2}
      BY DEF Paths
    <3>3. QED
      BY <1>1, <3>1, <3>2 DEF Roots
  <2>7. ToCheckInOrder(w, m, <<>>, todo)
    <3> SUFFICES ASSUME NEW i \in DOMAIN todo, NEW p \in Paths, RankOf(w, p) < RankOf(w, todo[i])
                 PROVE  \E j \in DOMAIN todo : j < i /\ todo[j] = p
      BY DEF ToCheckInOrder
    <3>1. /\ todo[i] \in Paths /\ IsNamed(w, todo[i]) /\ todo[i].root = i /\ i \in 1 .. 2
      BY <1>2, <2>2 DEF IsNamed
    <3>2. IsNamed(w, p) /\ p.root = 1 /\ i = 2
      BY <3>1, RankOrder
    <3>3. 1 \in DOMAIN todo /\ todo[1] = p
      BY <2>2, <2>5, <3>2
    <3>4. QED
      BY <3>2, <3>3
  <2>8. QED
    BY <1>1, <1>2, <2>3, <2>4, <2>6, <2>7 DEF InOrder, AtHome
<1>3. CASE w.kind # "valid"
  <2>1. todo = <<>> /\ ~alone /\ \A p \in Paths : p.root \in {1, 2} /\ ~IsNamed(w, p)
    BY <1>3 DEF IsNamed, Paths
  <2>2. QED
    BY <1>1, <2>1 DEF CoveredBy, InOrder, ToCheckInOrder, Roots
<1>4. QED
  BY <1>2, <1>3

\* A step that leaves the sockets alone and what is known of them, and still looks.
LEMMA LookKeeps ==
  ASSUME RequestIInv, request.pc \in {"new", "looking"}, UNCHANGED <<World, pending, executed>>,
         missed \subseteq missed',
         NEW todo \in Seq(Paths), NEW roots \in RootsAhead, NEW candidates \in Seq(Paths),
         request' = [request EXCEPT !.pc = "looking", !.todo = todo, !.roots = roots,
                                    !.candidates = candidates],
         /\ CoveredBy(wanted, exact, missed', candidates, todo, roots)
         /\ InOrder(wanted, missed', candidates)
         /\ ToCheckInOrder(wanted, missed', candidates, todo)
         /\ exact => AtHome(wanted, candidates, todo, roots)
  PROVE  RequestIInv'
<1>1. RequestTypes /\ Missing /\ SentOnce
  BY DEF RequestIInv
<1>2. UNCHANGED <<socket, exact, wanted, pending, executed>>
  BY DEF World
<1>3. request' = [pc |-> "looking", todo |-> todo, roots |-> roots, candidates |-> candidates,
                  peer |-> request.peer]
  BY <1>1 DEF RequestTypes
<1>4. RequestTypes'
  BY <1>1, <1>2, <1>3 DEF RequestTypes
<1>5. Missing' /\ LooksInOrder'
  BY <1>1, <1>2, <1>3 DEF Missing, LooksInOrder
<1>6. SentOnce'
  BY <1>1, <1>2, <1>3 DEF SentOnce
<1>7. QED
  BY <1>4, <1>5, <1>6 DEF RequestIInv

\* A step that leaves the sockets alone and looks no more.
LEMMA EndKeeps ==
  ASSUME RequestIInv, UNCHANGED <<World, missed>>, pending' \in BOOLEAN,
         NEW stage \in {"connected", "sent", "broken", "ok", "failed"},
         NEW peer \in {Nobody} \cup [path : Paths, kind : Kinds],
         request' = [request EXCEPT !.pc = stage, !.peer = peer],
         SentOnce'
  PROVE  RequestIInv'
<1>1. RequestTypes /\ Missing
  BY DEF RequestIInv
<1>2. UNCHANGED <<socket, exact, wanted, missed>>
  BY DEF World
<1>3. request' = [pc |-> stage, todo |-> request.todo, roots |-> request.roots,
                  candidates |-> request.candidates, peer |-> peer]
  BY <1>1 DEF RequestTypes
<1>4. RequestTypes'
  BY <1>1, <1>2, <1>3 DEF RequestTypes
<1>5. Missing' /\ LooksInOrder'
  BY <1>1, <1>2, <1>3 DEF Missing, LooksInOrder
<1>6. QED
  BY <1>4, <1>5 DEF RequestIInv

LEMMA StartStep == RequestIInv /\ Start => RequestIInv'
<1> SUFFICES ASSUME RequestIInv, Start PROVE RequestIInv'
  OBVIOUS
<1> DEFINE todo ==
      IF Named THEN [i \in 1 .. 2 |-> [root |-> i, signature |-> wanted.signature]] ELSE <<>>
<1> DEFINE roots == IF exact THEN <<>> ELSE Roots
<1>1. RequestTypes /\ request.pc = "new" /\ ~pending /\ executed = <<>> /\ request.candidates = <<>>
  BY DEF RequestIInv, SentOnce, LooksInOrder, Start
<1>2. CASE wanted.kind = "invalid" \/ (exact /\ ~Named)
  <2>1. request' = [request EXCEPT !.pc = "failed", !.todo = todo, !.roots = roots]
    BY <1>2 DEF Start
  <2>2. todo \in Seq(Paths) /\ roots \in RootsAhead
    <3>1. roots \in RootsAhead
      BY DEF Roots, RootsAhead
    <3>2. CASE Named
      BY <1>1, <3>2, StartKeeps DEF Named, RequestTypes
    <3>3. CASE ~Named
      <4>1. todo = <<>>
        BY <3>3
      <4>2. <<>> \in Seq(Paths)
        OBVIOUS
      <4> HIDE DEF todo
      <4>3. QED
        BY <3>1, <4>1, <4>2
    <3>4. QED
      BY <3>1, <3>2, <3>3
  <2> HIDE DEF todo, roots
  <2>3. request' = [pc |-> "failed", todo |-> todo, roots |-> roots,
                    candidates |-> request.candidates, peer |-> request.peer]
    BY <1>1, <2>1 DEF RequestTypes
  <2>4. UNCHANGED <<socket, exact, wanted, pending, executed, missed>>
    BY DEF Start, World
  <2>5. RequestTypes'
    BY <1>1, <2>2, <2>3, <2>4 DEF RequestTypes
  <2>6. QED
    BY <1>1, <2>3, <2>4, <2>5 DEF RequestIInv, Missing, LooksInOrder, SentOnce
<1>3. CASE ~(wanted.kind = "invalid" \/ (exact /\ ~Named))
  <2>1. request' = [request EXCEPT !.pc = "looking", !.todo = todo, !.roots = roots,
                                   !.candidates = <<>>]
    <3>1. request' = [request EXCEPT !.pc = "looking", !.todo = todo, !.roots = roots]
      BY <1>3 DEF Start
    <3> HIDE DEF todo, roots
    <3>2. QED
      BY <1>1, <3>1 DEF RequestTypes
  <2>2. UNCHANGED <<World, pending, executed, missed>>
    BY DEF Start
  <2>3. wanted \in Wanted /\ exact \in BOOLEAN /\ (exact => wanted.kind = "valid")
    BY <1>1, <1>3 DEF RequestTypes, Named
  <2>a. /\ todo = IF wanted.kind = "valid"
                    THEN [i \in 1 .. 2 |-> [root |-> i, signature |-> wanted.signature]] ELSE <<>>
        /\ roots = IF exact THEN <<>> ELSE Roots
    BY DEF Named
  <2> HIDE DEF todo, roots
  <2>4. /\ todo \in Seq(Paths) /\ roots \in RootsAhead
        /\ CoveredBy(wanted, exact, missed, <<>>, todo, roots) /\ InOrder(wanted, missed, <<>>)
        /\ ToCheckInOrder(wanted, missed, <<>>, todo)
        /\ exact => AtHome(wanted, <<>>, todo, roots)
    BY <2>3, <2>a, StartKeeps
  <2>5. missed' = missed /\ <<>> \in Seq(Paths) /\ missed \subseteq missed'
    BY <2>2
  <2>6. QED
    BY <1>1, <2>1, <2>2, <2>4, <2>5, LookKeeps
<1>4. QED
  BY <1>2, <1>3

LEMMA CheckStep == RequestIInv /\ Check => RequestIInv'
<1> SUFFICES ASSUME RequestIInv, Check PROVE RequestIInv'
  OBVIOUS
<1> DEFINE p == Head(request.todo)
<1> DEFINE trusted == socket[p] \in {"live", "stale"} /\ ~Contains(request.candidates, p)
<1> DEFINE found == IF trusted THEN Append(request.candidates, p) ELSE request.candidates
<1>1. /\ RequestTypes /\ Missing /\ request.pc = "looking" /\ request.todo # <<>>
      /\ CoveredBy(wanted, exact, missed, request.candidates, request.todo, request.roots)
      /\ InOrder(wanted, missed, request.candidates)
      /\ ToCheckInOrder(wanted, missed, request.candidates, request.todo)
      /\ exact => AtHome(wanted, request.candidates, request.todo, request.roots)
      /\ UNCHANGED <<World, pending, executed, missed>>
  BY DEF RequestIInv, LooksInOrder, Check
<1>2. /\ request.todo \in Seq(Paths) /\ request.candidates \in Seq(Paths)
      /\ request.roots \in RootsAhead
  BY <1>1 DEF RequestTypes
<1>3. p \in Paths /\ Tail(request.todo) \in Seq(Paths)
  BY <1>1, <1>2, TailFacts
<1>4. request' = [request EXCEPT !.todo = Tail(request.todo), !.candidates = found]
  BY DEF Check
<1>5. \/ found = Append(request.candidates, p)
      \/ found = request.candidates /\ p \in missed \cup Listed(request.candidates)
  <2>1. CASE Contains(request.candidates, p)
    BY <2>1 DEF Contains, Listed
  <2>2. CASE socket[p] \notin {"live", "stale"}
    BY <1>1, <1>3, <2>2 DEF Missing
  <2>3. CASE trusted
    BY <2>3
  <2>4. QED
    BY <2>1, <2>2, <2>3
<1> HIDE DEF found, trusted, p
<1>6. found \in Seq(Paths)
  BY <1>2, <1>3, <1>5
<1>7. /\ CoveredBy(wanted, exact, missed, found, Tail(request.todo), request.roots)
      /\ InOrder(wanted, missed, found) /\ ToCheckInOrder(wanted, missed, found, Tail(request.todo))
      /\ exact => AtHome(wanted, found, Tail(request.todo), request.roots)
  BY <1>1, <1>2, <1>5, <1>6, CheckKeeps DEF p
<1>8. request' = [request EXCEPT !.pc = "looking", !.todo = Tail(request.todo),
                                 !.roots = request.roots, !.candidates = found]
  BY <1>1, <1>4 DEF RequestTypes
<1>9. QED
  BY <1>1, <1>2, <1>3, <1>6, <1>7, <1>8, LookKeeps

LEMMA ScanStep == RequestIInv /\ Scan => RequestIInv'
<1> SUFFICES ASSUME RequestIInv, Scan PROVE RequestIInv'
  OBVIOUS
<1> DEFINE there == {p \in Paths : p.root = Head(request.roots) /\ socket[p] # "absent"}
<1>1. /\ RequestTypes /\ Missing /\ request.pc = "looking" /\ request.todo = <<>>
      /\ request.roots # <<>>
      /\ CoveredBy(wanted, exact, missed, request.candidates, <<>>, request.roots)
      /\ InOrder(wanted, missed, request.candidates)
      /\ exact => AtHome(wanted, request.candidates, <<>>, request.roots)
      /\ UNCHANGED <<World, pending, executed>>
  BY DEF RequestIInv, LooksInOrder, Scan
<1>2. PICK visible \in SUBSET there :
        /\ \E order \in ByName(visible) :
             request' = [request EXCEPT !.roots = Tail(@), !.todo = order]
        /\ missed' = missed \cup (there \ visible)
  BY DEF Scan
<1>3. PICK order \in ByName(visible) :
        request' = [request EXCEPT !.roots = Tail(request.roots), !.todo = order]
  BY <1>2
<1>4. /\ visible \in SUBSET Paths /\ SeesRoot(missed', visible, Head(request.roots))
      /\ missed \subseteq missed'
  BY <1>1, <1>2 DEF Missing, SeesRoot
<1>5. /\ request.candidates \in Seq(Paths) /\ request.roots \in RootsAhead
      /\ wanted \in Wanted /\ exact \in BOOLEAN
  BY <1>1 DEF RequestTypes
<1> HIDE DEF there
<1>6. /\ order \in Seq(Paths) /\ Tail(request.roots) \in RootsAhead /\ ~exact
      /\ CoveredBy(wanted, exact, missed', request.candidates, order, Tail(request.roots))
      /\ InOrder(wanted, missed', request.candidates)
      /\ ToCheckInOrder(wanted, missed', request.candidates, order)
  BY <1>1, <1>3, <1>4, <1>5, ScanKeeps
<1>7. request' = [request EXCEPT !.pc = "looking", !.todo = order, !.roots = Tail(request.roots),
                                 !.candidates = request.candidates]
  BY <1>1, <1>3 DEF RequestTypes
<1>8. QED
  BY <1>1, <1>4, <1>5, <1>6, <1>7, LookKeeps

\* The first candidate answers or is passed over; or there is none.
LEMMA ConnectStep == RequestIInv /\ Connect => RequestIInv'
<1> SUFFICES ASSUME RequestIInv, Connect PROVE RequestIInv'
  OBVIOUS
<1> DEFINE p == Head(request.candidates)
<1>1. /\ RequestTypes /\ Missing /\ SentOnce /\ request.pc = "looking" /\ request.todo = <<>>
      /\ request.roots = <<>> /\ request.candidates # <<>>
      /\ CoveredBy(wanted, exact, missed, request.candidates, <<>>, <<>>)
      /\ InOrder(wanted, missed, request.candidates)
      /\ ToCheckInOrder(wanted, missed, <<>>, <<>>)
      /\ exact => AtHome(wanted, request.candidates, <<>>, <<>>)
      /\ UNCHANGED <<World, pending, executed>>
  BY DEF RequestIInv, LooksInOrder, Connect, Looked, ToCheckInOrder
<1>2. request.candidates \in Seq(Paths) /\ request.roots \in RootsAhead
  BY <1>1 DEF RequestTypes
<1>3. MissingBefore(wanted, missed, p) /\ p \in Paths
  BY <1>1, <1>2, FirstCandidate
<1>4. p \in Listed(request.candidates) /\ Tail(request.candidates) \in Seq(Paths)
  BY <1>1, <1>2, TailFacts, TailListed
<1>5. CASE /\ missed' = missed
           /\ request' = [request EXCEPT !.pc = "connected",
                                         !.peer = [path |-> p, kind |-> "live"]]
  <2>1. request' = [request EXCEPT !.pc = "connected", !.peer = [path |-> p, kind |-> "live"]]
    BY <1>5
  <2>2. [path |-> p, kind |-> "live"] \in [path : Paths, kind : Kinds]
    BY <1>3 DEF Kinds
  <2>3. exact => p.signature = wanted.signature
    BY <1>1, <1>4 DEF AtHome
  <2> HIDE DEF p
  <2>a. request'.pc = "connected" /\ request'.peer = [path |-> p, kind |-> "live"]
    BY <1>1, <2>1 DEF RequestTypes
  <2>b. UNCHANGED <<exact, wanted, pending, executed, missed>>
    BY <1>1, <1>5 DEF World
  <2>4. PeerOK'
    BY <1>3, <2>3, <2>a, <2>b DEF PeerOK
  <2>5. SentOnce'
    BY <1>1, <2>a, <2>b, <2>4 DEF SentOnce
  <2>6. pending' \in BOOLEAN
    BY <1>1 DEF RequestTypes
  <2>7. UNCHANGED <<World, missed>>
    BY <1>1, <1>5
  <2>8. QED
    BY <2>1, <2>2, <2>5, <2>6, <2>7, EndKeeps
<1>6. CASE /\ missed' = missed \cup {p}
           /\ request' = [request EXCEPT !.candidates = Tail(request.candidates)]
  <2>1. request' = [request EXCEPT !.candidates = Tail(request.candidates)]
    BY <1>6
  <2>2. p \in missed' /\ missed \subseteq missed'
    BY <1>6
  <2>a. CoveredBy(wanted, exact, missed', request.candidates, <<>>, <<>>)
        /\ InOrder(wanted, missed', request.candidates)
    BY <1>1, <2>2, StillMissing
  <2>3. /\ CoveredBy(wanted, exact, missed', Tail(request.candidates), <<>>, <<>>)
        /\ InOrder(wanted, missed', Tail(request.candidates))
        /\ exact => AtHome(wanted, Tail(request.candidates), <<>>, <<>>)
    BY <1>1, <1>2, <2>2, <2>a, PassOverKeeps
  <2>4. request' = [request EXCEPT !.pc = "looking", !.todo = <<>>, !.roots = <<>>,
                                   !.candidates = Tail(request.candidates)]
    BY <1>1, <2>1 DEF RequestTypes
  <2>5. ToCheckInOrder(wanted, missed', Tail(request.candidates), <<>>)
    BY DEF ToCheckInOrder
  <2>6. <<>> \in Seq(Paths) /\ <<>> \in RootsAhead
    BY DEF RootsAhead
  <2>7. UNCHANGED <<World, pending, executed>> /\ missed \subseteq missed'
        /\ request.pc \in {"new", "looking"}
    BY <1>1, <2>2
  <2> HIDE DEF p
  <2>8. QED
    BY <1>4, <2>3, <2>4, <2>5, <2>6, <2>7, LookKeeps
<1>7. QED
  BY <1>5, <1>6 DEF Connect

\* The command is sent, it is answered, or the request fails.
LEMMA SendStep ==
  RequestIInv /\ (NoneLeft \/ SendRequest \/ Breaks \/ ReadReply \/ Timeout) => RequestIInv'
<1> SUFFICES ASSUME RequestIInv, NoneLeft \/ SendRequest \/ Breaks \/ ReadReply \/ Timeout
             PROVE  RequestIInv'
  OBVIOUS
<1>1. RequestTypes /\ SentOnce
  BY DEF RequestIInv
<1>2. PICK stage \in {"connected", "sent", "broken", "ok", "failed"} :
        /\ request' = [request EXCEPT !.pc = stage]
        /\ \/ stage = "failed" /\ pending' = pending
           \/ stage = "sent" /\ pending' = TRUE /\ request.pc = "connected"
           \/ stage = "broken" /\ pending' \in BOOLEAN /\ request.pc = "connected"
           \/ stage = "ok" /\ pending' = pending /\ request.pc = "sent"
  BY DEF NoneLeft, SendRequest, Breaks, ReadReply, Timeout, Becomes
<1>3. UNCHANGED <<World, executed, missed>>
  BY DEF NoneLeft, SendRequest, Breaks, ReadReply, Timeout
<1>4. /\ request'.pc = stage /\ request'.peer = request.peer
      /\ request' = [request EXCEPT !.pc = stage, !.peer = request.peer]
      /\ pending' \in BOOLEAN /\ request.peer \in {Nobody} \cup [path : Paths, kind : Kinds]
  <2>1. pending' \in BOOLEAN
    BY <1>1, <1>2 DEF RequestTypes
  <2>2. QED
    BY <1>1, <1>2, <2>1 DEF RequestTypes
<1>5. PeerOK => PeerOK'
  BY <1>3, <1>4 DEF PeerOK, World
<1>6. SentOnce'
  BY <1>1, <1>2, <1>3, <1>4, <1>5 DEF SentOnce
<1>7. QED
  BY <1>3, <1>4, <1>6, EndKeeps

\* The compositor executes what it has received.
LEMMA ExecuteStep == RequestIInv /\ Execute => RequestIInv'
<1> SUFFICES ASSUME RequestIInv, Execute PROVE RequestIInv'
  OBVIOUS
<1>1. /\ SentOnce /\ pending /\ pending' = FALSE /\ executed' = Append(executed, request.peer)
      /\ UNCHANGED <<socket, exact, wanted, request, missed>>
  BY DEF RequestIInv, Execute, World
<1>2. executed = <<>> /\ PeerOK
  BY <1>1 DEF SentOnce
<1>3. executed' = <<request.peer>> /\ executed' # <<>>
  BY <1>1, <1>2
<1>4. PeerOK'
  BY <1>1, <1>2 DEF PeerOK
<1>5. SentOnce'
  BY <1>1, <1>2, <1>3, <1>4 DEF SentOnce
<1>6. RequestTypes'
  BY <1>1 DEF RequestIInv, RequestTypes
<1>7. Missing' /\ LooksInOrder'
  BY <1>1 DEF RequestIInv, Missing, LooksInOrder
<1>8. QED
  BY <1>5, <1>6, <1>7 DEF RequestIInv

\* Something else is at a path.
LEMMA SocketStep == ASSUME RequestIInv, NEW p \in Paths, ChangeSocket(p) PROVE RequestIInv'
<1>1. PICK kind \in Kinds \ {socket[p]} : socket' = [socket EXCEPT ![p] = kind]
  BY DEF ChangeSocket
<1>2. /\ missed' = missed \cup {q \in Paths : socket'[q] # "live"} /\ missed \subseteq missed'
      /\ UNCHANGED <<exact, wanted, request, pending, executed>>
  BY DEF ChangeSocket
<1>3. RequestTypes'
  BY <1>1, <1>2 DEF RequestIInv, RequestTypes
<1>4. Missing'
  BY <1>2 DEF Missing
<1>5. LooksInOrder'
  BY <1>2, StillMissing DEF RequestIInv, LooksInOrder
<1>6. PeerOK => PeerOK'
  BY <1>2, StillMissing DEF PeerOK
<1>7. SentOnce'
  BY <1>2, <1>6 DEF RequestIInv, SentOnce
<1>8. QED
  BY <1>3, <1>4, <1>5, <1>7 DEF RequestIInv

LEMMA NextRequest == RequestIInv /\ [RequestNext]_requestVars => RequestIInv'
<1> SUFFICES ASSUME RequestIInv, [RequestNext]_requestVars PROVE RequestIInv'
  OBVIOUS
<1>1. CASE RequestNext
  BY <1>1, StartStep, CheckStep, ScanStep, ConnectStep, SendStep, ExecuteStep, SocketStep
     DEF RequestNext, Proceed
<1>2. CASE UNCHANGED requestVars
  BY <1>2 DEF requestVars, RequestIInv, RequestTypes, Missing, LooksInOrder, SentOnce, PeerOK
<1>3. QED
  BY <1>1, <1>2

\* A command is executed once at most, by the right instance of the right user: for
\* every number of instances, however often sockets come and go, and whoever refuses
\* connections or dies on them (connect_candidates, request_socket).
THEOREM CommandsTheorem == RequestSpec => []CommandsAreSafe
<1>1. RequestIInv => CommandsAreSafe
  <2> SUFFICES ASSUME RequestIInv PROVE CommandsAreSafe
    OBVIOUS
  <2>1. SentOnce /\ wanted \in Wanted
    BY DEF RequestIInv, RequestTypes
  <2>2. NeverReplayed
    <3>1. request.peer = Nobody => executed = <<>> /\ ~pending
      BY <2>1 DEF SentOnce, PeerOK, Nobody
    <3>2. CASE executed = <<>>
      BY <3>1, <3>2 DEF NeverReplayed
    <3>3. CASE executed = <<request.peer>> /\ ~pending
      BY <3>1, <3>3 DEF NeverReplayed
    <3>4. QED
      BY <2>1, <3>2, <3>3 DEF SentOnce
  <2>3. ExactStaysHome /\ PeersAreOwn
    <3>1. CASE executed = <<>>
      BY <3>1 DEF ExactStaysHome, PeersAreOwn
    <3>2. CASE executed = <<request.peer>> /\ PeerOK
      BY <3>2 DEF ExactStaysHome, PeersAreOwn, PeerOK
    <3>3. QED
      BY <2>1, <3>1, <3>2 DEF SentOnce
  <2>4. \A p : Rank(p) = RankOf(wanted, p)
    BY DEF Rank, RankOf, IsNamed, Named
  <2>5. PreferredFirst
    BY <2>1, <2>4 DEF SentOnce, PreferredFirst, PeerOK, MissingBefore
  <2>6. QED
    BY <2>2, <2>3, <2>5 DEF CommandsAreSafe
<1>2. QED
  BY InitRequest, NextRequest, <1>1, PTL DEF RequestSpec

-----------------------------------------------------------------------------
(* Work areas: first and last places *)

\* Numbers, the least first.
Below == {ss \in Nat \X Nat : ss[1] < ss[2]}

\* What counts in naturals has a first.
LEMMA LeastOne ==
  ASSUME NEW S \in SUBSET Nat, S # {}
  PROVE  \E i \in S : \A j \in S : i <= j
<1>1. IsWellFoundedOn(Below, Nat)
  BY NatLessThanWellFounded DEF OpToRel, Below
<1>2. PICK x \in S : \A y \in S : ~ (<<y, x>> \in Below)
  BY <1>1, WFMin
<1>3. ASSUME NEW y \in S PROVE x <= y
  <2>1. x \in Nat /\ y \in Nat /\ <<y, x>> \in Nat \X Nat
    OBVIOUS
  <2>2. ~ (<<y, x>>[1] < <<y, x>>[2])
    BY <1>2, <2>1 DEF Below
  <2>3. QED
    BY <2>1, <2>2
<1>4. QED
  BY <1>3

\* And, if it ends, a last.
LEMMA GreatestOne ==
  ASSUME NEW n \in Nat, NEW S \in SUBSET (1 .. n), S # {}
  PROVE  \E i \in S : \A j \in S : i >= j
<1> DEFINE Bounds == {b \in Nat : \A j \in S : j <= b}
<1>1. n \in Bounds /\ Bounds \in SUBSET Nat
  OBVIOUS
<1>2. PICK b \in Bounds : \A c \in Bounds : b <= c
  BY <1>1, LeastOne
<1>3. b \in Nat /\ \A j \in S : j <= b
  BY <1>2
<1>4. PICK i \in S : TRUE
  OBVIOUS
<1>5. b >= 1
  BY <1>3, <1>4
<1>6. CASE b \notin S
  <2>1. b - 1 \in Bounds
    BY <1>3, <1>5, <1>6
  <2>2. QED
    BY <1>2, <1>3, <2>1
<1>7. CASE b \in S
  BY <1>3, <1>7
<1>8. QED
  BY <1>6, <1>7

\* First chooses the first of them.
LEMMA FirstFacts ==
  ASSUME NEW n \in Nat, NEW S \in SUBSET (1 .. n), S # {}
  PROVE  First(S) \in S /\ \A j \in S : First(S) <= j
<1>1. \E i \in S : \A j \in S : i <= j
  BY LeastOne
<1>2. QED
  BY <1>1 DEF First

\* Latest chooses the last.
LEMMA LatestFacts ==
  ASSUME NEW n \in Nat, NEW S \in SUBSET (1 .. n), S # {}
  PROVE  Latest(S) \in S /\ \A j \in S : Latest(S) >= j
<1>1. \E i \in S : \A j \in S : i >= j
  BY GreatestOne
<1>2. QED
  BY <1>1 DEF Latest

\* The places a condition holds at are places of the list.
IsLine(s) == DOMAIN s = 1 .. Len(s) /\ Len(s) \in Nat

\* A list has a length.
LEMMA ListIsLine == ASSUME NEW s, IsList(s) PROVE IsLine(s)
  BY LenProperties DEF IsList, IsLine

-----------------------------------------------------------------------------
(* What a reply is made of *)

\* What the compositor says, once decoded, with a scale for every monitor.
IsSnapshot(s) ==
  /\ s = [monitors |-> s.monitors, workspaces |-> s.workspaces, rules |-> s.rules,
          clients |-> s.clients, gaps |-> s.gaps]
  /\ IsLine(s.monitors) /\ IsLine(s.rules) /\ IsLine(s.clients) /\ IsLine(s.workspaces)
  /\ \A i \in DOMAIN s.monitors : IsMonitor(s.monitors[i]) /\ s.monitors[i].scale > 0
  /\ \A i \in DOMAIN s.rules : IsLine(s.rules[i].selector)
  /\ \A i \in DOMAIN s.rules : \A j \in DOMAIN s.rules[i].selector :
       IsClause(s.rules[i].selector[j])

\* Two snapshots that differ in where monitors are, and in how rules name sides.
MonitorsAlike(m, k) ==
  /\ k.name = m.name /\ (k.focused <=> m.focused) /\ (k.disabled <=> m.disabled)
  /\ k.reserved = m.reserved /\ k.active = m.active /\ k.special = m.special
Alike(s, t) ==
  /\ DOMAIN t.monitors = DOMAIN s.monitors /\ Len(t.monitors) = Len(s.monitors)
  /\ \A i \in DOMAIN s.monitors : MonitorsAlike(s.monitors[i], t.monitors[i])
  /\ t.workspaces = s.workspaces /\ t.clients = s.clients /\ t.gaps = s.gaps

\* Monitors that are alike have an area, and a workspace, together.
LEMMA AlikeAreas ==
  ASSUME NEW s, NEW t, Alike(s, t), NEW i \in DOMAIN s.monitors
  PROVE  /\ HasArea(t.monitors[i], t) <=> HasArea(s.monitors[i], s)
         /\ Workspace(t.monitors[i], t) = Workspace(s.monitors[i], s)
<1>1. Active(t.monitors[i]) = Active(s.monitors[i])
  BY DEF Alike, MonitorsAlike, Active
<1>2. Workspace(t.monitors[i], t) = Workspace(s.monitors[i], s)
  BY <1>1 DEF Alike, Workspace, Places
<1>3. QED
  BY <1>2 DEF HasArea, Alike, MonitorsAlike

\* The area of a monitor: what is reserved, and the gaps.
Inset(m, s) ==
  [left   |-> m.reserved[1] + Gaps(m, s)[4],
   top    |-> m.reserved[2] + Gaps(m, s)[1],
   right  |-> m.reserved[3] + Gaps(m, s)[2],
   bottom |-> m.reserved[4] + Gaps(m, s)[3]]
\* Monitors that have an area, and those of a name.
PlacedIn(s) == {i \in DOMAIN s.monitors : HasArea(s.monitors[i], s)}
NamedIn(s, name) == {i \in PlacedIn(s) : s.monitors[i].name = name}

\* The areas, by what has names above.
LEMMA InsetsAre ==
  ASSUME NEW s
  PROVE  Insets(s) = [name \in {s.monitors[i].name : i \in PlacedIn(s)} |->
                        Inset(s.monitors[Latest(NamedIn(s, name))], s)]
  BY DEF Insets, Inset, PlacedIn, NamedIn, Places

\* Equal gaps for each monitor are equal areas.
LEMMA InsetsSame ==
  ASSUME NEW s, NEW t, IsLine(s.monitors), Alike(s, t),
         \A i \in PlacedIn(s) : Gaps(t.monitors[i], t) = Gaps(s.monitors[i], s)
  PROVE  Insets(t) = Insets(s)
<1>1. PlacedIn(t) = PlacedIn(s) /\ PlacedIn(s) \subseteq DOMAIN s.monitors
  BY AlikeAreas DEF PlacedIn, Alike
<1>2. \A name : NamedIn(t, name) = NamedIn(s, name)
  BY <1>1 DEF NamedIn, Alike, MonitorsAlike
<1> DEFINE Names == {s.monitors[i].name : i \in PlacedIn(s)}
<1>3. {t.monitors[i].name : i \in PlacedIn(t)} = Names
  BY <1>1 DEF Alike, MonitorsAlike
<1>4. ASSUME NEW name \in Names
      PROVE  Inset(t.monitors[Latest(NamedIn(t, name))], t) =
            Inset(s.monitors[Latest(NamedIn(s, name))], s)
  <2>1. NamedIn(s, name) # {} /\ NamedIn(s, name) \subseteq DOMAIN s.monitors
    BY <1>1, <1>4 DEF NamedIn
  <2>2. PICK i \in PlacedIn(s) : i = Latest(NamedIn(s, name))
    BY <2>1, LatestFacts DEF IsLine, NamedIn
  <2>3. Gaps(t.monitors[i], t) = Gaps(s.monitors[i], s) /\
        t.monitors[i].reserved = s.monitors[i].reserved
    BY <1>1 DEF Alike, MonitorsAlike
  <2>4. Inset(t.monitors[i], t) = Inset(s.monitors[i], s)
    BY <2>3 DEF Inset
  <2>5. QED
    BY <1>2, <2>2, <2>4
<1>5. [name \in {t.monitors[i].name : i \in PlacedIn(t)} |->
         Inset(t.monitors[Latest(NamedIn(t, name))], t)] =
      [name \in Names |-> Inset(s.monitors[Latest(NamedIn(s, name))], s)]
  BY <1>3, <1>4
<1>6. QED
  BY <1>5, InsetsAre

(* Layouts in a mirror *)

\* The four directions.
Sides == {"l", "r", "u", "d"}

\* What the choice of a neighbour looks at: who is near, and how long the edges are.
NearOf(monitors, f, d) ==
  {i \in DOMAIN monitors :
     /\ monitors[i].name # monitors[f].name /\ ~monitors[i].disabled
     /\ Distance(Box(monitors[f], d), Box(monitors[i], d), d) \in -1 .. 1}
EdgeOf(monitors, f, i, d) == Overlap(Box(monitors[f], d), Box(monitors[i], d))
LongestOf(monitors, f, d) ==
  {i \in NearOf(monitors, f, d) : \A j \in NearOf(monitors, f, d) :
     EdgeOf(monitors, f, i, d) >= EdgeOf(monitors, f, j, d)}

\* The neighbour is the first with the longest edge.
LEMMA DirectionalIs ==
  ASSUME NEW d, NEW monitors
  PROVE  LET f == First(Focused(monitors))
         IN  Directional(d, monitors) =
               IF Focused(monitors) = {} \/ NearOf(monitors, f, d) = {} THEN {}
               ELSE {monitors[First(LongestOf(monitors, f, d))].name}
  BY DEF Directional, NearOf, LongestOf, EdgeOf

\* Two lists of monitors whose neighbours on side d, and e, are the same.
SameSides(monitors, others, d, e) ==
  \A f, i \in DOMAIN monitors :
    /\ (Distance(Box(others[f], e), Box(others[i], e), e) \in -1 .. 1) <=>
         (Distance(Box(monitors[f], d), Box(monitors[i], d), d) \in -1 .. 1)
    /\ EdgeOf(others, f, i, e) = EdgeOf(monitors, f, i, d)

\* Monitors that are alike are focused together.
LEMMA FocusedSame ==
  ASSUME NEW s, NEW t, Alike(s, t)
  PROVE  Focused(t.monitors) = Focused(s.monitors)
  BY DEF Alike, MonitorsAlike, Focused, Places

\* Numbers at places of a list have a greatest.
LEMMA GreatestAt ==
  ASSUME NEW n \in Nat, NEW S \in SUBSET (1 .. n), S # {}, NEW f \in [S -> Int]
  PROVE  \E i \in S : \A j \in S : f[i] >= f[j]
<1> DEFINE UpTo(k) == {i \in S : i <= k}
           Bad == {k \in 0 .. n : UpTo(k) # {} /\
                 ~ \E i \in UpTo(k) : \A j \in UpTo(k) : f[i] >= f[j]}
<1>0. \A i \in S : i \in 1 .. n
  OBVIOUS
<1>1. UpTo(n) = S
  <2>1. \A i \in S : i <= n
    BY <1>0
  <2>2. QED
    BY <2>1
<1>2. ASSUME Bad # {} PROVE FALSE
  <2>1. Bad \in SUBSET Nat
    OBVIOUS
  <2>2. PICK k \in Bad : \A c \in Bad : k <= c
    BY <1>2, <2>1, LeastOne
  <2>a. k \in 0 .. n /\ UpTo(k) # {}
    BY <2>2
  <2>b. k >= 1 /\ k - 1 \in 0 .. n
    <3>1. PICK i \in S : i <= k
      BY <2>a
    <3>2. QED
      BY <1>0, <2>a, <3>1
  <2>c. k - 1 \notin Bad
    <3>1. ~ (k <= k - 1)
      BY <2>a
    <3> HIDE DEF Bad
    <3>2. QED
      BY <2>2, <3>1
  <2>3. k \in 0 .. n /\ UpTo(k) # {} /\ k >= 1 /\ k - 1 \in 0 .. n /\ k - 1 \notin Bad
    BY <2>a, <2>b, <2>c
  <2>4. \A i \in S : i \in 1 .. n /\ f[i] \in Int
    OBVIOUS
  <2>5. \A j \in UpTo(k) : j = k \/ j \in UpTo(k - 1)
    BY <2>3, <2>4
  <2>6. \A j \in UpTo(k - 1) : j \in UpTo(k)
    BY <2>3, <2>4
  <2>7. CASE UpTo(k - 1) = {}
    <3>1. k \in UpTo(k) /\ \A j \in UpTo(k) : j = k
      BY <2>3, <2>5, <2>7
    <3>2. f[k] >= f[k]
      BY <3>1, <2>4
    <3>3. QED
      BY <2>2, <3>1, <3>2
  <2>8. CASE UpTo(k - 1) # {}
    <3>1. PICK i \in UpTo(k - 1) : \A j \in UpTo(k - 1) : f[i] >= f[j]
      BY <2>3, <2>8
    <3>2. i \in UpTo(k) /\ i \in S
      BY <3>1, <2>6
    <3> HIDE DEF UpTo
    <3>3. ~ \A j \in UpTo(k) : f[i] >= f[j]
      BY <2>2, <3>2
    <3>4. k \in UpTo(k) /\ ~ (f[i] >= f[k])
      BY <3>1, <3>3, <2>5
    <3>5. k \in S
      BY <3>4 DEF UpTo
    <3>6. \A j \in UpTo(k) : j \in S
      BY DEF UpTo
    <3>7. \A j \in UpTo(k) : f[k] >= f[j]
      <4>1. SUFFICES ASSUME NEW j \in UpTo(k) PROVE f[k] >= f[j]
        OBVIOUS
      <4>2. f[k] \in Int /\ f[j] \in Int /\ f[i] \in Int
        BY <2>4, <3>2, <3>5, <3>6
      <4>3. CASE j = k
        BY <4>2, <4>3
      <4>4. CASE j \in UpTo(k - 1)
        BY <4>2, <4>4, <3>1, <3>4
      <4>5. QED
        BY <4>3, <4>4, <2>5
    <3>8. QED
      BY <2>2, <3>4, <3>7
  <2>9. QED
    BY <2>7, <2>8
<1>3. n \notin Bad
  BY <1>2
<1>4. QED
  BY <1>1, <1>3

\* Sizes and edges are whole numbers.
LEMMA BoxFacts ==
  ASSUME NEW m, IsMonitor(m), m.scale > 0, NEW d
  PROVE  /\ Width(m) \in Int /\ Height(m) \in Int
         /\ Box(m, d).at \in Int /\ Box(m, d).across \in Int
         /\ Box(m, d).length \in Int /\ Box(m, d).breadth \in Int
<1>1. m.x \in Int /\ m.y \in Int /\ m.width \in Int /\ m.height \in Int /\ m.scale \in Int
  BY DEF IsMonitor
<1>2. \A length \in Int : Rounded(length, m.scale) \in Int
  BY <1>1 DEF Rounded
<1>3. Width(m) \in Int /\ Height(m) \in Int
  BY <1>1, <1>2 DEF Width, Height
<1>4. QED
  BY <1>1, <1>3 DEF Box

\* So are the edges that two share.
LEMMA EdgeIsNumber ==
  ASSUME NEW m, NEW k, IsMonitor(m), m.scale > 0, IsMonitor(k), k.scale > 0, NEW d
  PROVE  Overlap(Box(m, d), Box(k, d)) \in Int
<1> DEFINE a == Box(m, d)
           b == Box(k, d)
<1>1. /\ a.across \in Int /\ a.breadth \in Int
      /\ b.across \in Int /\ b.breadth \in Int
  BY BoxFacts
<1> HIDE DEF a, b
<1>2. Overlap(a, b) \in Int
  BY <1>1 DEF Overlap, Most, Least
<1>3. QED
  BY <1>2 DEF a, b

\* Where sides are the same, so is the neighbour.
LEMMA DirectionalSame ==
  ASSUME NEW s, NEW t, Alike(s, t), IsSnapshot(s), NEW d, NEW e,
         SameSides(s.monitors, t.monitors, d, e)
  PROVE  Directional(e, t.monitors) = Directional(d, s.monitors)
<1> DEFINE f == First(Focused(s.monitors))
<1>1. /\ Focused(t.monitors) = Focused(s.monitors) /\ Focused(s.monitors) \subseteq DOMAIN s.monitors
      /\ IsLine(s.monitors)
  BY FocusedSame DEF Focused, Places, IsSnapshot
<1>2. CASE Focused(s.monitors) = {}
  BY <1>1, <1>2, DirectionalIs
<1>3. CASE Focused(s.monitors) # {}
  <2>1. f \in DOMAIN s.monitors
    BY <1>1, <1>3, FirstFacts DEF IsLine
  <2> HIDE DEF f
  <2>2. NearOf(t.monitors, f, e) = NearOf(s.monitors, f, d)
    BY <2>1 DEF Alike, MonitorsAlike, SameSides, NearOf
  <2>3. NearOf(s.monitors, f, d) \subseteq DOMAIN s.monitors
    BY DEF NearOf
  <2>4. LongestOf(t.monitors, f, e) = LongestOf(s.monitors, f, d)
    BY <2>1, <2>2, <2>3 DEF SameSides, LongestOf
  <2>5. CASE NearOf(s.monitors, f, d) = {}
    <3>1. Directional(e, t.monitors) = {} /\ Directional(d, s.monitors) = {}
      BY <1>1, <2>2, <2>5, DirectionalIs DEF f
    <3>2. QED
      BY <3>1
  <2>6. CASE NearOf(s.monitors, f, d) # {}
    <3> DEFINE edges == [i \in NearOf(s.monitors, f, d) |-> EdgeOf(s.monitors, f, i, d)]
    <3>1. edges \in [NearOf(s.monitors, f, d) -> Int]
      BY <2>1, <2>3, EdgeIsNumber DEF EdgeOf, IsSnapshot
    <3>2. LongestOf(s.monitors, f, d) # {}
      <4>1. PICK i \in NearOf(s.monitors, f, d) : \A j \in NearOf(s.monitors, f, d) :
            edges[i] >= edges[j]
        BY <1>1, <2>3, <2>6, <3>1, GreatestAt DEF IsLine
      <4>2. i \in LongestOf(s.monitors, f, d)
        BY <4>1 DEF LongestOf
      <4>3. QED
        BY <4>2
    <3>3. LongestOf(s.monitors, f, d) \subseteq DOMAIN s.monitors
      BY <2>3 DEF LongestOf
    <3>4. PICK i \in DOMAIN s.monitors : i = First(LongestOf(s.monitors, f, d))
      BY <1>1, <3>2, <3>3, FirstFacts DEF IsLine
    <3>5. t.monitors[i].name = s.monitors[i].name
      BY <3>4 DEF Alike, MonitorsAlike
    <3>6. Directional(e, t.monitors) = {t.monitors[i].name} /\
          Directional(d, s.monitors) = {s.monitors[i].name}
      BY <1>1, <1>3, <2>2, <2>4, <2>6, <3>4, DirectionalIs DEF f
    <3>7. QED
      BY <3>5, <3>6
  <2>7. QED
    BY <2>5, <2>6
<1>4. QED
  BY <1>2, <1>3

-----------------------------------------------------------------------------
(* Monitors moved *)

\* How long a list is that was built place by place.
LEMMA LengthOf ==
  ASSUME NEW n \in Nat, NEW t, t = [i \in 1 .. n |-> t[i]]
  PROVE  Len(t) = n /\ DOMAIN t = 1 .. n
<1> DEFINE T == {t[i] : i \in 1 .. n}
<1>1. t \in [1 .. n -> T]
  <2> HIDE DEF T
  <2>1. \A i \in 1 .. n : t[i] \in T
    BY DEF T
  <2>2. [i \in 1 .. n |-> t[i]] \in [1 .. n -> T]
    BY <2>1
  <2>3. QED
    BY <2>2
<1> HIDE DEF T
<1>2. t \in Seq(T)
  BY <1>1, SeqDef
<1>3. DOMAIN t = 1 .. n /\ DOMAIN t = 1 .. Len(t) /\ Len(t) \in Nat
  BY <1>1, <1>2, LenProperties
<1>4. QED
  BY <1>3

\* A monitor whose place alone changed.
LEMMA MirrorFacts ==
  ASSUME NEW m, IsMonitor(m)
  PROVE  /\ MonitorsAlike(m, Mirror(m))
         /\ Mirror(m).x = -(m.x + Width(m)) /\ Mirror(m).y = m.y
         /\ Mirror(m).width = m.width /\ Mirror(m).height = m.height
         /\ Mirror(m).scale = m.scale /\ Mirror(m).transform = m.transform
<1> DEFINE v == -(m.x + Width(m))
<1>1. m \in [name : {m.name}, focused : {m.focused}, disabled : {m.disabled}, x : {m.x}, y : {m.y},
             width : {m.width}, height : {m.height}, scale : {m.scale}, transform : {m.transform},
             reserved : {m.reserved}, active : {m.active}, special : {m.special}]
  BY DEF IsMonitor
<1>2. Mirror(m) = [m EXCEPT !.x = v]
  BY DEF Mirror
<1> HIDE DEF v
<1>3. /\ Mirror(m).name = m.name /\ Mirror(m).focused = m.focused /\ Mirror(m).disabled = m.disabled
      /\ Mirror(m).reserved = m.reserved /\ Mirror(m).active = m.active /\
            Mirror(m).special = m.special
      /\ Mirror(m).x = v /\ Mirror(m).y = m.y
      /\ Mirror(m).width = m.width /\ Mirror(m).height = m.height
      /\ Mirror(m).scale = m.scale /\ Mirror(m).transform = m.transform
  BY <1>1, <1>2
<1>4. QED
  BY <1>3 DEF MonitorsAlike, v

\* A monitor whose axes were exchanged.
LEMMA TransposeFacts ==
  ASSUME NEW m, IsMonitor(m)
  PROVE  /\ MonitorsAlike(m, Transpose(m))
         /\ Transpose(m).x = m.y /\ Transpose(m).y = m.x
         /\ Transpose(m).width = m.height /\ Transpose(m).height = m.width
         /\ Transpose(m).scale = m.scale /\ Transpose(m).transform = m.transform
<1>1. m \in [name : {m.name}, focused : {m.focused}, disabled : {m.disabled}, x : {m.x}, y : {m.y},
             width : {m.width}, height : {m.height}, scale : {m.scale}, transform : {m.transform},
             reserved : {m.reserved}, active : {m.active}, special : {m.special}]
  BY DEF IsMonitor
<1>3. /\ Transpose(m).name = m.name /\ Transpose(m).focused = m.focused
      /\ Transpose(m).disabled = m.disabled
      /\ Transpose(m).reserved = m.reserved /\ Transpose(m).active = m.active
      /\ Transpose(m).special = m.special
      /\ Transpose(m).x = m.y /\ Transpose(m).y = m.x
      /\ Transpose(m).width = m.height /\ Transpose(m).height = m.width
      /\ Transpose(m).scale = m.scale /\ Transpose(m).transform = m.transform
  BY <1>1 DEF Transpose
<1>4. QED
  BY <1>3 DEF MonitorsAlike

\* What is left in a mirror is right, and what is up stays so; the edges are as long.
LEMMA MirroredSides ==
  ASSUME NEW m, NEW k, IsMonitor(m), m.scale > 0, IsMonitor(k), k.scale > 0, NEW d \in Sides
  PROVE  LET e == Opposite[d]
         IN  /\ (Distance(Box(Mirror(m), e), Box(Mirror(k), e), e) \in -1 .. 1) <=>
                  (Distance(Box(m, d), Box(k, d), d) \in -1 .. 1)
             /\ Overlap(Box(Mirror(m), e), Box(Mirror(k), e)) = Overlap(Box(m, d), Box(k, d))
<1> DEFINE e == Opposite[d]
<1>1. /\ m.x \in Int /\ m.y \in Int /\ k.x \in Int /\ k.y \in Int
      /\ Width(m) \in Int /\ Width(k) \in Int /\ Height(m) \in Int /\ Height(k) \in Int
  BY BoxFacts DEF IsMonitor
<1>2. /\ Width(Mirror(m)) = Width(m) /\ Height(Mirror(m)) = Height(m)
      /\ Width(Mirror(k)) = Width(k) /\ Height(Mirror(k)) = Height(k)
  BY MirrorFacts DEF Width, Height
<1>3. /\ Mirror(m).x = -(m.x + Width(m)) /\ Mirror(m).y = m.y
      /\ Mirror(k).x = -(k.x + Width(k)) /\ Mirror(k).y = k.y
  BY MirrorFacts
<1>4. CASE d = "l"
  <2>1. e = "r"
    BY <1>4 DEF Opposite
  <2>2. QED
    BY <1>1, <1>2, <1>3, <1>4, <2>1 DEF Box, Distance, Overlap, Most, Least
<1>5. CASE d = "r"
  <2>1. e = "l"
    BY <1>5 DEF Opposite
  <2>2. QED
    BY <1>1, <1>2, <1>3, <1>5, <2>1 DEF Box, Distance, Overlap, Most, Least
<1>6. CASE d = "u"
  <2>1. e = "u"
    BY <1>6 DEF Opposite
  <2>2. QED
    BY <1>1, <1>2, <1>3, <1>6, <2>1 DEF Box, Distance, Overlap, Most, Least
<1>7. CASE d = "d"
  <2>1. e = "d"
    BY <1>7 DEF Opposite
  <2>2. QED
    BY <1>1, <1>2, <1>3, <1>7, <2>1 DEF Box, Distance, Overlap, Most, Least
<1>8. QED
  BY <1>4, <1>5, <1>6, <1>7 DEF Sides

\* With the axes exchanged, what is left is up.
LEMMA TransposedSides ==
  ASSUME NEW m, NEW k, IsMonitor(m), m.scale > 0, IsMonitor(k), k.scale > 0, NEW d \in Sides
  PROVE  LET e == Turned[d]
         IN  /\ (Distance(Box(Transpose(m), e), Box(Transpose(k), e), e) \in -1 .. 1) <=>
                  (Distance(Box(m, d), Box(k, d), d) \in -1 .. 1)
             /\ Overlap(Box(Transpose(m), e), Box(Transpose(k), e)) = Overlap(Box(m, d), Box(k, d))
<1> DEFINE e == Turned[d]
<1>2. \A a \in {m, k} : Width(Transpose(a)) = Height(a) /\ Height(Transpose(a)) = Width(a)
  BY TransposeFacts DEF Width, Height
<1>3. \A a \in {m, k} : Transpose(a).x = a.y /\ Transpose(a).y = a.x
  BY TransposeFacts
<1>4. (d = "l" /\ e = "u") \/ (d = "u" /\ e = "l") \/ (d = "r" /\ e = "d") \/ (d = "d" /\ e = "r")
  BY DEF Sides, Turned
<1> HIDE DEF e
<1>5. \A a \in {m, k} : Box(Transpose(a), e) = Box(a, d)
  BY <1>2, <1>3, <1>4 DEF Box
<1>6. Box(Transpose(m), e) = Box(m, d) /\ Box(Transpose(k), e) = Box(k, d)
  BY <1>5
<1>7. \A a, b : Distance(a, b, e) = Distance(a, b, d)
  BY <1>4 DEF Distance
<1>8. QED
  BY <1>6, <1>7 DEF e

-----------------------------------------------------------------------------
(* Rules with sides renamed *)

\* Monitors that are alike match the same selectors, if the sides are.
LEMMA MonitorMatchesSame ==
  ASSUME NEW s, NEW t, Alike(s, t), IsSnapshot(s), NEW i \in DOMAIN s.monitors, NEW selector,
         selector.by = "direction" => Directional(selector.value, t.monitors) =
               Directional(selector.value, s.monitors),
         selector.by \in {"current", "direction", "relative", "which"},
         selector.by = "relative" => selector.value \in Int
  PROVE  MonitorMatches(selector, t.monitors[i], t.monitors) <=>
        MonitorMatches(selector, s.monitors[i], s.monitors)
<1>1. /\ (t.monitors[i].focused <=> s.monitors[i].focused) /\ t.monitors[i].name = s.monitors[i].name
      /\ Len(t.monitors) = Len(s.monitors) /\ Focused(t.monitors) = Focused(s.monitors)
  BY FocusedSame DEF Alike, MonitorsAlike
<1>2. CASE selector.by = "current"
  BY <1>1, <1>2 DEF MonitorMatches
<1>3. CASE selector.by = "direction"
  BY <1>1, <1>3 DEF MonitorMatches
<1>4. CASE selector.by = "relative"
  <2> DEFINE there(m) == Steps(First(Focused(m)) - 1, selector.value, Len(m)) + 1
  <2>1. MonitorMatches(selector, t.monitors[i], t.monitors) <=>
          Focused(t.monitors) # {} /\ t.monitors[i].name = t.monitors[there(t.monitors)].name
    BY <1>4 DEF MonitorMatches
  <2>2. MonitorMatches(selector, s.monitors[i], s.monitors) <=>
          Focused(s.monitors) # {} /\ s.monitors[i].name = s.monitors[there(s.monitors)].name
    BY <1>4 DEF MonitorMatches
  <2>3. there(t.monitors) = there(s.monitors)
    BY <1>1
  <2>4. CASE Focused(s.monitors) = {}
    BY <1>1, <2>1, <2>2, <2>4
  <2>5. CASE Focused(s.monitors) # {}
    <3>1. there(s.monitors) \in DOMAIN s.monitors
      <4>1. IsLine(s.monitors)
        BY DEF IsSnapshot
      <4>2. First(Focused(s.monitors)) \in 1 .. Len(s.monitors)
        BY <4>1, <2>5, FirstFacts DEF IsLine, Focused, Places
      <4> DEFINE L == Len(s.monitors)
                 f == First(Focused(s.monitors))
      <4>3. L \in Nat /\ L > 0 /\ f \in Int
        BY <4>1, <4>2 DEF IsLine
      <4> HIDE DEF L, f
      <4>4. \A a \in Int : a % L \in 0 .. L - 1
        BY <4>3
      <4>5. f - 1 + (IF selector.value < 0
            THEN - ((- selector.value) % L) ELSE selector.value % L) \in Int
        BY <1>4, <4>3, <4>4
      <4>6. Steps(f - 1, selector.value, L) \in 0 .. L - 1
        BY <4>4, <4>5 DEF Steps
      <4>7. there(s.monitors) = Steps(f - 1, selector.value, L) + 1
        BY DEF L, f
      <4>8. there(s.monitors) \in 1 .. L
        BY <4>3, <4>6, <4>7
      <4>9. QED
        BY <4>8, <4>1 DEF IsLine, L
    <3> HIDE DEF there
    <3>2. t.monitors[there(s.monitors)].name = s.monitors[there(s.monitors)].name
      BY <3>1 DEF Alike, MonitorsAlike
    <3>3. QED
      BY <1>1, <2>1, <2>2, <2>3, <2>5, <3>2
  <2>6. QED
    BY <2>4, <2>5
<1>5. CASE selector.by = "which"
  BY <1>1, <1>5 DEF MonitorMatches
<1>6. QED
  BY <1>2, <1>3, <1>4, <1>5

\* The monitors of a side, under the name it has in the other snapshot.
SidesTold(s, t, way) ==
  \A d \in Sides : Directional(way[d], t.monitors) = Directional(d, s.monitors)

\* A clause of a rule, and what it is when sides have other names.
LEMMA TermSame ==
  ASSUME NEW s, NEW t, Alike(s, t), IsSnapshot(s), NEW i \in DOMAIN s.monitors, NEW clause,
        IsClause(clause),
         NEW w, NEW way \in [Sides -> Sides], SidesTold(s, t, way)
  PROVE  Term(Reselect(clause, way), w, t.monitors[i], t) <=> Term(clause, w, s.monitors[i], s)
<1>1. CASE clause.kind = "m" /\ clause.selector.by = "direction"
  <2> DEFINE d == clause.selector.value
             turned == Reselect(clause, way)
  <2>1. d \in Sides
    BY <1>1 DEF IsClause, Sides
  <2>2. turned.kind = "m" /\ turned.selector.by = "direction" /\ turned.selector.value = way[d]
    BY <1>1 DEF Reselect
  <2> HIDE DEF turned
  <2>3. Term(turned, w, t.monitors[i], t) <=> t.monitors[i].name \in Directional(way[d], t.monitors)
    BY <2>2 DEF Term, MonitorMatches
  <2>4. Term(clause, w, s.monitors[i], s) <=> s.monitors[i].name \in Directional(d, s.monitors)
    BY <1>1 DEF Term, MonitorMatches
  <2>5. t.monitors[i].name = s.monitors[i].name
    BY DEF Alike, MonitorsAlike
  <2>6. QED
    BY <2>1, <2>3, <2>4, <2>5 DEF turned, SidesTold
<1>2. CASE clause.kind = "m" /\ clause.selector.by # "direction"
  <2>1. Reselect(clause, way) = clause
    BY <1>2 DEF Reselect
  <2>2. MonitorMatches(clause.selector, t.monitors[i], t.monitors) <=>
          MonitorMatches(clause.selector, s.monitors[i], s.monitors)
    BY <1>2, MonitorMatchesSame DEF IsClause
  <2>3. QED
    BY <1>2, <2>1, <2>2 DEF Term
<1>3. CASE clause.kind # "m"
  <2>1. Reselect(clause, way) = clause
    BY <1>3 DEF Reselect
  <2>2. t.clients = s.clients
    BY DEF Alike
  <2>3. QED
    BY <1>3, <2>1, <2>2 DEF Term
<1>4. QED
  BY <1>1, <1>2, <1>3

\* Rules whose sides have other names.
ReselectedIs(rules, others, way) ==
  /\ DOMAIN others = DOMAIN rules
  /\ \A i \in DOMAIN rules :
       /\ others[i].gaps = rules[i].gaps
       /\ DOMAIN others[i].selector = DOMAIN rules[i].selector
       /\ \A j \in DOMAIN rules[i].selector : others[i].selector[j] =
             Reselect(rules[i].selector[j], way)

\* Rules that say something of a monitor.
SayingIn(m, s) ==
  LET w == s.workspaces[First(Workspace(m, s))]
  IN  {i \in DOMAIN s.rules : s.rules[i].gaps # None /\ Matches(s.rules[i].selector, w, m, s)}

\* The gaps are those of the last rule that says something.
LEMMA GapsAre ==
  ASSUME NEW m, NEW s
  PROVE  Gaps(m, s) = IF SayingIn(m, s) = {} THEN s.gaps ELSE s.rules[Latest(SayingIn(m, s))].gaps
  BY DEF Gaps, SayingIn, Places

\* Rules say the same of monitors that are alike, sides renamed.
LEMMA GapsSame ==
  ASSUME NEW s, NEW t, Alike(s, t), IsSnapshot(s), NEW i \in DOMAIN s.monitors,
        NEW way \in [Sides -> Sides],
         ReselectedIs(s.rules, t.rules, way), SidesTold(s, t, way)
  PROVE  Gaps(t.monitors[i], t) = Gaps(s.monitors[i], s)
<1> DEFINE w == s.workspaces[First(Workspace(s.monitors[i], s))]
<1>1. w = t.workspaces[First(Workspace(t.monitors[i], t))]
  BY AlikeAreas DEF Alike
<1> HIDE DEF w
<1>2. ASSUME NEW r \in DOMAIN s.rules
      PROVE  Matches(t.rules[r].selector, w, t.monitors[i], t) <=>
            Matches(s.rules[r].selector, w, s.monitors[i], s)
  <2>1. ASSUME NEW j \in DOMAIN s.rules[r].selector
        PROVE  Term(t.rules[r].selector[j], w, t.monitors[i], t) <=>
              Term(s.rules[r].selector[j], w, s.monitors[i], s)
    <3>1. IsClause(s.rules[r].selector[j])
      BY DEF IsSnapshot
    <3>2. t.rules[r].selector[j] = Reselect(s.rules[r].selector[j], way)
      BY DEF ReselectedIs
    <3>3. QED
      BY <3>1, <3>2, TermSame
  <2>2. DOMAIN t.rules[r].selector = DOMAIN s.rules[r].selector
    BY DEF ReselectedIs
  <2>3. QED
    BY <2>1, <2>2 DEF Matches
<1>3. SayingIn(t.monitors[i], t) = SayingIn(s.monitors[i], s)
  BY <1>1, <1>2 DEF SayingIn, w, ReselectedIs
<1>4. CASE SayingIn(s.monitors[i], s) = {}
  BY <1>3, <1>4, GapsAre DEF Alike
<1>5. CASE SayingIn(s.monitors[i], s) # {}
  <2>1. PICK r \in DOMAIN s.rules : r = Latest(SayingIn(s.monitors[i], s))
    <3>1. SayingIn(s.monitors[i], s) \in SUBSET (1 .. Len(s.rules)) /\ Len(s.rules) \in Nat
      BY DEF SayingIn, IsSnapshot, IsLine
    <3>2. Latest(SayingIn(s.monitors[i], s)) \in 1 .. Len(s.rules)
      BY <1>5, <3>1, LatestFacts
    <3>3. QED
      BY <3>2 DEF IsSnapshot, IsLine
  <2>2. t.rules[r].gaps = s.rules[r].gaps
    BY DEF ReselectedIs
  <2>3. QED
    BY <1>3, <1>5, <2>1, <2>2, GapsAre
<1>6. QED
  BY <1>4, <1>5

\* And so the areas are the same.
LEMMA InsetsTurned ==
  ASSUME NEW s, NEW t, Alike(s, t), IsSnapshot(s), NEW way \in [Sides -> Sides],
         ReselectedIs(s.rules, t.rules, way),
         \A d \in Sides : SameSides(s.monitors, t.monitors, d, way[d])
  PROVE  Insets(t) = Insets(s)
<1>1. SidesTold(s, t, way)
  BY DirectionalSame DEF SidesTold
<1>2. \A i \in DOMAIN s.monitors : Gaps(t.monitors[i], t) = Gaps(s.monitors[i], s)
  BY <1>1, GapsSame
<1>3. PlacedIn(s) \subseteq DOMAIN s.monitors /\ IsLine(s.monitors)
  BY DEF PlacedIn, IsSnapshot
<1>4. QED
  BY <1>2, <1>3, InsetsSame

\* The fields of a snapshot with other monitors and rules.
LEMMA OtherFields ==
  ASSUME NEW s, IsSnapshot(s), NEW monitors, NEW rules
  PROVE  LET t == [s EXCEPT !.monitors = monitors, !.rules = rules]
         IN  /\ t.monitors = monitors /\ t.rules = rules
             /\ t.workspaces = s.workspaces /\ t.clients = s.clients /\ t.gaps = s.gaps
<1>1. s \in [monitors : {s.monitors}, workspaces : {s.workspaces}, rules : {s.rules},
             clients : {s.clients}, gaps : {s.gaps}]
  BY DEF IsSnapshot
<1>2. QED
  BY <1>1

\* Rules keep their places, clauses and gaps when sides are renamed.
LEMMA ReselectedFacts ==
  ASSUME NEW s, IsSnapshot(s), NEW way PROVE ReselectedIs(s.rules, Reselected(s.rules, way), way)
<1> DEFINE selector(i) == [j \in DOMAIN s.rules[i].selector |-> Reselect(s.rules[i].selector[j], way)]
           others == [i \in DOMAIN s.rules |-> [selector |-> selector(i), gaps |-> s.rules[i].gaps]]
<1>1. others = Reselected(s.rules, way)
  BY DEF Reselected
<1>2. \A i : DOMAIN selector(i) = DOMAIN s.rules[i].selector
  OBVIOUS
<1>3. \A i : \A j \in DOMAIN s.rules[i].selector : selector(i)[j] =
      Reselect(s.rules[i].selector[j], way)
  OBVIOUS
<1> HIDE DEF selector
<1>4. \A i \in DOMAIN s.rules : others[i].gaps = s.rules[i].gaps /\ others[i].selector = selector(i)
  OBVIOUS
<1>5. DOMAIN others = DOMAIN s.rules
  OBVIOUS
<1> HIDE DEF others
<1>6. ReselectedIs(s.rules, others, way)
  BY <1>2, <1>3, <1>4, <1>5 DEF ReselectedIs
<1>7. QED
  BY <1>1, <1>6

\* What was moved is alike.
LEMMA AlikeMoved ==
  ASSUME NEW s, IsSnapshot(s), NEW t, t.monitors = [i \in DOMAIN s.monitors |-> t.monitors[i]],
         \A i \in DOMAIN s.monitors : MonitorsAlike(s.monitors[i], t.monitors[i]),
         t.workspaces = s.workspaces, t.clients = s.clients, t.gaps = s.gaps
  PROVE  Alike(s, t)
<1>1. DOMAIN s.monitors = 1 .. Len(s.monitors) /\ Len(s.monitors) \in Nat
  BY DEF IsSnapshot, IsLine
<1>2. t.monitors = [i \in 1 .. Len(s.monitors) |-> t.monitors[i]]
  BY <1>1
<1>3. Len(t.monitors) = Len(s.monitors) /\ DOMAIN t.monitors = DOMAIN s.monitors
  BY <1>1, <1>2, LengthOf
<1>4. QED
  BY <1>3 DEF Alike

\* The same areas in a mirror.
LEMMA MirroredSame ==
  ASSUME NEW s, IsSnapshot(s) PROVE Insets(Mirrored(s)) = Insets(s)
<1> DEFINE monitors == [i \in DOMAIN s.monitors |-> Mirror(s.monitors[i])]
           rules == Reselected(s.rules, Opposite)
           t == Mirrored(s)
<1>1. t = [s EXCEPT !.monitors = monitors, !.rules = rules]
  BY DEF Mirrored
<1> HIDE DEF t, rules
<1>2. /\ t.monitors = [i \in DOMAIN s.monitors |-> Mirror(s.monitors[i])]
      /\ t.rules = rules /\ t.workspaces = s.workspaces /\ t.clients = s.clients /\ t.gaps = s.gaps
  BY <1>1, OtherFields
<1>3. \A i \in DOMAIN s.monitors :
        /\ MonitorsAlike(s.monitors[i], Mirror(s.monitors[i])) /\
              t.monitors[i] = Mirror(s.monitors[i])
        /\ IsMonitor(s.monitors[i]) /\ s.monitors[i].scale > 0
  BY <1>2, MirrorFacts DEF IsSnapshot
<1>a. t.monitors = [i \in DOMAIN s.monitors |-> t.monitors[i]]
  BY <1>2
<1>b. \A i \in DOMAIN s.monitors : MonitorsAlike(s.monitors[i], t.monitors[i])
  BY <1>3
<1>4. Alike(s, t)
  BY <1>2, <1>a, <1>b, AlikeMoved
<1>5. Opposite \in [Sides -> Sides]
  BY DEF Opposite, Sides
<1>6. ReselectedIs(s.rules, t.rules, Opposite)
  BY <1>2, ReselectedFacts DEF rules
<1>7. ASSUME NEW d \in Sides PROVE SameSides(s.monitors, t.monitors, d, Opposite[d])
  BY <1>3, MirroredSides DEF SameSides, EdgeOf
<1>8. Insets(t) = Insets(s)
  BY <1>4, <1>5, <1>6, <1>7, InsetsTurned
<1>9. QED
  BY <1>8 DEF t

\* And with the axes exchanged.
LEMMA TransposedSame ==
  ASSUME NEW s, IsSnapshot(s) PROVE Insets(Transposed(s)) = Insets(s)
<1> DEFINE monitors == [i \in DOMAIN s.monitors |-> Transpose(s.monitors[i])]
           rules == Reselected(s.rules, Turned)
           t == Transposed(s)
<1>1. t = [s EXCEPT !.monitors = monitors, !.rules = rules]
  BY DEF Transposed
<1> HIDE DEF t, rules
<1>2. /\ t.monitors = [i \in DOMAIN s.monitors |-> Transpose(s.monitors[i])]
      /\ t.rules = rules /\ t.workspaces = s.workspaces /\ t.clients = s.clients /\ t.gaps = s.gaps
  BY <1>1, OtherFields
<1>3. \A i \in DOMAIN s.monitors :
        /\ MonitorsAlike(s.monitors[i], Transpose(s.monitors[i])) /\
              t.monitors[i] = Transpose(s.monitors[i])
        /\ IsMonitor(s.monitors[i]) /\ s.monitors[i].scale > 0
  BY <1>2, TransposeFacts DEF IsSnapshot
<1>a. t.monitors = [i \in DOMAIN s.monitors |-> t.monitors[i]]
  BY <1>2
<1>b. \A i \in DOMAIN s.monitors : MonitorsAlike(s.monitors[i], t.monitors[i])
  BY <1>3
<1>4. Alike(s, t)
  BY <1>2, <1>a, <1>b, AlikeMoved
<1>5. Turned \in [Sides -> Sides]
  BY DEF Turned, Sides
<1>6. ReselectedIs(s.rules, t.rules, Turned)
  BY <1>2, ReselectedFacts DEF rules
<1>7. ASSUME NEW d \in Sides PROVE SameSides(s.monitors, t.monitors, d, Turned[d])
  BY <1>3, TransposedSides DEF SameSides, EdgeOf
<1>8. Insets(t) = Insets(s)
  BY <1>4, <1>5, <1>6, <1>7, InsetsTurned
<1>9. QED
  BY <1>8 DEF t

-----------------------------------------------------------------------------
(* Rules without gaps *)

\* A clause does not look at rules.
LEMMA MatchesWithoutRules ==
  ASSUME NEW s, NEW t, t.monitors = s.monitors, t.clients = s.clients, NEW selector, NEW w, NEW m
  PROVE  Matches(selector, w, m, t) <=> Matches(selector, w, m, s)
<1>1. ASSUME NEW clause PROVE Term(clause, w, m, t) = Term(clause, w, m, s)
  BY DEF Term
<1>2. QED
  BY <1>1 DEF Matches

\* A snapshot with those rules of another that are kept, in their order.
KeepsRules(s, t, kept, n) ==
  /\ kept \in [1 .. n -> DOMAIN s.rules]
  /\ \A i, j \in 1 .. n : i < j => kept[i] < kept[j]
  /\ \A i \in DOMAIN s.rules : s.rules[i].gaps # None => i \in Members(kept)
  /\ DOMAIN t.rules = 1 .. n /\ \A i \in 1 .. n : t.rules[i] = s.rules[kept[i]]
  /\ t.monitors = s.monitors /\ t.clients = s.clients
  /\ t.workspaces = s.workspaces /\ t.gaps = s.gaps

\* The same gaps, when some rules without any are left out.
LEMMA GapsKept ==
  ASSUME NEW s, IsSnapshot(s), NEW n \in Nat, NEW kept, NEW t, KeepsRules(s, t, kept, n), NEW m
  PROVE  Gaps(m, t) = Gaps(m, s)
<1>0. /\ kept \in [1 .. n -> DOMAIN s.rules]
      /\ \A i, j \in 1 .. n : i < j => kept[i] < kept[j]
      /\ \A i \in DOMAIN s.rules : s.rules[i].gaps # None => i \in Members(kept)
      /\ DOMAIN t.rules = 1 .. n /\ \A i \in 1 .. n : t.rules[i] = s.rules[kept[i]]
      /\ t.monitors = s.monitors /\ t.clients = s.clients
      /\ t.workspaces = s.workspaces /\ t.gaps = s.gaps
  BY DEF KeepsRules
<1> DEFINE w == s.workspaces[First(Workspace(m, s))]
<1>1. Workspace(m, t) = Workspace(m, s) /\ w = t.workspaces[First(Workspace(m, t))]
  BY <1>0 DEF Workspace
<1> HIDE DEF w
<1>2. DOMAIN t.rules = 1 .. n /\ \A i \in 1 .. n : kept[i] \in DOMAIN s.rules /\
      t.rules[i] = s.rules[kept[i]]
  BY <1>0
<1>3. \A selector : Matches(selector, w, m, t) <=> Matches(selector, w, m, s)
  BY <1>0, MatchesWithoutRules
<1>4. SayingIn(m, s) = {i \in DOMAIN s.rules : s.rules[i].gaps # None /\
      Matches(s.rules[i].selector, w, m, s)}
  BY DEF SayingIn, w
<1>5. SayingIn(m, t) = {i \in 1 .. n : t.rules[i].gaps # None /\
      Matches(t.rules[i].selector, w, m, t)}
  BY <1>1, <1>2 DEF SayingIn
<1>6. \A i \in 1 .. n : i \in SayingIn(m, t) <=> kept[i] \in SayingIn(m, s)
  BY <1>2, <1>3, <1>4, <1>5
<1>7. \A r \in SayingIn(m, s) : \E i \in 1 .. n : kept[i] = r
  BY <1>0, <1>4 DEF Members
<1>8. SayingIn(m, t) \in SUBSET (1 .. n)
  BY <1>5
<1>9. SayingIn(m, s) \in SUBSET (1 .. Len(s.rules)) /\ Len(s.rules) \in Nat /\
      DOMAIN s.rules = 1 .. Len(s.rules)
  BY <1>4 DEF IsSnapshot, IsLine
<1>10. CASE SayingIn(m, s) = {}
  <2>1. SayingIn(m, t) = {}
    BY <1>6, <1>8, <1>10
  <2>2. QED
    BY <1>0, <1>10, <2>1, GapsAre
<1>11. CASE SayingIn(m, s) # {}
  <2>1. PICK r \in SayingIn(m, s) : r = Latest(SayingIn(m, s)) /\ \A q \in SayingIn(m, s) : r >= q
    BY <1>9, <1>11, LatestFacts
  <2>2. PICK a \in 1 .. n : kept[a] = r
    BY <1>7, <2>1
  <2>3. a \in SayingIn(m, t)
    BY <1>6, <2>1, <2>2
  <2>4. PICK b \in SayingIn(m, t) : b = Latest(SayingIn(m, t)) /\ b >= a
    BY <1>8, <2>3, LatestFacts
  <2>5. kept[b] \in SayingIn(m, s) /\ b \in 1 .. n
    BY <1>6, <1>8, <2>4
  <2>6. kept[a] >= kept[b] /\ kept[a] \in Int /\ kept[b] \in Int
    BY <1>9, <2>1, <2>2, <2>5
  <2>7. b = a
    <3>1. ~ (a < b)
      BY <1>0, <2>5, <2>6
    <3>2. QED
      BY <2>4, <2>5, <3>1
  <2>8. t.rules[b].gaps = s.rules[r].gaps
    BY <1>2, <2>2, <2>7
  <2>9. QED
    BY <1>11, <2>1, <2>3, <2>4, <2>8, GapsAre
<1>12. QED
  BY <1>10, <1>11

\* So nothing changes when rules without gaps are left out.
LEMMA KeptSame ==
  ASSUME NEW s, IsSnapshot(s), NEW kept \in Kept(s.rules)
  PROVE  Insets([s EXCEPT !.rules = [i \in DOMAIN kept |-> @[kept[i]]]]) = Insets(s)
<1> DEFINE rules == [i \in DOMAIN kept |-> s.rules[kept[i]]]
           t == [s EXCEPT !.rules = [i \in DOMAIN kept |-> @[kept[i]]]]
<1>1. PICK n \in Nat :
        /\ kept \in [1 .. n -> DOMAIN s.rules]
        /\ \A i, j \in 1 .. n : i < j => kept[i] < kept[j]
        /\ \A i \in DOMAIN s.rules : s.rules[i].gaps # None => i \in Members(kept)
  BY DEF Kept
<1>2. t = [s EXCEPT !.rules = rules]
  OBVIOUS
<1> HIDE DEF t
<1>3. /\ t.rules = rules /\ t.monitors = s.monitors
      /\ t.workspaces = s.workspaces /\ t.clients = s.clients /\ t.gaps = s.gaps
  <2> HIDE DEF rules
  <2>1. s \in [monitors : {s.monitors}, workspaces : {s.workspaces}, rules : {s.rules},
               clients : {s.clients}, gaps : {s.gaps}]
    BY DEF IsSnapshot
  <2>2. QED
    BY <1>2, <2>1
<1>4. ASSUME NEW m PROVE Gaps(m, t) = Gaps(m, s)
  <2>1. DOMAIN t.rules = 1 .. n /\ \A i \in 1 .. n : t.rules[i] = s.rules[kept[i]]
    BY <1>1, <1>3
  <2> HIDE DEF rules
  <2>2. KeepsRules(s, t, kept, n)
    BY <1>1, <1>3, <2>1 DEF KeepsRules
  <2>3. QED
    BY <2>2, GapsKept
<1>5. Alike(s, t)
  BY <1>3 DEF Alike, MonitorsAlike
<1>6. Insets(t) = Insets(s)
  <2>1. IsLine(s.monitors)
    BY DEF IsSnapshot
  <2>2. QED
    BY <1>3, <1>4, <1>5, <2>1, InsetsSame
<1>7. QED
  BY <1>6 DEF t

-----------------------------------------------------------------------------
(* The ring *)

\* One step around the ring.
Stepped(at, by, length) ==
  IF at + by = length THEN 0 ELSE IF at + by < 0 THEN length - 1 ELSE at + by

\* A walk is one that keeps stepping, as there is one.
LEMMA WalkChosen ==
  ASSUME NEW here, NEW by, NEW length, NEW F,
         F = [n \in Nat |-> IF n = 0 THEN here ELSE Stepped(F[n - 1], by, length)]
  PROVE  Walk(here, by, length) =
           [n \in Nat |-> IF n = 0 THEN here ELSE Stepped(Walk(here, by, length)[n - 1], by, length)]
<1> DEFINE Is(g) == g = [n \in Nat |-> IF n = 0 THEN here ELSE Stepped(g[n - 1], by, length)]
<1>1. Walk(here, by, length) = CHOOSE g : Is(g)
  BY DEF Walk, Stepped
<1>2. Is(F)
  OBVIOUS
<1>3. Is(CHOOSE g : Is(g))
  <2> HIDE DEF Is
  <2>1. QED
    BY <1>2
<1> DEFINE W == Walk(here, by, length)
<1>4. Is(W)
  <2> HIDE DEF Is
  <2>1. QED
    BY <1>1, <1>3
<1>5. QED
  BY <1>4

\* Division with a remainder, which is the only one.
LEMMA Remainder ==
  ASSUME NEW L \in Nat, L > 0, NEW q \in Int, NEW r \in 0 .. L - 1
  PROVE  (L * q + r) % L = r
<1> DEFINE a == L * q + r
           p == a \div L
           e == a % L
<1>1. a \in Int
  OBVIOUS
<1>2. p \in Int /\ e \in 0 .. L - 1 /\ a = (L * p) + e
  <2> HIDE DEF a
  <2>1. QED
    BY <1>1
<1> HIDE DEF p, e
<1>3. (L * q) + r = (L * p) + e
  BY <1>2
<1> HIDE DEF a
<1>4. L * (q - p) = e - r
  BY <1>2, <1>3
<1> DEFINE k == q - p
<1>5. k \in Int /\ L * k = e - r
  BY <1>2, <1>4
<1> HIDE DEF k
<1>6. e - r < L /\ e - r > -L
  BY <1>2
<1>7. CASE k >= 1
  <2>1. L * k >= L
    BY <1>5, <1>7
  <2>2. QED
    BY <1>2, <1>5, <1>6, <2>1
<1>8. CASE k <= -1
  <2>1. L * k <= -L
    BY <1>5, <1>8
  <2>2. QED
    BY <1>2, <1>5, <1>6, <2>1
<1>9. CASE k = 0
  BY <1>2, <1>5, <1>9 DEF a, e
<1>10. QED
  BY <1>5, <1>7, <1>8, <1>9

\* The remainder of the next number.
LEMMA NextRemainder ==
  ASSUME NEW L \in Nat, L > 0, NEW n \in Nat
  PROVE  (n + 1) % L = IF n % L = L - 1 THEN 0 ELSE (n % L) + 1
<1> DEFINE q == n \div L
           r == n % L
<1>1. q \in Int /\ r \in 0 .. L - 1 /\ n = (L * q) + r
  OBVIOUS
<1> HIDE DEF q, r
<1>2. CASE r = L - 1
  <2>1. n + 1 = (L * (q + 1)) + 0
    BY <1>1, <1>2
  <2>2. q + 1 \in Int /\ 0 \in 0 .. L - 1
    BY <1>1
  <2>3. ((L * (q + 1)) + 0) % L = 0
    BY <2>2, Remainder
  <2>4. QED
    BY <1>2, <2>1, <2>3 DEF r
<1>3. CASE r # L - 1
  <2>1. n + 1 = (L * q) + (r + 1)
    BY <1>1
  <2>2. r + 1 \in 0 .. L - 1
    BY <1>1, <1>3
  <2>3. ((L * q) + (r + 1)) % L = r + 1
    BY <1>1, <2>2, Remainder
  <2>4. QED
    BY <1>3, <2>1, <2>3 DEF r
<1>4. QED
  BY <1>2, <1>3

\* Walking on is one step more.
LEMMA StepOn ==
  ASSUME NEW L \in Nat, L > 0, NEW here \in 0 .. L - 1, NEW n \in Nat
  PROVE  /\ (here + ((n + 1) % L)) % L = Stepped((here + (n % L)) % L, 1, L)
         /\ (here - ((n + 1) % L)) % L = Stepped((here - (n % L)) % L, -1, L)
<1> DEFINE r == n % L
           t == (n + 1) % L
<1>1. r \in 0 .. L - 1 /\ t = IF r = L - 1 THEN 0 ELSE r + 1
  <2>1. r \in 0 .. L - 1
    OBVIOUS
  <2>2. t = IF r = L - 1 THEN 0 ELSE r + 1
    BY NextRemainder
  <2>3. QED
    BY <2>1, <2>2
<1> HIDE DEF r, t
<1>2. \A a \in Int : \A v \in 0 .. L - 1 : (a = v \/ a = L + v \/ a = v - L) => a % L = v
  <2>1. SUFFICES ASSUME NEW a \in Int, NEW v \in 0 .. L - 1, a = v \/ a = L + v \/ a = v - L
                 PROVE  a % L = v
    OBVIOUS
  <2>2. a = (L * 0) + v \/ a = (L * 1) + v \/ a = (L * (-1)) + v
    BY <2>1
  <2>3. QED
    BY <2>2, Remainder
<1>3. (here + t) % L = Stepped((here + r) % L, 1, L)
  <2>1. (here + r) % L = IF here + r >= L THEN here + r - L ELSE here + r
    BY <1>1, <1>2
  <2>2. (here + t) % L = IF here + t >= L THEN here + t - L ELSE here + t
    BY <1>1, <1>2
  <2>3. QED
    BY <1>1, <2>1, <2>2 DEF Stepped
<1>4. (here - t) % L = Stepped((here - r) % L, -1, L)
  <2>1. (here - r) % L = IF here - r < 0 THEN here - r + L ELSE here - r
    BY <1>1, <1>2
  <2>2. (here - t) % L = IF here - t < 0 THEN here - t + L ELSE here - t
    BY <1>1, <1>2
  <2>3. QED
    BY <1>1, <2>1, <2>2 DEF Stepped
<1>5. QED
  BY <1>3, <1>4 DEF r, t

\* The walk, in one step.
LEMMA WalkIsSteps ==
  ASSUME NEW L \in Nat, L > 0, NEW here \in 0 .. L - 1, NEW by \in {-1, 1}, NEW n \in Nat
  PROVE  Walk(here, by, L)[n] = (here + (IF by < 0 THEN -(n % L) ELSE n % L)) % L
<1> DEFINE G(k) == (here + (IF by < 0 THEN -(k % L) ELSE k % L)) % L
           F == [k \in Nat |-> G(k)]
<1>1. G(0) = here
  <2>1. 0 % L = 0
    <3>1. 0 = (L * 0) + 0 /\ 0 \in 0 .. L - 1
      OBVIOUS
    <3>2. QED
      BY <3>1, Remainder
  <2>2. here % L = here
    <3>1. here = (L * 0) + here
      OBVIOUS
    <3>2. QED
      BY <3>1, Remainder
  <2>3. QED
    BY <2>1, <2>2
<1>2. ASSUME NEW k \in Nat PROVE G(k + 1) = Stepped(G(k), by, L)
  <2>1. k % L \in Int /\ (k + 1) % L \in Int
    OBVIOUS
  <2>2. CASE by = 1
    <3>1. G(k) = (here + (k % L)) % L /\ G(k + 1) = (here + ((k + 1) % L)) % L
      BY <2>2
    <3> HIDE DEF G
    <3>2. (here + ((k + 1) % L)) % L = Stepped((here + (k % L)) % L, 1, L)
      BY StepOn
    <3>3. QED
      BY <2>2, <3>1, <3>2
  <2>3. CASE by = -1
    <3>1. G(k) = (here - (k % L)) % L /\ G(k + 1) = (here - ((k + 1) % L)) % L
      <4>1. by < 0
        BY <2>3
      <4>2. \A a \in Int : here + (-a) = here - a
        OBVIOUS
      <4>3. QED
        BY <2>1, <4>1, <4>2
    <3> HIDE DEF G
    <3>2. (here - ((k + 1) % L)) % L = Stepped((here - (k % L)) % L, -1, L)
      BY StepOn
    <3>3. QED
      BY <2>3, <3>1, <3>2
  <2>4. QED
    BY <2>2, <2>3
<1> HIDE DEF G
<1>3. F = [k \in Nat |-> IF k = 0 THEN here ELSE Stepped(F[k - 1], by, L)]
  <2>1. ASSUME NEW k \in Nat PROVE F[k] = IF k = 0 THEN here ELSE Stepped(F[k - 1], by, L)
    <3>1. CASE k = 0
      BY <1>1, <3>1
    <3>2. CASE k # 0
      <4>1. k - 1 \in Nat /\ (k - 1) + 1 = k
        BY <3>2
      <4>2. G((k - 1) + 1) = Stepped(G(k - 1), by, L)
        BY <4>1, <1>2
      <4>3. QED
        BY <3>2, <4>1, <4>2
    <3>3. QED
      BY <3>1, <3>2
  <2>2. QED
    BY <2>1
<1> HIDE DEF F
<1> DEFINE W == Walk(here, by, L)
<1>4. W = [k \in Nat |-> IF k = 0 THEN here ELSE Stepped(W[k - 1], by, L)]
  BY <1>3, WalkChosen
<1> HIDE DEF W
<1> DEFINE Bad == {k \in Nat : W[k] # F[k]}
<1>5. Bad = {}
  <2>1. SUFFICES ASSUME Bad # {} PROVE FALSE
    OBVIOUS
  <2>2. PICK k \in Bad : \A c \in Bad : k <= c
    <3>1. Bad \in SUBSET Nat
      OBVIOUS
    <3> HIDE DEF Bad
    <3>2. QED
      BY <2>1, <3>1, LeastOne
  <2>3. k \in Nat /\ W[k] # F[k]
    BY <2>2
  <2>4. W[k] = (IF k = 0 THEN here ELSE Stepped(W[k - 1], by, L))
    BY <1>4, <2>3
  <2>5. F[k] = (IF k = 0 THEN here ELSE Stepped(F[k - 1], by, L))
    BY <1>3, <2>3
  <2>6. k # 0
    BY <2>3, <2>4, <2>5
  <2>7. k - 1 \in Nat /\ ~ (k <= k - 1)
    BY <2>3, <2>6
  <2>8. W[k - 1] = F[k - 1]
    <3>1. k - 1 \notin Bad
      <4> HIDE DEF Bad
      <4>1. QED
        BY <2>2, <2>7
    <3>2. QED
      BY <2>7, <3>1
  <2>9. QED
    BY <2>3, <2>4, <2>5, <2>8
<1>6. W[n] = F[n]
  BY <1>5
<1>7. QED
  BY <1>6 DEF W, F, G

\* A relative selector means where a walk around the ring ends.
RingSays(s, clause, m) ==
  LET delta == clause.selector.value
      here == First(Focused(s.monitors)) - 1
      there == Walk(here, IF delta < 0 THEN -1 ELSE 1, Len(s.monitors))
                 [IF delta < 0 THEN -delta ELSE delta]
  IN  Term(clause, Nothing, m, s) <=> m.name = s.monitors[there + 1].name

\* So it is, whatever the number of steps.
LEMMA RingFacts ==
  ASSUME NEW s, IsSnapshot(s), NEW clause, IsClause(clause),
         clause.kind = "m", clause.selector.by = "relative", Focused(s.monitors) # {}, NEW m
  PROVE  RingSays(s, clause, m)
<1> DEFINE delta == clause.selector.value
           L == Len(s.monitors)
           here == First(Focused(s.monitors)) - 1
           by == IF delta < 0 THEN -1 ELSE 1
           n == IF delta < 0 THEN -delta ELSE delta
<1>1. delta \in Int
  BY DEF IsClause
<1>2. L \in Nat /\ L > 0 /\ here \in 0 .. L - 1
  <2>1. IsLine(s.monitors) /\ Focused(s.monitors) \subseteq DOMAIN s.monitors
    BY DEF IsSnapshot, Focused, Places
  <2>2. Focused(s.monitors) \in SUBSET (1 .. L) /\ L \in Nat
    BY <2>1 DEF IsLine
  <2>3. First(Focused(s.monitors)) \in 1 .. L
    BY <2>2, FirstFacts
  <2>4. QED
    BY <2>2, <2>3
<1>3. Term(clause, Nothing, m, s) <=> m.name = s.monitors[Steps(here, delta, L) + 1].name
  BY DEF Term, MonitorMatches
<1> HIDE DEF delta, here, L
<1>4. n \in Nat /\ by \in {-1, 1} /\ (by < 0 <=> delta < 0)
  BY <1>1
<1>5. Walk(here, by, L)[n] = (here + (IF by < 0 THEN -(n % L) ELSE n % L)) % L
  <2> HIDE DEF n, by
  <2>1. QED
    BY <1>2, <1>4, WalkIsSteps
<1>6. Steps(here, delta, L) = (here + (IF by < 0 THEN -(n % L) ELSE n % L)) % L
  BY <1>1, <1>4 DEF Steps
<1>7. Walk(here, by, L)[n] = Steps(here, delta, L)
  BY <1>5, <1>6
<1>8. Term(clause, Nothing, m, s) <=> m.name = s.monitors[Walk(here, by, L)[n] + 1].name
  BY <1>3, <1>7
<1>9. QED
  BY <1>8 DEF delta, here, L, RingSays

-----------------------------------------------------------------------------
(* Sorting, and bags *)

\* Each to one, and each of them met.
OneToOne(f, S, T) ==
  /\ f \in [S -> T]
  /\ \A a, b \in S : f[a] = f[b] => a = b
  /\ \A t \in T : \E a \in S : f[a] = t

\* Sets that are met one to one are equally large.
LEMMA SameSize ==
  ASSUME NEW S, NEW T, IsFiniteSet(S), NEW f, OneToOne(f, S, T)
  PROVE  IsFiniteSet(T) /\ Cardinality(T) = Cardinality(S)
<1>1. f \in Bijection(S, T)
  BY DEF OneToOne, Bijection, Injection, Surjection, IsInjective
<1>2. ExistsBijection(S, T)
  BY <1>1 DEF ExistsBijection
<1>3. QED
  BY <1>2, FS_Bijection

\* And sets that are equally large are met one to one.
LEMMA SizesSame ==
  ASSUME NEW S, NEW T, IsFiniteSet(S), IsFiniteSet(T), Cardinality(S) = Cardinality(T)
  PROVE  \E f : OneToOne(f, S, T)
<1>1. PICK f \in Bijection(S, T) : TRUE
  BY FS_SameCardinalityBij DEF ExistsBijection
<1>2. OneToOne(f, S, T)
  BY <1>1 DEF OneToOne, Bijection, Injection, Surjection, IsInjective
<1>3. QED
  BY <1>2

\* Where a value is in a list.
WhereIn(s, n, m) == {i \in 1 .. n : s[i] = m}

\* There are only so many places.
LEMMA WhereIsFinite ==
  ASSUME NEW n \in Nat, NEW s, NEW m PROVE IsFiniteSet(WhereIn(s, n, m))
<1>1. IsFiniteSet(1 .. n)
  BY FS_Interval
<1>2. WhereIn(s, n, m) \subseteq 1 .. n
  BY DEF WhereIn
<1>3. QED
  BY <1>1, <1>2, FS_Subset

\* A list can be put in order.
LEMMA OrderExists ==
  ASSUME NEW n \in Nat
  PROVE  \A g \in [1 .. n -> Int] : \E p :
           /\ OneToOne(p, 1 .. n, 1 .. n)
           /\ \A i, j \in 1 .. n : i <= j => g[p[i]] <= g[p[j]]
<1> DEFINE Ordering(g, k, p) ==
             /\ OneToOne(p, 1 .. k, 1 .. k)
             /\ \A i, j \in 1 .. k : i <= j => g[p[i]] <= g[p[j]]
           Can(k) == \A g \in [1 .. k -> Int] : \E p : Ordering(g, k, p)
           Bad == {k \in Nat : ~Can(k)}
<1>1. Can(0)
  <2>1. SUFFICES ASSUME NEW g \in [1 .. 0 -> Int] PROVE \E p : Ordering(g, 0, p)
    OBVIOUS
  <2>2. Ordering(g, 0, [i \in 1 .. 0 |-> i])
    BY DEF OneToOne
  <2> HIDE DEF Ordering
  <2>3. QED
    BY <2>2
<1>2. ASSUME NEW k \in Nat, k >= 1, Can(k - 1) PROVE Can(k)
  <2>1. SUFFICES ASSUME NEW g \in [1 .. k -> Int] PROVE \E p : Ordering(g, k, p)
    OBVIOUS
  <2>2. PICK top \in 1 .. k : \A j \in 1 .. k : g[top] >= g[j]
    <3>1. 1 .. k \in SUBSET (1 .. k) /\ 1 \in 1 .. k
      BY <1>2
    <3>2. QED
      BY <3>1, GreatestAt
  <2> DEFINE h == [i \in 1 .. k - 1 |-> IF i = top THEN g[k] ELSE g[i]]
  <2>3. h \in [1 .. k - 1 -> Int]
    BY <1>2
  <2>4. PICK q : Ordering(h, k - 1, q)
    BY <1>2, <2>3
  <2>5. /\ q \in [1 .. k - 1 -> 1 .. k - 1]
        /\ \A a, b \in 1 .. k - 1 : q[a] = q[b] => a = b
        /\ \A t \in 1 .. k - 1 : \E a \in 1 .. k - 1 : q[a] = t
        /\ \A i, j \in 1 .. k - 1 : i <= j => h[q[i]] <= h[q[j]]
    BY <2>4 DEF OneToOne
  <2> DEFINE p == [i \in 1 .. k |-> IF i = k THEN top ELSE IF q[i] = top THEN k ELSE q[i]]
  <2>6. \A i \in 1 .. k : i = k \/ i \in 1 .. k - 1
    BY <1>2
  <2>7. k \in 1 .. k /\ k \notin 1 .. k - 1 /\ \A i \in 1 .. k - 1 : i \in 1 .. k
    BY <1>2
  <2>8. /\ p[k] = top
        /\ \A i \in 1 .. k - 1 : p[i] = IF q[i] = top THEN k ELSE q[i]
    BY <2>7
  <2>9. p \in [1 .. k -> 1 .. k]
    BY <2>5, <2>6, <2>7
  <2>10. \A i \in 1 .. k - 1 : h[q[i]] = g[p[i]]
    BY <2>5, <2>7, <2>8
  <2>11. \A i \in 1 .. k - 1 : p[i] # top
    <3>1. SUFFICES ASSUME NEW i \in 1 .. k - 1 PROVE p[i] # top
      OBVIOUS
    <3>2. CASE q[i] = top
      BY <2>5, <2>7, <2>8, <3>2
    <3>3. CASE q[i] # top
      BY <2>8, <3>3
    <3>4. QED
      BY <3>2, <3>3
  <2> HIDE DEF h, p, Ordering
  <2>12. ASSUME NEW a \in 1 .. k, NEW b \in 1 .. k, p[a] = p[b] PROVE a = b
    <3>1. CASE a = k
      BY <2>6, <2>8, <2>11, <2>12, <3>1
    <3>2. CASE b = k
      BY <2>6, <2>8, <2>11, <2>12, <3>2
    <3>3. CASE a # k /\ b # k
      <4>1. a \in 1 .. k - 1 /\ b \in 1 .. k - 1
        BY <2>6, <3>3
      <4>2. q[a] \in 1 .. k - 1 /\ q[b] \in 1 .. k - 1
        BY <2>5, <4>1
      <4>3. q[a] = q[b]
        BY <2>7, <2>8, <2>12, <4>1, <4>2
      <4>4. QED
        BY <2>5, <4>1, <4>3
    <3>4. QED
      BY <3>1, <3>2, <3>3
  <2>13. ASSUME NEW t \in 1 .. k PROVE \E a \in 1 .. k : p[a] = t
    <3>1. CASE t = top
      BY <2>7, <2>8, <3>1
    <3>2. CASE t # top /\ t = k
      <4>1. top \in 1 .. k - 1
        BY <2>6, <3>2
      <4>2. PICK a \in 1 .. k - 1 : q[a] = top
        BY <2>5, <4>1
      <4>3. QED
        BY <2>7, <2>8, <3>2, <4>2
    <3>3. CASE t # top /\ t # k
      <4>1. t \in 1 .. k - 1
        BY <2>6, <3>3
      <4>2. PICK a \in 1 .. k - 1 : q[a] = t
        BY <2>5, <4>1
      <4>3. QED
        BY <2>7, <2>8, <3>3, <4>2
    <3>4. QED
      BY <3>1, <3>2, <3>3
  <2>14. OneToOne(p, 1 .. k, 1 .. k)
    BY <2>9, <2>12, <2>13 DEF OneToOne
  <2>15. ASSUME NEW i \in 1 .. k, NEW j \in 1 .. k, i <= j PROVE g[p[i]] <= g[p[j]]
    <3>1. CASE j = k
      <4>1. p[i] \in 1 .. k
        BY <2>9
      <4>2. g[top] >= g[p[i]] /\ g[top] \in Int /\ g[p[i]] \in Int
        BY <2>2, <4>1
      <4>3. QED
        BY <2>8, <3>1, <4>2
    <3>2. CASE j # k
      <4>1. i \in 1 .. k - 1 /\ j \in 1 .. k - 1
        BY <2>15, <3>2
      <4>2. h[q[i]] <= h[q[j]]
        BY <2>5, <2>15, <4>1
      <4>3. QED
        BY <2>10, <4>1, <4>2
    <3>3. QED
      BY <3>1, <3>2
  <2>16. QED
    BY <2>14, <2>15 DEF Ordering
<1> HIDE DEF Can
<1>3. Bad = {}
  <2>1. SUFFICES ASSUME Bad # {} PROVE FALSE
    OBVIOUS
  <2>2. Bad \in SUBSET Nat
    OBVIOUS
  <2>3. PICK k \in Bad : \A c \in Bad : k <= c
    BY <2>1, <2>2, LeastOne
  <2>4. k \in Nat /\ ~Can(k)
    BY <2>3
  <2>5. k # 0
    BY <1>1, <2>4
  <2>6. k >= 1 /\ k - 1 \in Nat /\ ~ (k <= k - 1)
    BY <2>4, <2>5
  <2>7. Can(k - 1)
    BY <2>3, <2>6
  <2>8. QED
    BY <1>2, <2>4, <2>6, <2>7
<1>4. Can(n)
  BY <1>3
<1>5. QED
  BY <1>4 DEF Can

\* A group of windows.
LEMMA GroupFacts ==
  ASSUME NEW g \in Seq(Int)
  PROVE  /\ Len(g) \in Nat /\ DOMAIN g = 1 .. Len(g) /\ g \in [1 .. Len(g) -> Int]
         /\ Members(g) = {g[i] : i \in 1 .. Len(g)} /\ Members(g) \subseteq Int
<1>1. Len(g) \in Nat /\ DOMAIN g = 1 .. Len(g) /\ g \in [1 .. Len(g) -> Int]
  BY LenProperties
<1>2. QED
  BY <1>1 DEF Members

\* What sorting asks for.
InOrderAs(s, g, n) ==
  /\ \A i, j \in DOMAIN s : i <= j => s[i] <= s[j]
  /\ \A m \in Members(g) : Cardinality({i \in DOMAIN s : s[i] = m}) =
        Cardinality({i \in DOMAIN s : g[i] = m})

\* A group can be sorted.
LEMMA SortedExists ==
  ASSUME NEW g \in Seq(Int)
  PROVE  \E s \in [DOMAIN g -> Members(g)] : InOrderAs(s, g, Len(g))
<1> DEFINE n == Len(g)
<1>1. /\ n \in Nat /\ DOMAIN g = 1 .. n /\ g \in [1 .. n -> Int]
      /\ Members(g) = {g[i] : i \in 1 .. n} /\ Members(g) \subseteq Int
  BY GroupFacts
<1> HIDE DEF n
<1>2. PICK p : OneToOne(p, 1 .. n, 1 .. n) /\ \A i, j \in 1 .. n : i <= j => g[p[i]] <= g[p[j]]
  BY <1>1, OrderExists
<1>3. /\ p \in [1 .. n -> 1 .. n]
      /\ \A a, b \in 1 .. n : p[a] = p[b] => a = b
      /\ \A t \in 1 .. n : \E a \in 1 .. n : p[a] = t
  BY <1>2 DEF OneToOne
<1> DEFINE s == [i \in 1 .. n |-> g[p[i]]]
<1>4. s \in [DOMAIN g -> Members(g)] /\ DOMAIN s = 1 .. n
  BY <1>1, <1>3
<1>5. \A i \in 1 .. n : s[i] = g[p[i]]
  OBVIOUS
<1> HIDE DEF s
<1>6. ASSUME NEW m PROVE Cardinality(WhereIn(s, n, m)) = Cardinality(WhereIn(g, n, m))
  <2> DEFINE f == [i \in WhereIn(s, n, m) |-> p[i]]
  <2>1. OneToOne(f, WhereIn(s, n, m), WhereIn(g, n, m))
    <3>1. f \in [WhereIn(s, n, m) -> WhereIn(g, n, m)]
      BY <1>3, <1>5 DEF WhereIn
    <3>2. \A a, b \in WhereIn(s, n, m) : f[a] = f[b] => a = b
      BY <1>3 DEF WhereIn
    <3>3. ASSUME NEW t \in WhereIn(g, n, m) PROVE \E a \in WhereIn(s, n, m) : f[a] = t
      <4>1. t \in 1 .. n /\ g[t] = m
        BY DEF WhereIn
      <4>2. PICK a \in 1 .. n : p[a] = t
        BY <1>3, <4>1
      <4>3. a \in WhereIn(s, n, m)
        BY <1>5, <4>1, <4>2 DEF WhereIn
      <4>4. QED
        BY <4>2, <4>3
    <3> HIDE DEF f
    <3>4. QED
      BY <3>1, <3>2, <3>3 DEF OneToOne
  <2> HIDE DEF f
  <2>2. IsFiniteSet(WhereIn(s, n, m))
    BY <1>1, WhereIsFinite
  <2>3. QED
    BY <2>1, <2>2, SameSize
<1>7. InOrderAs(s, g, n)
  <2>1. \A i, j \in DOMAIN s : i <= j => s[i] <= s[j]
    BY <1>2, <1>4, <1>5
  <2>2. ASSUME NEW m PROVE Cardinality({i \in DOMAIN s : s[i] = m}) =
        Cardinality({i \in DOMAIN s : g[i] = m})
    BY <1>4, <1>6 DEF WhereIn
  <2>3. QED
    BY <2>1, <2>2 DEF InOrderAs
<1>8. QED
  BY <1>4, <1>7 DEF n

\* What sorting returns is in order, with the same members as often.
LEMMA SortedFacts ==
  ASSUME NEW g \in Seq(Int)
  PROVE  Sorted(g) \in [DOMAIN g -> Members(g)] /\ InOrderAs(Sorted(g), g, Len(g))
<1>1. Sorted(g) = CHOOSE s \in [DOMAIN g -> Members(g)] : InOrderAs(s, g, Len(g))
  BY DEF Sorted, InOrderAs
<1>2. QED
  BY <1>1, SortedExists

\* The same members, as often.
LEMMA BagIs ==
  ASSUME NEW g, NEW n, DOMAIN g = 1 .. n
  PROVE  Bag(g) = [m \in Members(g) |-> Cardinality(WhereIn(g, n, m))]
  BY DEF Bag, WhereIn

\* Sorting changes no bag.
LEMMA BagOfSorted ==
  ASSUME NEW g \in Seq(Int) PROVE Bag(Sorted(g)) = Bag(g)
<1> DEFINE n == Len(g)
           s == Sorted(g)
<1>1. /\ n \in Nat /\ DOMAIN g = 1 .. n /\ g \in [1 .. n -> Int]
      /\ Members(g) = {g[i] : i \in 1 .. n} /\ Members(g) \subseteq Int
  BY GroupFacts
<1>2. s \in [DOMAIN g -> Members(g)] /\ InOrderAs(s, g, n)
  BY SortedFacts
<1> HIDE DEF n, s
<1>3. DOMAIN s = 1 .. n
  BY <1>1, <1>2
<1>4. \A m \in Members(g) : Cardinality(WhereIn(s, n, m)) = Cardinality(WhereIn(g, n, m))
  BY <1>2, <1>3 DEF InOrderAs, WhereIn
<1>5. Members(s) = Members(g)
  <2>1. \A i \in 1 .. n : s[i] \in Members(g)
    BY <1>1, <1>2
  <2>2. ASSUME NEW m \in Members(g) PROVE \E i \in 1 .. n : s[i] = m
    <3>1. PICK i \in 1 .. n : g[i] = m
      BY <1>1
    <3>2. WhereIn(g, n, m) # {}
      BY <3>1 DEF WhereIn
    <3>3. IsFiniteSet(WhereIn(g, n, m)) /\ IsFiniteSet(WhereIn(s, n, m))
      BY <1>1, WhereIsFinite
    <3>4. WhereIn(s, n, m) # {}
      BY <1>4, <3>2, <3>3, FS_EmptySet
    <3>5. QED
      BY <3>4 DEF WhereIn
  <2>3. QED
    BY <1>3, <2>1, <2>2 DEF Members
<1>6. [m \in Members(s) |-> Cardinality(WhereIn(s, n, m))] =
      [m \in Members(g) |-> Cardinality(WhereIn(g, n, m))]
  BY <1>4, <1>5
<1>7. QED
  BY <1>1, <1>3, <1>6, BagIs DEF s

\* Equal bags are of lists that are equally long.
LEMMA BagTellsLength ==
  ASSUME NEW g \in Seq(Int), NEW h \in Seq(Int), Bag(g) = Bag(h)
  PROVE  Len(g) = Len(h)
<1> DEFINE n == Len(g)
           l == Len(h)
<1>1. /\ n \in Nat /\ DOMAIN g = 1 .. n /\ Members(g) = {g[i] : i \in 1 .. n}
      /\ l \in Nat /\ DOMAIN h = 1 .. l /\ Members(h) = {h[i] : i \in 1 .. l}
  BY GroupFacts
<1> HIDE DEF n, l
<1>2. Bag(g) = [m \in Members(g) |-> Cardinality(WhereIn(g, n, m))] /\
      Bag(h) = [m \in Members(h) |-> Cardinality(WhereIn(h, l, m))]
  BY <1>1, BagIs
<1>3. Members(g) = Members(h) /\
      \A m \in Members(g) : Cardinality(WhereIn(g, n, m)) = Cardinality(WhereIn(h, l, m))
  BY <1>2
<1>4. ASSUME NEW m \in Members(g) PROVE \E f : OneToOne(f, WhereIn(g, n, m), WhereIn(h, l, m))
  BY <1>1, <1>3, WhereIsFinite, SizesSame
<1> DEFINE part(m) == CHOOSE f : OneToOne(f, WhereIn(g, n, m), WhereIn(h, l, m))
           whole == [i \in 1 .. n |-> part(g[i])[i]]
<1>5. ASSUME NEW m \in Members(g) PROVE OneToOne(part(m), WhereIn(g, n, m), WhereIn(h, l, m))
  BY <1>4
<1> HIDE DEF part
<1>6. ASSUME NEW i \in 1 .. n PROVE whole[i] = part(g[i])[i] /\ whole[i] \in WhereIn(h, l, g[i])
  <2>1. g[i] \in Members(g) /\ i \in WhereIn(g, n, g[i])
    BY <1>1 DEF WhereIn
  <2>2. part(g[i]) \in [WhereIn(g, n, g[i]) -> WhereIn(h, l, g[i])]
    BY <1>5, <2>1 DEF OneToOne
  <2>3. QED
    BY <2>1, <2>2
<1>7. whole \in [1 .. n -> 1 .. l]
  <2>1. \A i \in 1 .. n : part(g[i])[i] \in 1 .. l
    BY <1>6 DEF WhereIn
  <2>2. QED
    BY <2>1
<1> HIDE DEF whole
<1>8. ASSUME NEW a \in 1 .. n, NEW b \in 1 .. n, whole[a] = whole[b] PROVE a = b
  <2>1. h[whole[a]] = g[a] /\ h[whole[b]] = g[b]
    BY <1>6 DEF WhereIn
  <2>2. g[a] = g[b] /\ g[a] \in Members(g) /\ a \in WhereIn(g, n, g[a]) /\ b \in WhereIn(g, n, g[a])
    BY <1>1, <1>8, <2>1 DEF WhereIn
  <2>3. part(g[a])[a] = part(g[a])[b]
    BY <1>6, <1>8, <2>2
  <2>4. QED
    BY <1>5, <2>2, <2>3 DEF OneToOne
<1>9. ASSUME NEW t \in 1 .. l PROVE \E a \in 1 .. n : whole[a] = t
  <2>1. h[t] \in Members(g) /\ t \in WhereIn(h, l, h[t])
    BY <1>1, <1>3 DEF WhereIn
  <2>2. PICK a \in WhereIn(g, n, h[t]) : part(h[t])[a] = t
    BY <1>5, <2>1 DEF OneToOne
  <2>3. a \in 1 .. n /\ g[a] = h[t]
    BY <2>2 DEF WhereIn
  <2>4. QED
    BY <1>6, <2>2, <2>3
<1>10. OneToOne(whole, 1 .. n, 1 .. l)
  BY <1>7, <1>8, <1>9 DEF OneToOne
<1>11. Cardinality(1 .. l) = Cardinality(1 .. n)
  BY <1>1, <1>10, SameSize, FS_Interval
<1>12. Cardinality(1 .. n) = n /\ Cardinality(1 .. l) = l
  BY <1>1, FS_Interval
<1>13. QED
  BY <1>11, <1>12 DEF n, l

\* So they are the same when sorted.
LEMMA BagTellsSorted ==
  ASSUME NEW g \in Seq(Int), NEW h \in Seq(Int), Bag(g) = Bag(h)
  PROVE  Sorted(g) = Sorted(h)
<1> DEFINE n == Len(g)
<1>1. /\ n \in Nat /\ DOMAIN g = 1 .. n /\ DOMAIN h = 1 .. n
  BY GroupFacts, BagTellsLength
<1> HIDE DEF n
<1>2. Bag(g) = [m \in Members(g) |-> Cardinality(WhereIn(g, n, m))] /\
      Bag(h) = [m \in Members(h) |-> Cardinality(WhereIn(h, n, m))]
  BY <1>1, BagIs
<1>3. Members(g) = Members(h) /\
      \A m \in Members(g) : Cardinality(WhereIn(g, n, m)) = Cardinality(WhereIn(h, n, m))
  BY <1>2
<1> DEFINE Fits(s, k) ==
      /\ \A i, j \in DOMAIN s : i <= j => s[i] <= s[j]
      /\ \A m \in Members(k) : Cardinality({i \in DOMAIN s : s[i] = m}) =
            Cardinality({i \in DOMAIN s : k[i] = m})
<1>4. ASSUME NEW s \in [1 .. n -> Members(g)] PROVE Fits(s, g) <=> Fits(s, h)
  <2>1. DOMAIN s = 1 .. n
    OBVIOUS
  <2>2. ASSUME NEW m \in Members(g)
        PROVE  Cardinality({i \in DOMAIN s : g[i] = m}) = Cardinality({i \in DOMAIN s : h[i] = m})
    BY <1>3, <2>1 DEF WhereIn
  <2>3. QED
    BY <1>3, <2>2
<1>5. Sorted(g) = CHOOSE s \in [1 .. n -> Members(g)] : Fits(s, g)
  BY <1>1 DEF Sorted
<1>6. Sorted(h) = CHOOSE s \in [1 .. n -> Members(g)] : Fits(s, h)
  BY <1>1, <1>3 DEF Sorted
<1> HIDE DEF Fits
<1>7. QED
  BY <1>4, <1>5, <1>6

-----------------------------------------------------------------------------
(* Groups of windows *)

\* A window whose group is sorted.
SortedWindow(c) == [c EXCEPT !.grouped = Sorted(@)]

\* All else of the window stays.
LEMMA SortedWindowFacts ==
  ASSUME NEW c, IsWindow(c)
  PROVE  LET k == SortedWindow(c)
         IN  /\ k.grouped = Sorted(c.grouped)
             /\ k.workspace = c.workspace /\ k.mapped = c.mapped /\ k.floating = c.floating
             /\ k.pinned = c.pinned /\ k.shown = c.shown
<1>1. c \in [workspace : {c.workspace}, mapped : {c.mapped}, floating : {c.floating},
              pinned : {c.pinned},
             shown : {c.shown}, grouped : {c.grouped}, fullscreen : {c.fullscreen}]
  BY DEF IsWindow
<1>2. SortedWindow(c) = [c EXCEPT !.grouped = Sorted(c.grouped)]
  BY DEF SortedWindow
<1>3. QED
  BY <1>1, <1>2

\* What a list makes is as finite as the list.
LEMMA ImageIsFinite ==
  ASSUME NEW S, IsFiniteSet(S), NEW f PROVE IsFiniteSet({f[i] : i \in S})
<1> DEFINE g == [i \in S |-> f[i]]
           T == {f[i] : i \in S}
<1>1. g \in Surjection(S, T)
  BY DEF Surjection
<1>2. QED
  BY <1>1, FS_Surjection

\* Sorted groups are counted as bags are.
LEMMA GroupsCounted ==
  ASSUME NEW C, IsFiniteSet(C), NEW g, NEW k,
         \A i \in C : g[i] \in Seq(Int) /\ k[i] = Sorted(g[i])
  PROVE  Cardinality({k[i] : i \in C} \ {<<>>}) = Cardinality({Bag(g[i]) : i \in C} \ {Bag(<<>>)})
<1> DEFINE A == {k[i] : i \in C} \ {<<>>}
           B == {Bag(g[i]) : i \in C} \ {Bag(<<>>)}
           f == [a \in A |-> Bag(a)]
<1>1. \A i \in C : Bag(k[i]) = Bag(g[i])
  BY BagOfSorted
<1>2. ASSUME NEW i \in C, Bag(g[i]) = Bag(<<>>) PROVE k[i] = <<>>
  <2>1. <<>> \in Seq(Int) /\ Len(<<>>) = 0
    OBVIOUS
  <2>2. Len(g[i]) = 0 /\ DOMAIN g[i] = 1 .. Len(g[i])
    BY <1>2, <2>1, BagTellsLength, GroupFacts
  <2>3. k[i] \in [1 .. 0 -> Members(g[i])]
    BY <2>2, SortedFacts
  <2>4. QED
    BY <2>3
<1>3. ASSUME NEW i \in C, NEW j \in C, Bag(k[i]) = Bag(k[j]) PROVE k[i] = k[j]
  BY <1>1, <1>3, BagTellsSorted
<1>4. IsFiniteSet(A)
  <2>1. IsFiniteSet({k[i] : i \in C})
    BY ImageIsFinite
  <2>2. QED
    BY <2>1, FS_RemoveElement
<1>5. f \in [A -> B]
  <2>1. ASSUME NEW a \in A PROVE Bag(a) \in B
    <3>1. PICK i \in C : a = k[i] /\ k[i] # <<>>
      OBVIOUS
    <3>2. Bag(a) = Bag(g[i]) /\ Bag(g[i]) # Bag(<<>>)
      BY <1>1, <1>2, <3>1
    <3>3. QED
      BY <3>2
  <2>2. QED
    BY <2>1
<1>6. ASSUME NEW a \in A, NEW b \in A, f[a] = f[b] PROVE a = b
  BY <1>3, <1>6
<1>7. ASSUME NEW t \in B PROVE \E a \in A : f[a] = t
  <2>1. PICK i \in C : t = Bag(g[i]) /\ Bag(g[i]) # Bag(<<>>)
    OBVIOUS
  <2>2. k[i] \in A
    BY <1>1, <2>1
  <2>3. f[k[i]] = t
    BY <1>1, <2>1, <2>2
  <2>4. QED
    BY <2>2, <2>3
<1> HIDE DEF A, B, f
<1>8. OneToOne(f, A, B)
  BY <1>5, <1>6, <1>7 DEF OneToOne
<1>9. Cardinality(B) = Cardinality(A)
  BY <1>4, <1>8, SameSize
<1>10. QED
  BY <1>9 DEF A, B

\* The number of windows, with their groups.
LEMMA WindowsCounted ==
  ASSUME NEW clients, IsLine(clients), \A i \in DOMAIN clients : IsWindow(clients[i]),
         NEW sorted, sorted = [i \in DOMAIN clients |-> SortedWindow(clients[i])],
         NEW flags, "g" \in Members(flags), NEW w
  PROVE  WindowCount(flags, w, sorted) =
           Cardinality({Bag(clients[i].grouped) : i \in Counted(flags, w, clients)} \ {Bag(<<>>)})
<1> DEFINE C == Counted(flags, w, clients)
           g == [i \in DOMAIN clients |-> clients[i].grouped]
           k == [i \in DOMAIN clients |-> sorted[i].grouped]
<1>1. DOMAIN sorted = DOMAIN clients /\ \A i \in DOMAIN clients : sorted[i] = SortedWindow(clients[i])
  OBVIOUS
<1>2. ASSUME NEW i \in DOMAIN clients
      PROVE  /\ sorted[i].grouped = Sorted(clients[i].grouped) /\ clients[i].grouped \in Seq(Int)
             /\ sorted[i].workspace = clients[i].workspace /\ sorted[i].mapped = clients[i].mapped
             /\ \A flag : HasFlag(sorted[i], flag) <=> HasFlag(clients[i], flag)
  <2>1. IsWindow(clients[i]) /\ clients[i].grouped \in Seq(Int)
    BY DEF IsWindow
  <2>2. /\ sorted[i].grouped = Sorted(clients[i].grouped)
        /\ sorted[i].workspace = clients[i].workspace /\ sorted[i].mapped = clients[i].mapped
        /\ sorted[i].floating = clients[i].floating
        /\ sorted[i].pinned = clients[i].pinned /\ sorted[i].shown = clients[i].shown
    BY <1>1, <2>1, SortedWindowFacts
  <2>3. QED
    BY <2>1, <2>2 DEF HasFlag
<1>3. Counted(flags, w, sorted) = C
  BY <1>1, <1>2 DEF Counted, Places
<1>4. C \subseteq DOMAIN clients
  BY DEF Counted, Places
<1>5. IsFiniteSet(C)
  <2>1. IsFiniteSet(1 .. Len(clients)) /\ DOMAIN clients = 1 .. Len(clients)
    BY FS_Interval DEF IsLine
  <2>2. QED
    BY <1>4, <2>1, FS_Subset
<1>6. flags # <<>>
  <2>1. Members(<<>>) = {}
    BY DEF Members
  <2>2. QED
    BY <2>1
<1>7. WindowCount(flags, w, sorted) = Cardinality({sorted[i].grouped : i \in C} \ {<<>>})
  <2> HIDE DEF C
  <2>1. QED
    BY <1>3, <1>6 DEF WindowCount
<1> HIDE DEF C
<1>8. \A i \in C : g[i] \in Seq(Int) /\ k[i] = Sorted(g[i])
  BY <1>2, <1>4
<1>9. {sorted[i].grouped : i \in C} = {k[i] : i \in C} /\
      {Bag(clients[i].grouped) : i \in C} = {Bag(g[i]) : i \in C}
  BY <1>4
<1> HIDE DEF g, k
<1>10. Cardinality({k[i] : i \in C} \ {<<>>}) = Cardinality({Bag(g[i]) : i \in C} \ {Bag(<<>>)})
  BY <1>5, <1>8, GroupsCounted
<1>11. QED
  BY <1>7, <1>9, <1>10 DEF C

-----------------------------------------------------------------------------
(* Work areas: the inductive invariant *)

\* The reply as it is parsed.
Parsed(r) == [r EXCEPT !.clients = [i \in DOMAIN r.clients |-> SortedWindow(r.clients[i])]]

\* What is parsed has its scales, lists and clauses, and sorted groups.
LEMMA ParsedFacts ==
  ASSUME NEW r, IsReply(r), \A i \in DOMAIN r.monitors : r.monitors[i].scale > 0
  PROVE  /\ IsSnapshot(Parsed(r))
         /\ Parsed(r).clients = [i \in DOMAIN r.clients |-> SortedWindow(r.clients[i])]
<1> DEFINE clients == [i \in DOMAIN r.clients |-> SortedWindow(r.clients[i])]
           s == Parsed(r)
<1>1. r \in [monitors : {r.monitors}, workspaces : {r.workspaces}, rules : {r.rules},
             clients : {r.clients}, gaps : {r.gaps}]
  BY DEF IsReply
<1>2. s = [r EXCEPT !.clients = clients]
  BY DEF Parsed
<1>3. IsLine(clients)
  <2>1. IsLine(r.clients)
    BY ListIsLine DEF IsReply
  <2>2. clients = [i \in 1 .. Len(r.clients) |-> clients[i]] /\ Len(r.clients) \in Nat
    BY <2>1 DEF IsLine
  <2> HIDE DEF clients
  <2>3. Len(clients) = Len(r.clients) /\ DOMAIN clients = 1 .. Len(r.clients)
    BY <2>2, LengthOf
  <2>4. QED
    BY <2>2, <2>3 DEF IsLine
<1> HIDE DEF clients, s
<1>4. /\ s.monitors = r.monitors /\ s.workspaces = r.workspaces /\ s.rules = r.rules
      /\ s.clients = clients /\ s.gaps = r.gaps
  BY <1>1, <1>2
<1>5. s = [monitors |-> s.monitors, workspaces |-> s.workspaces, rules |-> s.rules,
           clients |-> s.clients, gaps |-> s.gaps]
  BY <1>1, <1>2, <1>4
<1>6. IsLine(s.monitors) /\ IsLine(s.rules) /\ IsLine(s.workspaces)
  BY <1>4, ListIsLine DEF IsReply
<1>7. \A i \in DOMAIN s.rules : IsLine(s.rules[i].selector)
  BY <1>4, ListIsLine DEF IsReply, IsRule
<1>8. \A i \in DOMAIN s.rules : \A j \in DOMAIN s.rules[i].selector : IsClause(s.rules[i].selector[j])
  BY <1>4 DEF IsReply, IsRule
<1>9. \A i \in DOMAIN s.monitors : IsMonitor(s.monitors[i]) /\ s.monitors[i].scale > 0
  BY <1>4 DEF IsReply
<1>10. IsSnapshot(s)
  BY <1>3, <1>4, <1>5, <1>6, <1>7, <1>8, <1>9 DEF IsSnapshot
<1>11. QED
  BY <1>4, <1>10 DEF s, clients

\* Insets are of the reply, parsed, and only if it can be.
AreasIInv ==
  /\ reply \in Replies
  /\ phase \in {"received", "parsed", "refused", "done"}
  /\ phase \in {"parsed", "done"} =>
       /\ \A i \in DOMAIN reply.monitors : reply.monitors[i].scale > 0
       /\ snapshot = Parsed(reply)
  /\ phase = "done" => areas = Insets(snapshot)

\* Nothing is parsed yet.
LEMMA InitAreas == AreasInit => AreasIInv
  BY DEF AreasInit, AreasIInv

\* Parsing and calculating keep it.
LEMMA NextAreas == AreasIInv /\ [AreasNext]_areasVars => AreasIInv'
<1> SUFFICES ASSUME AreasIInv, [AreasNext]_areasVars PROVE AreasIInv'
  OBVIOUS
<1>1. CASE Parse
  <2>1. reply' = reply /\ reply \in Replies
    BY <1>1 DEF Parse, AreasIInv
  <2>2. CASE \A i \in DOMAIN reply.monitors : reply.monitors[i].scale > 0
    <3>1. phase' = "parsed" /\ snapshot' = Parsed(reply)
      BY <1>1, <2>2 DEF Parse, Parsed, SortedWindow
    <3>2. QED
      BY <2>1, <2>2, <3>1 DEF AreasIInv
  <2>3. CASE ~ \A i \in DOMAIN reply.monitors : reply.monitors[i].scale > 0
    <3>1. phase' = "refused"
      BY <1>1, <2>3 DEF Parse
    <3>2. QED
      BY <2>1, <3>1 DEF AreasIInv
  <2>4. QED
    BY <2>2, <2>3
<1>2. CASE Compute
  BY <1>2 DEF Compute, AreasIInv
<1>3. CASE UNCHANGED areasVars
  BY <1>3 DEF areasVars, AreasIInv
<1>4. QED
  BY <1>1, <1>2, <1>3 DEF AreasNext

\* What was calculated of a parsed reply is exact.
LEMMA AreasIInvExact == AreasIInv => AreasAreExact
<1> SUFFICES ASSUME AreasIInv, phase = "done" PROVE AreasAreExact
  BY DEF AreasAreExact, SidesAreAlike, GroupsHaveNoOrder, InvalidGapsAreIgnored, MonitorsAreARing
<1>1. /\ IsReply(reply) /\ \A i \in DOMAIN reply.monitors : reply.monitors[i].scale > 0
      /\ snapshot = Parsed(reply) /\ areas = Insets(snapshot)
  BY AreasConstants DEF AreasIInv
<1>2. /\ IsSnapshot(snapshot)
      /\ snapshot.clients = [i \in DOMAIN reply.clients |-> SortedWindow(reply.clients[i])]
  BY <1>1, ParsedFacts
<1>3. SidesAreAlike
  BY <1>1, <1>2, MirroredSame, TransposedSame DEF SidesAreAlike
<1>4. GroupsHaveNoOrder
  <2>1. IsLine(reply.clients) /\ \A i \in DOMAIN reply.clients : IsWindow(reply.clients[i])
    BY <1>1, ListIsLine DEF IsReply
  <2>2. ASSUME NEW flags, "g" \in Members(flags), NEW w
        PROVE  WindowCount(flags, w, snapshot.clients) =
                 Cardinality({Bag(reply.clients[i].grouped) :
                       i \in Counted(flags, w, reply.clients)} \ {Bag(<<>>)})
    BY <1>2, <2>1, <2>2, WindowsCounted
  <2>3. QED
    BY <2>2 DEF GroupsHaveNoOrder
<1>5. InvalidGapsAreIgnored
  BY <1>1, <1>2, KeptSame DEF InvalidGapsAreIgnored
<1>6. MonitorsAreARing
  <2>1. SUFFICES ASSUME NEW rule \in Members(snapshot.rules), NEW clause \in Members(rule.selector),
                        clause.kind = "m", clause.selector.by = "relative",
                        Focused(snapshot.monitors) # {},
                        NEW m \in Members(snapshot.monitors)
                 PROVE  RingSays(snapshot, clause, m)
    BY DEF MonitorsAreARing, RingSays
  <2>2. IsClause(clause)
    BY <1>2 DEF IsSnapshot, Members
  <2>3. QED
    BY <1>2, <2>1, <2>2, RingFacts
<1>7. QED
  BY <1>3, <1>4, <1>5, <1>6 DEF AreasAreExact

\* The same layout, however it is said, gives the same areas.
THEOREM AreasTheorem == AreasSpec => []AreasAreExact
<1>1. AreasInit => AreasIInv
  BY InitAreas
<1>2. AreasIInv /\ [AreasNext]_areasVars => AreasIInv'
  BY NextAreas
<1>3. AreasIInv => AreasAreExact
  BY AreasIInvExact
<1>4. QED
  BY <1>1, <1>2, <1>3, PTL DEF AreasSpec
=============================================================================
