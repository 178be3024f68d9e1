------------------------------- MODULE Resumes --------------------------------
(***************************************************************************)
(* Resume detection (resume.rs): ResumeDetector fed by a clock that is     *)
(* polled and by logind's signals, and the two tasks of monitor_resumes.   *)
(* Signals may be late, lost with their connection, or never come; samples *)
(* of the clock may be preempted, and err a little.                        *)
(*                                                                         *)
(* External: the machine, which suspends for some time (0 when it only     *)
(* tries), logind, and the consumers of the generation.                    *)
(***************************************************************************)
EXTENDS Integers, FiniteSets

CONSTANTS
  Threshold, \* 250 ms
  Jitters,   \* by how much a sample that counts may err
  Long,      \* a suspension worth reporting
  SignalCapacity,  \* of the channel of signals
  MaxSleeps, \* bound on suspensions
  MaxBreaks  \* bound on connections to logind

ASSUME ResumeConstants ==
  /\ {Threshold, Long, SignalCapacity, MaxSleeps, MaxBreaks} \subseteq Nat
  /\ Jitters \subseteq Nat /\ \A i, j \in Jitters : i - j <= Threshold /\ Long + i - j > Threshold

NoSample == -1

VARIABLES
  clock,     \* time in suspension: BOOTTIME - MONOTONIC
  offset,    \* ResumeDetector.offset
  reported,  \* reported_before_signal
  signals,   \* the channel
  wire,    \* signals on the connection to logind
  logind,    \* down, up, sleeping, ended: logind_events
  breaks,    \* connections it has made
  monitor,   \* monitor_resumes runs
  left,      \* the last consumer has
  generation,
  slept,     \* suspensions so far (history)
  owed,      \* a long one since a sample, and nothing published since (history)
  prompt     \* no suspension overtook a signal, no signal met a preempted sample (history)

detector == <<offset, reported>>
history == <<slept, owed, prompt>>
resumeVars == <<clock, detector, signals, wire, logind, breaks, monitor, left, generation, history>>

ResumeInit ==
  /\ clock = 0 /\ offset = NoSample /\ reported = FALSE /\ signals = 0 /\ wire = 0
  /\ logind = "down" /\ breaks = 0 /\ monitor = TRUE /\ left = FALSE /\ generation = 0
  /\ slept = 0 /\ owed = FALSE /\ prompt = TRUE

\* suspend_offset: a sample that was preempted counts for nothing.
Samples == {NoSample} \cup {clock + jitter : jitter \in Jitters}

\* Mutant: the threshold itself is enough.
ChangedAt(sample) == sample # NoSample /\ offset # NoSample /\ sample - offset >= Threshold

OffsetChanged(sample) == sample # NoSample /\ offset # NoSample /\ sample - offset > Threshold

\* Mutant: a sample that does not count forgets the one before.
ObserveForgets(sample) == offset' = sample

Observe(sample) == offset' = IF sample = NoSample THEN offset ELSE sample

Publish(announce) ==
  /\ generation' = IF announce THEN generation + 1 ELSE generation
  /\ owed' = (owed /\ ~announce)

\* Mutant: what the clock has found is not kept for the signal.
PollForgets(sample) ==
  /\ monitor /\ Observe(sample) /\ Publish(OffsetChanged(sample))
  /\ UNCHANGED <<clock, reported, signals, wire, logind, breaks, monitor, left, slept, prompt>>

Poll(sample) ==
  /\ monitor /\ Observe(sample) /\ Publish(OffsetChanged(sample))
  /\ reported' = (reported \/ OffsetChanged(sample))
  /\ UNCHANGED <<clock, signals, wire, logind, breaks, monitor, left, slept, prompt>>

Signal(sample) ==
  /\ monitor /\ signals > 0 /\ signals' = signals - 1
  /\ Observe(sample) /\ Publish(OffsetChanged(sample) \/ ~reported) /\ reported' = FALSE
  /\ prompt' = (prompt /\ sample # NoSample)
  /\ UNCHANGED <<clock, wire, logind, breaks, monitor, left, slept>>

\* sender.closed; the guard of the other task and its receiver go with this one.
Stop ==
  /\ monitor /\ left /\ monitor' = FALSE
  /\ UNCHANGED <<clock, detector, signals, wire, logind, breaks, left, generation, history>>

\* Mutant: the other task sees only when it sends that nobody receives.
LogindStopsSending ==
  /\ ~monitor /\ logind = "up" /\ wire > 0 /\ logind' = "ended"
  /\ UNCHANGED <<clock, detector, signals, wire, breaks, monitor, left, generation, history>>

LogindStops ==
  /\ ~monitor /\ logind # "ended" /\ logind' = "ended"
  /\ UNCHANGED <<clock, detector, signals, wire, breaks, monitor, left, generation, history>>

LogindConnects ==
  /\ logind = "down" /\ breaks < MaxBreaks /\ breaks' = breaks + 1
  /\ logind' = "up" /\ wire' = 0
  /\ UNCHANGED <<clock, detector, signals, monitor, left, generation, history>>

\* No connection, or its end; what is still on it is lost.
Break ==
  /\ logind \in {"down", "up"} /\ logind' = "sleeping" /\ wire' = 0
  /\ UNCHANGED <<clock, detector, signals, breaks, monitor, left, generation, history>>

Retry ==
  /\ logind = "sleeping" /\ logind' = "down"
  /\ UNCHANGED <<clock, detector, signals, wire, breaks, monitor, left, generation, history>>

Forward ==
  /\ monitor /\ logind = "up" /\ wire > 0 /\ signals < SignalCapacity
  /\ wire' = wire - 1 /\ signals' = signals + 1
  /\ UNCHANGED <<clock, detector, logind, breaks, monitor, left, generation, history>>

\* External: the machine is suspended and resumes; logind tells who is connected.
Suspend(time) ==
  /\ slept < MaxSleeps /\ slept' = slept + 1 /\ clock' = clock + time
  /\ wire' = IF logind = "up" THEN wire + 1 ELSE wire
  /\ owed' = (owed \/ (time = Long /\ offset # NoSample))
  /\ prompt' = (prompt /\ signals + wire = 0)
  /\ UNCHANGED <<detector, signals, logind, breaks, monitor, left, generation>>

\* External: the last consumer leaves.
ConsumersLeave ==
  /\ ~left /\ left' = TRUE
  /\ UNCHANGED <<clock, detector, signals, wire, logind, breaks, monitor, generation, history>>

ResumeNext ==
  \/ \E sample \in Samples : Poll(sample)
  \/ \E sample \in Samples : Signal(sample)
  \/ \E time \in {0, Long} : Suspend(time)
  \/ Stop \/ LogindStops \/ LogindConnects \/ Break \/ Retry \/ Forward \/ ConsumersLeave

Counts == \E sample \in Samples \ {NoSample} : Poll(sample)

\* Ticks come, and some of their samples count; both tasks are scheduled.
\* Signals need not come at all.
ResumeFairness ==
  WF_resumeVars(Counts) /\ WF_resumeVars(Stop) /\ WF_resumeVars(LogindStops)
ResumeSpec == ResumeInit /\ [][ResumeNext]_resumeVars /\ ResumeFairness
-----------------------------------------------------------------------------
\* Being awake is no resume (line 39): however ticks are late and samples
\* err, the clock alone announces no more than there were suspensions, and with
\* signals no more than one each on top.
AwakeIsNoResume == generation <= 2 * slept

\* A signal and the clock are one announcement (lines 44 to 55), as long as the
\* signal is there before the next suspension and its sample counts.
OncePerResume == prompt => generation <= slept

\* A suspension is announced whatever becomes of logind and of single samples
\* (lines 33 to 42).
ResumeIsAnnounced == owed ~> ~owed \/ left

\* With the last consumer both tasks end, in whatever phase (lines 72 and 92).
NobodyWaits == left ~> ~monitor /\ logind = "ended"

\* Together: no announcement without its suspension.
ResumesCounted == AwakeIsNoResume /\ OncePerResume

\* Together: announcements come, or the consumers have left and both tasks end.
ResumesSettle == ResumeIsAnnounced /\ NobodyWaits
=============================================================================
