------------------------------ MODULE Forwarding ------------------------------
(***************************************************************************)
(* forward_watch and forward_broadcast (forward.rs): a source that goes on *)
(* while an earlier value is being emitted.  Values are numbered as sent.  *)
(*                                                                         *)
(* External: the channels (a watch keeps its last value, a broadcast the   *)
(* last CastCapacity), the source, and the emission, which takes its time. *)
(***************************************************************************)
EXTENDS Naturals, Sequences, FiniteSets

CONSTANTS
  CastCapacity, \* of the broadcast channel
  MaxSent   \* bound on the values of a source

ASSUME ForwardConstants == CastCapacity \in Nat \ {0} /\ MaxSent \in Nat

VARIABLES
  version, \* the last value of the watch; 0 is there at the start
  seen,    \* by its receiver
  watcher, \* initial, emitting, waiting, changed, ended: forward_watch
  shown,   \* the values emitted (history)
  sent,    \* values broadcast
  next,    \* the first its receiver has not had
  caster,  \* receiving, emitting, ended: forward_broadcast
  relayed,  \* events emitted: [item |-> n] or [lagged |-> n] (history)
  sourcesGone  \* the sources are gone

watch == <<version, seen, watcher, shown>>
broadcast == <<sent, next, caster, relayed>>
forwardVars == <<watch, broadcast, sourcesGone>>

ForwardInit ==
  /\ version = 0 /\ seen = 0 /\ watcher = "initial" /\ shown = <<>>
  /\ sent = 0 /\ next = 1 /\ caster = "receiving" /\ relayed = <<>> /\ sourcesGone = FALSE

\* External: what sources do.
ChangeValue ==
  /\ ~sourcesGone /\ version < MaxSent /\ version' = version + 1
  /\ UNCHANGED <<seen, watcher, shown, broadcast, sourcesGone>>
Broadcast ==
  /\ ~sourcesGone /\ sent < MaxSent /\ sent' = sent + 1
  /\ UNCHANGED <<watch, next, caster, relayed, sourcesGone>>
Close == ~sourcesGone /\ sourcesGone' = TRUE /\ UNCHANGED <<watch, broadcast>>

\* changed: an unseen value comes before the end.
SeesChange ==
  /\ watcher = "waiting" /\ seen # version
  /\ seen' = version /\ watcher' = "changed"
  /\ UNCHANGED <<version, shown, broadcast, sourcesGone>>

\* Mutant: the end comes before an unseen value.
WatchEndsAtOnce ==
  /\ watcher = "waiting" /\ sourcesGone /\ watcher' = "ended"
  /\ UNCHANGED <<version, seen, shown, broadcast, sourcesGone>>

WatchEnds ==
  /\ watcher = "waiting" /\ sourcesGone /\ seen = version /\ watcher' = "ended"
  /\ UNCHANGED <<version, seen, shown, broadcast, sourcesGone>>

\* Mutant: the value is borrowed and not marked.
BorrowOnly ==
  /\ watcher \in {"initial", "changed"} /\ watcher' = "emitting"
  /\ shown' = Append(shown, version)
  /\ UNCHANGED <<version, seen, broadcast, sourcesGone>>

\* borrow_and_update: the value may be newer than the one that was announced.
Borrow ==
  /\ watcher \in {"initial", "changed"} /\ watcher' = "emitting"
  /\ seen' = version /\ shown' = Append(shown, version)
  /\ UNCHANGED <<version, broadcast, sourcesGone>>

WatchEmitted ==
  /\ watcher = "emitting" /\ watcher' = "waiting"
  /\ UNCHANGED <<version, seen, shown, broadcast, sourcesGone>>

Oldest == IF sent > CastCapacity THEN sent - CastCapacity + 1 ELSE 1

\* Mutant: lag is passed over.
ReceiveSilently ==
  /\ caster = "receiving" /\ next <= sent /\ caster' = "emitting"
  /\ LET item == IF next < Oldest THEN Oldest ELSE next
     IN next' = item + 1 /\ relayed' = Append(relayed, [item |-> item])
  /\ UNCHANGED <<watch, sent, sourcesGone>>

\* recv: the next item, or how many are gone.
Receive ==
  /\ caster = "receiving" /\ next <= sent /\ caster' = "emitting"
  /\ IF next < Oldest
     THEN next' = Oldest /\ relayed' = Append(relayed, [lagged |-> Oldest - next])
     ELSE next' = next + 1 /\ relayed' = Append(relayed, [item |-> next])
  /\ UNCHANGED <<watch, sent, sourcesGone>>

\* Mutant: the end of the source is the end, whatever is left.
CastEndsAtOnce ==
  /\ caster = "receiving" /\ sourcesGone /\ caster' = "ended"
  /\ UNCHANGED <<watch, sent, next, relayed, sourcesGone>>

CastEnds ==
  /\ caster = "receiving" /\ sourcesGone /\ next > sent /\ caster' = "ended"
  /\ UNCHANGED <<watch, sent, next, relayed, sourcesGone>>

CastEmitted ==
  /\ caster = "emitting" /\ caster' = "receiving"
  /\ UNCHANGED <<watch, sent, next, relayed, sourcesGone>>

ForwardWatch == SeesChange \/ WatchEnds \/ Borrow \/ WatchEmitted
Caster == Receive \/ CastEnds \/ CastEmitted

ForwardNext == ChangeValue \/ Broadcast \/ Close \/ ForwardWatch \/ Caster

\* Both futures are polled, and an emission comes to an end.
ForwardFairness == WF_forwardVars(ForwardWatch) /\ WF_forwardVars(Caster)
ForwardSpec == ForwardInit /\ [][ForwardNext]_forwardVars /\ ForwardFairness
-----------------------------------------------------------------------------
\* "Marks exactly the cloned value observed" (line 13): no value is emitted twice
\* and none after a newer one, though values come between announcement and borrow.
NothingTwice == \A i, j \in DOMAIN shown : i < j => shown[i] < shown[j]

\* The receiver's last word is the source's: the final value is emitted although
\* the source is gone (line 20).
LastIsShown == sourcesGone ~> watcher = "ended" /\ shown[Len(shown)] = version

\* How many of the sent the events up to each one account for.
Amount(event) == IF "item" \in DOMAIN event THEN 1 ELSE event.lagged
Accounted[n \in 0 .. Len(relayed)] ==
  IF n = 0 THEN 0 ELSE Accounted[n - 1] + Amount(relayed[n])

\* "Lag is delivered explicitly, never silently skipped" (line 32): an item's
\* number follows from the events before it.
LagIsTold ==
  \A i \in DOMAIN relayed : "item" \in DOMAIN relayed[i] => relayed[i].item = Accounted[i]

\* What was sent before the source closed is accounted for when forwarding ends
\* (lines 37 to 44).
EndIsComplete == sourcesGone ~> caster = "ended" /\ Accounted[Len(relayed)] = sent

\* Together: nothing twice, nothing skipped in silence.
ForwardingIsFaithful == NothingTwice /\ LagIsTold

\* Together: both end with their source, and with all of it.
ForwardingEnds == LastIsShown /\ EndIsComplete
=============================================================================
