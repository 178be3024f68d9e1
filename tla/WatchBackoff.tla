----------------------------- MODULE WatchBackoff -----------------------------
(***************************************************************************)
(* WatchBackoff (watch.rs): when a watcher that failed may be made again.  *)
(*                                                                         *)
(* External: the daemon, which makes a watcher when it is ready, and a     *)
(* watcher, which may fail as it is made, or at any time later.            *)
(***************************************************************************)
EXTENDS Naturals

CONSTANTS
  First,    \* delay: 1 s
  Most,     \* and at most: 30 s
  Healthy,  \* 60 s
  MaxBackoffTime  \* bound on the time

ASSUME BackoffConstants ==
  /\ {First, Most, Healthy, MaxBackoffTime} \subseteq Nat /\ 0 < First /\ First <= Most

Unset == MaxBackoffTime + 1

VARIABLES
  clock,
  retryAt, delay, healthySince,  \* WatchBackoff
  watching,  \* the daemon has a watcher
  since,     \* when that was made (history)
  failed,    \* when one has failed last (history)
  streak     \* failures since one was healthy (history)

backoff == <<retryAt, delay, healthySince>>
backoffVars == <<clock, backoff, watching, since, failed, streak>>

BackoffInit ==
  /\ clock = 0 /\ retryAt = 0 /\ delay = First /\ healthySince = Unset
  /\ watching = FALSE /\ since = 0 /\ failed = Unset /\ streak = 0

\* Mutant: a watcher that is made has recovered.
StartedRecovers ==
  /\ ~watching /\ clock >= retryAt /\ watching' = TRUE /\ since' = clock
  /\ healthySince' = clock /\ delay' = First
  /\ UNCHANGED <<clock, retryAt, failed, streak>>

\* ready and started
Started ==
  /\ ~watching /\ clock >= retryAt /\ watching' = TRUE /\ since' = clock
  /\ healthySince' = clock
  /\ UNCHANGED <<clock, retryAt, delay, failed, streak>>

Least(a, b) == IF a < b THEN a ELSE b

\* Mutant: the time of the last start is kept.
PenaliseKeeps ==
  LET healthy == healthySince # Unset /\ clock - healthySince >= Healthy
      base == IF healthy THEN First ELSE delay
  IN /\ retryAt' = clock + base /\ delay' = Least(2 * base, Most) /\ UNCHANGED healthySince

\* failed
Penalise ==
  LET healthy == healthySince # Unset /\ clock - healthySince >= Healthy
      base == IF healthy THEN First ELSE delay
  IN /\ retryAt' = clock + base /\ delay' = Least(2 * base, Most) /\ healthySince' = Unset

\* A watcher fails that was made.
BackoffFails ==
  /\ watching /\ watching' = FALSE /\ failed' = clock /\ Penalise
  /\ streak' = IF clock - since >= Healthy THEN 1 ELSE streak + 1
  /\ UNCHANGED <<clock, since>>

\* None could be made.
Refuse ==
  /\ ~watching /\ clock >= retryAt /\ failed' = clock /\ Penalise /\ streak' = streak + 1
  /\ UNCHANGED <<clock, watching, since>>

BackoffTick == clock < MaxBackoffTime /\ clock' = clock + 1 /\ UNCHANGED <<backoff, watching, since, failed, streak>>

BackoffNext == Started \/ BackoffFails \/ Refuse \/ BackoffTick

BackoffSpec == BackoffInit /\ [][BackoffNext]_backoffVars
-----------------------------------------------------------------------------
\* Reference: the penalty of the n-th failure in a row.
Penalty[n \in 1..(MaxBackoffTime + 1)] == IF n = 1 THEN First ELSE Least(2 * Penalty[n - 1], Most)

\* "Repeated construct/fail cycles must retain their penalty until a watcher
\* survives a full healthy interval" (line 36): nothing else forgives, and a
\* healthy watcher is one that was made and has run that long (lines 42 to 52).
PenaltyIsKept == streak > 0 => retryAt = failed + Penalty[streak]
=============================================================================
