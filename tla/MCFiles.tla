------------------------------- MODULE MCFiles -------------------------------
(***************************************************************************)
(* Small instances of the parts about files, plans and records.  They      *)
(* share no state, so in each behaviour one of them moves, and part says   *)
(* which; the others rest in one of their initial states.  Staged files    *)
(* and the build graph are looked at twice, with different bounds.         *)
(***************************************************************************)
EXTENDS StagedFile, SocketPath, WatchPlan, WatchBackoff, RecentResults, Frames,
        MCWorlds, PrunedLock, TLC

CONSTANTS Parts, MaxLength

MCRetentions == {0, 2, Forever}

\* All streams up to a length.
MCInputs == UNION {[1..n -> Symbols] : n \in 0..MaxLength}

\* Three nodes with two inputs each, one more that is named and is not there.
Node(node) == [node |-> node, path |-> <<>>]
Along(route) == [node |-> NoNode, path |-> route]
Entries(to) == {<<>>} \cup {<<x>> : x \in to} \cup {<<x, y>> : x, y \in to}
MCLocks ==
  [r : Entries({Node("a"), Node("b"), Node("gone"), Along(<<1>>), Along(<<2>>), Along(<<1, 1>>)}),
   a : Entries({Node("a"), Node("b"), Along(<<2>>), Along(<<1, 2>>)}),
   b : Entries({Node("a"), Along(<<1>>), Along(<<2, 1>>)})]

VARIABLE part

\* What a part that rests is about does not matter.
One(S) == CHOOSE x \in S : TRUE
LockRests == lockfile = [r |-> <<Node("a"), Node("b")>>, a |-> <<>>, b |-> <<>>]
GraphRests == live = One(MCFewWorlds)
ResultsRest == limit = One(Limits) /\ retention = Forever
FramesRest == input = <<>>
PlanRests ==
  /\ parent = [p \in Paths |-> 0] /\ kind = [p \in Paths |-> "directory"]
  /\ requested = <<[path |-> 1, recursive |-> TRUE]>> /\ budget = One(Budgets)

Init ==
  /\ part \in Parts
  /\ part # "lock" => LockRests
  /\ LockInit
  /\ part = "edits" => live \in MCFewWorlds
  /\ part \notin {"walks", "edits"} => GraphRests
  /\ GraphInit
  /\ part # "results" => ResultsRest
  /\ ResultsInit
  /\ part # "frames" => FramesRest
  /\ FramesInit
  /\ part # "plan" => PlanRests
  /\ PlanInit
  /\ FileInit /\ PathInit /\ BackoffInit

\* Crashes, while nobody reads.
CrashesBound == reader' = reader /\ process'.strange = 0

\* One writer, and a reader, while nothing crashes.
ReadsBound ==
  /\ \A v, w \in Writers : v = w \/ Idle \in {writer'[v], writer'[w]}
  /\ process'.kills = 0 /\ process'.losses = 0

Next ==
  /\ UNCHANGED part
  /\ \/ part = "files" /\ FileNext /\ CrashesBound
     \/ part = "reads" /\ FileNext /\ ReadsBound
     \/ part \notin {"files", "reads"} /\ UNCHANGED fileVars
  /\ \/ part = "path" /\ PathNext
     \/ part # "path" /\ UNCHANGED pathVars
  /\ \/ part = "plan" /\ PlanNext
     \/ part # "plan" /\ UNCHANGED planVars
  /\ \/ part = "backoff" /\ BackoffNext
     \/ part # "backoff" /\ UNCHANGED backoffVars
  /\ \/ part = "results" /\ ResultsNext
     \/ part # "results" /\ UNCHANGED resultsVars
  /\ \/ part = "frames" /\ FramesNext
     \/ part # "frames" /\ UNCHANGED framesVars
  /\ \/ part = "walks" /\ edits' = 0 /\ GraphNext
     \/ part = "edits" /\ live' \in MCFewWorlds /\ GraphNext
     \/ part \notin {"walks", "edits"} /\ UNCHANGED graphVars
  /\ \/ part = "lock" /\ LockNext
     \/ part # "lock" /\ UNCHANGED lockVars

Safety ==
  Init /\ [][Next]_<<part, fileVars, pathVars, planVars, backoffVars, resultsVars, framesVars,
                     graphVars, lockVars>>

Symmetry == Permutations(Writers)
=============================================================================
