------------------------------ MODULE WatchPlan -------------------------------
(***************************************************************************)
(* bounded_watch_paths (watch.rs): the directories to watch for some       *)
(* roots, each with or without what is below it, within a budget.  Paths   *)
(* are numbered, parents first; roots may overlap and repeat.              *)
(*                                                                         *)
(* External: the directories.  A link is followed as a root only; a closed *)
(* directory cannot be read.                                               *)
(***************************************************************************)
EXTENDS Naturals, Sequences, FiniteSets, FiniteSetsExt

CONSTANTS
  N,        \* number of paths
  MaxRoots, \* of a call
  Budgets   \* that callers give

ASSUME PlanConstants == N \in Nat /\ MaxRoots \in Nat /\ Budgets \subseteq Nat

Paths == 1..N
Visits == [path : Paths, recursive : BOOLEAN]
Roots == UNION {[1..n -> Visits] : n \in 1..MaxRoots}
Parents == {parent \in [Paths -> 0..N] : \A p \in Paths : parent[p] < p}
Kinds == [Paths -> {"directory", "closed", "link"}]

VARIABLES
  parent, kind,   \* the directories; 0 has no path
  requested, budget,  \* the call
  roots,  \* that have not been taken
  stack,  \* queued
  paths,  \* the plan: path -> whether it was expanded
  result  \* running, planned, overBudget, unreadable

tree == <<parent, kind>>
call == <<requested, budget>>
planVars == <<tree, call, roots, stack, paths, result>>

PlanInit ==
  /\ parent \in Parents /\ kind \in Kinds
  /\ requested \in Roots /\ budget \in Budgets
  /\ roots = requested /\ stack = <<>> /\ paths = <<>> /\ result = "running"

IsDirectory(p) == kind[p] # "link"
Directories(p) == {q \in Paths : parent[q] = p /\ IsDirectory(q)}

\* Every order in which read_dir may list a directory.
Listings(p) == {order \in [1..Cardinality(Directories(p)) -> Directories(p)] :
                  \A i, j \in DOMAIN order : order[i] = order[j] => i = j}

Expanded(p) == p \in DOMAIN paths /\ paths[p]
Entered(p, recursive) ==
  [q \in DOMAIN paths \cup {p} |-> IF q = p THEN Expanded(p) \/ recursive ELSE paths[q]]

\* Mutant: whatever is in the plan was expanded.
DescendsNew(p, recursive) == recursive /\ p \notin DOMAIN paths

Descends(p, recursive) == recursive /\ ~Expanded(p)

\* Mutant: what is queued is not counted.
TooManyPlanned(planned, queued, more) == planned + (IF more > 0 THEN 1 ELSE 0) > budget

\* Mutant: the budget is not to be reached.
TooManySharp(planned, queued, more) == planned + (IF more > 0 THEN queued + more ELSE 0) >= budget

\* check_watch_budget, for each of the entries to be queued.
TooMany(planned, queued, more) == planned + (IF more > 0 THEN queued + more ELSE 0) > budget

Visit(p, recursive, rest) ==
  LET planned == Entered(p, recursive)
      size == Cardinality(DOMAIN planned)
      queued == Cardinality(Directories(p))
  IN /\ paths' = planned
     /\ IF TooMany(size, Len(rest), 0) THEN result' = "overBudget" /\ stack' = rest
        ELSE IF ~Descends(p, recursive) THEN stack' = rest /\ UNCHANGED result
        ELSE IF kind[p] = "closed" THEN result' = "unreadable" /\ stack' = rest
        ELSE IF TooMany(size, Len(rest), queued) THEN result' = "overBudget" /\ stack' = rest
        ELSE /\ \E order \in Listings(p) :
                  stack' = rest \o [i \in DOMAIN order |-> [path |-> order[i], recursive |-> TRUE]]
             /\ UNCHANGED result
  /\ UNCHANGED <<tree, call>>

\* stack.pop
Pop ==
  /\ result = "running" /\ stack # <<>>
  /\ LET top == stack[Len(stack)]
     IN Visit(top.path, top.recursive, SubSeq(stack, 1, Len(stack) - 1))
  /\ UNCHANGED roots

\* roots.next
TakeRoot ==
  /\ result = "running" /\ stack = <<>> /\ roots # <<>>
  /\ Visit(Head(roots).path, Head(roots).recursive, <<>>) /\ roots' = Tail(roots)

PlanEnds ==
  /\ result = "running" /\ stack = <<>> /\ roots = <<>> /\ result' = "planned"
  /\ UNCHANGED <<tree, call, roots, stack, paths>>

PlanNext == Pop \/ TakeRoot \/ PlanEnds

PlanSpec == PlanInit /\ [][PlanNext]_planVars
-----------------------------------------------------------------------------
Named == {requested[i].path : i \in DOMAIN requested}
Recursive == {requested[i].path : i \in {j \in DOMAIN requested : requested[j].recursive}}

\* Reference: what lies at or below a recursive root, links aside.
Inside[p \in Paths] ==
  p \in Recursive \/ (parent[p] # 0 /\ IsDirectory(p) /\ Inside[parent[p]])
Wanted == Named \cup {p \in Paths : Inside[p]}

\* A root that another one reaches.
Overlapping == \E p \in Named : parent[p] # 0 /\ IsDirectory(p) /\ Inside[parent[p]]

\* "An incomplete plan is an error, not healthy partial coverage": a plan has
\* the roots and all that is below the recursive ones, whatever their order and
\* however often they are named (lines 64 to 81).
PlanIsComplete ==
  result = "planned" =>
    /\ DOMAIN paths = Wanted /\ Cardinality(Wanted) <= budget
    /\ \A p \in Wanted : Inside[p] => kind[p] # "closed"

\* There is a plan if it is within the budget and can be made, unless roots
\* overlap: what is queued then counts twice (line 76).
FailsForAReason ==
  /\ result = "overBudget" => Cardinality(Wanted) > budget \/ Overlapping
  /\ result = "unreadable" => \E p \in Paths : Inside[p] /\ kind[p] = "closed"

\* Queue and plan together stay within the budget (line 76), so a directory of
\* any size costs no more.
QueueWithinBudget == result = "running" => Cardinality(DOMAIN paths) + Len(stack) <= budget

\* Together: a plan is what was asked for, or there is a reason that there is none.
PlanIsExact == PlanIsComplete /\ FailsForAReason /\ QueueWithinBudget
=============================================================================
