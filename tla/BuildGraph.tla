------------------------------ MODULE BuildGraph ------------------------------
(***************************************************************************)
(* BuildGraph (shelllist-local-build, preflight.rs and graph.rs): the      *)
(* local repositories a build consists of.  preflight walks the live       *)
(* definitions and collects problems; the build walks captured copies and  *)
(* gives every edge to a local repository its one copy.  Both apply the    *)
(* overlays of the edges they came by.  Repositories may be edited between *)
(* any two steps.                                                          *)
(*                                                                         *)
(* An input is where it points and whether it follows another; what it     *)
(* lays over the inputs of that repository is kept with it, by path: the   *)
(* inputs of a definition and all below them are one function of paths.    *)
(* Names are numbers: inputs are walked in their order.  nix and git are   *)
(* external.                                                               *)
(***************************************************************************)
EXTENDS Naturals, Sequences, FiniteSetsExt

CONSTANTS
  Repos, Root,
  Worlds,   \* what the repositories may define, and which have untracked files
  MaxEdits  \* bound on edits

NoUrl == "none"

\* Inputs by their paths.
IsInputs(inputs) ==
  /\ DOMAIN inputs \subseteq Seq(Nat) \ {<<>>}
  /\ \A path \in DOMAIN inputs : inputs[path].follows \in BOOLEAN
NoInputs == [path \in {} |-> NoUrl]

ASSUME GraphConstants ==
  /\ Root \in Repos /\ NoUrl \notin Repos /\ MaxEdits \in Nat
  /\ \A world \in Worlds, source \in Repos : IsInputs(world.inputs[source])

VARIABLES
  live,        \* what the repositories define now, and which are untracked
  edits,       \* versions of it so far
  phase,       \* preflight, build, and how it ended
  walkCall,    \* the arguments of a call of walk that has not begun
  walks,       \* the walks in progress
  definitions, \* Scan.definitions
  walked,      \* Scan.walked
  problems,    \* Scan.problems
  sources,     \* Graph.sources: per captured repository its version and inputs
  overrides    \* Graph.overrides, and what the store has of each source

graphVars == <<live, edits, phase, walkCall, walks, definitions, walked, problems, sources, overrides>>
Scan == <<definitions, walked, problems>>
Graph == <<sources, overrides>>

NoCall == [source |-> NoUrl, overlay |-> NoInputs, prefix |-> <<>>]
Call(source, overlay, prefix) == [source |-> source, overlay |-> overlay, prefix |-> prefix]

GraphInit ==
  /\ live \in Worlds /\ edits = 0 /\ phase = "preflight"
  /\ walkCall = Call(Root, NoInputs, <<>>) /\ walks = <<>>
  /\ definitions = <<>> /\ walked = {} /\ problems = {}
  /\ sources = <<>> /\ overrides = {}

\* merge: an overlay replaces what it names, on every level.
Merge(target, overlay) ==
  [path \in DOMAIN target \cup DOMAIN overlay |->
    IF path \notin DOMAIN overlay THEN target[path]
    ELSE IF path \notin DOMAIN target THEN overlay[path]
    ELSE [url |-> IF overlay[path].url = NoUrl THEN target[path].url ELSE overlay[path].url,
          follows |-> target[path].follows \/ overlay[path].follows]]

\* nested_inputs: what an input lays over the repository it points to.
Nested(inputs, n) ==
  LET below == {Tail(path) : path \in {path \in DOMAIN inputs : Head(path) = n}} \ {<<>>}
  IN  [path \in below |-> inputs[<<n>> \o path]]

Put(f, key, value) == [x \in DOMAIN f \cup {key} |-> IF x = key THEN value ELSE f[x]]
Top == walks[Len(walks)]
Below == SubSeq(walks, 1, Len(walks) - 1)
Ancestors == {walks[i].source : i \in DOMAIN walks}

\* Inputs that follow another are not traversed.
DirectInputs(inputs) ==
  {Head(path) : path \in {path \in DOMAIN inputs : /\ Len(path) = 1 /\ ~inputs[path].follows
                                                  /\ inputs[path].url \in Repos}}

Push(inputs) ==
  /\ walkCall' = NoCall
  /\ walks' = Append(walks, [source |-> walkCall.source, prefix |-> walkCall.prefix,
                             inputs |-> inputs, todo |-> DirectInputs(inputs)])

Leave ==
  /\ walkCall = NoCall /\ walks # <<>> /\ Top.todo = {} /\ walks' = Below
  /\ UNCHANGED <<live, edits, phase, walkCall, Scan, Graph>>

\* Mutant: a repository is walked once.
WalkedKeyOfSource == <<walkCall.source, NoInputs>>

WalkedKey == <<walkCall.source, walkCall.overlay>>

\* Each repository is inspected once, with whatever it defines then.
Inspect ==
  IF walkCall.source \in DOMAIN definitions THEN UNCHANGED <<definitions, problems>>
  ELSE /\ definitions' = Put(definitions, walkCall.source, live.inputs[walkCall.source])
       /\ problems' = problems \cup ({walkCall.source} \cap live.untracked)

ScanWalk ==
  /\ phase = "preflight" /\ walkCall # NoCall
  /\ IF walkCall.source \in Ancestors
       THEN /\ problems' = problems \cup {"cycle"} /\ walkCall' = NoCall
            /\ UNCHANGED <<walks, definitions, walked>>
     ELSE IF WalkedKey \in walked
       THEN walkCall' = NoCall /\ UNCHANGED <<walks, Scan>>
     ELSE /\ walked' = walked \cup {WalkedKey} /\ Inspect
          /\ Push(Merge(definitions'[walkCall.source], walkCall.overlay))
  /\ UNCHANGED <<live, edits, phase, Graph>>

Descend(n) ==
  /\ walks' = Append(Below, [Top EXCEPT !.todo = @ \ {n}])
  /\ walkCall' = Call(Top.inputs[<<n>>].url, Nested(Top.inputs, n), Append(Top.prefix, n))

ScanEdge ==
  /\ phase = "preflight" /\ walkCall = NoCall /\ walks # <<>> /\ Top.todo # {}
  /\ Descend(Min(Top.todo))
  /\ UNCHANGED <<live, edits, phase, Scan, Graph>>

\* Problems end it; otherwise the build starts whenever it is asked for.
ScanEnds ==
  /\ phase = "preflight" /\ walkCall = NoCall /\ walks = <<>>
  /\ IF problems = {} THEN phase' = "build" /\ walkCall' = Call(Root, NoInputs, <<>>)
     ELSE phase' = "refused" /\ UNCHANGED walkCall
  /\ UNCHANGED <<live, edits, walks, Scan, Graph>>

\* Mutant: every edge gets a copy of its own.
CaptureAgain(source) ==
  /\ source \notin live.untracked
  /\ sources' = Put(sources, source, [version |-> edits, inputs |-> live.inputs[source]])

\* A copy is taken once; untracked files are looked for again.
Capture(source) ==
  IF source \in DOMAIN sources THEN UNCHANGED sources
  ELSE /\ source \notin live.untracked
       /\ sources' = Put(sources, source, [version |-> edits, inputs |-> live.inputs[source]])

BuildWalk ==
  /\ phase = "build" /\ walkCall # NoCall /\ walkCall.source \notin Ancestors
  /\ Capture(walkCall.source)
  /\ Push(Merge(sources'[walkCall.source].inputs, walkCall.overlay))
  /\ UNCHANGED <<live, edits, phase, Scan, overrides>>

\* Mutant: the edge is named from its own repository.
EdgeOf(n) == <<n>>

Edge(n) == Append(Top.prefix, n)

\* The child is captured, added to the store and named in an override.
BuildEdge ==
  /\ phase = "build" /\ walkCall = NoCall /\ walks # <<>> /\ Top.todo # {}
  /\ LET n == Min(Top.todo)
         child == Top.inputs[<<n>>].url
     IN  /\ Capture(child) /\ Descend(n)
         /\ overrides' = overrides \cup
              {[edge |-> Edge(n), source |-> child, version |-> sources'[child].version]}
  /\ UNCHANGED <<live, edits, phase, Scan>>

Stuck ==
  \/ walkCall # NoCall /\ walkCall.source \in Ancestors
  \/ /\ walkCall # NoCall /\ walkCall.source \in live.untracked \ DOMAIN sources
  \/ /\ walkCall = NoCall /\ walks # <<>> /\ Top.todo # {}
     /\ Top.inputs[<<Min(Top.todo)>>].url \in live.untracked \ DOMAIN sources

\* A cycle, or untracked files of a repository not captured yet.
BuildFails ==
  /\ phase = "build" /\ Stuck
  /\ phase' = IF walkCall # NoCall /\ walkCall.source \in Ancestors THEN "cycle" ELSE "untracked"
  /\ UNCHANGED <<live, edits, walkCall, walks, Scan, Graph>>

LockBuild ==
  /\ phase = "build" /\ walkCall = NoCall /\ walks = <<>> /\ phase' = "locked"
  /\ UNCHANGED <<live, edits, walkCall, walks, Scan, Graph>>

\* External: somebody edits a repository.
Edit ==
  /\ edits < MaxEdits /\ edits' = edits + 1 /\ live' \in Worlds
  /\ phase \in {"preflight", "build"}
  /\ UNCHANGED <<phase, walkCall, walks, Scan, Graph>>

GraphNext ==
  \/ Leave \/ ScanWalk \/ ScanEdge \/ ScanEnds
  \/ BuildWalk \/ BuildEdge \/ BuildFails \/ LockBuild \/ Edit

GraphSpec == GraphInit /\ [][GraphNext]_graphVars
-----------------------------------------------------------------------------
\* Places of repositories are paths of inputs; the overrides say what is at each, and
\* so what inputs were captured for it.
EdgesOf == {o.edge : o \in overrides}
Places == {<<>>} \cup EdgesOf
SourceIn(set, place) == IF place = <<>> THEN Root ELSE (CHOOSE o \in set : o.edge = place).source
InputsAt == [place \in Places |-> sources[SourceIn(overrides, place)].inputs]

\* Reference: what is said of an input below a place by the repository i steps down it,
\* if anything.  It leads to a repository if the first that points it anywhere points
\* it there, and nobody lets it follow another.
Saying(at, place, path) ==
  [i \in 0 .. Len(place) |->
    LET inputs == at[SubSeq(place, 1, i)]
        below == SubSeq(place, i + 1, Len(place)) \o path
    IN  {inputs[x] : x \in {below} \cap DOMAIN inputs}]
LeadsTo(say, source) ==
  /\ \E i \in DOMAIN say :
       /\ \E input \in say[i] : input.url = source
       /\ \A j \in 0 .. i - 1 : \A input \in say[j] : input.url = NoUrl
  /\ \A i \in DOMAIN say : \A input \in say[i] : ~input.follows

\* The names inputs have, and all edges that are due.
CapturedNames ==
  UNION {{path[Len(path)] : path \in DOMAIN sources[s].inputs} : s \in DOMAIN sources}
EdgesDue ==
  {e \in Places \X CapturedNames \X Repos : LeadsTo(Saying(InputsAt, e[1], <<e[2]>>), e[3])}

\* What is locked has an override for every local edge, however deep and under
\* whatever overlays, none but these, and all edges to a repository the one version
\* captured.
EveryEdgeIsCaptured ==
  phase = "locked" =>
    /\ \A edge \in EdgesOf : edge # <<>> /\ SubSeq(edge, 1, Len(edge) - 1) \in Places
    /\ \A o, other \in overrides : o.edge = other.edge => o = other
    /\ overrides = {[edge |-> Append(e[1], e[2]), source |-> e[3],
                     version |-> sources[e[3]].version] : e \in EdgesDue}

\* Without edits a build that preflight has let pass captures what it listed, and
\* meets no untracked file: distinct overlays hide no repository from it.
PreflightSeesAll ==
  edits = 0 =>
    /\ phase # "untracked" /\ DOMAIN sources \subseteq DOMAIN definitions
    /\ phase = "locked" => DOMAIN sources = DOMAIN definitions

\* Documentation: "`preflight ROOT` reports every discoverable worktree problem".
PreflightSeesCycles == edits = 0 => phase # "cycle"

\* Together: what is built, and what preflight has seen of it.
GraphIsExact == EveryEdgeIsCaptured /\ PreflightSeesAll
=============================================================================
