------------------------------- MODULE WorkAreas ------------------------------
(***************************************************************************)
(* Work areas (shelllist-hyprland, work_area.rs): Hyprland's workspace     *)
(* rules interpreted for each monitor.  A reply is what the compositor     *)
(* says of itself; rules are given parsed, a selector as the sequence of   *)
(* its clauses, a flag as its letter.  Lengths are whole numbers.          *)
(*                                                                         *)
(* External: the compositor, which may give any reply.                     *)
(***************************************************************************)
EXTENDS Integers, Sequences, FiniteSets

CONSTANT Replies

\* What a reply holds when it is decoded; names and sizes may be any.
IsList(s) == s \in Seq({s[i] : i \in DOMAIN s})
IsMonitor(m) ==
  /\ m = [name |-> m.name, focused |-> m.focused, disabled |-> m.disabled, x |-> m.x, y |-> m.y,
          width |-> m.width, height |-> m.height, scale |-> m.scale, transform |-> m.transform,
          reserved |-> m.reserved, active |-> m.active, special |-> m.special]
  /\ {m.x, m.y, m.width, m.height, m.scale} \subseteq Int /\ m.transform \in Nat
IsClause(c) ==
  c.kind = "m" =>
    /\ c.selector.by \in {"current", "direction", "relative", "which"}
    /\ c.selector.by = "direction" => c.selector.value \in {"l", "r", "u", "d"}
    /\ c.selector.by = "relative" => c.selector.value \in Int
IsRule(rule) == IsList(rule.selector) /\ \A i \in DOMAIN rule.selector : IsClause(rule.selector[i])
IsWindow(w) ==
  /\ w = [workspace |-> w.workspace, mapped |-> w.mapped, floating |-> w.floating,
        pinned |-> w.pinned,
          shown |-> w.shown, grouped |-> w.grouped, fullscreen |-> w.fullscreen]
  /\ w.grouped \in Seq(Int)
IsReply(r) ==
  /\ r = [monitors |-> r.monitors, workspaces |-> r.workspaces, rules |-> r.rules,
          clients |-> r.clients, gaps |-> r.gaps]
  /\ IsList(r.monitors) /\ \A i \in DOMAIN r.monitors : IsMonitor(r.monitors[i])
  /\ IsList(r.rules) /\ \A i \in DOMAIN r.rules : IsRule(r.rules[i])
  /\ IsList(r.clients) /\ \A i \in DOMAIN r.clients : IsWindow(r.clients[i])
  /\ IsList(r.workspaces)

ASSUME AreasConstants == \A r \in Replies : IsReply(r)

VARIABLES
  reply,    \* [monitors, workspaces, rules, clients, gaps], sequences but the last
  snapshot, \* the same, canonical
  phase,    \* received, parsed, refused, done
  areas     \* monitor -> insets

areasVars == <<reply, snapshot, phase, areas>>

Nothing == [id \in {} |-> 0]
AreasInit == reply \in Replies /\ snapshot = reply /\ phase = "received" /\ areas = Nothing

Least(a, b) == IF a < b THEN a ELSE b
Most(a, b) == IF a > b THEN a ELSE b
Members(s) == {s[i] : i \in DOMAIN s}
Places(s, P(_)) == {i \in DOMAIN s : P(s[i])}
First(places) == CHOOSE i \in places : \A j \in places : i <= j
Latest(places) == CHOOSE i \in places : \A j \in places : i >= j

\* sort_unstable: two lists of the same members become the same.
Sorted(group) == CHOOSE s \in [DOMAIN group -> Members(group)] :
  /\ \A i, j \in DOMAIN s : i <= j => s[i] <= s[j]
  /\ \A m \in Members(group) :
       Cardinality({i \in DOMAIN s : s[i] = m}) = Cardinality({i \in DOMAIN s : group[i] = m})

\* Mutant: groups are compared as they come.
ParseRaw ==
  /\ phase = "received"
  /\ IF \A i \in DOMAIN reply.monitors : reply.monitors[i].scale > 0
     THEN phase' = "parsed" ELSE phase' = "refused"
  /\ UNCHANGED <<reply, snapshot, areas>>

\* parse
Parse ==
  /\ phase = "received"
  /\ IF \A i \in DOMAIN reply.monitors : reply.monitors[i].scale > 0
     THEN /\ phase' = "parsed"
          /\ snapshot' = [reply EXCEPT !.clients = [i \in DOMAIN reply.clients |->
               [reply.clients[i] EXCEPT !.grouped = Sorted(@)]]]
     ELSE phase' = "refused" /\ UNCHANGED snapshot
  /\ UNCHANGED <<reply, areas>>

Rounded(length, scale) == (2 * length + scale) \div (2 * scale)
Width(m) == Rounded(IF m.transform % 2 = 0 THEN m.width ELSE m.height, m.scale)
Height(m) == Rounded(IF m.transform % 2 = 0 THEN m.height ELSE m.width, m.scale)

\* Mutant: vertical directions leave the sizes as they are.
BoxUnturned(m, direction) ==
  IF direction \in {"l", "r"}
  THEN [at |-> m.x, across |-> m.y, length |-> Width(m), breadth |-> Height(m)]
  ELSE [at |-> m.y, across |-> m.x, length |-> Width(m), breadth |-> Height(m)]

\* monitor_box
Box(m, direction) ==
  IF direction \in {"l", "r"}
  THEN [at |-> m.x, across |-> m.y, length |-> Width(m), breadth |-> Height(m)]
  ELSE [at |-> m.y, across |-> m.x, length |-> Height(m), breadth |-> Width(m)]

\* Mutant: one edge is taken for the other.
DistanceNear(from, to, direction) ==
  IF direction \in {"l", "u"} THEN from.at - to.at ELSE from.at + from.length - to.at

Distance(from, to, direction) ==
  IF direction \in {"l", "u"} THEN from.at - to.at - to.length
                              ELSE from.at + from.length - to.at
Overlap(from, to) ==
  Most(0, Least(from.across + from.breadth, to.across + to.breadth) - Most(from.across, to.across))

\* directional: the neighbours with the longest common edge, the first of them.
Focused(monitors) == Places(monitors, LAMBDA m : m.focused)
Directional(direction, monitors) ==
  LET f == First(Focused(monitors))
      from == Box(monitors[f], direction)
      Common(i) == Overlap(from, Box(monitors[i], direction))
      near == {i \in DOMAIN monitors :
        /\ monitors[i].name # monitors[f].name /\ ~monitors[i].disabled
        /\ Distance(from, Box(monitors[i], direction), direction) \in -1..1}
  IN IF Focused(monitors) = {} \/ near = {} THEN {}
     ELSE {monitors[First({i \in near : \A j \in near : Common(i) >= Common(j)})].name}

\* Mutant: a negative remainder stays so, and is cut off.
StepsDown(index, delta, length) ==
  LET end == index + (IF delta < 0 THEN -((-delta) % length) ELSE delta % length)
  IN Most(0, end) % length

\* Rust's %, which keeps the sign, and rem_euclid.
Steps(index, delta, length) ==
  (index + (IF delta < 0 THEN -((-delta) % length) ELSE delta % length)) % length

\* monitor_matches; "which" is an id, a name or a description.
MonitorMatches(selector, monitor, monitors) ==
  CASE selector.by = "current" -> monitor.focused
    [] selector.by = "direction" -> monitor.name \in Directional(selector.value, monitors)
    [] selector.by = "relative" ->
         /\ Focused(monitors) # {}
         /\ monitor.name =
              monitors[Steps(First(Focused(monitors)) - 1, selector.value, Len(monitors)) + 1].name
    [] selector.by = "which" -> monitor.name \in selector.value

HasFlag(client, flag) ==
  CASE flag = "t" -> ~client.floating
    [] flag = "f" -> client.floating
    [] flag = "p" -> client.pinned
    [] flag = "v" -> client.shown
    [] OTHER -> TRUE

Counted(flags, workspace, clients) ==
  Places(clients, LAMBDA c : /\ c.workspace = workspace.id /\ c.mapped
                             /\ \A flag \in Members(flags) : HasFlag(c, flag))

\* window_count: with "g" a group counts once, and a window without one not at all.
WindowCount(flags, workspace, clients) ==
  LET counted == Counted(flags, workspace, clients)
  IN IF flags = <<>> THEN workspace.windows
     ELSE IF "g" \in Members(flags)
          THEN Cardinality({clients[i].grouped : i \in counted} \ {<<>>})
          ELSE Cardinality(counted)

\* window_selector: where the flags end; what is no flag, or one too many, is
\* left to the number, which then is none.
Bits(flag) == IF flag \in {"t", "f"} THEN "tf" ELSE flag
FlagsOnce(flags) == \A i, j \in DOMAIN flags : Bits(flags[i]) = Bits(flags[j]) => i = j

WindowsMatch(clause, workspace, clients) ==
  /\ FlagsOnce(clause.flags)
  /\ WindowCount(clause.flags, workspace, clients) \in clause.low..clause.high

FullscreenMatches(clause, workspace, clients) ==
  CASE clause.mode = -1 -> ~workspace.hasfullscreen
    [] clause.mode \in {0, 1} ->
         workspace.hasfullscreen /\ \E i \in DOMAIN clients :
           clients[i].workspace = workspace.id /\ clients[i].fullscreen = 2 - clause.mode
    [] OTHER -> TRUE

\* term; "which" is an id, a name, or a part of one.  What does not parse as a
\* number constrains nothing, or matches nothing.
Term(clause, workspace, monitor, s) ==
  CASE clause.kind = "which" -> workspace.id \in clause.of
    [] clause.kind = "r" -> workspace.id \in clause.low..clause.high
    [] clause.kind = "s" -> (workspace.id < -1 /\ workspace.id > -1337) = clause.value
    [] clause.kind = "n" -> (workspace.id <= -1337) = clause.value
    [] clause.kind = "m" -> MonitorMatches(clause.selector, monitor, s.monitors)
    [] clause.kind = "w" -> WindowsMatch(clause, workspace, s.clients)
    [] clause.kind = "f" -> FullscreenMatches(clause, workspace, s.clients)
    [] OTHER -> clause.kind = "unconstrained"

\* matches; the empty selector does.
Matches(selector, workspace, monitor, s) ==
  \A i \in DOMAIN selector : Term(selector[i], workspace, monitor, s)

\* insets, of one monitor: the last rule that matches and has gaps.
None == <<>>
Active(monitor) == IF monitor.special # 0 THEN monitor.special ELSE monitor.active
Workspace(monitor, s) == Places(s.workspaces, LAMBDA w : w.id = Active(monitor))
HasArea(monitor, s) ==
  ~monitor.disabled /\ monitor.reserved # None /\ Workspace(monitor, s) # {}

\* Mutant: the last rule that matches is taken, with or without gaps.
GapsOfLast(monitor, s) ==
  LET w == s.workspaces[First(Workspace(monitor, s))]
      saying == Places(s.rules, LAMBDA rule : Matches(rule.selector, w, monitor, s))
  IN IF saying = {} \/ s.rules[Latest(saying)].gaps = None THEN s.gaps
     ELSE s.rules[Latest(saying)].gaps

Gaps(monitor, s) ==
  LET w == s.workspaces[First(Workspace(monitor, s))]
      saying == Places(s.rules, LAMBDA rule :
                  rule.gaps # None /\ Matches(rule.selector, w, monitor, s))
  IN IF saying = {} THEN s.gaps ELSE s.rules[Latest(saying)].gaps

\* insets; gaps are in the order top, right, bottom, left.
Insets(s) ==
  LET placed == Places(s.monitors, LAMBDA m : HasArea(m, s))
      Of(name) == s.monitors[Latest({i \in placed : s.monitors[i].name = name})]
  IN [name \in {s.monitors[i].name : i \in placed} |->
        [left   |-> Of(name).reserved[1] + Gaps(Of(name), s)[4],
         top    |-> Of(name).reserved[2] + Gaps(Of(name), s)[1],
         right  |-> Of(name).reserved[3] + Gaps(Of(name), s)[2],
         bottom |-> Of(name).reserved[4] + Gaps(Of(name), s)[3]]]

Compute ==
  /\ phase = "parsed" /\ phase' = "done" /\ areas' = Insets(snapshot)
  /\ UNCHANGED <<reply, snapshot>>

AreasNext == Parse \/ Compute

AreasSpec == AreasInit /\ [][AreasNext]_areasVars
-----------------------------------------------------------------------------
\* Layouts seen in a mirror and with their axes exchanged, and directions there.
Opposite == [l |-> "r", r |-> "l", u |-> "u", d |-> "d"]
Turned == [l |-> "u", u |-> "l", r |-> "d", d |-> "r"]
Reselect(clause, way) ==
  IF clause.kind = "m" /\ clause.selector.by = "direction"
  THEN [kind |-> "m", selector |-> [by |-> "direction", value |-> way[clause.selector.value]]]
  ELSE clause
Reselected(rules, way) ==
  [i \in DOMAIN rules |->
    [selector |-> [j \in DOMAIN rules[i].selector |-> Reselect(rules[i].selector[j], way)],
     gaps |-> rules[i].gaps]]
Mirror(m) == [m EXCEPT !.x = -(@ + Width(m))]
Transpose(m) == [m EXCEPT !.x = m.y, !.y = m.x, !.width = m.height, !.height = m.width]
Mirrored(s) ==
  [s EXCEPT !.monitors = [i \in DOMAIN @ |-> Mirror(@[i])], !.rules = Reselected(@, Opposite)]
Transposed(s) ==
  [s EXCEPT !.monitors = [i \in DOMAIN @ |-> Transpose(@[i])], !.rules = Reselected(@, Turned)]

\* All four directions are one calculation (line 144): a layout seen in a mirror,
\* or with its axes exchanged, gives the same monitors the same gaps, whatever is
\* rotated, scaled, disabled, or touches at a corner.
SidesAreAlike ==
  phase = "done" => areas = Insets(Mirrored(snapshot)) /\ areas = Insets(Transposed(snapshot))

\* How often each window is in a group.
Bag(group) == [m \in Members(group) |-> Cardinality({i \in DOMAIN group : group[i] = m})]

\* A group is its members, in whatever order each of its windows lists them
\* (line 134), and a group of several counted windows counts once (line 236).
GroupsHaveNoOrder ==
  phase = "done" => \A w \in Members(snapshot.workspaces), rule \in Members(snapshot.rules) :
    \A clause \in Members(rule.selector) :
      (clause.kind = "w" /\ "g" \in Members(clause.flags)) =>
        WindowCount(clause.flags, w, snapshot.clients) =
          Cardinality({Bag(reply.clients[i].grouped) :
                         i \in Counted(clause.flags, w, reply.clients)} \ {Bag(<<>>)})

\* Rules that remain, in their order, when some without gaps are left out.
Kept(rules) ==
  UNION {{kept \in [1..n -> DOMAIN rules] :
            /\ \A i, j \in 1..n : i < j => kept[i] < kept[j]
            /\ \A i \in DOMAIN rules : rules[i].gaps # None => i \in Members(kept)} :
         n \in 0..Len(rules)}

\* "Invalid rule gaps are ignored, not fatal; keep fallback to earlier valid rules"
\* (line 94): rules without gaps, any of them, might as well not be there.
InvalidGapsAreIgnored ==
  phase = "done" => \A kept \in Kept(snapshot.rules) :
    areas = Insets([snapshot EXCEPT !.rules = [i \in DOMAIN kept |-> @[kept[i]]]])

\* Reference: monitors are a ring, walked step by step.
Walk(here, by, length) ==
  LET at[n \in Nat] ==
        IF n = 0 THEN here
        ELSE LET next == at[n - 1] + by
             IN  IF next = length THEN 0 ELSE IF next < 0 THEN length - 1 ELSE next
  IN  at

\* A relative selector means the monitor so many steps from the focused one, also
\* backwards, past either end, and several times around (lines 188 to 199).
MonitorsAreARing ==
  phase = "done" => \A rule \in Members(snapshot.rules) : \A clause \in Members(rule.selector) :
    (clause.kind = "m" /\ clause.selector.by = "relative" /\ Focused(snapshot.monitors) # {}) =>
      LET delta == clause.selector.value
          here == First(Focused(snapshot.monitors)) - 1
          there == Walk(here, IF delta < 0 THEN -1 ELSE 1, Len(snapshot.monitors))
                     [IF delta < 0 THEN -delta ELSE delta]
      IN \A m \in Members(snapshot.monitors) :
           Term(clause, Nothing, m, snapshot) <=> m.name = snapshot.monitors[there + 1].name

\* Together: the same gaps for the same layout, however it is said.
AreasAreExact == SidesAreAlike /\ GroupsHaveNoOrder /\ InvalidGapsAreIgnored /\ MonitorsAreARing
=============================================================================
