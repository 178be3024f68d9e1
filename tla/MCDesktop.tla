------------------------------ MODULE MCDesktop ------------------------------
(***************************************************************************)
(* Small instances of the parts that follow the desktop and the system:    *)
(* HyprlandRequest, HyprlandEvents, WorkAreas, Resumes and Forwarding.     *)
(* They share no state, so in each behaviour one of them moves, and part   *)
(* says which; the others rest in one of their initial states.             *)
(***************************************************************************)
EXTENDS HyprlandRequest, HyprlandEvents, WorkAreas, Resumes, Forwarding

CONSTANT Parts

\* Work areas are calculated from replies of three kinds.
Monitor(name, x, y, transform, focused) ==
  [name |-> name, focused |-> focused, disabled |-> FALSE, x |-> x, y |-> y, width |-> 5,
   height |-> 2, scale |-> 1, transform |-> transform, reserved |-> <<1, 0, 0, 2>>,
   active |-> 1, special |-> 0]
Plain(id) == [id |-> id, windows |-> 1, hasfullscreen |-> FALSE]
Gap(n) == <<n, n + 1, n + 2, n + 3>>
By(kind, value) == [kind |-> "m", selector |-> [by |-> kind, value |-> value]]
Rule(selector, gaps) == [selector |-> selector, gaps |-> gaps]

\* Layouts: two monitors anywhere around the focused one, rotated, scaled, disabled.
Spots == {<<-5, 0>>, <<5, 0>>, <<-2, 0>>, <<0, 2>>, <<0, -2>>, <<0, -5>>, <<6, 1>>, <<5, 2>>, <<-7, 0>>}
Around(name, spot, transform, scale, disabled) ==
  [Monitor(name, spot[1], spot[2], transform, FALSE) EXCEPT !.scale = scale, !.disabled = disabled]
MCLayouts ==
  {[monitors |-> <<Around("a", spots[1], rotations[1], scale, FALSE),
                   Monitor("f", 0, 0, rotations[2], TRUE),
                   Around("b", spots[2], rotations[3], 1, off)>>,
    workspaces |-> <<Plain(1)>>,
    rules |-> <<Rule(<<By("direction", ways[1])>>, Gap(10)), Rule(<<By("direction", ways[2])>>, Gap(20))>>,
    clients |-> <<>>, gaps |-> Gap(0)] :
      spots \in Spots \X Spots, rotations \in {<<0, 0, 0>>, <<1, 0, 0>>, <<0, 1, 1>>, <<1, 0, 3>>},
      scale \in {0, 1, 2}, off \in BOOLEAN, ways \in {<<"l", "d">>, <<"r", "u">>}}

\* Windows: three, on two workspaces, in groups that list their members in any order.
Groups == {<<>>, <<1, 2>>, <<2, 1>>, <<3>>}
Window(workspace, floating, grouped) ==
  [workspace |-> workspace, mapped |-> TRUE, floating |-> floating, pinned |-> FALSE,
   shown |-> TRUE, grouped |-> grouped, fullscreen |-> 0]
MCWindows ==
  {[monitors |-> <<Monitor("f", 0, 0, 0, TRUE)>>,
    workspaces |-> <<Plain(1), Plain(2)>>,
    rules |-> <<Rule(<<[kind |-> "w", flags |-> flags, low |-> 1, high |-> 1]>>, gaps),
                Rule(<<[kind |-> "w", flags |-> flags, low |-> 1, high |-> 2]>>, None)>>,
    clients |-> <<Window(1, FALSE, groups[1]), Window(1, floating, groups[2]),
                  Window(where, FALSE, groups[3])>>,
    gaps |-> Gap(0)] :
      groups \in Groups \X Groups \X Groups, floating \in BOOLEAN, where \in {1, 2},
      flags \in {<<"g">>, <<"t", "g">>, <<"g", "t", "f">>, <<"v">>}, gaps \in {Gap(10), None}}

\* Rows of up to three monitors, one of them or none focused.
MCRows ==
  UNION {{[monitors |-> [i \in 1..n |-> Monitor(<<"a", "b", "c">>[i], 5 * i, 0, 0, i = focused)],
           workspaces |-> <<Plain(1)>>,
           rules |-> <<Rule(<<By("relative", delta)>>, Gap(10))>>,
           clients |-> <<>>, gaps |-> Gap(0)] :
             focused \in 0..n, delta \in -5..5} : n \in 1..3}

MCReplies == MCLayouts \cup MCWindows \cup MCRows

VARIABLE part

RequestRests ==
  /\ socket = [p \in Paths |-> "absent"] /\ exact = FALSE
  /\ wanted = [kind |-> "absent", signature |-> 0]

Init ==
  /\ part \in Parts
  /\ part # "request" => RequestRests
  /\ RequestInit
  /\ part # "events" => compositor = CHOOSE cause \in Causes : TRUE
  /\ EventsInit
  /\ part # "areas" => reply = CHOOSE r \in MCRows : TRUE
  /\ AreasInit
  /\ ResumeInit /\ ForwardInit

Next ==
  /\ UNCHANGED part
  /\ \/ part = "request" /\ RequestNext
     \/ part # "request" /\ UNCHANGED requestVars
  /\ \/ part = "events" /\ EventsNext
     \/ part # "events" /\ UNCHANGED eventsVars
  /\ \/ part = "areas" /\ AreasNext
     \/ part # "areas" /\ UNCHANGED areasVars
  /\ \/ part = "resume" /\ ResumeNext
     \/ part # "resume" /\ UNCHANGED resumeVars
  /\ \/ part = "forward" /\ ForwardNext
     \/ part # "forward" /\ UNCHANGED forwardVars

\* Fairness, which nothing that rests may stand in the way of.
Spec ==
  /\ Init /\ [][Next]_<<part, requestVars, eventsVars, areasVars, resumeVars, forwardVars>>
  /\ WF_requestVars(part = "request" /\ Proceed) /\ WF_requestVars(Timeout)
  /\ WF_eventsVars(part = "events" /\ Watcher) /\ WF_eventsVars(Take) /\ WF_eventsVars(End)
  /\ WF_resumeVars(part = "resume" /\ Counts)
  /\ WF_resumeVars(Stop) /\ WF_resumeVars(LogindStops)
  /\ WF_forwardVars(part = "forward" /\ ForwardWatch) /\ WF_forwardVars(Caster)
=============================================================================
