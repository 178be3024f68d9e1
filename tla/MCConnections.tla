---------------------------- MODULE MCConnections ----------------------------
(***************************************************************************)
(* Small instances of the two ends of a connection, SocketConnection and   *)
(* Bridge.  A bridge speaks to a bus and never to a socket, so in each     *)
(* behaviour one of them moves, and part says which.                       *)
(***************************************************************************)
EXTENDS SocketConnection, Bridge, TLC

CONSTANT Parts

VARIABLE part

Init == part \in Parts /\ SocketInit /\ BridgeInit

Next ==
  /\ UNCHANGED part
  /\ \/ part = "socket" /\ SocketNext /\ UNCHANGED bridgeVars
     \/ part = "bridge" /\ BridgeNext /\ UNCHANGED socketVars

Safety == Init /\ [][Next]_<<part, socketVars, bridgeVars>>

\* Fairness, which nothing that rests may stand in the way of.
Spec ==
  /\ Safety /\ SocketFairness
  /\ WF_bridgeVars(part = "bridge" /\ ForwarderStarts)
  /\ WF_bridgeVars(ForwarderConnects \/ ForwarderReady \/ ForwarderFails)
  /\ WF_bridgeVars(ForwarderResets \/ ForwarderReports \/ ForwarderInvalidates)
  /\ WF_bridgeVars(part = "bridge" /\ (WatcherConnects \/ WatcherFails \/ WatcherInvalidates))
  /\ WF_bridgeVars(WatcherResets \/ WatcherReports)
  /\ WF_bridgeVars(DrainBridge) /\ WF_bridgeVars(EndCleanup) /\ WF_bridgeVars(Return)
  /\ \A r \in Lines : WF_bridgeVars(Timers(r)) /\ WF_bridgeVars(Kind(r) = "release" /\ Begin(r))

\* One set of names stands for the requests of both.
Symmetry == Permutations(Requests) \cup Permutations(Connections)
=============================================================================
