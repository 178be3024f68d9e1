--------------------------- MODULE HyprlandRequest ---------------------------
(***************************************************************************)
(* HyprlandRequest (shelllist-hyprland, Client::request, request_exact and *)
(* event_socket's connection): one request looks for sockets in two roots, *)
(* connects to the first that answers, sends its command and reads until   *)
(* the end, all before one deadline.  Meanwhile sockets come and go.       *)
(*                                                                         *)
(* A path is a root and a signature, a number: numbers are how names sort. *)
(* What is at a path is external: nothing; a live compositor of this user; *)
(* a socket nobody listens on; a socket that is not to be trusted, which   *)
(* its owner may also put where a trusted one was seen.                    *)
(***************************************************************************)
EXTENDS Naturals, Sequences, FiniteSets, SequencesExt

CONSTANTS
  Signatures, \* 1 .. the instances there may be
  MaxChanges  \* bound on changes at the paths

ASSUME RequestConstants == {Signatures, MaxChanges} \subseteq Nat

Roots == <<1, 2>>
Paths == [root : {1, 2}, signature : 1 .. Signatures]
Kinds == {"absent", "live", "stale", "foreign"}
Nobody == [path |-> [root |-> 0, signature |-> 0], kind |-> "absent"]

VARIABLES
  socket,   \* what is at each path
  changes,  \* how often that has changed
  exact,    \* request_exact
  wanted,   \* the signature: none, one that is not valid, or a number
  request,  \* where it is, paths to check, roots to scan, candidates, the peer
  pending,  \* a command was sent and is not executed yet
  executed, \* peers that have executed it
  missed    \* as history, the paths that since it began were without a live compositor at
            \* some time, or whose compositor would not take its connection

requestVars == <<socket, changes, exact, wanted, request, pending, executed, missed>>

Named == wanted.kind = "valid"

RequestInit ==
  /\ socket \in [Paths -> {"absent", "live", "stale"}] /\ changes = 0
  /\ exact \in BOOLEAN
  /\ wanted \in [kind : {"valid"}, signature : 1 .. Signatures]
                  \cup [kind : {"absent", "invalid"}, signature : {0}]
  /\ request = [pc |-> "new", todo |-> <<>>, roots |-> <<>>, candidates |-> <<>>,
                peer |-> Nobody]
  /\ pending = FALSE /\ executed = <<>>
  /\ missed = {p \in Paths : socket[p] # "live"}

World == <<socket, changes, exact, wanted>>
Becomes(pc) == request' = [request EXCEPT !.pc = pc]

\* Mutant: an exact request looks for others too.
StartAnywhere ==
  /\ request.pc = "new"
  /\ request' = [request EXCEPT
       !.pc = IF wanted.kind = "invalid" \/ (exact /\ ~Named) THEN "failed" ELSE "looking",
       !.todo = IF Named THEN [i \in 1 .. 2 |-> [root |-> i, signature |-> wanted.signature]]
                ELSE <<>>,
       !.roots = Roots]
  /\ UNCHANGED <<World, pending, executed, missed>>

\* Mutant: the other instances come first.
StartUnsorted ==
  /\ request.pc = "new"
  /\ request' = [request EXCEPT
       !.pc = IF wanted.kind = "invalid" \/ (exact /\ ~Named) THEN "failed" ELSE "looking",
       !.todo = IF exact THEN [i \in 1 .. 2 |-> [root |-> i, signature |-> wanted.signature]]
                ELSE <<>>,
       !.roots = IF exact THEN <<>> ELSE Roots]
  /\ UNCHANGED <<World, pending, executed, missed>>

\* An invalid signature is an error, an absent one only for an exact request.
Start ==
  /\ request.pc = "new"
  /\ request' = [request EXCEPT
       !.pc = IF wanted.kind = "invalid" \/ (exact /\ ~Named) THEN "failed" ELSE "looking",
       !.todo = IF Named THEN [i \in 1 .. 2 |-> [root |-> i, signature |-> wanted.signature]]
                ELSE <<>>,
       !.roots = IF exact THEN <<>> ELSE Roots]
  /\ UNCHANGED <<World, pending, executed, missed>>

\* A socket and a directory of this user, not looked at before.
Check ==
  /\ request.pc = "looking" /\ request.todo # <<>>
  /\ LET p == Head(request.todo)
         trusted == socket[p] \in {"live", "stale"} /\ ~Contains(request.candidates, p)
     IN  request' = [request EXCEPT
           !.todo = Tail(@), !.candidates = IF trusted THEN Append(@, p) ELSE @]
  /\ UNCHANGED <<World, pending, executed, missed>>

\* Instances by their names.
ByName(seen) ==
  {order \in [1 .. Cardinality(seen) -> seen] :
     /\ \A p \in seen : \E i \in DOMAIN order : order[i] = p
     /\ \A i, j \in DOMAIN order : i < j => order[i].signature < order[j].signature}

\* The instances of a root, sorted; it may become unreadable on the way.
Scan ==
  /\ request.pc = "looking" /\ request.todo = <<>> /\ request.roots # <<>>
  /\ LET there == {p \in Paths : p.root = Head(request.roots) /\ socket[p] # "absent"}
     IN  \E seen \in SUBSET there :
           /\ \E order \in ByName(seen) :
                request' = [request EXCEPT !.roots = Tail(@), !.todo = order]
           /\ missed' = missed \cup (there \ seen)
  /\ UNCHANGED <<World, pending, executed>>

Looked == request.pc = "looking" /\ request.todo = <<>> /\ request.roots = <<>>

\* Mutant: whoever listens there is good enough.
ConnectAnyone ==
  /\ Looked /\ request.candidates # <<>>
  /\ LET p == Head(request.candidates)
     IN  request' = IF socket[p] \in {"live", "foreign"}
                      THEN [request EXCEPT !.pc = "connected",
                                           !.peer = [path |-> p, kind |-> socket[p]]]
                      ELSE [request EXCEPT !.candidates = Tail(@)]
  /\ UNCHANGED <<World, pending, executed, missed>>

\* connect_candidates: whoever refuses, or is somebody else, is passed over; so is a
\* live compositor that cannot take a connection now (a full backlog, say).
Connect ==
  /\ Looked /\ request.candidates # <<>>
  /\ LET p == Head(request.candidates)
     IN  \/ /\ socket[p] = "live" /\ UNCHANGED missed
            /\ request' = [request EXCEPT !.pc = "connected",
                                          !.peer = [path |-> p, kind |-> socket[p]]]
         \/ /\ missed' = missed \cup {p}
            /\ request' = [request EXCEPT !.candidates = Tail(@)]
  /\ UNCHANGED <<World, pending, executed>>

NoneLeft ==
  /\ Looked /\ request.candidates = <<>> /\ Becomes("failed")
  /\ UNCHANGED <<World, pending, executed, missed>>

\* The command reaches the peer, whether the write reports it or not.
SendRequest ==
  /\ request.pc = "connected"
  /\ \/ Becomes("sent") /\ pending' = TRUE
     \/ Becomes("broken") /\ pending' \in BOOLEAN
  /\ UNCHANGED <<World, executed, missed>>

\* Mutant: a connection that breaks is tried elsewhere.
BreaksRetry ==
  /\ request.pc \in {"sent", "broken"}
  /\ request' = [request EXCEPT !.pc = "looking", !.candidates = Tail(@)]
  /\ UNCHANGED <<World, pending, executed, missed>>

\* An error once the connection stands, at any byte, is the request's.
Breaks ==
  /\ request.pc \in {"sent", "broken"} /\ Becomes("failed")
  /\ UNCHANGED <<World, pending, executed, missed>>

\* External: the compositor executes what it has received.
Execute ==
  /\ pending /\ pending' = FALSE /\ executed' = Append(executed, request.peer)
  /\ UNCHANGED <<World, request, missed>>

\* Any end of the stream is the end of the reply: also that of a compositor which died
\* with the command unread, or closed before it executes it.
ReadReply ==
  /\ request.pc = "sent" /\ Becomes("ok")
  /\ UNCHANGED <<World, pending, executed, missed>>

Ended == request.pc \in {"ok", "failed"}

\* Mutant: the deadline is the connection's.
TimeoutConnecting ==
  /\ request.pc = "looking" /\ Becomes("failed")
  /\ UNCHANGED <<World, pending, executed, missed>>

\* One deadline for all of it.
Timeout ==
  /\ ~Ended /\ request.pc # "new" /\ Becomes("failed")
  /\ UNCHANGED <<World, pending, executed, missed>>

\* External: instances start, die and leave their sockets, others intrude.
ChangeSocket(p) ==
  /\ changes < MaxChanges /\ changes' = changes + 1 /\ ~Ended
  /\ \E kind \in Kinds \ {socket[p]} : socket' = [socket EXCEPT ![p] = kind]
  /\ missed' = missed \cup {q \in Paths : socket'[q] # "live"}
  /\ UNCHANGED <<exact, wanted, request, pending, executed>>

Proceed == Start \/ Check \/ Scan \/ Connect \/ NoneLeft \/ SendRequest

RequestNext == Proceed \/ Breaks \/ Execute \/ ReadReply \/ Timeout \/ \E p \in Paths : ChangeSocket(p)

\* The task is scheduled and the deadline comes; the compositor owes nothing.
RequestFairness == WF_requestVars(Proceed) /\ WF_requestVars(Timeout)
RequestSpec == RequestInit /\ [][RequestNext]_requestVars /\ RequestFairness
-----------------------------------------------------------------------------
\* README: "Commands are never replayed on another instance after a connection
\* succeeds", whatever breaks after it.  Nothing is said of what Ok means: the code
\* takes any end of the stream for an answer.
NeverReplayed ==
  /\ Len(executed) + (IF pending THEN 1 ELSE 0) <= 1
  /\ \A i \in DOMAIN executed : executed[i] = request.peer
  /\ request.peer = Nobody => executed = <<>> /\ ~pending

\* request_exact "fails rather than mutating another session".
ExactStaysHome ==
  \A i \in DOMAIN executed : exact => executed[i].path.signature = wanted.signature

\* A command reaches this user's compositors only, though a path may be taken
\* between its check and the connection.
PeersAreOwn == \A i \in DOMAIN executed : executed[i].kind = "live"

Rank(p) ==
  IF Named /\ p.signature = wanted.signature THEN p.root
  ELSE 2 + (p.root - 1) * Signatures + p.signature

\* An instance is preferred to those before it in the documented order only if each
\* of them was not there at some moment of the request, or would not be connected to.
PreferredFirst ==
  request.pc \in {"connected", "sent", "ok"} =>
    \A p \in Paths : Rank(p) < Rank(request.peer.path) => p \in missed

\* Every request that has begun ends, though its compositor never answers.
RequestEnds == request.pc # "new" ~> Ended

\* Together: a command is executed once at most, by the right instance of the
\* right user.
CommandsAreSafe == NeverReplayed /\ ExactStaysHome /\ PeersAreOwn /\ PreferredFirst
=============================================================================
