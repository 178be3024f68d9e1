--------------------------- MODULE MCOutputActor ---------------------------
(***************************************************************************)
(* Small instances of OutputActor: two ids, two routes.                    *)
(***************************************************************************)
EXTENDS OutputActor, TLC

CONSTANTS a, b, r1, r2

Reply(i, sub, c, r) == [op |-> "response", id |-> i, sub |-> sub, cancels |-> c, route |-> r]

\* A subscription acknowledged with a route, a repeated or plain reply without
\* one, an operation's reply (whose route is not kept), a cancellation, and a
\* cancellation whose reply names another subscription.
MCResponses ==
  {Reply(a, TRUE, NoId, r1), Reply(b, TRUE, NoId, r2), Reply(a, TRUE, NoId, NoRoute),
   Reply(b, FALSE, NoId, r1), Reply(NoId, FALSE, a, r1), Reply(b, TRUE, a, r2)}

Kind(i, s, t) == [id |-> i, sub |-> s, terminal |-> t]

\* Events of a subscription, one of them terminal, the final event of an
\* operation that is addressed to a subscription, and a last event of no id.
MCEventKinds == {Kind(a, a, FALSE), Kind(a, a, TRUE), Kind(b, a, TRUE), Kind(NoId, NoId, TRUE)}

\* Enough to tell the ids apart where the question is order and loss: an event of
\* one id may be addressed to the other, which may have ended.
FewResponses == {Reply(a, TRUE, NoId, r1), Reply(b, FALSE, NoId, r1), Reply(NoId, FALSE, a, r1)}
FewEventKinds == {Kind(a, a, FALSE), Kind(a, a, TRUE), Kind(b, a, FALSE)}
=============================================================================
