-------------------------- MODULE OrderedDelivery --------------------------
(***************************************************************************)
(* What a connection's output promises, without tables or limits: an event *)
(* of an id reaches the reader only after the id's acknowledgement and     *)
(* before its end, in the order it was sent, and none is skipped: the next *)
(* event sent is taken in, and leaves only by being delivered or when its  *)
(* id is ended or everything is reset.  It is refused only when its own id *)
(* has ended, is not acknowledged again and owes nothing; anything else    *)
(* lost stops the connection.                                              *)
(***************************************************************************)
EXTENDS Naturals, Sequences

CONSTANTS Ids, Routes, NoId, NoRoute, Inactive

VARIABLES
  view,      \* per id, the route it is acknowledged with, or Inactive
  sent,      \* number of events sent
  lane,      \* events sent and neither taken in nor refused yet
  owed,      \* events taken in and not delivered
  ended,     \* ids ended since the last reset
  delivered, \* events delivered
  up         \* the connection still serves

vars == <<view, sent, lane, owed, ended, delivered, up>>

Event == [n : Nat \ {0}, id : Ids \cup {NoId}, sub : Ids \cup {NoId}, terminal : BOOLEAN]

Init ==
  /\ view = [i \in Ids |-> Inactive]
  /\ sent = 0 /\ lane = <<>> /\ owed = {} /\ ended = {} /\ delivered = {} /\ up = TRUE

Without(i) == {e \in owed : e.id # i}

\* Sources may send while the connection stops.
Send ==
  /\ \E i, s \in Ids \cup {NoId}, t \in BOOLEAN :
       lane' = Append(lane, [n |-> sent + 1, id |-> i, sub |-> s, terminal |-> t])
  /\ sent' = sent + 1
  /\ UNCHANGED <<view, owed, ended, delivered, up>>

TakeIn ==
  /\ up /\ lane # <<>>
  /\ owed' = owed \cup {Head(lane)} /\ lane' = Tail(lane)
  /\ UNCHANGED <<view, sent, ended, delivered, up>>

Refuse ==
  /\ up /\ lane # <<>>
  /\ LET i == Head(lane).id
     IN  i \in ended /\ view[i] = Inactive /\ \A e \in owed : e.id # i
  /\ lane' = Tail(lane)
  /\ UNCHANGED <<view, sent, owed, ended, delivered, up>>

\* A repeated acknowledgement without a route keeps the one there is.
Acknowledge ==
  /\ up
  /\ \E i \in Ids, r \in Routes \cup {NoRoute} :
       /\ r = NoRoute => view[i] \in {Inactive, NoRoute}
       /\ view' = [view EXCEPT ![i] = r]
  /\ UNCHANGED <<sent, lane, owed, ended, delivered, up>>

\* The oldest event owed for an acknowledged id, or for none.
Deliver ==
  /\ up
  /\ \E e \in owed :
       /\ e.id \in Ids => view[e.id] # Inactive
       /\ \A f \in owed : f.id = e.id => e.n <= f.n
       /\ delivered' = delivered \cup {e}
       /\ IF e.terminal /\ e.id # NoId
          THEN /\ view' = [view EXCEPT ![e.id] = Inactive]
               /\ owed' = Without(e.id)
               /\ ended' = ended \cup {e.id}
          ELSE owed' = owed \ {e} /\ UNCHANGED <<view, ended>>
  /\ UNCHANGED <<sent, lane, up>>

\* Ending an id withdraws what is owed for it.
End ==
  /\ up
  /\ \E i \in Ids : /\ view' = [view EXCEPT ![i] = Inactive]
                    /\ owed' = Without(i)
                    /\ ended' = ended \cup {i}
  /\ UNCHANGED <<sent, lane, delivered, up>>

Reset ==
  /\ up
  /\ view' = [i \in Ids |-> Inactive] /\ owed' = {} /\ ended' = {}
  /\ UNCHANGED <<sent, lane, delivered, up>>

\* The connection stops, with the event it could not keep if there is one.
Stop ==
  /\ up /\ up' = FALSE
  /\ UNCHANGED lane \/ (lane # <<>> /\ lane' = Tail(lane))
  /\ UNCHANGED <<view, sent, owed, ended, delivered>>

Next == Send \/ TakeIn \/ Refuse \/ Acknowledge \/ Deliver \/ End \/ Reset \/ Stop

Spec == Init /\ [][Next]_vars
=============================================================================
