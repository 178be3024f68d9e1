---------------------------- MODULE RecentResults -----------------------------
(***************************************************************************)
(* RecentResults (operation.rs): the results of operations that are over,  *)
(* kept for some time, and no more than some number of them.               *)
(*                                                                         *)
(* External: the caller, who records, looks up and prunes at any time;     *)
(* what it prunes with may be a time it has read earlier.                  *)
(***************************************************************************)
EXTENDS Integers, Sequences, FiniteSets

CONSTANTS
  Ids, Owners,
  Limits,      \* how many to keep
  Retentions,  \* how long, or Forever
  MaxTime, MaxRecords   \* bounds

Forever == -1

ASSUME ResultsConstants ==
  /\ Limits \cup {MaxTime, MaxRecords} \subseteq Nat /\ Retentions \subseteq Nat \cup {Forever}

VARIABLES
  entries, limit, retention,  \* the fields
  now,
  answer,  \* of the last lookup, as long as nothing else was done
  latest,  \* id -> its last record (history)
  records  \* so far (history)

parameters == <<limit, retention>>
history == <<latest, records>>
resultsVars == <<entries, parameters, now, answer, history>>

Never == [owner |-> "", value |-> 0, recorded |-> 0]
Silent == [asked |-> FALSE]

ResultsInit ==
  /\ entries = <<>> /\ limit \in Limits /\ retention \in Retentions /\ now = 0
  /\ answer = Silent /\ latest = [id \in Ids |-> Never] /\ records = 0

Age(entry, time) == IF time > entry.recorded THEN time - entry.recorded ELSE 0
Expired(entry, time) == retention # Forever /\ Age(entry, time) >= retention

\* prune: partition_point finds the first entry that has not expired.
Pruned(time) ==
  LET expired == {i \in DOMAIN entries : \A j \in 1..i : Expired(entries[j], time)}
  IN SubSeq(entries, 1 + (IF expired = {} THEN 0 ELSE CHOOSE i \in expired : i + 1 \notin expired),
            Len(entries))

Trimmed(queue) ==
  IF Len(queue) > limit THEN SubSeq(queue, Len(queue) - limit + 1, Len(queue)) ELSE queue

Entry(id, owner) == [id |-> id, owner |-> owner, value |-> records + 1, recorded |-> now]

\* The k-th of some places, and a queue of which only those are kept, in order.
Kth(places, k) == CHOOSE i \in places : Cardinality({j \in places : j <= i}) = k
Retained(queue, places) == [k \in 1..Cardinality(places) |-> queue[Kth(places, k)]]

\* Mutant: a result that is replaced stays where it was.
PlacedThere(queue, entry) ==
  IF \E i \in DOMAIN queue : queue[i].id = entry.id
  THEN [i \in DOMAIN queue |-> IF queue[i].id = entry.id THEN entry ELSE queue[i]]
  ELSE Append(queue, entry)

\* Mutant: it is removed only if it has the same owner.
PlacedOwned(queue, entry) ==
  LET others == {i \in DOMAIN queue : queue[i].id # entry.id \/ queue[i].owner # entry.owner}
  IN Append(Retained(queue, others), entry)

\* retain, push_back
Placed(queue, entry) ==
  Append(Retained(queue, {i \in DOMAIN queue : queue[i].id # entry.id}), entry)

Record(id, owner) ==
  /\ records < MaxRecords /\ records' = records + 1
  /\ entries' = Trimmed(Placed(Pruned(now), Entry(id, owner)))
  /\ latest' = [latest EXCEPT ![id] = [owner |-> owner, value |-> records + 1, recorded |-> now]]
  /\ answer' = Silent
  /\ UNCHANGED <<parameters, now>>

\* find; 0 is no value.
Found(queue, id, owner) ==
  LET places == {i \in DOMAIN queue : queue[i].id = id /\ queue[i].owner = owner}
  IN IF places = {} THEN 0 ELSE queue[CHOOSE i \in places : \A j \in places : i <= j].value

GetOwned(id, owner) ==
  /\ entries' = Pruned(now)
  /\ answer' = [asked |-> TRUE, id |-> id, owner |-> owner, value |-> Found(Pruned(now), id, owner)]
  /\ UNCHANGED <<parameters, now, history>>

\* prune, and values, which prunes first.
Prune(time) ==
  /\ entries' = Pruned(time) /\ answer' = Silent
  /\ UNCHANGED <<parameters, now, history>>

Tick ==
  /\ now < MaxTime /\ now' = now + 1 /\ answer' = Silent
  /\ UNCHANGED <<entries, parameters, history>>

ResultsNext ==
  \/ \E id \in Ids, owner \in Owners : Record(id, owner)
  \/ \E id \in Ids, owner \in Owners : GetOwned(id, owner)
  \/ \E time \in {now - 1, now} : Prune(time)
  \/ Tick

ResultsSpec == ResultsInit /\ [][ResultsNext]_resultsVars
-----------------------------------------------------------------------------
\* Reference: the results that a caller may still ask for.
Later(id) == {other \in Ids : latest[other].value > latest[id].value}
Kept(id) ==
  /\ latest[id] # Never /\ Cardinality(Later(id)) < limit /\ ~Expired(latest[id], now)

\* A lookup finds the last result of an id, for the owner it was recorded for,
\* if it is young enough and less than limit others are newer; and nothing else,
\* however replacement, expiry and eviction have followed each other (lines 130
\* to 150).
LookupIsExact ==
  answer.asked =>
    answer.value = IF Kept(answer.id) /\ latest[answer.id].owner = answer.owner
                   THEN latest[answer.id].value ELSE 0

\* "Recording (including replacement) appends in timestamp order" (line 157):
\* what prune relies on, or a young result at the front would keep those behind
\* it for ever.
OldestFirst == \A i, j \in DOMAIN entries : i < j => entries[i].value < entries[j].value

\* Together: lookups and the order behind them.
ResultsAreExact == LookupIsExact /\ OldestFirst
=============================================================================
