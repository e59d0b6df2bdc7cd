---------------------------- MODULE EventStream -----------------------------
(***************************************************************************)
(* event::EventStream: the vector of parsed events every parser appends to *)
(* and every analysis reads, with the span of times it has seen.           *)
(* An event is a record with at least a timestamp field.                   *)
(***************************************************************************)
EXTENDS Timestamp, Sequences, FiniteSets

VARIABLES
  events,    \* events_
  earliest,  \* earliest_
  latest     \* latest_

streamVars == <<events, earliest, latest>>

(* std::stable_sort on the places of a vector: a place goes behind those   *)
(* that are less than it and those it ties with that stood before it.      *)
StableOrder(places, Less(_, _)) ==
  LET Behind(i) == {j \in places : Less(j, i) \/ (j < i /\ ~Less(i, j))}
  IN  [k \in 1 .. Cardinality(places) |->
         CHOOSE i \in places : Cardinality(Behind(i)) = k - 1]

StableSort(s, Less(_, _)) ==
  LET order == StableOrder(DOMAIN s, LAMBDA i, j : Less(s[i], s[j]))
  IN  [k \in DOMAIN s |-> s[order[k]]]

----------------------------------------------------------------------------
InitStream ==
  /\ events = <<>>
  /\ earliest = Unknown
  /\ latest = Unknown

Earlier(t) == t.valid /\ (~earliest.valid \/ t.micros < earliest.micros)

Later(t) == t.valid /\ (~latest.valid \/ t.micros > latest.micros)

Add(e) ==
  /\ events' = Append(events, e)
  /\ earliest' = IF Earlier(e.timestamp) THEN e.timestamp ELSE earliest
  /\ latest' = IF Later(e.timestamp) THEN e.timestamp ELSE latest

SortByTime ==
  /\ events' = StableSort(events,
                          LAMBDA a, b : Before(a.timestamp, b.timestamp))
  /\ UNCHANGED <<earliest, latest>>

=============================================================================
