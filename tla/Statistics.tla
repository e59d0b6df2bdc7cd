----------------------------- MODULE Statistics -----------------------------
(***************************************************************************)
(* compute_statistics (src/analyze/statistics.cpp): one pass over the      *)
(* stream that feeds eight capped counters, and what render lists of them. *)
(* A key is a sequence of pieces, so that the signature, which the code    *)
(* joins from several texts, is one too.                                   *)
(***************************************************************************)
EXTENDS EventStream, TimeWindow, LogEvent

CONSTANTS
  MaxDistinctKeys,   \* kMaxDistinctKeys
  MaxCount,          \* UINT64_MAX
  TopN,              \* kTopN
  KeyOrder,          \* the keys of the instance, in byte order
  StatusClass,       \* http_status_class_name, "" for none
  MessageShape       \* message_shape, on the messages of the instance

ASSUME StatisticsAssumption ==
  {MaxDistinctKeys, MaxCount, TopN} \subseteq Nat \ {0}

VARIABLES
  counters,   \* the eight counters, each [entries, total]
  timed,      \* timed
  severe,     \* st.error_or_worse
  counted     \* how many events the loop has counted

statisticsVars == <<counters, timed, severe, counted>>

CounterNames ==
  {"by_source", "by_severity", "by_host", "by_app", "by_signature",
   "top_source_ips", "top_users", "http_status_class"}

----------------------------------------------------------------------------
(* LogEvent::signature: the provider or else the app, then the event id,   *)
(* the request or the shape of the message.                                *)
Signature(e) ==
  <<e.source, "|", IF e.provider # "" THEN e.provider ELSE e.app, "|">>
  \o (IF e.event_id # "0" THEN <<e.event_id>>
      ELSE IF e.http_status # "0" THEN <<e.http_method, " ", e.http_status>>
      ELSE <<MessageShape[e.message]>>)

(* The key an event is counted under, if it is.                            *)
KeyIn(name, e) ==
  LET Unless(text) == IF text = "" THEN {} ELSE {<<text>>}
  IN  CASE name = "by_source" -> {<<e.source>>}
        [] name = "by_severity" -> {<<SeverityName[e.severity]>>}
        [] name = "by_host" -> Unless(e.host)
        [] name = "by_app" -> Unless(e.app)
        [] name = "by_signature" -> {Signature(e)}
        [] name = "top_source_ips" -> Unless(e.src_ip)
        [] name = "top_users" -> Unless(e.user)
        [] name = "http_status_class" -> Unless(StatusClass[e.http_status])

Increment(n) == IF n >= MaxCount THEN MaxCount ELSE n + 1

PlaceIn(entries, key) == {k \in DOMAIN entries : entries[k].key = key}

(* Counter::add of one: a known key is counted, a new one only while there *)
(* is room, and the total grows whichever it is.                           *)
CounterAdd(c, key) ==
  [entries |->
     IF PlaceIn(c.entries, key) # {}
     THEN [k \in DOMAIN c.entries |->
             IF c.entries[k].key = key
             THEN [c.entries[k] EXCEPT !.count = Increment(@)] ELSE c.entries[k]]
     ELSE IF Len(c.entries) >= MaxDistinctKeys THEN c.entries
     ELSE Append(c.entries, [key |-> key, count |-> 1]),
   total |-> Increment(c.total)]

KeyPlace(key) == CHOOSE k \in DOMAIN KeyOrder : KeyOrder[k] = key

(* A slip: ties are left in the order of the sort.                         *)
ListedByCount(a, b) == a.count > b.count

ListedAbove(a, b) ==
  IF a.count # b.count THEN a.count > b.count
  ELSE KeyPlace(a.key) < KeyPlace(b.key)

(* Counter::top. std::sort is not stable; ListedAbove leaves no ties.      *)
Top(c) ==
  LET sorted == StableSort(c.entries, ListedAbove)
  IN  SubSeq(sorted, 1, IF Len(sorted) > TopN THEN TopN ELSE Len(sorted))

(* span_seconds. An overflow gives a negative difference; a build that     *)
(* keeps the test for one returns 0, one that drops it, as it may, divides *)
(* it.                                                                     *)
SpanSeconds ==
  LET d == Wrap(latest.micros - earliest.micros)
  IN  IF timed < 2 THEN {0}
      ELSE IF d >= 0 THEN {d \div MicrosPerSecond}
      ELSE {0, -(-d \div MicrosPerSecond)}

----------------------------------------------------------------------------
InitStatistics ==
  /\ counters = [name \in CounterNames |-> [entries |-> <<>>, total |-> 0]]
  /\ timed = 0
  /\ severe = 0
  /\ counted = 0

CountEvent ==
  LET e == events[counted + 1]
  IN  /\ counted < Len(events)
      /\ counted' = counted + 1
      /\ timed' = IF e.timestamp.valid THEN timed + 1 ELSE timed
      /\ severe' = IF AtLeastAsSevere(e.severity, 3) THEN severe + 1 ELSE severe
      /\ counters' = [name \in CounterNames |->
           IF KeyIn(name, e) = {} THEN counters[name]
           ELSE CounterAdd(counters[name], CHOOSE key \in KeyIn(name, e) : TRUE)]

----------------------------------------------------------------------------
(* The counted events that a counter counts under a key.                   *)
CountedUnder(name, key) == {k \in 1 .. counted : key \in KeyIn(name, events[k])}

Capped(n) == IF n > MaxCount THEN MaxCount ELSE n

(* A counter has the first keys the stream mentions, as many as fit, each  *)
(* with its own number of events, and a total of those turned away too;    *)
(* what it lists is in order, and nothing left out is more frequent.       *)
CounterExact(name) ==
  LET c == counters[name]
      top == Top(c)
      keys == UNION {KeyIn(name, events[k]) : k \in 1 .. counted}
      First(key) == CHOOSE k \in CountedUnder(name, key) :
                      \A n \in CountedUnder(name, key) : k <= n
      Ahead(key) == {other \in keys : First(other) < First(key)}
      kept == {c.entries[k].key : k \in DOMAIN c.entries}
      listed == {top[k].key : k \in DOMAIN top}
      Count(key) == Capped(Cardinality(CountedUnder(name, key)))
  IN  /\ c.total = Capped(Cardinality({k \in 1 .. counted : KeyIn(name, events[k]) # {}}))
      /\ Cardinality(kept) = Len(c.entries)
      /\ kept = {key \in keys : Cardinality(Ahead(key)) < MaxDistinctKeys}
      /\ \A k \in DOMAIN c.entries : c.entries[k].count = Count(c.entries[k].key)
      /\ Len(top) = IF Len(c.entries) > TopN THEN TopN ELSE Len(c.entries)
      /\ \A j \in DOMAIN top :
           /\ \A k \in j + 1 .. Len(top) :
                \/ top[j].count > top[k].count
                \/ /\ top[j].count = top[k].count
                   /\ KeyPlace(top[j].key) < KeyPlace(top[k].key)
           /\ \A key \in kept \ listed : Count(key) <= top[j].count

(* The statistics say what the stream holds, whatever keys were turned     *)
(* away at the cap and in whatever order they came: every counter, the     *)
(* timed events, the severe ones, and the span where it fits.              *)
CountersExact ==
  LET Timed(n) == {k \in 1 .. n : events[k].timestamp.valid}
      Distance(j, k) == events[k].timestamp.micros - events[j].timestamp.micros
      Ends(j, k) == \A n \in Timed(Len(events)) : Distance(j, n) >= 0 /\ Distance(n, k) >= 0
  IN  /\ timed = Cardinality(Timed(counted))
      /\ severe = Cardinality({k \in 1 .. counted : events[k].severity <= 3})
      /\ \A name \in CounterNames : CounterExact(name)
      /\ timed > 1 /\ counted = Len(events) =>
           \A j, k \in Timed(counted) : Ends(j, k) /\ Distance(j, k) <= MaxMicros =>
             SpanSeconds = {Distance(j, k) \div MicrosPerSecond}
=============================================================================
