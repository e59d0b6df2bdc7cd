------------------------------ MODULE Correlate ------------------------------
(***************************************************************************)
(* build_sessions (src/analyze/correlate.cpp): the timed events that carry *)
(* the chosen key, grouped by key, each group sorted by time and cut       *)
(* wherever it was idle for too long. The groups sit in a hash map, so the *)
(* loop visits the keys in an order nobody chose; one step opens a group   *)
(* or handles one of its samples.                                          *)
(***************************************************************************)
EXTENDS EventStream, TimeWindow

CONSTANTS
  MaxKeys,           \* kMaxKeys
  MaxSessions,       \* kMaxSessions
  idle_gap_seconds   \* the argument of build_sessions

ASSUME CorrelateAssumption ==
  MaxKeys \in Nat /\ MaxSessions \in Nat /\ idle_gap_seconds \in Int

VARIABLES
  sessions,   \* the sessions closed so far; in the end, the answer
  waiting,    \* the keys whose group has not been visited
  samples,    \* the rest of the group being visited, in time order
  cur         \* the open session, or NoSession

sessionVars == <<sessions, waiting, samples, cur>>

NoSession == [key |-> 0, start |-> 0, end |-> 0, events |-> <<>>]

----------------------------------------------------------------------------
(* Keys are numbered in std::string order; 0 is the empty string. An event *)
(* takes part when it is timed and its key is not empty.                   *)
TakesPart(k) == events[k].timestamp.valid /\ events[k].key # 0

(* The distinct keys met at positions up to k.                             *)
KeysUpTo(k) == {events[j].key : j \in {m \in 1 .. k : TakesPart(m)}}

(* The keys that get a group: the first MaxKeys the stream mentions. The   *)
(* events of the others are skipped.                                       *)
TrackedKeys ==
  {key \in KeysUpTo(Len(events)) :
     \E k \in DOMAIN events :
       /\ TakesPart(k) /\ events[k].key = key
       /\ Cardinality(KeysUpTo(k - 1)) < MaxKeys}

Micro(k) == events[k].timestamp.micros

(* The group of a key, as std::stable_sort leaves it.                      *)
Group(key) ==
  LET members == {k \in DOMAIN events : TakesPart(k) /\ events[k].key = key}
      order == StableOrder(members, LAMBDA j, k : Micro(j) < Micro(k))
  IN  [n \in DOMAIN order |-> [micros |-> Micro(order[n]), index |-> order[n]]]

GapMicros == WindowMicros(idle_gap_seconds)

Opened(key, s) ==
  [key |-> key, start |-> s.micros, end |-> s.micros, events |-> <<s.index>>]

Extended(session, s) ==
  [key |-> session.key, start |-> session.start, end |-> s.micros,
   events |-> Append(session.events, s.index)]

(* A session is kept only while there is room for it.                      *)
Kept(session) ==
  IF Len(sessions) < MaxSessions THEN Append(sessions, session) ELSE sessions

(* A slip: idle for exactly the gap is too idle.                           *)
TooIdleOrEqual(s) ==
  LET delta == Wrap(s.micros - cur.end)
  IN  (IF delta < 0 THEN 0 ELSE delta) >= GapMicros

(* Idle for longer than the gap since the last event. A negative delta,    *)
(* which in sorted samples only an overflow makes, counts as none.         *)
TooIdle(s) ==
  LET delta == Wrap(s.micros - cur.end)
  IN  (IF delta < 0 THEN 0 ELSE delta) > GapMicros

ListedFirst(a, b) ==
  IF a.start # b.start THEN a.start < b.start ELSE a.key < b.key

----------------------------------------------------------------------------
InitSessions ==
  /\ sessions = <<>>
  /\ waiting = {}
  /\ samples = <<>>
  /\ cur = NoSession

CollectGroups ==
  /\ waiting' = TrackedKeys
  /\ UNCHANGED <<sessions, samples, cur>>

OpenGroup(key) ==
  /\ cur = NoSession
  /\ cur' = Opened(key, Group(key)[1])
  /\ samples' = Tail(Group(key))
  /\ waiting' = waiting \ {key}
  /\ UNCHANGED sessions

ExtendSession ==
  /\ samples # <<>> /\ ~TooIdle(Head(samples))
  /\ cur' = Extended(cur, Head(samples))
  /\ samples' = Tail(samples)
  /\ UNCHANGED <<sessions, waiting>>

SplitSession ==
  /\ samples # <<>> /\ TooIdle(Head(samples))
  /\ sessions' = Kept(cur)
  /\ cur' = Opened(cur.key, Head(samples))
  /\ samples' = Tail(samples)
  /\ UNCHANGED waiting

(* A slip: the session open at the end of a group is forgotten.            *)
CloseGroupForgetting ==
  /\ cur # NoSession /\ samples = <<>>
  /\ cur' = NoSession
  /\ UNCHANGED <<sessions, waiting, samples>>

CloseGroup ==
  /\ cur # NoSession /\ samples = <<>>
  /\ sessions' = Kept(cur)
  /\ cur' = NoSession
  /\ UNCHANGED <<waiting, samples>>

(* The final sort. std::sort is not stable; ListedFirst leaves no ties.    *)
OrderSessions ==
  /\ cur = NoSession /\ waiting = {}
  /\ sessions' = StableSort(sessions, ListedFirst)
  /\ UNCHANGED <<waiting, samples, cur>>

----------------------------------------------------------------------------
(* How long the group of an event was quiet between two of its times, in   *)
(* unbounded arithmetic.                                                   *)
Peers(k) == {j \in DOMAIN events : TakesPart(j) /\ events[j].key = events[k].key}

(* No two times of the stream are so far apart that a delta overflows.     *)
DeltasFit ==
  \A j, k \in {m \in DOMAIN events : TakesPart(m)} :
    Micro(j) - Micro(k) <= MaxMicros

(* A session is a maximal run: its events carry its key, follow each other *)
(* in time with no idle gap above the threshold, start and end it, and no  *)
(* event of the key outside it lies within the threshold of its ends.      *)
IsRun(session) ==
  LET es == session.events
      inside == {es[k] : k \in DOMAIN es}
  IN  /\ \A k \in DOMAIN es : events[es[k]].key = session.key
      /\ Cardinality(inside) = Len(es)
      /\ session.start = Micro(es[1]) /\ session.end = Micro(es[Len(es)])
      /\ \A k \in 2 .. Len(es) : Micro(es[k]) - Micro(es[k - 1]) \in 0 .. GapMicros
      /\ \A k \in Peers(es[1]) \ inside :
           \/ session.start - Micro(k) > GapMicros
           \/ Micro(k) - session.end > GapMicros

(* "A run of events sharing a key with no idle gap larger than the         *)
(* threshold", at every step of the loop and whichever key comes next.     *)
SessionsAreRuns ==
  DeltasFit => \A k \in DOMAIN sessions : IsRun(sessions[k])
=============================================================================
