----------------------------- MODULE StreamTools ----------------------------
(***************************************************************************)
(* The tools that ingest an artifact and report on its stream: logtimeline *)
(* builds the histogram and the gaps, then the sessions over the same      *)
(* stream, which the histogram has left as it was; logstats counts it.     *)
(***************************************************************************)
EXTENDS Timeline, Correlate, Statistics

CONSTANTS
  Events,      \* the LogEvents the parsers may add, with the session key
  MaxEvents    \* bound on the length of the stream

(* Times are of 64 bits, and texts, session keys too, are numbered.        *)
ASSUME EventsAssumption ==
  \A e \in Events : /\ e.timestamp.valid \in BOOLEAN /\ e.timestamp.micros \in Micros
                    /\ e.severity \in Severities /\ e.key \in Nat

(* The keys the events are counted under have their place in the order.    *)
ASSUME KeysAssumption ==
  /\ DOMAIN KeyOrder \subseteq Nat
  /\ \A e \in Events, name \in CounterNames :
       KeyIn(name, e) \subseteq {KeyOrder[k] : k \in DOMAIN KeyOrder}

VARIABLE pc    \* "ingest", "timeline", "sessions", "statistics" or "done"

vars == <<streamVars, timelineVars, sessionVars, statisticsVars, pc>>

Init ==
  /\ InitStream
  /\ InitTimeline
  /\ InitSessions
  /\ InitStatistics
  /\ pc = "ingest"

Ingest ==
  /\ pc = "ingest"
  /\ Len(events) < MaxEvents
  /\ \E e \in Events : Add(e)
  /\ UNCHANGED <<timelineVars, sessionVars, statisticsVars, pc>>

BuildTimeline ==
  /\ pc = "ingest"
  /\ pc' = "timeline"
  /\ UNCHANGED <<streamVars, timelineVars, sessionVars, statisticsVars>>

TimelineSample ==
  /\ pc = "timeline"
  /\ PlaceSample
  /\ UNCHANGED <<streamVars, sessionVars, statisticsVars, pc>>

BuildSessions ==
  /\ pc = "timeline"
  /\ TimelineBuilt
  /\ CollectGroups
  /\ pc' = "sessions"
  /\ UNCHANGED <<streamVars, timelineVars, statisticsVars>>

SessionStep ==
  /\ pc = "sessions"
  /\ \/ \E key \in waiting : OpenGroup(key)
     \/ ExtendSession
     \/ SplitSession
     \/ CloseGroup
  /\ UNCHANGED <<streamVars, timelineVars, statisticsVars, pc>>

Finish ==
  /\ pc = "sessions"
  /\ OrderSessions
  /\ pc' = "done"
  /\ UNCHANGED <<streamVars, timelineVars, statisticsVars>>

ComputeStatistics ==
  /\ pc = "ingest"
  /\ pc' = "statistics"
  /\ UNCHANGED <<streamVars, timelineVars, sessionVars, statisticsVars>>

StatisticsEvent ==
  /\ pc = "statistics"
  /\ CountEvent
  /\ UNCHANGED <<streamVars, timelineVars, sessionVars, pc>>

Next ==
  \/ Ingest
  \/ BuildTimeline
  \/ TimelineSample
  \/ BuildSessions
  \/ SessionStep
  \/ Finish
  \/ ComputeStatistics
  \/ StatisticsEvent

Spec == Init /\ [][Next]_vars

----------------------------------------------------------------------------
(* Grouping neither loses nor repeats: an event is in at most one session, *)
(* and each event of a tracked key whose group is closed is in one, unless *)
(* the session cap was reached.                                            *)
EveryEventInASession ==
  LET Holding(k) == {h \in (DOMAIN sessions) \X (DOMAIN events) :
                       /\ h[2] \in DOMAIN sessions[h[1]].events
                       /\ sessions[h[1]].events[h[2]] = k}
      closed == IF pc \in {"sessions", "done"}
                THEN TrackedKeys \ (waiting \cup {cur.key}) ELSE {}
  IN  \A k \in DOMAIN events :
        /\ Cardinality(Holding(k)) <= 1
        /\ TakesPart(k) /\ events[k].key \in closed =>
             Len(sessions) = MaxSessions \/ Holding(k) # {}

(* The listing does not depend on the order the hash map was walked in:    *)
(* the finished sessions are strictly ordered by start time and key.       *)
SessionsOrdered ==
  pc = "done" => \A j, k \in DOMAIN sessions :
                   j < k => ListedFirst(sessions[j], sessions[k])

(* Nothing is lost in the groups and nothing depends on the hash order.    *)
GroupingSound == EveryEventInASession /\ SessionsOrdered

=============================================================================
