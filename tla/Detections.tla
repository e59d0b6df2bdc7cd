----------------------------- MODULE Detections -----------------------------
(***************************************************************************)
(* run_detections over an event stream: sort it, run the five detectors,   *)
(* order what they found. Each per-actor detector walks a hash map, so it  *)
(* visits the actors in an order nobody chose: one action per actor, any   *)
(* actor next. What a detector finds in one group is BurstAnswer or        *)
(* ScanAnswer; that the loops compute them is the subject of SlidingWindow *)
(* and ScanWindow.                                                         *)
(***************************************************************************)
EXTENDS EventStream, TimeWindow

CONSTANTS
  Events,       \* the LogEvents the parsers may add
  MaxEvents,    \* bound on the length of the stream
  Names,        \* every entity a finding can name, in std::string order
  cfg           \* the DetectionConfig

ASSUME EventStamps ==
  \A e \in Events : e.timestamp \in [valid : BOOLEAN, micros : Micros]

ASSUME ConfigType ==
  cfg \in [bruteforce_min_failures : Nat, bruteforce_window_seconds : Int,
           http_error_min : Nat, http_error_window_seconds : Int,
           scan_distinct_min : Nat, scan_window_seconds : Int,
           severity_spike_min : Nat, severity_spike_window_seconds : Int,
           rare_signature_max : Nat, evidence_cap : Nat]

VARIABLES
  all,      \* the findings so far
  pending,  \* actors the running detector has yet to visit
  pc        \* "ingest", the running detector, or "done"

vars == <<streamVars, all, pending, pc>>

----------------------------------------------------------------------------
(* Classification of one event. An absent string is "".                    *)
ActorKey(e) ==
  IF e.src_ip # "" THEN e.src_ip ELSE IF e.user # "" THEN e.user ELSE e.host

(* The entities findings name: actors, signatures and the whole stream.    *)
ASSUME EntityNames ==
  LET listed == {Names[k] : k \in DOMAIN Names}
  IN  /\ DOMAIN Names \subseteq Nat
      /\ "(global)" \in listed
      /\ \A e \in Events : e.signature \in listed /\ ActorKey(e) \in listed \cup {""}

IsFailedAuth(e) ==
  \/ e.message = "failed login"
  \/ e.source = "WinEvent" /\ e.event_id = 4625
  \/ e.outcome \in {"failure", "failed", "denied"}

IsSuccessfulAuth(e) ==
  \/ e.message = "accepted password"
  \/ e.source = "WinEvent" /\ e.event_id = 4624
  \/ e.outcome = "success"

Failure(e) == e.timestamp.valid /\ ActorKey(e) # "" /\ IsFailedAuth(e)

Success(e) ==
  /\ e.timestamp.valid /\ ActorKey(e) # ""
  /\ IsSuccessfulAuth(e) /\ ~IsFailedAuth(e)

HttpError(e) ==
  e.timestamp.valid /\ ActorKey(e) # "" /\ e.http_status \in 400 .. 599

Target(e) == IF e.http_path # "" THEN <<"path", e.http_path>>
             ELSE <<"port", e.dst_port>>

Touches(e) ==
  /\ e.timestamp.valid /\ ActorKey(e) # ""
  /\ e.http_path # "" \/ e.dst_port # 0

(* Severities run from 0 (emergency) to 7 (debug); 8 is Unknown.           *)
ErrorOrWorse(e) == e.timestamp.valid /\ e.severity \in 0 .. 3

----------------------------------------------------------------------------
(* The positions of the stream that satisfy a test, in stream order, and   *)
(* the observations made at those positions.                               *)
InOrder(places) == StableOrder(places, LAMBDA i, j : i < j)

Where(Test(_)) == InOrder({k \in DOMAIN events : Test(events[k])})

(* A slip: the index within the actor's group is kept for evidence.        *)
ObsAtInGroup(places) ==
  [k \in DOMAIN places |->
     [micros |-> events[places[k]].timestamp.micros, index |-> k]]

ObsAt(places) ==
  [k \in DOMAIN places |->
     [micros |-> events[places[k]].timestamp.micros, index |-> places[k]]]

Of(actor, Test(_)) == Where(LAMBDA e : Test(e) /\ ActorKey(e) = actor)

Actors(Test(_)) == {ActorKey(events[k]) : k \in {j \in DOMAIN events : Test(events[j])}}

Named(kind, entity, answers) ==
  [k \in DOMAIN answers |->
     [kind |-> kind, entity |-> entity, count |-> answers[k].count,
      first_seen |-> At(answers[k].first_seen),
      last_seen |-> At(answers[k].last_seen),
      evidence |-> answers[k].evidence]]

(* A slip: the success is looked for after the first failure.              *)
SprayFindingsEarly(actor, fails, oks, count) ==
  LET hits == {k \in DOMAIN oks : oks[k].micros >= fails[1].micros}
      firsts == {k \in hits : \A j \in hits : oks[k].micros <= oks[j].micros}
      shown == {k \in DOMAIN fails : k < cfg.evidence_cap}
      Finds(ok) == [kind |-> "auth-spray-then-hit", entity |-> actor,
                    count |-> count, first_seen |-> At(fails[1].micros),
                    last_seen |-> At(ok.micros),
                    evidence |-> Append([j \in shown |-> fails[j].index],
                                        ok.index)]
  IN  IF hits = {} THEN {<<>>} ELSE {<<Finds(oks[k])>> : k \in firsts}

(* The earliest success at or after the min-th failure. The sort of the    *)
(* successes is not stable: any of those that share that time may come     *)
(* first. The success is evidence even when the cap is 0.                  *)
SprayFindings(actor, fails, oks, count) ==
  LET n == cfg.bruteforce_min_failures
      hits == {k \in DOMAIN oks : oks[k].micros >= fails[n].micros}
      firsts == {k \in hits : \A j \in hits : oks[k].micros <= oks[j].micros}
      shown == {k \in DOMAIN fails : k < cfg.evidence_cap}
      Finds(ok) == [kind |-> "auth-spray-then-hit", entity |-> actor,
                    count |-> count, first_seen |-> At(fails[1].micros),
                    last_seen |-> At(ok.micros),
                    evidence |-> Append([j \in shown |-> fails[j].index],
                                        ok.index)]
  IN  IF hits = {} THEN {<<>>} ELSE {<<Finds(oks[k])>> : k \in firsts}

----------------------------------------------------------------------------
Init ==
  /\ InitStream
  /\ all = <<>>
  /\ pending = {}
  /\ pc = "ingest"

Ingest ==
  /\ pc = "ingest"
  /\ Len(events) < MaxEvents
  /\ \E e \in Events : Add(e)
  /\ UNCHANGED <<all, pending, pc>>

(* run_detections starts: the stream is sorted, whatever order it was in.  *)
Start ==
  /\ pc = "ingest"
  /\ SortByTime
  /\ pc' = "auth"
  /\ pending' = Actors(LAMBDA e : Failure(e) \/ Success(e))'
  /\ UNCHANGED all

AuthActor(actor) ==
  LET fails == ObsAt(Of(actor, Failure))
      burst == BurstAnswer(fails, WindowMicros(cfg.bruteforce_window_seconds),
                           cfg.bruteforce_min_failures, cfg.evidence_cap)
  IN  /\ pc = "auth"
      /\ pending' = pending \ {actor}
      /\ IF burst = <<>>
         THEN all' = all
         ELSE \E spray \in SprayFindings(actor, fails,
                                         ObsAt(Of(actor, Success)),
                                         burst[1].count) :
                all' = all \o Named("auth-brute-force", actor, burst) \o spray
      /\ UNCHANGED <<streamVars, pc>>

HttpActor(actor) ==
  /\ pc = "http"
  /\ pending' = pending \ {actor}
  /\ all' = all \o Named("http-error-burst", actor,
                     BurstAnswer(ObsAt(Of(actor, HttpError)),
                                 WindowMicros(cfg.http_error_window_seconds),
                                 cfg.http_error_min, cfg.evidence_cap))
  /\ UNCHANGED <<streamVars, pc>>

(* A slip: the window of the HTTP detector, copied along.                  *)
ScanActorOtherWindow(actor) ==
  LET places == Of(actor, Touches)
  IN  /\ pc = "scan"
      /\ pending' = pending \ {actor}
      /\ all' = all \o Named("port-or-path-scan", actor,
                         ScanAnswer(ObsAt(places),
                                    [k \in DOMAIN places |->
                                       Target(events[places[k]])],
                                    WindowMicros(cfg.http_error_window_seconds),
                                    cfg.scan_distinct_min, cfg.evidence_cap))
      /\ UNCHANGED <<streamVars, pc>>

ScanActor(actor) ==
  LET places == Of(actor, Touches)
  IN  /\ pc = "scan"
      /\ pending' = pending \ {actor}
      /\ all' = all \o Named("port-or-path-scan", actor,
                         ScanAnswer(ObsAt(places),
                                    [k \in DOMAIN places |->
                                       Target(events[places[k]])],
                                    WindowMicros(cfg.scan_window_seconds),
                                    cfg.scan_distinct_min, cfg.evidence_cap))
      /\ UNCHANGED <<streamVars, pc>>

(* A detector that has visited every actor returns and the next one groups *)
(* the stream anew.                                                        *)
NextDetector ==
  /\ pending = {}
  /\ \/ pc = "auth" /\ pc' = "http" /\ pending' = Actors(HttpError)
     \/ pc = "http" /\ pc' = "scan" /\ pending' = Actors(Touches)
     \/ pc = "scan" /\ pc' = "spike" /\ pending' = {}
  /\ UNCHANGED <<streamVars, all>>

SeveritySpikes ==
  /\ pc = "spike"
  /\ pc' = "rare"
  /\ all' = all \o Named("severity-spike", "(global)",
                     BurstAnswer(ObsAt(Where(ErrorOrWorse)),
                                 WindowMicros(cfg.severity_spike_window_seconds),
                                 cfg.severity_spike_min, cfg.evidence_cap))
  /\ UNCHANGED <<streamVars, pending>>

(* The known times among the given positions and the ends of their span.   *)
Times(places) ==
  {events[k].timestamp : k \in {j \in places : events[j].timestamp.valid}}

Earliest(times) ==
  IF times = {} THEN Unknown
  ELSE CHOOSE t \in times : \A u \in times : ~Before(u, t)

Latest(times) ==
  IF times = {} THEN Unknown
  ELSE CHOOSE t \in times : \A u \in times : ~Before(t, u)

RareFinding(signature) ==
  LET places == Where(LAMBDA e : e.signature = signature)
      times == Times({places[k] : k \in DOMAIN places})
      shown == {k \in DOMAIN places : k <= cfg.evidence_cap}
  IN  [kind |-> "rare-signature", entity |-> signature, count |-> Len(places),
       first_seen |-> Earliest(times), last_seen |-> Latest(times),
       evidence |-> [k \in shown |-> places[k]]]

Occurrences(signature) ==
  Cardinality({k \in DOMAIN events : events[k].signature = signature})

(* A slip: signatures at the limit are not rare.                           *)
IsRareBelow(signature) == Occurrences(signature) < cfg.rare_signature_max

(* Rare signatures are reported in the order of their first occurrence;    *)
(* their events need neither a time nor an actor.                          *)
IsRare(signature) == Occurrences(signature) <= cfg.rare_signature_max

RareSignatures ==
  /\ pc = "rare"
  /\ pc' = "order"
  /\ LET New(k) == \A j \in 1 .. k - 1 : events[j].signature # events[k].signature
         firsts == InOrder({k \in DOMAIN events :
                              New(k) /\ IsRare(events[k].signature)})
     IN  all' = all \o [k \in DOMAIN firsts |->
                          RareFinding(events[firsts[k]].signature)]
  /\ UNCHANGED <<streamVars, pending>>

(* The finding kinds in the order of their names.                          *)
KindNames == <<"auth-brute-force", "auth-spray-then-hit", "http-error-burst",
               "port-or-path-scan", "rare-signature", "severity-spike">>

Rank(names, name) == CHOOSE k \in DOMAIN names : names[k] = name

(* A slip: the entity is left out of the order.                            *)
ListedByTimeAndKind(a, b) ==
  \/ Before(a.first_seen, b.first_seen)
  \/ /\ a.first_seen = b.first_seen
     /\ Rank(KindNames, a.kind) < Rank(KindNames, b.kind)

ListedBefore(a, b) ==
  \/ Before(a.first_seen, b.first_seen)
  \/ /\ a.first_seen = b.first_seen
     /\ \/ Rank(KindNames, a.kind) < Rank(KindNames, b.kind)
        \/ a.kind = b.kind /\ Rank(Names, a.entity) < Rank(Names, b.entity)

OrderFindings ==
  /\ pc = "order"
  /\ pc' = "done"
  /\ all' = StableSort(all, ListedBefore)
  /\ UNCHANGED <<streamVars, pending>>

Next ==
  \/ Ingest
  \/ Start
  \/ \E actor \in pending : AuthActor(actor) \/ HttpActor(actor) \/ ScanActor(actor)
  \/ NextDetector
  \/ SeveritySpikes
  \/ RareSignatures
  \/ OrderFindings

Spec == Init /\ [][Next]_vars

----------------------------------------------------------------------------
(* The order of the report leaves nothing to the order in which the hash   *)
(* maps were walked: no two findings tie.                                  *)
ReportTotallyOrdered ==
  pc = "done" =>
    \A j, k \in DOMAIN all : j < k =>
      ListedBefore(all[j], all[k]) /\ ~ListedBefore(all[k], all[j])

(* Events at these positions stand within so many seconds of each other.   *)
Together(S, seconds) ==
  \A j, k \in S : MicrosDiff(events[j].timestamp.micros,
                             events[k].timestamp.micros) <= WindowMicros(seconds)

Reported(kind, entity, count) ==
  \E k \in DOMAIN all : /\ all[k].kind = kind /\ all[k].entity = entity
                        /\ all[k].count >= count

(* Whatever the order the events arrived in: every set of failures of one  *)
(* actor, or of its HTTP errors, or of errors of anyone, that fits the     *)
(* window and reaches the threshold is reported with a count as large.     *)
NoBurstUnreported ==
  pc = "done" =>
    \A S \in (SUBSET DOMAIN events) \ {{}} :
      LET Burst(Test(_), seconds, min) ==
            /\ \A k \in S : Test(events[k])
            /\ Together(S, seconds)
            /\ min > 0 /\ Cardinality(S) >= min
          actors == {ActorKey(events[k]) : k \in S}
      IN  /\ Burst(ErrorOrWorse, cfg.severity_spike_window_seconds,
                   cfg.severity_spike_min)
               => Reported("severity-spike", "(global)", Cardinality(S))
          /\ Cardinality(actors) = 1 => \A actor \in actors :
               /\ Burst(Failure, cfg.bruteforce_window_seconds,
                        cfg.bruteforce_min_failures)
                    => Reported("auth-brute-force", actor, Cardinality(S))
               /\ Burst(HttpError, cfg.http_error_window_seconds,
                        cfg.http_error_min)
                    => Reported("http-error-burst", actor, Cardinality(S))

(* Likewise for scans: distinct paths and ports, counted apart.            *)
NoScanUnreported ==
  pc = "done" /\ cfg.scan_distinct_min > 0 =>
    \A S \in (SUBSET DOMAIN events) \ {{}} : \A actor \in {ActorKey(events[k]) : k \in S} :
      LET paths == {events[k].http_path : k \in S} \ {""}
          ports == {events[k].dst_port : k \in {j \in S : events[j].http_path = ""}}
          distinct == Cardinality(paths) + Cardinality(ports \ {0})
      IN  (/\ \A k \in S : Touches(events[k]) /\ ActorKey(events[k]) = actor
           /\ Together(S, cfg.scan_window_seconds)
           /\ distinct >= cfg.scan_distinct_min)
            => Reported("port-or-path-scan", actor, distinct)

(* What a finding is evidence of.                                          *)
Supports(e, f) ==
  CASE f.kind = "auth-brute-force" -> Failure(e) /\ ActorKey(e) = f.entity
    [] f.kind = "auth-spray-then-hit" -> /\ Failure(e) \/ Success(e)
                                         /\ ActorKey(e) = f.entity
    [] f.kind = "http-error-burst" -> HttpError(e) /\ ActorKey(e) = f.entity
    [] f.kind = "port-or-path-scan" -> Touches(e) /\ ActorKey(e) = f.entity
    [] f.kind = "severity-spike" -> ErrorOrWorse(e)
    [] f.kind = "rare-signature" -> e.signature = f.entity

(* The evidence the tool prints beside a finding is events of that entity  *)
(* and kind, each once and in stream order, within the reported times and  *)
(* the cap. Only spray findings are held to less: see SprayBacked.         *)
EvidenceIsOfTheFinding ==
  \A n \in DOMAIN all :
    LET f == all[n]
    IN  /\ \A k \in DOMAIN f.evidence :
             /\ f.evidence[k] \in DOMAIN events
             /\ Supports(events[f.evidence[k]], f)
        /\ f.kind # "auth-spray-then-hit" =>
             /\ Len(f.evidence) <= cfg.evidence_cap
             /\ \A k \in 2 .. Len(f.evidence) : f.evidence[k - 1] < f.evidence[k]
             /\ \A k \in DOMAIN f.evidence :
                  LET t == events[f.evidence[k]].timestamp
                  IN  t.valid => /\ ~Before(t, f.first_seen)
                                 /\ ~Before(f.last_seen, t)

(* A spray finding stands beside a brute-force finding of the same actor,  *)
(* its last event is a success, and by then the actor had failed at least  *)
(* as often as the threshold asks.                                         *)
SprayBacked ==
  \A n \in DOMAIN all : all[n].kind = "auth-spray-then-hit" =>
    LET f == all[n]
        hit == events[f.evidence[Len(f.evidence)]]
    IN  /\ Reported("auth-brute-force", f.entity, cfg.bruteforce_min_failures)
        /\ Success(hit) /\ hit.timestamp = f.last_seen
        /\ Cardinality({k \in DOMAIN events :
                          /\ Failure(events[k]) /\ ActorKey(events[k]) = f.entity
                          /\ ~Before(f.last_seen, events[k].timestamp)})
             >= cfg.bruteforce_min_failures

(* Each signature that occurs at most rare_signature_max times, and no     *)
(* other, has one finding, with its number of occurrences and their span.  *)
RareExact ==
  pc = "done" =>
    \A s \in {events[k].signature : k \in DOMAIN events} :
      LET places == {k \in DOMAIN events : events[k].signature = s}
          found == {n \in DOMAIN all : /\ all[n].kind = "rare-signature"
                                       /\ all[n].entity = s}
      IN  /\ Cardinality(found) = IF Cardinality(places) <= cfg.rare_signature_max
                                  THEN 1 ELSE 0
          /\ \A n \in found :
               /\ all[n].count = Cardinality(places)
               /\ Times(places) # {} =>
                    /\ {all[n].first_seen, all[n].last_seen} \subseteq Times(places)
                    /\ \A t \in Times(places) : /\ ~Before(t, all[n].first_seen)
                                                /\ ~Before(all[n].last_seen, t)

(* What the finding says in words: the login succeeded from an actor that  *)
(* had already produced a burst of failures.                               *)
SprayFollowsBurst ==
  \A n \in DOMAIN all : all[n].kind = "auth-spray-then-hit" =>
    \E S \in SUBSET DOMAIN events :
      /\ Cardinality(S) >= cfg.bruteforce_min_failures
      /\ Together(S, cfg.bruteforce_window_seconds)
      /\ \A k \in S : /\ Failure(events[k]) /\ ActorKey(events[k]) = all[n].entity
                      /\ ~Before(all[n].last_seen, events[k].timestamp)

=============================================================================
