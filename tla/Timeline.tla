------------------------------ MODULE Timeline ------------------------------
(***************************************************************************)
(* build_timeline (src/analyze/timeline.cpp): the timed events in time     *)
(* order, dropped one by one into fixed-width buckets, and the intervals   *)
(* without an event that are longer than a threshold. One step places one  *)
(* sample.                                                                 *)
(***************************************************************************)
EXTENDS EventStream, TimeWindow, LogEvent

CONSTANTS
  MaxBuckets,             \* kMaxBuckets
  MaxGaps,                \* kMaxGaps
  bucket_width_seconds,   \* the arguments of build_timeline
  gap_threshold_seconds

ASSUME TimelineAssumption ==
  /\ MaxBuckets \in Nat \ {0} /\ MaxGaps \in Nat
  /\ bucket_width_seconds \in Int /\ gap_threshold_seconds \in Int

VARIABLES
  buckets,   \* tl.buckets
  gaps,      \* tl.gaps
  placed     \* how many samples the loop has placed

timelineVars == <<buckets, gaps, placed>>

----------------------------------------------------------------------------
Smaller(a, b) == IF a < b THEN a ELSE b

(* sat_add, for the non-negative steps it is called with.                  *)
SatAdd(a, b) == IF a + b > MaxMicros THEN MaxMicros ELSE a + b

Sample(e) ==
  [micros |-> e.timestamp.micros, error |-> AtLeastAsSevere(e.severity, 3)]

(* The samples, sorted by time.                                            *)
Samples ==
  LET Time(k) == events[k].timestamp.micros
      order == StableOrder({k \in DOMAIN events : events[k].timestamp.valid},
                           LAMBDA j, k : Time(j) < Time(k))
  IN  [n \in DOMAIN order |-> Sample(events[order[n]])]

UntimedEvents == Cardinality({k \in DOMAIN events : ~events[k].timestamp.valid})

(* Never 0, even for a width below a microsecond's worth of seconds.       *)
WidthMicros ==
  WindowMicros(IF bucket_width_seconds < 1 THEN 1 ELSE bucket_width_seconds)

Width == IF WidthMicros < 1 THEN 1 ELSE WidthMicros

GapsEnabled == gap_threshold_seconds > 0

(* The start of the bucket numbered offset, from 0.                        *)
BucketStart(offset) ==
  LET step == IF offset > MaxMicros \div Width THEN MaxMicros
              ELSE offset * Width
  IN  SatAdd(Samples[1].micros, step)

(* The bucket index computed for a sample. When the distance to the first  *)
(* sample overflows, a build that keeps the test for a negative delta      *)
(* makes it 0; one that drops the test, as it may, divides a negative      *)
(* number whose conversion to usize is past every bucket.                  *)
BucketIndices(micros) ==
  LET delta == Wrap(micros - Samples[1].micros)
  IN  IF delta >= 0 THEN {Smaller(delta \div Width, MaxBuckets)}
      ELSE {0, MaxBuckets}

(* The buckets after those up to bucket_index have been created.           *)
Grown(bucket_index) ==
  LET needed == Smaller(bucket_index + 1, MaxBuckets)
      size == IF Len(buckets) < needed THEN needed ELSE Len(buckets)
  IN  [k \in 1 .. size |->
         IF k <= Len(buckets) THEN buckets[k]
         ELSE [start |-> BucketStart(k - 1), count |-> 0, error_or_worse |-> 0]]

WithOneMore(b, s) ==
  [start |-> b.start, count |-> b.count + 1,
   error_or_worse |-> IF s.error THEN b.error_or_worse + 1 ELSE b.error_or_worse]

(* A slip: a sample past the last bucket is not counted.                   *)
CountingInside(grown, bucket_index, s) ==
  IF bucket_index + 1 > Len(grown) THEN grown
  ELSE [grown EXCEPT ![bucket_index + 1] = WithOneMore(@, s)]

(* A sample past the last bucket counts in the last one.                   *)
Counting(grown, bucket_index, s) ==
  LET target == Smaller(bucket_index + 1, Len(grown))
  IN  [grown EXCEPT ![target] = WithOneMore(@, s)]

(* The gap recorded before sample i, if any.                               *)
GapBefore(i) ==
  LET interval == Wrap(Samples[i].micros - Samples[i - 1].micros)
  IN  IF /\ GapsEnabled /\ i > 1 /\ Len(gaps) < MaxGaps
         /\ interval >= 0 /\ interval > WindowMicros(gap_threshold_seconds)
      THEN <<[before |-> Samples[i - 1].micros, after |-> Samples[i].micros,
              seconds |-> interval \div MicrosPerSecond]>>
      ELSE <<>>

----------------------------------------------------------------------------
InitTimeline ==
  /\ buckets = <<>>
  /\ gaps = <<>>
  /\ placed = 0

PlaceSample ==
  LET i == placed + 1
  IN  /\ placed < Len(Samples)
      /\ placed' = i
      /\ \E b \in BucketIndices(Samples[i].micros) :
           buckets' = Counting(Grown(b), b, Samples[i])
      /\ gaps' = gaps \o GapBefore(i)

TimelineBuilt == placed = Len(Samples)

----------------------------------------------------------------------------
(* The samples placed so far whose time is in from .. to.                  *)
PlacedIn(from, to) ==
  {k \in 1 .. placed : Samples[k].micros \in from .. to}

(* The distance between any two samples fits in 64 bits.                   *)
SpanFits ==
  placed > 0 => Samples[placed].micros - Samples[1].micros <= MaxMicros

Total(Of(_)) ==
  LET sum[k \in 0 .. Len(buckets)] ==
        IF k = 0 THEN 0 ELSE sum[k - 1] + Of(buckets[k])
  IN  sum[Len(buckets)]

(* "totals stay accurate even if resolution is lost": whatever the bucket  *)
(* cap, the saturation and the overflow do, each placed event is in        *)
(* exactly one bucket and each error counted once.                         *)
TotalsAccurate ==
  /\ Total(LAMBDA b : b.count) = placed
  /\ Total(LAMBDA b : b.error_or_worse) =
       Cardinality({k \in 1 .. placed : Samples[k].error})

(* The histogram says when things happened: unless the span overflows, a   *)
(* bucket starts a width after the one before, counts exactly the events   *)
(* of its own window, and the last one of a full histogram all the later   *)
(* ones too.                                                               *)
BucketsExact ==
  SpanFits =>
    \A k \in DOMAIN buckets :
      LET last == k = MaxBuckets
          to == IF last THEN MaxMicros ELSE buckets[k].start + Width - 1
      IN  /\ k > 1 => buckets[k].start \in
                        {buckets[k - 1].start + Width, MaxMicros}
          /\ buckets[k].count = Cardinality(PlacedIn(buckets[k].start, to))

(* The gaps are the intervals between neighbouring events that are longer  *)
(* than the threshold, in order and none missing while there is room; no   *)
(* event lies inside one.                                                  *)
GapsExact ==
  LET wide == {k \in 2 .. placed :
                 Samples[k].micros - Samples[k - 1].micros >
                   WindowMicros(gap_threshold_seconds)}
  IN  SpanFits =>
        /\ Len(gaps) = IF GapsEnabled THEN Smaller(Cardinality(wide), MaxGaps)
                       ELSE 0
        /\ \A g \in DOMAIN gaps :
             /\ gaps[g].before < gaps[g].after
             /\ PlacedIn(gaps[g].before + 1, gaps[g].after - 1) = {}
             /\ g > 1 => gaps[g - 1].after <= gaps[g].before

(* The histogram and the gaps tell when things happened, and lose nothing  *)
(* at their caps.                                                          *)
HistogramExact == TotalsAccurate /\ BucketsExact /\ GapsExact

=============================================================================
