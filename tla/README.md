# A formal model of ChronoSift

ChronoSift reads a log artifact (syslog, JSON lines, web access log, CEF,
Windows EVTX), turns it into a stream of events on one timeline and analyses
that stream: a histogram with gaps, sessions per key, statistics, detections,
exports through a filter. These TLA+ modules model the code under `src/`,
`include/` and `tools/`; TLC checks them on small instances, TLAPS proves the
theorems of the eight `*Proofs` modules for all values of the constants.

Paths below are relative to the repository. `PROJECT.json` has the lines of
source for every definition (`map`), the list of hazards, the runs that answer
each, and a mutant of the code for every property (`mutants`).

Check a run with `tlc -config <file>.cfg <module>`, the proofs of a module with
`tlapm <module>Proofs.tla` (from nothing `StreamToolsProofs`, `LogExportProofs`
and `DetectionsProofs` take about five minutes each, the others one or two).

## 1. The system

The program is sequential: no threads, no persistence, no network. What is hard
in it is not interleaving but

  * **long loops with state carried along** (two-pointer windows, a map kept in
    step with a window, a path stack kept in step with a document, a walk over
    years and months),
  * **the order of data**: arrival order, unstable sorts, hash maps walked in an
    order nobody chose,
  * **caps** everywhere (events, fields, depth, buckets, gaps, keys, sessions,
    counters, diagnostics), each a place where data is lost and has to be lost
    properly,
  * **64-bit time arithmetic** at its ends, some of it saturating, some of it
    undefined,
  * **formats that must survive their own separators**: what is escaped by one
    program is unescaped by another, and what is written here is read here,
  * **claims of the input** (sizes, offsets, depths, definitions that refer to
    each other) that must not upset a walk.

| Component | State it keeps | Operations | Correct if |
|---|---|---|---|
| ingest (`pipeline/ingest.cpp`) | none | `detect_format`, `ingest` | every artifact is given to one parser |
| line parsers (`syslog`, `weblog`, `cef`, `jsonlog/log_mapper.cpp`) | line number, record index | `parse_line`, `parse_stream`, `to_event` | no line silently disappears; indices lead back to lines; failures are warned of |
| CEF record (`cef/parser.cpp`) | a cursor in the line, the pairs so far | `split_header`, `parse_extensions`, `to_event` | what was escaped by the sender is what is read |
| JSON parser (`jsonlog/json_parser.cpp`, `json_value.cpp`) | position, value count, the call stack | `parse`, `flatten`, `render_compact` | accepts JSON within its limits, keeps the value |
| JSON log mapper (`jsonlog/log_mapper.cpp`) | none | `map_to_event`, `resolve_time`, `resolve_severity` | no leaf of the value is lost |
| time (`core/time_util.cpp`) | days left, the date so far | `parse_*`, `micros_from_civil`, `civil_from_micros`, `to_iso8601` | dates and instants are the same thing in every notation |
| EVTX container (`winlog/evtx_*.cpp`) | chunk, cursor, records | `parse_file_header`, `parse_chunk_header`, `parse_chunk_records`, `parse_stream` | stays in the bytes, keeps file order, ends, tells what it drops |
| Binary XML (`winlog/binxml.cpp`) | path, fields, active templates, counters | `walk_fragment`, `handle_*`, `expand_template` | path balanced, no template re-entered, nesting in the names |
| event stream (`event/stream.cpp`) | events, earliest, latest | `add`, `sort_by_time` | the span is that of the events |
| events and severities (`event/*.cpp`) | none | field lookup, words and numbers of levels, signature | a level means the same in every format |
| diagnostics (`core/diagnostics.cpp`) | entries, dropped | `emit` | what is not kept is counted |
| timeline (`analyze/timeline.cpp`) | buckets, gaps | `build_timeline` | totals accurate, buckets count their own window, gaps are the gaps |
| sessions (`analyze/correlate.cpp`) | groups, open session | `build_sessions` | maximal runs, no event lost or twice, order determined |
| statistics (`analyze/statistics.cpp`) | eight capped counters | `compute_statistics`, `top` | counts exact through the caps, listing determined |
| detections (`analyze/detections.cpp`) | five loops, findings | `run_detections` | nothing above a threshold unreported, evidence belongs to its finding, order determined |
| filter (`query/filter.cpp`) | predicates, conjunctions | `parse_filter`, `Filter::matches` | the language of its grammar, read from left to right |
| writers (`serialize/writer.cpp`) | the text so far | `to_csv`, `to_ndjson` | a reader of the format gets back what the events say |
| tools (`logtimeline`, `logstats`, `logexport`) | the stream | `main` | they apply the above in the right order to the right stream |

Components interact by calls only. Parsers append to an `EventStream` and emit
to a `DiagnosticSink`; every analysis takes the stream; `run_detections` sorts
it in place before its detectors read it; `logexport` replaces it by a filtered
one. So the shared state is the stream, and composing modules means sharing
`events`, `earliest` and `latest` (module `EventStream`). There is one loop
through the outside: NDJSON that `logexport` writes is a log the JSON parser
reads, which `Reimport` closes.

## 2. Modules

An arrow leads from a module to those that extend it.

```
Timestamp -> EventStream -+-> LineParsers -> LineIngest -+
                          |   DiagnosticSink ----^--v    +-> Ingest -> IngestProofs
                          +-------------------> EvtxFile-+
                          |
TimeWindow -+-------------+-> Detections -> DetectionsProofs
            |             +-> Timeline, Correlate, Statistics -> StreamTools
            |                                     StreamTools -> StreamToolsProofs
            +-> Burst (implemented by) SlidingWindow -> ScanWindow -> WindowProofs
            +-> TimeWindowProofs, which the three proof modules above extend too

Timestamp -> LogEvent -> Filter, Writer
             EventStream, Filter, Writer -> LogExport -> Readers
             Readers -> LogExportProofs
             Readers -> Reimport (INSTANCE LogMapper)
             LogEvent -> LogMapper -> JsonRecord -+
             LogEvent -> CefRecord ---------------+-> LineRecords
Timestamp -> CivilTime -> CivilFromMicros -> CivilProofs
BinXml -> BinXmlProofs
```

**Timestamp**, **LogEvent** - the values everything shares: an
instant or none, with its order and the addition that leaves a 64-bit result
modulo its span; the nine levels, the words and numbers that name them and
`at_least_as_severe`; the attributes of an event, their defaults, the
insertion-ordered field map.

**TimeWindow** - `micros_diff`, `window_micros`, observations, findings, and the
declarative answers (`BurstAnswer`, `ScanAnswer`) the loops are compared with.
`MaxMicros` is INT64_MAX. `Wrap` is what a 64-bit subtraction leaves of a
result that does not fit. Vectors start at 0 in the code, sequences at 1 here.

**Burst** - the abstract promise of a burst detector: one answer, the densest
window that closes first, or nothing.

**SlidingWindow** - the two-pointer loop that three detectors hold, over one
group: `Shrink` is an iteration of the inner loop, `Score` the rest of an
iteration of the outer one, `Emit` the threshold test and the finding. It
refines `Burst`.

**ScanWindow** - the loop of `detect_scans`, which is the same loop with a
frequency map, a bag, kept in step with the window: the module extends
`SlidingWindow` by the map and the targets, takes its variables and its
arithmetic, and has the steps `Enter`, `ScanShrink`, `ScanScore`, `ScanEmit`.

**EventStream**, **DiagnosticSink** - the two classes: their state, `Add`,
`SortByTime`, `Emit`. `StableSort` is `std::stable_sort`: the one sequence in
which an element stands behind all that are less and all equal ones before it.

**Detections** - `run_detections`: `Start` sorts, then one action per actor for
the three detectors that group by actor (any order, as the hash maps give it),
`SeveritySpikes`, `RareSignatures`, `OrderFindings`. The window
loops are taken by their answers, which the two modules above justify. The
sort of the successes in the spray check is unstable, so which of simultaneous
logins is cited is a choice.

**LineParsers** - `parse_line` and `to_event` of the four line formats as
functions from a line to a Result. A line is a record of what the parsers look
for in it: PRI, version, structured data parameter by parameter, CEF header
fields and extension pairs, the pieces between white space. Of the event there
are the time, what of the line is the message, and the field map that the two
loops of syslog's `to_event` make of structured data (`StructuredFields`). Lines of one format may
stand in an artifact read as another.

**LineIngest** - the four `parse_stream` loops, one action per loop body and
path through it.

**EvtxFile** - `winlog::parse_stream`. What a header claims is chosen when it
is read. Actions follow the returns of `parse_file_header`,
`parse_chunk_header` and `parse_chunk_records`: `BadChunk`, `TooManyRecords`,
`BadRecord`, `ReadRecord`, `AddEvent`, `TooManyEvents`, `NextChunk`.

**Ingest** - `detect_format` and `ingest`: the format is asked for or detected
from the head of the artifact, then `LineIngest` or `EvtxFile` runs over the
one stream and the one sink.

**BinXml** - `decode_binxml`. The recursion of `walk_fragment` and
`expand_template` is a stack of frames. A refused template instance, a value
that is no string, and a name, text or substitution array beyond its limit leave
bytes unread, which the walk then reads as tokens: the frame is marked as
misaligned and its tokens are any tokens, at most as many as it had left. The
decoder's own diagnostics are left out; a token may be cut off by the end.

**JsonRecord** - `JsonParser::parse` as a machine over tokens whose stack is
the C++ call stack. It is compared with a grammar and with `render_compact`,
and hands its value to **LogMapper** - `map_to_event`: the alias tables,
`resolve_time`, `resolve_severity`, `flatten` with its dotted names and the
fields that are left over.

**CefRecord** - one CEF line: `split_header` and `parse_extensions` character
by character (a key is skipped to, read, its value scanned to the blank in
front of the next key, unescaped), the byte caps, and `to_event` whole. A
character that no scan looks at comes as a run, so the byte caps count runs.

**LineRecords** - both record parsers next to each other, and `SentLine`: how
an appliance escapes the record that `CefRecord` is to read.

**CivilTime** - `days_before_year`, `micros_from_civil` and the calendar of
the code; the parsers of ISO 8601, CLF, BSD, epoch and
FILETIME times on texts cut into their pieces, in the order they are tried, and
the rendering. **CivilFromMicros** - the walk of `civil_from_micros` year by
year and month by month, between a parse and a parse of its rendering.

**Timeline**, **Correlate**, **Statistics**, **StreamTools** -
`build_timeline` sample by sample, `build_sessions` group by group and sample by
sample, `compute_statistics` event by event, and the two tools that run them
over a stream. `logtimeline` runs the first two over the same stream.

**Filter** - `parse_filter` token by token (`parse_predicate`, `parse_op`,
`read_value` decide from the next three tokens), the lookup of every built-in
and dynamic field, the evaluation of a predicate and of a filter. Texts are
names; byte order, lower case, numbers and what holds in what are given by the
instance.

**Writer** - `to_csv` and `to_ndjson` with their escapes, their order and what
they leave out, character by character.

**LogExport** - the tool: ingest, filter into a new stream, write, print, and
look at the name of the output format last.

**Readers** - no model of this code but what it is held against: a reader of
RFC 4180 CSV and one of JSON objects, a character or a token at a time, which
share nothing with the writers but the names of the characters, and the
properties that speak of them (`CsvReadsBack`, `NdjsonReadsBack`).
**Reimport** - the way of exported NDJSON back through `LogMapper`
(`ReimportKeeps`); its recursion is kept out of the modules the proofs use.

**TimeWindowProofs** - lemmas that three modules of theorems share: differences
and intervals, what a sort by counting does, and what the declarative answers
`BurstAnswer` and `ScanAnswer` say of a group; and the seven modules of
theorems; section 5.

Each MC module gives the constants of one instance. Operators whose comment
begins with "A slip" are not part of any specification: each is a plausible
error in the code that a property has to notice (`mutants` in `PROJECT.json`).

### Undefined behaviour

  * The differences at `correlate.cpp:113`, `timeline.cpp:140-180` and
    `statistics.cpp:106` overflow when two times are more than half the range
    apart. `Wrap` gives the value the instruction leaves. At
    `timeline.cpp:180` and `statistics.cpp:106` the test for a negative result follows the
    overflow and a compiler may drop it: `BucketIndices` and `SpanSeconds` are
    sets of both outcomes. `timeline.cpp` saturates its sums (`SatAdd`).
  * `log_mapper.cpp:115` lets 2^63 pass to a cast that cannot hold it.
    `ResolvedTimes` is a set of both outcomes.
  * Multiplications of seconds into microseconds (`time_util.cpp:41`,
    `time_util.hpp:25`) leave their result modulo the span.

## 3. Runs

All runs switch deadlock checking off: the programs stop.

| Run | Instance | What it shows |
|---|---|---|
| `sliding_window` | all time-ordered groups of up to 5 observations over the whole range of a scaled integer (-3 .. 2), windows negative, 1, saturating, thresholds 0 and 3 | the loop never slides past the densest window, no set of observations is missed, and it implements `Burst`, liveness included |
| `scan_window` | all time-ordered groups of up to 4 with all assignments of 4 targets, which are symmetric | the map is exactly the window; the answer is the first window with most targets. That the variables keep their types is left to the theorem `ScanTypeCorrect` |
| `detections` | all streams of up to 4 events out of 16, in any arrival order, all detectors, all hash orders | no burst or scan above a threshold goes unreported, evidence supports its finding, rare signatures are exact, the report is totally ordered |
| `spray_follows_burst` | logins only | *violated*: see findings |
| `binxml` | all records of up to 4 tokens over four chunks: cyclic templates, surplus ends, open elements, cut-off definitions, misread bytes | no template re-entered, nesting in the names, the path restored behind every fragment |
| `binxml_deep` | nesting deeper than `max_depth` | *violated*: see findings |
| `ingest` | all artifacts of up to 2 lines out of every kind (structured data with keys repeated in an element, across elements and across dots, without parameters, at and past both limits) and of 3 of the ordinary kinds, and files of up to 3 chunks in a scaled layout with all claims of sizes and offsets and a cap of 2 records; every format asked for or detected; a sink with room for 1 | every line has its event and its index; structured data is still in the message, or the fields are its parameters, the last of each key; records are framed inside the file and keep its order, losses are stored or counted, the parsers return |
| `header_kept` | as above | *violated*: see findings |
| `stream_tools` | streams of up to 4 events at both ends and the middle of the range, 3 buckets, 2 gaps, 2 session keys, 3 sessions, 3 counter keys, counts up to 3, listings of 2 | histogram and gaps exact, sessions maximal runs, grouping neither loses nor repeats, counters exact through cap and saturation |
| `log_export` | all token sequences of up to 2, expressions of one to four predicates and what is a slip away from them; streams of up to 2 events whose texts hold separators, quotes, line breaks, escapes, control characters | the parser accepts the grammar, the export is what the expression says, orderings are sound, CSV and NDJSON read back, NDJSON re-ingests |
| `line_records` | all JSON texts of up to 3 tokens, documents three levels deep, what is one token away from smaller ones, objects that name the same concept twice; CEF records with every separator in every kind of text, all extension sections of up to 5 characters, texts and versions past their limits | JSON accepted is exactly the grammar within the limits, values render back, every leaf has a field; CEF read as it was sent; both parsers return |
| `civil_time` | every date, existing or not, around the epoch and of each kind of leap year; years 0 to 42000; every clock, fraction, zone, cut-off; epochs and FILETIMEs at the unit's edges | the walk is the inverse of the count, renderings read back, dates stay what they were written as, the walk ends |

### Why the bounds are enough

Every cap of the code is a constant here, set so small that instances run into
it and past it: the interesting case of a cap is the element after it. Integer
widths are scaled with `MaxMicros` and `MicrosSpan` so that saturation and
overflow happen within a handful of values; nothing in the code depends on the
width itself. A day of `civil_time` has 80 ticks for the same reason; its
calendar is not scaled. For the properties that have a theorem in section 5
the bounds only have to let a wrong code fail: the theorem covers all lengths,
caps and widths. For the others, three
lines, three chunks and four events are enough for two things to go wrong with
something between or after them, which is as far as the state of those loops
reaches (a counter, a cursor, the last sample). Escaping has a memory of one
character, and the look-ahead of a CEF value one key: texts of three characters
and sections of five cover them.

### Fairness

Four runs need it. `SlidingWindow`, `Ingest`, `LineRecords` and
`CivilFromMicros` assume `WF_vars(Next)`: a sequential function that has been
called runs until it returns. There is nothing in the code that could keep it
from its next step; what may fail is that a step does not bring it nearer to its
return, which is what `ImplementsBurst`, `Terminates`, `ParsersReturn` and
`WalkEnds` are about. No step is assumed to be fair on its own.

## 4. Findings

  * **`SprayFollowsBurst`** (`detections.cpp:272`). The spray finding says that
    a login succeeded from an actor "that had already produced a burst of
    failures". The code takes the first success at or after the time of the
    actor's N-th failure in the whole stream; these N may be spread over any
    time, and the burst may come after the login.
  * **`NestingEncoded`** (`binxml.cpp:579`). An element beyond `max_depth` is
    not pushed, but its end tag pops its parent. Later fields lose a part of
    their names. `NestingKept` shows that names are right as long as no element
    is refused.
  * **`HeaderKept`** (`syslog/parser.cpp:454`). Too much structured data makes
    `parse_line` return a Result made of a status alone. The comments there and
    in `parse_stream` say that what was gathered and the header fields are
    kept; the event has neither.

Seen while modelling, no run of their own:

  * `include/analyze/detections.hpp:69` says the detectors sort the stream if it
    is not sorted. They take a const stream and never do; only `run_detections`
    sorts. With `evidence_cap` 0 a spray finding still cites its login.
  * Sessions merge when two neighbouring events of a key are more than half the
    64-bit range apart (`correlate.cpp:113`): the comment says the difference
    is never negative. `SessionsAreRuns`, `HistogramExact` and `CountersExact`
    claim times whose differences fit.
  * JSON keys that contain dots, and the empty key, displace nested members of
    the same dotted name, although flattening is "for completeness".
    `EveryLeafHasAField` says that this is the only way to lose a leaf.
  * An integer JSON time is multiplied by 1000000 without a test
    (`time_util.hpp:25`). A number as text is held to a bound the cast behind it
    does not hold (`log_mapper.cpp:115`).
  * `parse_iso8601` and its like accept February 31 and move it to March.
    The count of leap years before the year divides towards zero, so dates of the
    year 0 are a day off. `parse_clf_time` takes years the 64-bit range cannot
    tell. Years of five digits are written and not read. The time properties
    claim years from 1 and within the range.
  * `to_event` of syslog (`syslog/parser.cpp:493-501`) makes one field of each
    parameter. A structured data element without parameters, legal in RFC 5424,
    is in neither fields nor message; and of two parameters with the same
    "SD-ID.param" the later one replaces the earlier, also when the ids differ,
    for the key does not tell at which dot the id ends. `NothingDisappears`
    says that nothing else of legal structured data is lost.
  * `cef/parser.cpp:440`: the status of `parse_extensions` is discarded; pairs
    beyond the limit, a receipt time among them, are lost without a warning.
    The whole extension section is cut to `max_field_bytes` as if it were one
    field.
  * CEF extension keys that are named like a header field of the event
    (`cef.name`) are displaced by it, although "Always preserve the raw pair"
    (`cef/parser.cpp:574`). `CefReadsBack` excepts them.
  * `read_version` of CEF tests its sum for overflow after the fact and misses
    wraps that end above the previous value.
  * `logexport.cpp:85` prints the CSV as a C string: the first NUL in a log ends
    the table. `CsvReadsBack` leaves such streams aside.
  * `evtx_parser.cpp:112`: `file_offset` is relative to the chunk. The message
    at `evtx_parser.cpp:275-280` speaks of skipping a chunk; the walk stops.
    Reaching `max_chunks` leaves no message.
  * `severity<error` matches events of unknown severity.
  * A JSON text may have `max_depth + 1` containers open (`AcceptsExactly` is
    stated that way).

## 5. Proofs

Eight modules prove, for all values of the constants, what the runs check on
one instance. Every theorem below is one of the specification: it is about
every reachable state, of any number of steps.

### What is proved

| Module | Theorem | Property | In a sentence |
|---|---|---|---|
| `WindowProofs` | `TypeCorrect` | `TypeOK` | the loop's variables keep their ranges, for unsorted groups too |
| | `BestIsBest` | `BestSoFar` | on time-ordered groups no window scored so far beats the best one |
| | `NoneMissed` | `NoBurstMissed` | on time-ordered groups no set that fits the window and reaches the threshold goes unreported |
| | `RefinesBurst` | half of `ImplementsBurst` | the loop is, step by step, the abstract `Burst` |
| | `ScanTypeCorrect` | | edges in order and in the group, counts positive |
| | `MapIsWindow` | `FreqExact` | the map is the window's bag of targets, in any order of the group |
| | `ScanAnswers` | `ScanAnswered` | on time-ordered groups the answer is the first of the windows with most targets |
| `DetectionsProofs` | `FindingsTyped` | | stream, actors to visit and findings are well formed |
| | `BurstsFound` | `NoBurstUnreported` | every burst that reaches its threshold is in the report, whatever order events arrive in |
| | `ScansFound` | `NoScanUnreported` | every scan, paths and ports counted apart |
| | `EvidenceTrue` | `EvidenceIsOfTheFinding` | at every step, evidence is of its finding's kind and entity, in order, within cap and times |
| | `SpraysHeld` | `SprayBacked` | a spray has its brute-force finding, its success and its failures, whichever success the unstable sort gives |
| | `RareFound` | `RareExact` | rare signatures, and no others, have one finding, with count and span |
| | `ReportOrdered` | `ReportTotallyOrdered` | no two findings tie, so hash order leaves no trace |
| `IngestProofs` | `RecordsStayFramed` | `RecordsFramed` | records lie one behind the other inside area and file, whatever is claimed |
| | `FileOrderKept` | `FileOrder` | events stand in the order of the file, none twice |
| | `LossIsReported` | `LossReported` | a record that is not in the stream was warned of, if only by a count |
| | `NothingIsLost` | `NothingDisappears` | every line has its one event and its index; structured data is left in the message, or the fields are its parameters, the last of each key |
| | `WarningsAreAccounted` | `WarningsAccounted` | warnings are stored or counted and lead to raw lines |
| `BinXmlProofs` | `TemplatesNotReentered` | `NoTemplateReentered` | for cyclic definitions and garbled bytes, too |
| | `NestingIsKept` | `NestingKept` | fields are named by their place unless an element was refused |
| | `PathIsRestored` | `PathRestored` | an action property: a fragment that ends gives its caller its path |
| `CivilProofs` | `WalkIsExact` | `WalkExact` | the walk over years and months ends at the date that counts back to the instant |
| | `DatesAreKept` | `DatesKept` | a date that exists, written without an offset, is the date that is found, in every year an i64 can tell |
| | `TimesAreReadBack` | `TimesReadBack` | a rendering with four digits of year is parsed into the instant it was made from |
| `LogExportProofs` | `GrammarAccepted` | `AcceptsTheGrammar` | `parse_filter` accepts its grammar, all of it and nothing else, within the limit |
| | `ExportIsWhatWasAsked` | `ExportsWhatWasAsked` | the loop of `Filter::matches` agrees with the reading from left to right, and all matches are kept in order |
| | `OrderingsAreSound` | `OrderingsSound` | orderings are total on fields that are present, silent on those that are not |
| | `CsvIsReadBack` | `CsvReadsBack` | the printed CSV, read by RFC 4180, is the table of the events, cell by cell, whatever their texts hold but a NUL |
| | `NdjsonIsReadBack` | `NdjsonReadsBack` | each printed line is an object with the members the event has and no others, whatever its texts hold |
| `StreamToolsProofs` | `SessionsRun` | `SessionsAreRuns` | sessions are whole unbroken runs of one key |
| | `GroupingIsSound` | `GroupingSound` | nothing lost or repeated, the listing strictly ordered, for any order of the groups |
| | `HistogramIsExact` | `HistogramExact` | totals, buckets and gaps |
| | `CountersAreExact` | `CountersExact` | counts, totals, listings and the span |

`TimeWindowProofs` holds the lemmas that three of them share, about
`micros_diff` and intervals, about sorting by counting (`Sorted`: in a strict
order each element has its own rank, and the one at rank k stands at place k)
and about the declarative answers.

### From which assumptions

All are stated in the modules that declare the constants, and TLC evaluates
each on a run.

  * *The width of integers and the units*: `MicrosAssumption`,
    `UnitsAssumption`, `YearAssumption`, `PowersAssumption`. Any positive width
    and units. That 10^n is a positive number, ten times the one before, is among
    them because exponentiation is defined by recursion, of which the prover
    knows nothing. `SpanAssumption` relates the widths: an i64 of microseconds
    reaches back to the year 1 (it reaches 292 000 years back), and the last
    year it can tell fits an i32.
  * *Limits and caps are natural numbers*, positive where the code has a
    positive literal: `SinkCap`, `LimitsAssumption`, `LayoutAssumption` (also:
    a header is shorter than its chunk), `FilterAssumption`,
    `CorrelateAssumption`, `TimelineAssumption`, `StatisticsAssumption`.
  * *The C++ types of what comes in*: `ObservationLists`, `ConfigRecords`,
    `GroupLists`, `ScanConfigRecords`, `ClaimsAreUnsigned` (sizes, offsets and ids
    are unsigned), `EventsAssumption` (times of 64 bits), `TextsAssumption`
    (numbers are read without a sign; a FILETIME has 64 bits),
    `ExportAssumption` (an expression is a sequence of tokens), `EventTexts`,
    `EventStamps` and `ConfigType` of `Detections`.
  * *How an instance names texts*: a text is an element of a list given in byte
    order. `WordsAssumption`, `KeysAssumption` and `EntityNames` say that the
    texts in play are on the list.
  * *What the exported events hold*: `EventRecords` - a valid time has a text,
    a source a name, a number is a text of digits and a sign, the fields are keys
    and texts; `SpellingAssumption` - a text that has characters is a sequence of
    them, and the names of the attributes are not among the texts spelled out.
    Nothing is assumed of the characters in a message, a key or a field.
  * *What a line is*: `ArtifactLines` - structured data only stands behind a
    version (`syslog/parser.cpp` looks for it nowhere else) and is a sequence of
    elements with their parameters (`SdElements`), and a text that
    starts with a brace is not an empty one.
  * *Time order of a group*, `SortedGroups` in the hypotheses of `BestIsBest`,
    `NoneMissed`, `RefinesBurst` and `ScanAnswers` only: `run_detections` sorts
    first. `DetectionsProofs` and `StreamToolsProofs` do not assume order but
    prove it of `StableSort` (`StableOrder` is a permutation that is ordered
    and keeps ties): their streams come in any order. The first also proves that
    the groups `run_detections` makes are in time order (`GroupOrdered`), which
    is what `SortedGroups` asks, so the theorems about the loops are about the
    loops it runs.

### Along which argument

None of the properties is inductive. The conjuncts that had to be added say
most about why the code is right.

  * **SlidingWindow**, **ScanWindow**. The best window lies in the part already
    scored (`Edges`), and what lies left of `left` is out of reach of everything
    from `right` on (`DroppedForGood`). With time order that survives each step,
    because a window that spans i .. j spans every part of it (`InWindowShrinks`,
    from the monotonicity of `micros_diff`, saturation included). A set that
    fits one window lies between its smallest and largest element, which form a
    window no smaller than it. For the refinement `Emit` is `Report` and
    everything else stutters; `DensestBurst` is a `CHOOSE`, so the first
    densest window has to be unique. In the scan `FreqExact` carries itself
    together with `Edges`, in any order of the group: that the left target is in
    the map when it is decremented comes from the window not being empty.
  * **Detections** (`FindInv`). While the stream is fixed each detector has
    one answer for each entity, and nothing else. The findings so far are such
    answers, each of an entity its detector has served (`Sound`); no two are of
    one kind and entity (`Unique`); no answer of an entity served is missing
    (`Complete`). Which entities have been served (`Served`) follows from the
    phase and from who is still pending: this is what makes the proof blind to
    the order of the hash maps. That a detector skips nobody holds because an
    actor with an answer has an event in its group and is therefore among those
    collected when the phase starts. `Unique` is all that the strict order of the report needs
    beyond sorting, since the comparison tells apart kinds and entities.
    `Ordered` says that the sorted stream is sorted, without which no group is in
    time order. The stream never changes once a finding exists, so an answer
    stays an answer (`StreamKept`). That the answers themselves are right is
    shown once for each detector from the lemmas about `BurstAnswer` and
    `ScanAnswer`, through the places of a group in the stream (`PositionsFit`:
    events that stand together are observations that fit the window).
    `SprayOf` holds of every choice the unstable sort may make: the failures are
    in time order, so N of them stand before any login at or after the N-th
    (`FailedByThen`).
  * **EVTX files** (`FileInv`). Which variables are meaningful depends on the
    stage (`Staged`). `RecordsFramed` speaks of the cursor itself and carries
    its own step. For the order, all events lie in chunks before the one
    walked or, in it, not behind the last record added (`Behind`). For the losses,
    each record decoded is in the stream, waits to be added or was given up
    with a warning (`Accounted`).
  * **Lines** (`LineInv`). The n-th event belongs to the line that is the n-th of
    those with an event (`Ranked`), a `Cardinality` that grows with the cursor;
    without it nothing says which line the next event's index leads back to. For
    the field map of a syslog line, each round of the two loops of `to_event`
    keeps it telling the parameters read so far (`Told`): one more, behind all
    others, replaces what its key had (`FieldSetTells`). Induction over the
    rounds is the least counterexample, as elsewhere (`LoopTells`).
  * **Binary XML** (`WalkInv`). The path is the caller's path and then the
    elements open in the fragment, for every frame of the stack and not only
    the top one (`Balanced`); beside it the history variable `nesting` stays the
    same as the stack as long as no element was refused (`Documented`).
  * **The walk over dates** (`CivilInv`). Days left plus the days before the
    date so far are the days of the instant, with a bound in each loop on what is
    left (`YearReached`, `MonthReached`, `DateReached`); the clock is split off
    once and stays (`ClockShown`). The count of leap years, which divides towards
    zero, grows by the length of the year: a lemma by cases of the remainders by
    4, 100 and 400. Both round trips rest on `ReadInv`: the instant is still the
    one the text was parsed into, and the walk back in time does not pass the
    year 1 if the day does not (`DatesKept` would fail for a walk that finds the
    year 0). A date that is written becomes an instant without wrapping
    (`DateFits`: the year is at most 366 days long, which is where the bound of
    `DatesKept` comes from), of which day, clock and fraction can be taken apart
    again (`TakenApart`); that the date found is the same one is then that two
    dates of one day are one date (`DatesApart`: an earlier year or month ends
    before a later one starts). A rendering is read back digit by digit: the
    value of the first k digits is the fraction divided by 10^(n-k)
    (`FractionReadBack`).
  * **The filter language** (`ParserInv`). What is read is a whole number of
    predicates and keywords, which is what lets three tokens decide
    (`TokensRead`), each in the grammar at its place (`PredicatesRead`); a status
    other than parsing is a verdict on the whole expression (`Verdict`). That
    the running result of the loop equals the reading by disjuncts
    (`HoldsUpTo`) is shown at the smallest place where they would differ, which
    needs the well-founded order of the numbers and no induction theorem.
  * **The export** (`ExportInv`). What is kept so far lists the matches among the
    events seen, in their order (`KeptSoFar`).
  * **The round trips of the writers** (`WrittenInv`: once it is written, the
    output is what is printed of the text of the events kept, up to its first
    NUL). A reader is a step function, and `Reads` says that it goes from
    one state to another over a piece of text; pieces that follow each other are
    read one after the other (`ReadsBoth`, `ReadsFlat`), which is all the induction
    there is and is done on places in the text, not on its structure. What the
    writer concatenates is then read piece by piece. For CSV: a cell that is not
    quoted holds nothing the reader would split at, in a quoted one each
    character brings the reader back into the quotes, so behind a cell its
    characters are what has been taken, whichever of the two `csv_quote` chose.
    For JSON: each character, as `json_escape` writes it, is taken back as
    itself (`Stands`); a text in quotes is one token (`Lexes`); a member takes
    the reader of objects back to the path it was on (`Objects`); an object of
    members leaves them in their order (`Members`). No piece contains a line feed,
    and that is why a line is an event. That no attribute is named twice and none
    is left out comes from the order of the members being a list of all
    attributes without repetition (`Picked`).
  * **Sessions** (`SessionInv`). The rest of the group is a suffix of it, the
    open session a run that ends where the rest begins, closed sessions are
    whole runs, and a key is waiting, open or done. The final sort is a
    permutation under a strict order, hence the strict listing.
  * **The histogram** (`HistogramInv`). Three parts, of which only the first
    (`TotalsInv`) holds for every stream. The others (`WindowsInv`, `GapsInv`)
    need the difference of the last and first sample placed to fit the integer
    (`SpanUpTo`), and once it does not, it does not again: that is how the
    condition `SpanFits` of the property is carried through the loop. Totals are
    sums over sequences without recursion: `IsSum` says that partial sums exist.
  * **Counters** (`StatisticsInv`). Entries are in the order in which their keys
    first came, and a key without an entry came when the counter was full
    (`FirstKeys`); this is the part that makes counts exact through the cap. Counts
    and totals are the saturated cardinalities. `SpanInv` is what `Add` keeps of
    the first and last time.

### What is only model-checked

  * *Liveness*: the second half of `ImplementsBurst`, `Terminates`,
    `ParsersReturn`, `WalkEnds`. The prover does not handle fairness.
  * *What rests on RECURSIVE operators*: `AcceptsExactly`, `RoundTrips`,
    `EveryLeafHasAField`, `ReimportKeeps`. `LogMapper` and `JsonRecord` walk
    values of any depth, and the prover loses its arithmetic backend in a
    module that reaches such an operator.
  * *A CEF record read as it was sent*, `CefReadsBack`: it needs what each scan
    of `parse_extensions` does to every text, and `LineRecords`, which says it,
    reaches `JsonRecord`.

## 6. Not modelled

  * *Report* (`analyze/report.cpp`) and the layout of `render` everywhere: text
    around results that are decided elsewhere.
  * *logparse* and *logdetect*: argument handling around `ingest` and one
    analysis each. `Detections` starts where `logdetect` calls `run_detections`.
  * *Fields of syslog, web and Windows events* other than time and index:
    assignments of one text to one attribute, without state or order; the
    fields of structured data are modelled. The CEF and JSON events are whole.
  * *The cut of a message* at `max_message_bytes` (`syslog/parser.cpp:530,556`,
    `cef/parser.cpp:622,645`; the other formats cut at a constant): "in the
    message" above means in the message before that.
  * *Byte reader, encodings, string helpers*: pure functions of bytes. Where
    a scan depends on them (`trim`, `parse_u64`, the sticky error at the end of
    the bytes) they are part of the model that scans.
  * *The head of an artifact*: `detect_format` looks at 256 and 512 bytes; here
    it looks at the lines.
  * *Fuzzers and tests*: harnesses.

There is no crash recovery, retry, timeout or concurrency to model: the code has
none.

## 7. Plan

Done: the whole way from an artifact through every parser to every analysis and
to the exported text, and the proofs of section 5.

