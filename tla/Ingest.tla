------------------------------- MODULE Ingest -------------------------------
(***************************************************************************)
(* pipeline::ingest: the format of an artifact is given or detected from   *)
(* its head, then parse_stream of that format reads it, the one of the     *)
(* line formats or that of EVTX, into one stream and one sink.             *)
(***************************************************************************)
EXTENDS LineIngest, EvtxFile

CONSTANT Requests   \* IngestOptions::format: a format name or "auto"

vars == <<streamVars, sinkVars, lineVars, fileVars, pc, stage>>

Binary == [is |-> "text", pieces |-> <<"bare", "bare">>]

(* What is not an EVTX file is lines; the bytes of one are taken for a     *)
(* line of text if lines are asked for.                                    *)
Init ==
  /\ InitStream
  /\ InitSink
  /\ magic \in BOOLEAN
  /\ InitLines
  /\ magic => lines = <<Binary>>
  /\ InitFile
  /\ format \in Requests
  /\ pc = "ingest"

----------------------------------------------------------------------------
(* What detect_format looks for, on the first line or at the first         *)
(* character that is not white.                                            *)
HasMarker(line) == line.is = "cef"

StartsJson(line) == line.is = "json" /\ line.value # "scalar"

StartsPri(line) == line.is = "syslog" /\ line.pri # "none"

(* A bracket and a quote, as in an access log, but also in structured data *)
(* with parameters.                                                        *)
LooksWeb(line) ==
  LET Some(kinds) == \E k \in DOMAIN line.pieces : line.pieces[k] \in kinds
  IN  \/ Some({"bracketed", "open bracket"}) /\ Some({"quoted", "open quote"})
      \/ line.is = "syslog" /\ \E k \in DOMAIN line.sd :
           line.sd[k].params # <<>> \/ line.sd[k].end = "open value"

DetectFormat ==
  LET First(Test(_)) ==
        \E k \in DOMAIN lines : Test(lines[k]) /\ \A j \in 1 .. k - 1 : White(lines[j])
  IN  CASE magic -> "evtx"
        [] ~magic /\ lines # <<>> /\ HasMarker(lines[1]) -> "cef"
        [] OTHER -> IF First(StartsJson) THEN "json"
                    ELSE IF First(StartsPri) THEN "syslog"
                    ELSE IF lines # <<>> /\ LooksWeb(lines[1]) THEN "web"
                    ELSE "syslog"

(* An info tells the detected format. An empty artifact gives no event;    *)
(* the web parser remarks on it, which only a request for web can reach.   *)
Dispatch ==
  /\ pc = "ingest"
  /\ format' = IF format = "auto" THEN DetectFormat ELSE format
  /\ IF format = "auto" \/ (format = "web" /\ lines = <<>>)
     THEN Emit(Diagnostic("info", 0)) ELSE EmitNothing
  /\ pc' = IF format' = "evtx" THEN "walk" ELSE "lines"
  /\ UNCHANGED <<streamVars, lines, at, record_index, fileVars, stage>>

Lined == ReadLines /\ UNCHANGED <<fileVars, stage>>

Walk ==
  /\ pc = "walk"
  /\ ReadFile
  /\ UNCHANGED <<lineVars, pc>>

WalkReturns ==
  /\ pc = "walk"
  /\ stage = "done"
  /\ pc' = "done"
  /\ UNCHANGED <<streamVars, sinkVars, lineVars, fileVars, stage>>

Next == Dispatch \/ Lined \/ Walk \/ WalkReturns

(* A sequential function that is called runs to its return.                *)
Spec == Init /\ [][Next]_vars /\ WF_vars(Next)

----------------------------------------------------------------------------
OfLines == pc # "ingest" /\ format # "evtx"

Counted(k) == format \in {"syslog", "cef"} \/ ~White(lines[k])

(* The lines read that make an event each, and the n-th of them.           *)
KeptLines == {k \in 1 .. at : Counted(k)}

Rank(k, S) == Cardinality({j \in S : j <= k})

Kept == [n \in 1 .. Cardinality(KeptLines) |->
           CHOOSE k \in KeptLines : Rank(k, KeptLines) = n]

(* The places of the parameters of a line, and which stands further back.  *)
Params(sd) == UNION {{<<k, p>> : p \in DOMAIN sd[k].params} : k \in DOMAIN sd}

IsBehind(a, b) == a[1] > b[1] \/ (a[1] = b[1] /\ a[2] > b[2])

FieldOf(sd, a) ==
  [key |-> FieldKey(sd[a[1]], a[2]), text |-> sd[a[1]].params[a[2]].value]

(* Each key once, with the value of the last parameter that has it.        *)
FieldsTell(fields, sd, params) ==
  LET lasting == {a \in params : \A b \in params :
                    IsBehind(b, a) => FieldOf(sd, b).key # FieldOf(sd, a).key}
  IN  /\ {fields[f] : f \in DOMAIN fields} = {FieldOf(sd, a) : a \in lasting}
      /\ \A f, g \in DOMAIN fields : fields[f].key = fields[g].key => f = g

(* Nothing silently disappears from the timeline: the lines read that are  *)
(* not white have one event each, in their order, and the index of each    *)
(* event leads back to its line. Of a syslog line, either all the          *)
(* structured data is still in the message, or the fields are what its     *)
(* parameters say, where a later one replaces an earlier of the same key;  *)
(* an element that has none leaves no trace.                               *)
NothingDisappears ==
  OfLines =>
    /\ Len(events) = Len(Kept)
    /\ \A n \in DOMAIN events :
         /\ events[n].record_index = IF format = "json" THEN n ELSE Kept[n]
         /\ LET line == lines[Kept[n]]
            IN  format = "syslog" /\ line.is = "syslog" /\ LegalPri(line) =>
                  \/ events[n].message # "rest"
                  \/ FieldsTell(events[n].fields, line.sd, Params(line.sd))

RawEvents == {n \in DOMAIN events : events[n].status \notin {"Ok", "Empty"}}

StoredWarnings == {m \in DOMAIN entries : entries[m].level = "warning"}

(* No warning is lost without being counted, every stored one names a line *)
(* whose event is raw, and none is stored after one was dropped.           *)
WarningsAccounted ==
  OfLines =>
    /\ Len(entries) <= MaxEntries
    /\ dropped > 0 => Len(entries) = MaxEntries
    /\ Cardinality(StoredWarnings) <= Cardinality(RawEvents)
    /\ Cardinality(RawEvents) <= Cardinality(StoredWarnings) + dropped
    /\ dropped = 0 =>
         {entries[m].line : m \in StoredWarnings} = {Kept[n] : n \in RawEvents}

(* If the partial parse of a line produced useful header fields, they are  *)
(* kept: the time of the header is that of the event.                      *)
HeaderKept ==
  OfLines /\ format = "syslog" =>
    \A n \in DOMAIN events :
      LET line == lines[events[n].record_index]
      IN  LegalPri(line) => events[n].timestamp = line.time

(* Whatever the lines hold and whatever a file claims, the parsers return. *)
Terminates == <>(pc = "done")

=============================================================================
