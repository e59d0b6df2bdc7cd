----------------------------- MODULE LineIngest -----------------------------
(***************************************************************************)
(* parse_stream of the four line formats: the walk over the lines of an    *)
(* artifact, adding events to the stream and warnings to the sink.         *)
(***************************************************************************)
EXTENDS LineParsers, DiagnosticSink

CONSTANT Artifacts   \* sequences of lines

SdElements ==
  [id : Seq(STRING), params : Seq([name : Seq(STRING), value : STRING]), end : STRING]

(* Structured data is what stands behind a version, and a text that starts *)
(* with a brace is not an empty one to the JSON parser.                    *)
ASSUME ArtifactLines ==
  \A a \in Artifacts :
    /\ Len(a) \in Nat
    /\ \A k \in 1 .. Len(a) :
         /\ a[k].is = "syslog" =>
              a[k].sd \in Seq(SdElements) /\ (~a[k].version => a[k].sd = <<>>)
         /\ a[k].is = "json" => a[k].value \notin {"Ok", "Empty"}

VARIABLES
  lines,         \* the artifact, as lines
  format,        \* the format asked for, then the one in use
  at,            \* lines read so far
  record_index,  \* the index of the last record
  pc             \* "ingest", "lines", "walk" or "done"

lineVars == <<lines, format, at, record_index>>

InitLines ==
  /\ lines \in Artifacts
  /\ at = 0
  /\ record_index = 0

----------------------------------------------------------------------------
Line == lines[at + 1]

Reading ==
  /\ pc = "lines"
  /\ at < Len(lines)
  /\ at' = at + 1
  /\ UNCHANGED <<lines, format, pc>>

Event(result, index) ==
  [timestamp |-> result.time, record_index |-> index, status |-> result.status,
   fields |-> result.fields, message |-> result.message]

Warning == Diagnostic("warning", at + 1)

(* The loops of syslog and CEF: an empty line keeps its place without a    *)
(* warning, any other failure is warned of.                                *)
EveryLine(result) ==
  /\ Add(Event(result, at + 1))
  /\ record_index' = at + 1
  /\ IF result.status \in {"Ok", "Empty"} THEN EmitNothing ELSE Emit(Warning)

SyslogLine == Reading /\ format = "syslog" /\ EveryLine(Syslog(Line))

CefLine == Reading /\ format = "cef" /\ EveryLine(Cef(Line))

(* A slip: a line that fails is warned of and gives no event.              *)
WebLineDropped ==
  /\ Reading /\ format = "web" /\ ~White(Line)
  /\ IF Web(Line).status = "Ok" THEN Add(Event(Web(Line), at + 1))
     ELSE UNCHANGED streamVars
  /\ record_index' = at + 1
  /\ IF Web(Line).status # "Ok" THEN Emit(Warning)
     ELSE IF ~Web(Line).time.valid THEN Emit(Diagnostic("debug", at + 1))
     ELSE EmitNothing

(* White lines are stepped over; a record without a time is remarked on.   *)
WebLine ==
  /\ Reading /\ format = "web" /\ ~White(Line)
  /\ Add(Event(Web(Line), at + 1))
  /\ record_index' = at + 1
  /\ IF Web(Line).status # "Ok" THEN Emit(Warning)
     ELSE IF ~Web(Line).time.valid THEN Emit(Diagnostic("debug", at + 1))
     ELSE EmitNothing

WebWhiteLine ==
  /\ Reading /\ format = "web" /\ White(Line)
  /\ record_index' = at + 1
  /\ UNCHANGED <<streamVars, sinkVars>>

(* Records are numbered by the lines that are not white, warnings by all.  *)
JsonLine ==
  /\ Reading /\ format = "json" /\ ~White(Line)
  /\ Add(Event(Json(Line), record_index + 1))
  /\ record_index' = record_index + 1
  /\ IF Json(Line).status # "Ok" THEN Emit(Warning) ELSE EmitNothing

JsonWhiteLine ==
  /\ Reading /\ format = "json" /\ White(Line)
  /\ UNCHANGED <<streamVars, sinkVars, record_index>>

LinesEnd ==
  /\ pc = "lines"
  /\ at = Len(lines)
  /\ pc' = "done"
  /\ UNCHANGED <<streamVars, sinkVars, lineVars>>

ReadLines ==
  \/ SyslogLine \/ CefLine
  \/ WebLine \/ WebWhiteLine
  \/ JsonLine \/ JsonWhiteLine
  \/ LinesEnd

=============================================================================
