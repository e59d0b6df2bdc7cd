---------------------------- MODULE LineParsers -----------------------------
(***************************************************************************)
(* parse_line and to_event of the four line formats: what each parser      *)
(* makes of a line, its own or another format's. A line is a record of     *)
(* what the parsers look for in it; the characters in between are left     *)
(* out. Of an event there are its time, what of the line is its message,   *)
(* and the field map as far as structured data fills it: CefRecord and     *)
(* LogMapper have what CEF and JSON put there.                             *)
(***************************************************************************)
EXTENDS EventStream, LogEvent

CONSTANTS
  MaxElements,   \* syslog: max_sd_elements
  MaxParams,     \* syslog: max_sd_params
  MaxExtensions  \* CEF: max_extensions

ASSUME LineLimits == {MaxElements, MaxParams, MaxExtensions} \subseteq Nat

(* The kinds of lines, with their fields beyond "is" and "pieces", what    *)
(* white space separates on the line: "bare", "quoted", "bracketed", or,   *)
(* where the quote or bracket it starts with is never closed, "open quote" *)
(* or "open bracket":                                                      *)
(*   "empty"   no character                                                *)
(*   "white"   white space only                                            *)
(*   "syslog"  pri, "none", "legal" or "illegal", a number above 191;      *)
(*             version, whether the version of RFC 5424 follows; time;     *)
(*             and sd, the structured data behind a version                *)
(*   "cef"     fields, those of the header behind CEF:0, all six with      *)
(*             anything behind them; and pairs, the extensions             *)
(*   "web"     time, that of its fourth field                              *)
(*   "json"    value, "object", "scalar" or, for a text that starts with a *)
(*             brace, the status the JSON parser fails with; and time      *)
(*   "text"    anything else                                               *)

White(line) == line.is \in {"empty", "white"}

(* A Result and the event to_event makes of it: its time, its field map,   *)
(* and what of the line is its message.                                    *)
Parsed(time, fields, message) ==
  [status |-> "Ok", time |-> time, fields |-> fields, message |-> message]

(* A failed Result holds a default value, and parse_stream makes the whole *)
(* line the message.                                                       *)
Failed(status) ==
  [status |-> status, time |-> Unknown, fields |-> <<>>, message |-> "line"]

----------------------------------------------------------------------------
(* syslog. An element of structured data: [id; params, those of its        *)
(* parameters that are well formed, [name, value]; end, what is behind     *)
(* them, "]", "line end", "bad param" or "open value"]. An id or a name is *)
(* the sequence of what its dots separate, <<>> if there is none.          *)
ElementStatus(element) ==
  IF element.id = <<>> THEN "Malformed"
  ELSE IF \/ Len(element.params) > MaxParams
          \/ Len(element.params) = MaxParams /\ element.end \in {"bad param", "open value"}
  THEN "LimitExceeded"
  ELSE CASE element.end = "]" -> "Ok"
         [] element.end = "bad param" -> "Malformed"
         [] OTHER -> "Truncated"

(* parse_structured_data: the status of the first element that fails.      *)
StructuredData(sd) ==
  LET Outcome(k) == IF k > MaxElements THEN "LimitExceeded"
                    ELSE ElementStatus(sd[k])
      failed == {k \in DOMAIN sd : Outcome(k) # "Ok"}
  IN  IF failed = {} THEN "Ok"
      ELSE Outcome(CHOOSE k \in failed : \A j \in failed : k <= j)

(* "SD-ID.param", which does not tell where the id ends.                   *)
FieldKey(element, p) == element.id \o element.params[p].name

(* to_event sets one field for each parameter, and none for an element     *)
(* without parameters.                                                     *)
WithParams(fields, element) ==
  LET upto[p \in 0 .. Len(element.params)] ==
        IF p = 0 THEN fields
        ELSE FieldSet(upto[p - 1], FieldKey(element, p), element.params[p].value)
  IN  upto[Len(element.params)]

StructuredFields(sd) ==
  LET upto[k \in 0 .. Len(sd)] ==
        IF k = 0 THEN <<>> ELSE WithParams(upto[k - 1], sd[k])
  IN  upto[Len(sd)]

(* An illegal PRI is not stepped over: behind it there is no version and   *)
(* no time to be seen.                                                     *)
LegalPri(line) == line.is = "syslog" /\ line.pri # "illegal"

(* parse_rfc3164_body: what has no name goes into the message.             *)
Rfc3164(line) ==
  Parsed(IF LegalPri(line) THEN line.time ELSE Unknown, <<>>, "rest")

(* The header of RFC 5424, then the structured data. Where that is         *)
(* malformed or cut off it becomes part of the message; where it is too    *)
(* much the Result is made of the status alone.                            *)
Rfc5424(line) ==
  LET status == StructuredData(line.sd)
  IN  CASE status = "Ok" -> Parsed(line.time, StructuredFields(line.sd), "rest")
        [] status = "LimitExceeded" -> Failed(status)
        [] OTHER -> Parsed(line.time, <<>>, "data_and_rest")

Syslog(line) ==
  IF line.is = "empty" THEN Failed("Empty")
  ELSE IF LegalPri(line) /\ line.version THEN Rfc5424(line)
  ELSE Rfc3164(line)

----------------------------------------------------------------------------
(* CEF. split_header: no marker, or no separator behind the version, and   *)
(* then too few fields.                                                    *)
SplitHeader(line) ==
  IF line.is # "cef" \/ line.fields = 0 THEN "Malformed"
  ELSE IF line.fields < 6 THEN "Truncated"
  ELSE "Ok"

(* parse_extensions: what is beyond the limit is left, and its status is   *)
(* not looked at. A pair is [key, time], key being "rt" or "other".        *)
Extensions(pairs) ==
  IF Len(pairs) > MaxExtensions THEN SubSeq(pairs, 1, MaxExtensions) ELSE pairs

(* to_event: the last receipt time that is one.                            *)
ReceiptTime(pairs) ==
  LET times == {k \in DOMAIN pairs : pairs[k].key = "rt" /\ pairs[k].time.valid}
  IN  IF times = {} THEN Unknown
      ELSE pairs[CHOOSE k \in times : \A j \in times : j <= k].time

Cef(line) ==
  IF line.is = "empty" THEN Failed("Empty")
  ELSE IF SplitHeader(line) # "Ok" THEN Failed(SplitHeader(line))
  ELSE Parsed(ReceiptTime(Extensions(line.pairs)), <<>>, "rest")

----------------------------------------------------------------------------
(* Access logs. tokenize_fields: one field for each piece, but a quote or  *)
(* bracket that is not closed takes in the rest of the line.               *)
Fields(line) ==
  LET open == {k \in DOMAIN line.pieces : line.pieces[k] \in {"open quote", "open bracket"}}
  IN  IF open = {} THEN Len(line.pieces)
      ELSE CHOOSE k \in open : \A j \in open : k <= j

(* The time of the event is that of the fourth field.                      *)
WebTime(line) == IF line.is = "web" THEN line.time ELSE Unknown

(* Five fields make a record, whatever they are.                           *)
Web(line) ==
  IF Fields(line) < 5 THEN Failed("Malformed")
  ELSE Parsed(WebTime(line), <<>>, "rest")

(* JSON: the parser is JsonRecord; only an object has a time.              *)
Json(line) ==
  IF line.is # "json" THEN Failed("Malformed")
  ELSE CASE line.value = "object" -> Parsed(line.time, <<>>, "rest")
         [] line.value = "scalar" -> Parsed(Unknown, <<>>, "rest")
         [] OTHER -> Failed(line.value)

=============================================================================
