------------------------------ MODULE LogEvent ------------------------------
(***************************************************************************)
(* event::LogEvent: the record every parser fills and every analysis and   *)
(* writer reads, and event::FieldMap, its list of further fields. A text   *)
(* is a name; a number other than the time and the severity is the text of *)
(* its decimal digits. event::Severity is the syslog scale, 0 the most     *)
(* severe, 8 for unknown, and what the formats map onto it.                *)
(***************************************************************************)
EXTENDS Timestamp, Sequences

UnknownSeverity == 8

Severities == 0 .. UnknownSeverity

SeverityName ==
  [s \in Severities |->
     CASE s = 0 -> "emergency" [] s = 1 -> "alert" [] s = 2 -> "critical"
       [] s = 3 -> "error" [] s = 4 -> "warning" [] s = 5 -> "notice"
       [] s = 6 -> "informational" [] s = 7 -> "debug" [] s = 8 -> "unknown"]

(* A slip: the abbreviations of syslog only.                               *)
SeverityFromShortWord(w) ==
  CASE w = "emerg" -> 0 [] w = "alert" -> 1 [] w = "crit" -> 2 [] w = "err" -> 3
    [] w = "warning" -> 4 [] w = "notice" -> 5 [] w = "info" -> 6
    [] w = "debug" -> 7 [] OTHER -> UnknownSeverity

(* severity_from_word, given the word in lower case and trimmed.           *)
SeverityFromWord(w) ==
  CASE w \in {"emerg", "emergency", "panic"} -> 0
    [] w = "alert" -> 1
    [] w \in {"crit", "critical"} -> 2
    [] w \in {"err", "error"} -> 3
    [] w \in {"warn", "warning"} -> 4
    [] w = "notice" -> 5
    [] w \in {"info", "information", "informational"} -> 6
    [] w \in {"debug", "trace", "verbose"} -> 7
    [] OTHER -> UnknownSeverity

(* severity_from_syslog, of an unsigned number.                            *)
SeverityFromSyslog(value) == IF value > 7 THEN UnknownSeverity ELSE value

(* at_least_as_severe: an unknown severity is less than any known one.     *)
AtLeastAsSevere(a, b) ==
  /\ a # UnknownSeverity
  /\ b = UnknownSeverity \/ a <= b

----------------------------------------------------------------------------
TextAttributes ==
  {"host", "app", "user", "src_ip", "dst_ip", "http_method", "http_path",
   "channel", "provider", "message"}

(* Numbers for which 0 says that there is none.                            *)
CountAttributes == {"src_port", "dst_port", "http_status", "bytes", "event_id"}

(* An event as a parser finds it, nothing set.                             *)
BlankEvent ==
  [a \in TextAttributes \cup CountAttributes
         \cup {"pid", "source", "record_index", "timestamp", "severity", "fields"} |->
     CASE a \in TextAttributes -> ""
       [] a \in CountAttributes \cup {"record_index"} -> "0"
       [] a = "pid" -> "-1"
       [] a = "source" -> "unknown"
       [] a = "timestamp" -> Unknown
       [] a = "severity" -> UnknownSeverity
       [] a = "fields" -> <<>>]

----------------------------------------------------------------------------
(* FieldMap: entries in the order their keys were first set.               *)
FieldKeys(fields) == {fields[k].key : k \in DOMAIN fields}

FieldText(fields, key) ==
  fields[CHOOSE k \in DOMAIN fields : fields[k].key = key].text

(* FieldMap::set replaces the value of a key in its place.                 *)
FieldSet(fields, key, text) ==
  IF key \in FieldKeys(fields)
  THEN [k \in DOMAIN fields |-> IF fields[k].key = key
                                THEN [key |-> key, text |-> text]
                                ELSE fields[k]]
  ELSE Append(fields, [key |-> key, text |-> text])

=============================================================================
