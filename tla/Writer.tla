------------------------------- MODULE Writer -------------------------------
(***************************************************************************)
(* The writers of src/serialize/writer.cpp: a stream of events as CSV and  *)
(* as one JSON object per line.                                            *)
(*                                                                         *)
(* Output is a sequence of characters. A run of characters that no writer  *)
(* or reader treats in a special way counts as one, so a text with no      *)
(* other characters is its own only character.                             *)
(***************************************************************************)
EXTENDS LogEvent, SequencesExt

CONSTANTS
  Spelling,   \* the characters of every text with special ones in it
  IsoText     \* to_iso8601, the text of each known time

(* Texts have characters, and the attributes names without special ones.   *)
ASSUME SpellingAssumption ==
  /\ \A text \in DOMAIN Spelling : Spelling[text] \in Seq(STRING)
  /\ DOMAIN BlankEvent \cap DOMAIN Spelling = {}
  /\ \A t \in DOMAIN IsoText : IsoText[t] # ""

CharsOf(text) ==
  IF text = "" THEN <<>>
  ELSE IF text \in DOMAIN Spelling THEN Spelling[text] ELSE <<text>>

(* Characters by their names.                                              *)
Quote == "\""
Backslash == "\\"
Tab == "\t"
LineFeed == "\n"
Return == "\r"
FormFeed == "\f"

(* The characters that mean something to a reader of CSV or JSON.          *)
SpecialChars ==
  {Quote, Backslash, ",", ":", "{", "}", Tab, LineFeed, Return, FormFeed, "NUL", "ESC"}

(* The control characters the texts of an instance may have, by byte.      *)
ControlByte ==
  [c \in {Tab, LineFeed, Return, FormFeed, "NUL", "ESC"} |->
     CASE c = "NUL" -> 0 [] c = Tab -> 9 [] c = LineFeed -> 10
       [] c = FormFeed -> 12 [] c = Return -> 13 [] c = "ESC" -> 27]

Nibble(n) ==
  <<"0", "1", "2", "3", "4", "5", "6", "7", "8", "9", "a", "b", "c", "d", "e",
    "f">>[n + 1]

Enclosed(chars, open, close) == <<open>> \o chars \o <<close>>

(* The pieces with commas between them.                                    *)
Joined(pieces) ==
  FlattenSeq([k \in DOMAIN pieces |->
                IF k = 1 THEN pieces[k] ELSE <<",">> \o pieces[k]])

----------------------------------------------------------------------------
(* json_escape, one character.                                             *)
JsonEscaped(c) ==
  CASE c = Quote -> <<Backslash, Quote>>
    [] c = Backslash -> <<Backslash, Backslash>>
    [] c = FormFeed -> <<Backslash, "f">>
    [] c = LineFeed -> <<Backslash, "n">>
    [] c = Return -> <<Backslash, "r">>
    [] c = Tab -> <<Backslash, "t">>
    [] c \in {"NUL", "ESC"} ->
         <<Backslash, "u", "0", "0", Nibble(ControlByte[c] \div 16),
           Nibble(ControlByte[c] % 16)>>
    [] OTHER -> <<c>>

(* A slip: the backslash goes out as it is.                                *)
JsonEscapeQuotes(chars) ==
  FlattenSeq([k \in DOMAIN chars |->
                IF chars[k] = Backslash THEN <<Backslash>> ELSE JsonEscaped(chars[k])])

JsonEscape(chars) == FlattenSeq([k \in DOMAIN chars |-> JsonEscaped(chars[k])])

JsonString(text) == Enclosed(JsonEscape(CharsOf(text)), Quote, Quote)

JsonMember(key, value) == JsonString(key) \o <<":">> \o value

(* kCsvColumns. event_to_json and append_csv_row hold the same order, each *)
(* written out by hand.                                                    *)
CsvColumns ==
  <<"timestamp", "severity", "source", "record_index", "host", "app", "pid",
    "user", "src_ip", "dst_ip", "src_port", "dst_port", "http_method",
    "http_path", "http_status", "bytes", "event_id", "channel", "provider",
    "message">>

MemberOrder == CsvColumns

CellOrder == CsvColumns

IsNumber(name) == name \in CountAttributes \cup {"record_index", "pid"}

(* What an attribute is written as, and whether there is anything to       *)
(* write: no time, no text, no process and no number but 0 are left out.   *)
Shown(name, e) ==
  CASE name = "timestamp" -> IF e.timestamp.valid THEN IsoText[e.timestamp] ELSE ""
    [] name = "severity" -> SeverityName[e.severity]
    [] name = "pid" -> IF e.pid = "-1" THEN "" ELSE e.pid
    [] name \in CountAttributes -> IF e[name] = "0" THEN "" ELSE e[name]
    [] OTHER -> e[name]

JsonFields(fields) ==
  Enclosed(Joined([k \in DOMAIN fields |->
                     JsonMember(fields[k].key, JsonString(fields[k].text))]),
           "{", "}")

(* event_to_json.                                                          *)
EventToJson(e) ==
  LET names == FlattenSeq([c \in DOMAIN MemberOrder |->
                             IF Shown(MemberOrder[c], e) = "" THEN <<>>
                             ELSE <<MemberOrder[c]>>])
      Value(name) == IF IsNumber(name) THEN CharsOf(Shown(name, e))
                     ELSE JsonString(Shown(name, e))
      members == [k \in DOMAIN names |-> JsonMember(names[k], Value(names[k]))]
  IN  Enclosed(Joined(IF e.fields = <<>> THEN members
                      ELSE Append(members, JsonMember("fields", JsonFields(e.fields)))),
               "{", "}")

(* to_ndjson.                                                              *)
ToNdjson(events) ==
  FlattenSeq([k \in DOMAIN events |-> EventToJson(events[k]) \o <<LineFeed>>])

----------------------------------------------------------------------------
(* A slip: line breaks stay outside quotes.                                *)
CsvQuoteSeparators(chars) ==
  IF \E k \in DOMAIN chars : chars[k] \in {",", Quote}
  THEN Enclosed(FlattenSeq([k \in DOMAIN chars |->
                              IF chars[k] = Quote THEN <<Quote, Quote>>
                              ELSE <<chars[k]>>]), Quote, Quote)
  ELSE chars

(* csv_quote.                                                              *)
CsvQuote(chars) ==
  IF \E k \in DOMAIN chars : chars[k] \in {",", Quote, Return, LineFeed}
  THEN Enclosed(FlattenSeq([k \in DOMAIN chars |->
                              IF chars[k] = Quote THEN <<Quote, Quote>>
                              ELSE <<chars[k]>>]), Quote, Quote)
  ELSE chars

CsvLine(texts) ==
  Joined([k \in DOMAIN texts |-> CsvQuote(CharsOf(texts[k]))]) \o <<LineFeed>>

(* to_csv: the header, and a row for each event.                           *)
ToCsv(events) ==
  CsvLine(CsvColumns)
  \o FlattenSeq([k \in DOMAIN events |->
       CsvLine([c \in DOMAIN CellOrder |-> Shown(CellOrder[c], events[k])])])

(* std::printf("%s"): a text ends at its first NUL.                        *)
Printed(chars) ==
  LET nuls == {k \in DOMAIN chars : chars[k] = "NUL"}
  IN  IF nuls = {} THEN chars
      ELSE SubSeq(chars, 1, (CHOOSE k \in nuls : \A n \in nuls : k <= n) - 1)

=============================================================================
