------------------------------ MODULE Readers -------------------------------
(***************************************************************************)
(* What a consumer makes of the text logexport prints: a reader of CSV as  *)
(* RFC 4180 has it and one of JSON objects, a line each, which share       *)
(* nothing with the writers but the names of the characters.               *)
(***************************************************************************)
EXTENDS LogExport

(* The state of a reader behind the last character or token. FoldLeft of   *)
(* SequencesExt says the same, and takes cubic time.                       *)
Scan(Step(_, _), start, input) ==
  LET reader[k \in 0 .. Len(input)] ==
        IF k = 0 THEN start ELSE Step(reader[k - 1], input[k])
  IN  reader[Len(input)]

LineStep(r, c) ==
  IF c = LineFeed THEN [done |-> Append(r.done, r.open), open |-> <<>>]
  ELSE [done |-> r.done, open |-> Append(r.open, c)]

(* What stands before each line feed, and what behind the last.            *)
LinesOf(text) == Scan(LineStep, [done |-> <<>>, open |-> <<>>], text)

----------------------------------------------------------------------------
(* at: "start" of a cell, in a "plain" or a "quoted" one, behind a "quote" *)
(* in it, or "bad".                                                        *)
CsvAt(at, cell, row, rows) ==
  [at |-> at, cell |-> cell, row |-> row, rows |-> rows]

(* One character of CSV.                                                   *)
CsvStep(r, c) ==
  LET Stay(at) == CsvAt(at, r.cell, r.row, r.rows)
      Take(at) == CsvAt(at, Append(r.cell, c), r.row, r.rows)
      row == Append(r.row, r.cell)
      between == r.at \in {"start", "plain", "quote"}
  IN  CASE r.at = "quoted" -> IF c = Quote THEN Stay("quote") ELSE Take("quoted")
        [] r.at = "quote" /\ c = Quote -> Take("quoted")
        [] r.at = "start" /\ c = Quote -> Stay("quoted")
        [] between /\ c = "," -> CsvAt("start", <<>>, row, r.rows)
        [] between /\ c = LineFeed ->
             CsvAt("start", <<>>, <<>>, Append(r.rows, row))
        [] r.at \in {"start", "plain"} /\ c \notin {",", Quote, LineFeed, Return} ->
             Take("plain")
        [] OTHER -> Stay("bad")

(* The rows of a CSV text, each a sequence of cells.                       *)
ReadCsv(text) == Scan(CsvStep, CsvAt("start", <<>>, <<>>, <<>>), text)

CsvComplete(r) == r.at = "start" /\ r.cell = <<>> /\ r.row = <<>>

----------------------------------------------------------------------------
Unescape ==
  [c \in {Quote, Backslash, "f", "n", "r", "t"} |->
     CASE c = "f" -> FormFeed [] c = "n" -> LineFeed [] c = "r" -> Return
       [] c = "t" -> Tab [] OTHER -> c]

(* The control characters that have only a number.                         *)
OfHex(digits) ==
  CASE digits = <<"0", "0", "0", "0">> -> "NUL"
    [] digits = <<"0", "0", "1", "b">> -> "ESC"
    [] OTHER -> "other"

Controls == {Tab, LineFeed, Return, FormFeed, "NUL", "ESC"}

(* at: "out" of a string, "in" one, behind a backslash ("esc"), in the     *)
(* digits of a \u ("hex"), or "bad". A token is [is, chars].               *)
JsonAt(at, chars, hex, done) ==
  [at |-> at, chars |-> chars, hex |-> hex, tokens |-> done]

(* One character of JSON.                                                  *)
JsonStep(r, c) ==
  LET Go(at) == JsonAt(at, r.chars, <<>>, r.tokens)
      Take(d) == JsonAt("in", Append(r.chars, d), <<>>, r.tokens)
      Push(kind, chars) ==
        JsonAt("out", <<>>, <<>>, Append(r.tokens, [is |-> kind, chars |-> chars]))
      digits == Append(r.hex, c)
  IN  CASE r.at = "hex" -> IF Len(digits) = 4 THEN Take(OfHex(digits))
                           ELSE JsonAt("hex", r.chars, digits, r.tokens)
        [] r.at = "esc" /\ c = "u" -> Go("hex")
        [] r.at = "esc" /\ c \in DOMAIN Unescape -> Take(Unescape[c])
        [] r.at = "in" /\ c = Quote -> Push("string", r.chars)
        [] r.at = "in" /\ c = Backslash -> Go("esc")
        [] r.at = "in" /\ c \notin Controls \cup {Quote, Backslash} -> Take(c)
        [] r.at = "out" /\ c = Quote -> Go("in")
        [] r.at = "out" /\ c \in {"{", "}", ":", ","} -> Push(c, <<>>)
        [] r.at = "out" /\ c \notin SpecialChars -> Push("number", <<c>>)
        [] OTHER -> Go("bad")

JsonTokens(text) == Scan(JsonStep, JsonAt("out", <<>>, <<>>, <<>>), text)

(* next: what may come next, or "bad"; path: the keys of the objects that  *)
(* are open around it; members so far: [path, is, chars].                  *)
ObjectAt(next, path, members) ==
  [next |-> next, path |-> path, members |-> members]

(* One token of an object that holds strings, numbers and objects.         *)
ObjectStep(r, t) ==
  LET Go(next) == ObjectAt(next, r.path, r.members)
      member == [path |-> r.path, is |-> t.is, chars |-> t.chars]
  IN  CASE r.next \in {"key", "member"} /\ t.is = "string" ->
             ObjectAt("colon", Append(r.path, t.chars), r.members)
        [] r.next = "colon" /\ t.is = ":" -> Go("value")
        [] r.next = "value" /\ t.is \in {"string", "number"} ->
             ObjectAt("comma", Front(r.path), Append(r.members, member))
        [] r.next = "value" /\ t.is = "{" -> Go("key")
        [] r.next = "comma" /\ t.is = "," -> Go("member")
        [] r.next \in {"key", "comma"} /\ t.is = "}" ->
             IF r.path = <<>> THEN Go("end")
             ELSE ObjectAt("comma", Front(r.path), r.members)
        [] OTHER -> Go("bad")

(* The members of the object a line of JSON is, in their order, those of   *)
(* objects inside it by their path; or "bad".                              *)
ReadObject(line) ==
  LET lexed == JsonTokens(line)
      read == Scan(ObjectStep, ObjectAt("key", <<>>, <<>>), Tail(lexed.tokens))
  IN  IF /\ lexed.at = "out" /\ lexed.tokens # <<>>
         /\ Head(lexed.tokens).is = "{" /\ read.next = "end"
      THEN read.members ELSE <<"bad">>

----------------------------------------------------------------------------
(* What an event says of an attribute, and whether it says anything.       *)
Carries(e, name) ==
  \/ name \in {"severity", "source", "record_index"}
  \/ e[name] # BlankEvent[name]

Says(e, name) ==
  IF name = "timestamp" THEN IsoText[e.timestamp]
  ELSE IF name = "severity" THEN SeverityName[e.severity] ELSE e[name]

Nameable == DOMAIN BlankEvent \ {"fields"}

(* The printed CSV, read back, is the table of the exported events: each   *)
(* cell stands in the column of its name and says what the event says,     *)
(* whatever commas, quotes and line breaks the texts hold. A NUL in a text *)
(* ends what is printed, so events with one are left aside.                *)
CsvReadsBack ==
  out_kind = "csv" /\ "NUL" \notin Range(ToCsv(events)) =>
    LET read == ReadCsv(output)
        header == Head(read.rows)
        Column(name) == CHOOSE c \in DOMAIN header : header[c] = CharsOf(name)
    IN  /\ CsvComplete(read)
        /\ Len(read.rows) = Len(events) + 1
        /\ Range(header) = {CharsOf(name) : name \in Nameable}
        /\ \A k \in DOMAIN events : \A name \in Nameable :
             LET cell == read.rows[k + 1][Column(name)]
             IN  cell = IF Carries(events[k], name)
                        THEN CharsOf(Says(events[k], name)) ELSE <<>>

(* The printed NDJSON, read back, has a line for each exported event, and  *)
(* the object in it says all the event says, no more, its own fields last  *)
(* and in their order, whatever characters the texts hold.                 *)
NdjsonReadsBack ==
  out_kind \in {"ndjson", "json"} =>
    LET lines == LinesOf(output)
        Kind(name) == IF name \in TextAttributes \cup {"timestamp", "severity", "source"}
                      THEN "string" ELSE "number"
        Member(e, name) ==
          [path |-> <<CharsOf(name)>>, is |-> Kind(name), chars |-> CharsOf(Says(e, name))]
        Own(field) == [path |-> <<<<"fields">>, CharsOf(field.key)>>, is |-> "string",
                       chars |-> CharsOf(field.text)]
    IN  /\ lines.open = <<>>
        /\ Len(lines.done) = Len(events)
        /\ \A k \in DOMAIN events :
             LET e == events[k]
                 own == [n \in DOMAIN e.fields |-> Own(e.fields[n])]
                 read == ReadObject(lines.done[k])
                 top == SubSeq(read, 1, Len(read) - Len(own))
             IN  /\ read = top \o own
                 /\ IsInjective(top)
                 /\ Range(top) =
                      {Member(e, name) : name \in {n \in Nameable : Carries(e, n)}}

=============================================================================
