----------------------------- MODULE LineRecords -----------------------------
(***************************************************************************)
(* A line that is a record of named values: one of JSON, read by           *)
(* JsonRecord, or one of CEF, read by CefRecord.                           *)
(***************************************************************************)
EXTENDS JsonRecord, CefRecord, SequencesExt

CONSTANT Sent   \* CEF records an appliance may send

VARIABLE language   \* of the line: "json" or "cef"

vars == <<language, jsonVars, cefVars>>

(* The variables of the parser that is not called.                         *)
JsonIdle ==
  /\ text = <<>> /\ pos = 1 /\ stack = <<>> /\ total = 0
  /\ next = "done" /\ root = None /\ status = "idle" /\ event = Blank

CefIdle ==
  /\ line = <<>> /\ last = 0 /\ cursor = 1
  /\ version = 0 /\ header = <<>> /\ key = <<>> /\ piece = <<>>
  /\ extensions = <<>> /\ stage = "done" /\ outcome = "idle"
  /\ record = NoRecord

Init ==
  \/ language = "json" /\ InitJson /\ CefIdle
  \/ language = "cef" /\ InitCef /\ JsonIdle

Next ==
  /\ UNCHANGED language
  /\ \/ JsonStep /\ UNCHANGED cefVars
     \/ CefStep /\ UNCHANGED jsonVars

(* A sequential function that is called runs to its return.                *)
Spec == Init /\ [][Next]_vars /\ WF_vars(Next)

----------------------------------------------------------------------------
(* What an appliance sends, as the format has it: [version, header, pairs],*)
(* separators escaped, line breaks in values too.                          *)
Escaped(chars, escapes) ==
  FlattenSeq([k \in DOMAIN chars |->
                IF chars[k] \in DOMAIN escapes THEN <<"\\", escapes[chars[k]]>>
                ELSE <<chars[k]>>])

HeaderEscapes == [c \in {"|", "\\"} |-> c]

PairEscapes == ("=" :> "=") @@ ("\\" :> "\\") @@ ("\n" :> "n") @@ ("\r" :> "r")

SentLine(sent) ==
  <<"CEF:">> \o sent.version
  \o FlattenSeq([k \in 1 .. 6 |-> <<"|">> \o Escaped(sent.header[k], HeaderEscapes)])
  \o <<"|">>
  \o FlattenSeq([k \in DOMAIN sent.pairs |->
       (IF k = 1 THEN <<>> ELSE <<" ">>) \o sent.pairs[k].key \o <<"=">>
         \o Escaped(sent.pairs[k].value, PairEscapes)])

Sendings == {[sent |-> sent, as |-> SentLine(sent)] : sent \in Sent}

(* A record survives the way from the appliance into the event, whatever   *)
(* pipes, equals signs, blanks and backslashes its texts hold: its header  *)
(* and its pairs up to the limit are read as they were sent, none joined   *)
(* with another or cut in two, and the fields of the event tell the last   *)
(* value of each key but those the header itself is stored under.          *)
CefReadsBack ==
  language = "cef" /\ stage = "done" =>
    \A s \in Sendings :
      line = s.as =>
        /\ outcome = "Ok"
        /\ header = s.sent.header
        /\ version = Clamped(Value(s.sent.version))
        /\ IsPrefix(extensions, s.sent.pairs)
        /\ extensions # s.sent.pairs => Len(extensions) = MaxExtensions
        /\ \A k \in DOMAIN extensions :
             \/ FieldText(record.fields, extensions[k].key) = extensions[k].value
             \/ \E j \in k + 1 .. Len(extensions) : extensions[j].key = extensions[k].key
             \/ extensions[k].key \in {HeaderNames[n].key : n \in DOMAIN HeaderNames}

(* Whatever a line holds, noise and half a pair too, the parsers return.   *)
ParsersReturn == <>(IF language = "json" THEN next = "done" ELSE stage = "done")

=============================================================================
