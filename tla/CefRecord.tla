------------------------------ MODULE CefRecord ------------------------------
(***************************************************************************)
(* One line of CEF: split_header, parse_extensions and to_event of         *)
(* src/cef/parser.cpp, character by character. Characters that no scan     *)
(* tells apart come as one: a run of key characters, a run of others. A    *)
(* text is a sequence of such characters, and so is what is made of it.    *)
(***************************************************************************)
EXTENDS LogEvent, TLC

CONSTANTS
  CefLines,        \* the lines there may be
  KeyRuns,         \* runs of letters, digits, ".", "_" and "-"
  Words,           \* to_lower: the texts that are words, in lower case
  Times,           \* parse_any_time: the times that texts tell
  MaxExtensions,   \* opts.max_extensions
  MaxFieldBytes,   \* opts.max_field_bytes
  MaxU32, MaxU64,  \* 2^32 - 1 and 2^64 - 1
  MaxMicros,       \* 2^63 - 1
  MicrosPerMilli

ASSUME CefAssumption ==
  /\ {MaxExtensions, MaxFieldBytes, MaxU32, MaxU64, MaxMicros} \subseteq Nat
  /\ MicrosPerMilli \in Nat \ {0}

VARIABLES
  line,        \* the line
  last,        \* the last character of it that is read
  cursor,      \* the next one
  version,     \* the version behind the marker
  header,      \* vendor, product, version, signature, name and severity
  key,         \* the key of the pair being read
  piece,       \* the field or value being read
  extensions,  \* the pairs read
  stage,       \* "marker", "header", "pair", "value", "event" or "done"
  outcome,     \* the status of the Result
  record       \* the LogEvent

cefVars == <<line, last, cursor, version, header, key, piece, extensions,
             stage, outcome, record>>

(* What to_event sets.                                                     *)
NoRecord ==
  [timestamp |-> Unknown, severity |-> UnknownSeverity, source |-> "unknown",
   message |-> <<>>, provider |-> <<>>, app |-> <<>>, channel |-> <<>>,
   event_id |-> 0, src_ip |-> <<>>, dst_ip |-> <<>>, src_port |-> 0,
   dst_port |-> 0, user |-> <<>>, fields |-> <<>>]

InitCef ==
  /\ line \in CefLines
  /\ last = Len(line) /\ cursor = 1
  /\ version = 0 /\ header = <<>> /\ extensions = <<>>
  /\ key = <<>> /\ piece = <<>>
  /\ stage = "marker"
  /\ outcome = "parsing"
  /\ record = NoRecord

----------------------------------------------------------------------------
Digit ==
  [d \in {"0", "1", "2", "3", "4", "5", "6", "7", "8", "9"} |->
     CHOOSE n \in 0 .. 9 : ToString(n) = d]

AllDigits(text) == \A k \in DOMAIN text : text[k] \in DOMAIN Digit

Value(digits) ==
  LET upto[k \in 0 .. Len(digits)] ==
        IF k = 0 THEN 0 ELSE 10 * upto[k - 1] + Digit[digits[k]]
  IN  upto[Len(digits)]

(* parse_u64: the number a text is, if it is one.                          *)
Numbers(text) ==
  IF text # <<>> /\ AllDigits(text) /\ Value(text) <= MaxU64
  THEN {Value(text)} ELSE {}

Clamped(n) == IF n > MaxU32 THEN MaxU32 ELSE n

(* trim.                                                                   *)
Trimmed(text) ==
  LET kept == {k \in DOMAIN text : text[k] \notin {" ", "\t", "\r", "\n"}}
      First == CHOOSE k \in kept : \A j \in kept : k <= j
      Last == CHOOSE k \in kept : \A j \in kept : j <= k
  IN  IF kept = {} THEN <<>> ELSE SubSeq(text, First, Last)

IsKeyChar(c) == c \in KeyRuns

IsDigit(c) == c \in DOMAIN Digit

IsBlank(c) == c = " "

Past == cursor > last

Char == line[cursor]

(* The first place from k on without such a character.                     *)
SkipFrom(k, Such(_)) ==
  CHOOSE n \in k .. last + 1 :
    /\ \A i \in k .. n - 1 : Such(line[i])
    /\ n <= last => ~Such(line[n])

(* push_bounded.                                                           *)
Pushed(text, c) == IF Len(text) < MaxFieldBytes THEN Append(text, c) ELSE text

Refuse(status) ==
  /\ outcome' = status
  /\ stage' = "done"
  /\ UNCHANGED <<line, last, cursor, version, header, key, piece, extensions, record>>

----------------------------------------------------------------------------
(* read_version: a number too large is taken for its remainder, unless     *)
(* that is less than the number before the last digit.                     *)
VersionOf(digits) ==
  LET n == Len(digits)
      upto[k \in 0 .. n] ==
        IF k = 0 THEN 0 ELSE (10 * upto[k - 1] + Digit[digits[k]]) % (MaxU64 + 1)
  IN  IF \E k \in 1 .. n : upto[k] < upto[k - 1] THEN MaxU32 ELSE Clamped(upto[n])

Marks == {k \in 1 .. Len(line) : line[k] = "CEF:"}

(* Behind the digits that follow the first marker.                         *)
BehindVersion ==
  SkipFrom((CHOOSE k \in Marks : \A j \in Marks : k <= j) + 1, IsDigit)

HasHeader == Marks # {} /\ BehindVersion <= last /\ line[BehindVersion] = "|"

NoMarker ==
  /\ stage = "marker" /\ ~HasHeader
  /\ Refuse(IF line = <<>> THEN "Empty" ELSE "Malformed")

Marker ==
  /\ stage = "marker" /\ HasHeader
  /\ \E mark \in Marks :
       /\ \A k \in Marks : mark <= k
       /\ version' = VersionOf(SubSeq(line, mark + 1, BehindVersion - 1))
  /\ cursor' = BehindVersion + 1
  /\ stage' = "header"
  /\ UNCHANGED <<line, last, header, key, piece, extensions, outcome, record>>

FieldEnds == ~Past => Char = "|"

(* Of a backslash before any other character, or at the end, both stay.    *)
HeaderChar ==
  /\ stage = "header" /\ ~FieldEnds
  /\ LET escape == /\ Char = "\\" /\ cursor < last
                   /\ line[cursor + 1] \in {"|", "\\"}
     IN  /\ piece' = Pushed(piece, IF escape THEN line[cursor + 1] ELSE Char)
         /\ cursor' = cursor + IF escape THEN 2 ELSE 1
  /\ UNCHANGED <<line, last, version, header, key, extensions, stage, outcome, record>>

TooFewFields ==
  /\ stage = "header" /\ Past /\ Len(header) < 5
  /\ Refuse("Truncated")

HeaderField ==
  /\ stage = "header" /\ FieldEnds /\ Len(header) < 5 /\ ~Past
  /\ header' = Append(header, piece)
  /\ piece' = <<>>
  /\ cursor' = cursor + 1
  /\ UNCHANGED <<line, last, version, key, extensions, stage, outcome, record>>

(* The sixth field: all that is behind it is the extension section, cut to *)
(* the bytes a field may have.                                             *)
LastHeaderField ==
  /\ stage = "header" /\ FieldEnds /\ Len(header) = 5
  /\ header' = Append(header, piece)
  /\ piece' = <<>>
  /\ cursor' = IF Past THEN cursor ELSE SkipFrom(cursor + 1, IsBlank)
  /\ last' = IF last > cursor + MaxFieldBytes THEN cursor + MaxFieldBytes ELSE last
  /\ stage' = "pair"
  /\ UNCHANGED <<line, version, key, extensions, outcome, record>>

----------------------------------------------------------------------------
KeyEnd == SkipFrom(cursor, IsKeyChar)

(* The status that tells of it is not looked at.                           *)
TooManyPairs ==
  /\ stage = "pair" /\ ~Past /\ Len(extensions) >= MaxExtensions
  /\ stage' = "event"
  /\ UNCHANGED <<line, last, cursor, version, header, key, piece, extensions,
                 outcome, record>>

Reading == stage = "pair" /\ ~Past /\ Len(extensions) < MaxExtensions

(* A slip: what starts no key is left where it is.                         *)
NoiseStays ==
  /\ Reading /\ ~IsKeyChar(Char)
  /\ UNCHANGED cefVars

Noise ==
  /\ Reading /\ ~IsKeyChar(Char)
  /\ cursor' = cursor + 1
  /\ UNCHANGED <<line, last, version, header, key, piece, extensions, stage,
                 outcome, record>>

(* A word without an equals sign is skipped up to the next blank.          *)
NoPair ==
  /\ Reading /\ IsKeyChar(Char)
  /\ KeyEnd <= last => line[KeyEnd] # "="
  /\ cursor' = SkipFrom(SkipFrom(KeyEnd, LAMBDA c : c # " "), IsBlank)
  /\ UNCHANGED <<line, last, version, header, key, piece, extensions, stage,
                 outcome, record>>

PairKey ==
  /\ Reading /\ IsKeyChar(Char)
  /\ KeyEnd <= last /\ line[KeyEnd] = "="
  /\ key' = SubSeq(line, cursor,
                   IF KeyEnd - cursor > MaxFieldBytes THEN cursor + MaxFieldBytes - 1
                   ELSE KeyEnd - 1)
  /\ piece' = <<>>
  /\ cursor' = KeyEnd + 1
  /\ stage' = "value"
  /\ UNCHANGED <<line, last, version, header, extensions, outcome, record>>

(* A slip: any blank ends a value.                                         *)
AnyBlankEnds == ~Past => Char = " "

(* is_pair_boundary: a blank that a key and an equals sign follow.         *)
ValueEnds ==
  ~Past =>
    /\ Char = " " /\ cursor < last /\ IsKeyChar(line[cursor + 1])
    /\ LET n == SkipFrom(cursor + 1, IsKeyChar) IN n <= last /\ line[n] = "="

ValueEscape ==
  [c \in {"=", "\\", "n", "r"} |->
     CASE c = "n" -> "\n" [] c = "r" -> "\r" [] OTHER -> c]

ValueChar ==
  /\ stage = "value" /\ ~ValueEnds
  /\ LET escape == /\ Char = "\\" /\ cursor < last
                   /\ line[cursor + 1] \in DOMAIN ValueEscape
     IN  /\ piece' = Pushed(piece, IF escape THEN ValueEscape[line[cursor + 1]] ELSE Char)
         /\ cursor' = cursor + IF escape THEN 2 ELSE 1
  /\ UNCHANGED <<line, last, version, header, key, extensions, stage, outcome, record>>

PairValue ==
  /\ stage = "value" /\ ValueEnds
  /\ extensions' = Append(extensions, [key |-> key, value |-> piece])
  /\ cursor' = SkipFrom(cursor, IsBlank)
  /\ stage' = "pair"
  /\ UNCHANGED <<line, last, version, header, key, piece, outcome, record>>

PairsEnd ==
  /\ stage = "pair" /\ Past
  /\ stage' = "event"
  /\ UNCHANGED <<line, last, cursor, version, header, key, piece, extensions,
                 outcome, record>>

----------------------------------------------------------------------------
(* normalized_severity: a number, however large, or a word.                *)
NormalizedSeverity(text) ==
  LET word == IF text \in DOMAIN Words THEN Words[text] ELSE ""
  IN  CASE text = <<>> -> UnknownSeverity
        [] text # <<>> /\ AllDigits(text) ->
             IF Numbers(text) = {} \/ Value(text) > 8 THEN 2
             ELSE IF Value(text) > 6 THEN 3
             ELSE IF Value(text) > 3 THEN 4 ELSE 6
        [] OTHER ->
             CASE word = "low" -> 6 [] word = "medium" -> 4 [] word = "high" -> 3
               [] word \in {"very-high", "critical"} -> 2
               [] OTHER -> UnknownSeverity

(* parse_rt: milliseconds, or a time in any notation.                      *)
ReceivedAt(text) ==
  IF text = <<>> THEN Unknown
  ELSE IF AllDigits(text)
  THEN IF Value(text) <= MaxMicros \div MicrosPerMilli
       THEN At(Value(text) * MicrosPerMilli)
       ELSE Unknown
  ELSE IF text \in DOMAIN Times THEN Times[text] ELSE Unknown

(* parse_port.                                                             *)
Port(text) ==
  IF Numbers(Trimmed(text)) = {} THEN 0
  ELSE Clamped(CHOOSE n \in Numbers(Trimmed(text)) : TRUE)

Provider(vendor, product) ==
  IF vendor = <<>> \/ product = <<>> THEN vendor \o product
  ELSE vendor \o <<" ">> \o product

(* The field map: the pairs in their order, then the header.               *)
FieldsOf(pairs, names) ==
  LET n == Len(pairs)
      upto[k \in 0 .. n + Len(names)] ==
        IF k = 0 THEN <<>>
        ELSE LET entry == IF k <= n THEN pairs[k] ELSE names[k - n]
             IN  FieldSet(upto[k - 1], entry.key, entry.value)
  IN  upto[n + Len(names)]

HeaderNames ==
  SelectSeq(<<[key |-> <<"cef.signatureId">>, value |-> header[4]],
              [key |-> <<"cef.name">>, value |-> header[5]],
              [key |-> <<"cef.deviceVersion">>, value |-> header[3]]>>,
            LAMBDA entry : entry.value # <<>>)
  \o <<[key |-> <<"cef.version">>, value |-> <<ToString(version)>>]>>

(* to_event: the first address, port and user that says something, the     *)
(* last receipt time that is one, the last message.                        *)
ToEvent ==
  LET Of(keys) == {k \in DOMAIN extensions : extensions[k].key \in keys}
      value == [k \in DOMAIN extensions |-> extensions[k].value]
      FirstOf(ks) == CHOOSE k \in ks : \A j \in ks : k <= j
      LastOf(ks) == CHOOSE k \in ks : \A j \in ks : j <= k
      FirstText(keys) ==
        LET said == {k \in Of(keys) : value[k] # <<>>}
        IN  IF said = {} THEN <<>> ELSE value[FirstOf(said)]
      FirstPort(name) ==
        LET said == {k \in Of({<<name>>}) : Port(value[k]) # 0}
        IN  IF said = {} THEN 0 ELSE Port(value[FirstOf(said)])
      received == {k \in Of({<<"rt">>}) : ReceivedAt(Trimmed(value[k])).valid}
      messages == Of({<<"msg">>})
      signature == Numbers(Trimmed(header[4]))
  IN  [timestamp |-> IF received = {} THEN Unknown
                     ELSE ReceivedAt(Trimmed(value[LastOf(received)])),
       severity |-> SeverityFromSyslog(NormalizedSeverity(Trimmed(header[6]))),
       message |-> IF messages = {} THEN header[5] ELSE value[LastOf(messages)],
       provider |-> Provider(Trimmed(header[1]), Trimmed(header[2])),
       source |-> "unknown",
       app |-> Trimmed(header[2]),
       channel |-> Trimmed(header[2]),
       event_id |-> IF signature = {} THEN 0 ELSE Clamped(CHOOSE n \in signature : TRUE),
       src_ip |-> FirstText({<<"src">>, <<"dvc">>}),
       dst_ip |-> FirstText({<<"dst">>}),
       src_port |-> FirstPort("spt"),
       dst_port |-> FirstPort("dpt"),
       user |-> FirstText({<<"suser">>, <<"duser">>}),
       fields |-> FieldsOf(extensions, HeaderNames)]

MakeEvent ==
  /\ stage = "event"
  /\ record' = ToEvent
  /\ outcome' = "Ok"
  /\ stage' = "done"
  /\ UNCHANGED <<line, last, cursor, version, header, key, piece, extensions>>

CefStep ==
  \/ NoMarker \/ Marker
  \/ HeaderChar \/ TooFewFields \/ HeaderField \/ LastHeaderField
  \/ TooManyPairs \/ Noise \/ NoPair \/ PairKey
  \/ ValueChar \/ PairValue \/ PairsEnd
  \/ MakeEvent

=============================================================================
