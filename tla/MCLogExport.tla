---------------------------- MODULE MCLogExport ----------------------------
EXTENDS Reimport, TLC

(* In byte order: digits before capitals before small letters, and 10      *)
(* before 9.                                                               *)
MCTexts ==
  <<"", "!=", "!~", "-1", "0", "10", "2", "9", "99", "<", "<=", "=", ">", ">=", "AND",
    "C:\\n", "Or", "Severity", "WEB", "a,\"b\"\r\n", "alert", "and", "d", "error",
    "host", "l\nm", "or", "raw", "severity", "status", "syslog", "unknown", "web", "~">>

(* Separators, quotes and line breaks; a backslash before a letter of the  *)
(* escapes; control characters that have no short escape.                  *)
MCSpelling ==
  ("a,\"b\"\r\n" :> <<"a", ",", "\"", "b", "\"", "\r", "\n">>)
  @@ ("C:\\n" :> <<"C:", "\\", "n">>)
  @@ ("l\nm" :> <<"l", "\n", "m">>)
  @@ ("raw" :> <<"r", "ESC", "NUL", "\t">>)

MCLower == [t \in {MCTexts[k] : k \in DOMAIN MCTexts} |->
              CASE t = "WEB" -> "web" [] t = "AND" -> "and" [] t = "Or" -> "or"
                [] t = "Severity" -> "severity" [] OTHER -> t]

MCNumber == [t \in {"-1", "0", "10", "2", "9", "99"} |->
               CASE t = "-1" -> -1 [] t = "0" -> 0 [] t = "10" -> 10
                 [] t = "2" -> 2 [] t = "9" -> 9 [] OTHER -> 99]

MCHolds == {<<a, a>> : a \in {"error", "unknown", "web", "9", "99", ""}}
           \cup {<<a, "">> : a \in {"web", "9"}} \cup {<<"99", "9">>}

MCIsoText == (At(3) :> "1970-01-01T00:00:00.000003Z")

Field(key, text) == [key |-> key, text |-> text]

Parsed == [BlankEvent EXCEPT !.source = "syslog"]

(* An error from web at a known time, an event of unknown severity whose   *)
(* own fields are numbers and texts, one without host whose own fields say *)
(* host.                                                                   *)
MCEvents ==
  {[Parsed EXCEPT !.timestamp = At(3), !.severity = 3, !.http_status = "9",
                  !.host = "web", !.pid = "0", !.record_index = "2",
                  !.message = "a,\"b\"\r\n", !.http_path = "C:\\n"],
   [Parsed EXCEPT !.http_status = "10", !.record_index = "9", !.app = "l\nm",
                  !.fields = <<Field("C:\\n", "a,\"b\"\r\n"), Field("d", "99")>>],
   [Parsed EXCEPT !.severity = 1, !.http_status = "99", !.record_index = "0",
                  !.user = "raw",
                  !.fields = <<Field("host", "WEB"), Field("d", "web")>>]}

Token(kind, text) == [is |-> kind, text |-> text]

P(field, op, value) ==
  <<Token("name", field), Token("op", op),
    Token(IF value = "web" THEN "quoted" ELSE "name", value)>>

Predicates ==
  {P("severity", ">=", "error"), P("severity", ">", "unknown"),
   P("Severity", "<=", "2"), P("status", ">=", "10"), P("host", "=", "WEB"),
   P("host", "!~", "web"), P("d", ">", "9")}

And == <<Token("name", "AND")>>
Or == <<Token("name", "Or")>>

(* One token of every kind, a keyword among them.                          *)
Alphabet ==
  {Token("name", "and"), Token("name", "d"), Token("long", "d"), Token("op", "="),
   Token("quoted", "web"), Token("open", "web"), Token("junk", "9")}

Grammatical ==
  Predicates \cup {a \o k \o b : a, b \in Predicates, k \in {And, Or}}

(* An expression cut short, or with one token changed, left out or added.  *)
Broken(d) ==
  {SubSeq(d, 1, k) : k \in 0 .. Len(d)}
  \cup {[d EXCEPT ![k] = t] : k \in DOMAIN d, t \in Alphabet}
  \cup {SubSeq(d, 1, k - 1) \o SubSeq(d, k + 1, Len(d)) : k \in DOMAIN d}
  \cup {Append(d, t) : t \in Alphabet}

(* Every expression of up to two tokens, grammatical ones of one to three  *)
(* predicates, what is a slip away from them, and some of four predicates. *)
MCExpressions ==
  UNION {[1 .. n -> Alphabet] : n \in 0 .. 2}
  \cup Grammatical
  \cup UNION {Broken(d) : d \in {P("host", "!~", "web"),
                  P("d", ">", "9") \o Or \o P("severity", ">", "unknown")}}
  \cup {a \o k \o b \o m \o c :
            a, b, c \in {P("severity", ">=", "error"), P("host", "=", "WEB"),
                         P("d", ">", "9")},
            k, m \in {And, Or}}
  \cup {a \o Or \o a \o Or \o a \o And \o b :
            a \in Predicates, b \in {P("d", ">", "9"), Or}}
=============================================================================
