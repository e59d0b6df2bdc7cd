------------------------------ MODULE LogMapper ------------------------------
(***************************************************************************)
(* map_to_event (src/jsonlog/log_mapper.cpp): the event a parsed JSON      *)
(* value makes. A value is [type |-> "leaf", token |-> t], or an "array"   *)
(* or "object" with its members, a sequence of [key, value]; an array's    *)
(* keys are its indices. A token is a mark, [is |-> "{"] and so on; a      *)
(* "string", whose parts joined with dots are its text, <<>> the empty     *)
(* one; or a "number" or "literal" with a text. Keys are parts, too.       *)
(***************************************************************************)
EXTENDS LogEvent

CONSTANTS
  Integer,          \* parse_i64: the integers that texts are
  Fractional,       \* the microseconds of numbers of seconds that are none
  Word,             \* to_lower: the texts that are words, in lower case
  TimeOf,           \* parse_any_time: the times that texts tell
  MicrosPerSecond,
  MicrosSpan        \* 2^64, the number of values of core::i64

ASSUME MapperAssumption ==
  {MicrosPerSecond, MicrosSpan} \subseteq Nat \ {0}

Half == MicrosSpan \div 2

TextOf(token) == IF token.is = "string" THEN token.parts ELSE <<token.text>>

Is(value, kind) == value.type = "leaf" /\ value.token.is = kind

IsInt(value) == Is(value, "number") /\ TextOf(value.token) \in DOMAIN Integer

----------------------------------------------------------------------------
(* render_compact: the tokens of a value.                                  *)
Mark(m) == <<[is |-> m]>>

Closer(type) == IF type = "array" THEN "]" ELSE "}"

RECURSIVE Rendered(_)
Rendered(value) ==
  IF value.type = "leaf" THEN <<value.token>>
  ELSE LET n == Len(value.members)
           One(k) == (IF value.type = "array" THEN <<>>
                      ELSE <<[is |-> "string", parts |-> value.members[k].key]>>
                           \o Mark(":"))
                     \o Rendered(value.members[k].value)
           Upto[k \in 0 .. n] ==
             IF k = 0 THEN <<>>
             ELSE IF k = 1 THEN One(1) ELSE Upto[k - 1] \o Mark(",") \o One(k)
       IN  Mark(IF value.type = "array" THEN "[" ELSE "{") \o Upto[n]
             \o Mark(Closer(value.type))

(* to_display_string: a leaf is its plain text.                            *)
Plain(parts) == <<[is |-> "text", parts |-> parts]>>

Display(value) ==
  IF value.type = "leaf" THEN Plain(TextOf(value.token)) ELSE Rendered(value)

----------------------------------------------------------------------------
(* index_to_string, as far as an instance counts.                          *)
IndexText(i) == << <<"0", "1", "2", "3">>[i + 1] >>

(* A slip: the key inside a container stands for itself.                   *)
JoinedKeyAlone(prefix, key) == key

(* prefix + "." + key, or the key alone under an empty prefix.             *)
Dotted(prefix, key) ==
  IF prefix = <<>> THEN key
  ELSE prefix \o (IF key = <<>> THEN <<"">> ELSE key)

Put(map, name, leaf) ==
  [n \in (DOMAIN map) \cup {name} |-> IF n = name THEN leaf ELSE map[n]]

(* flatten: one field per leaf, an empty container counting as one; a name *)
(* that is set again keeps the last value.                                 *)
RECURSIVE Flatten(_, _, _)
Flatten(value, prefix, map) ==
  IF value.type = "leaf" THEN Put(map, prefix, value)
  ELSE IF value.members = <<>> THEN Put(map, prefix, value)
  ELSE LET n == Len(value.members)
           Below[k \in 0 .. n] ==
             IF k = 0 THEN map
             ELSE Flatten(value.members[k].value,
                          Dotted(prefix, value.members[k].key), Below[k - 1])
       IN  Below[n]

----------------------------------------------------------------------------
(* The alias tables.                                                       *)
Aliases ==
  [timestamp |-> <<"timestamp", "time", "@timestamp", "ts", "eventTime", "date">>,
   severity |-> <<"level", "severity", "syslog_level", "loglevel">>,
   message |-> <<"message", "msg", "log", "event", "text">>,
   host |-> <<"host", "hostname", "source_host", "computer">>,
   app |-> <<"app", "application", "program", "service", "logger", "tag">>,
   user |-> <<"user", "username", "account", "user_name", "subject">>,
   src_ip |-> <<"src_ip", "source_ip", "client_ip", "remote_addr", "ip">>]

Members(value, alias) ==
  {value.members[k].value :
     k \in {j \in DOMAIN value.members : value.members[j].key = <<alias>>}}

(* probe: the member the first alias that is there names, if any.          *)
Probe(value, attribute) ==
  LET names == Aliases[attribute]
      there == {k \in DOMAIN names : Members(value, names[k]) # {}}
  IN  IF there = {} THEN {}
      ELSE Members(value, names[CHOOSE k \in there : \A j \in there : k <= j])

(* resolve_time. The bound a fractional number is held to is 2^63 itself,  *)
(* which no i64 is: the cast leaves either end of the range.               *)
ResolvedTimes(value) ==
  IF IsInt(value)
  THEN {At(Wrapped(Integer[TextOf(value.token)] * MicrosPerSecond, MicrosSpan))}
  ELSE IF Is(value, "number")
  THEN LET micros == Fractional[TextOf(value.token)]
       IN  IF micros >= Half THEN {At(-Half), At(Half - 1)}
           ELSE {At(IF micros < -Half THEN -Half ELSE micros)}
  ELSE IF Is(value, "string") /\ TextOf(value.token) \in DOMAIN TimeOf
  THEN {TimeOf[TextOf(value.token)]}
  ELSE {Unknown}

(* resolve_severity: a number of the syslog scale, also one in quotes, or  *)
(* a word.                                                                 *)
ResolvedSeverity(value) ==
  LET text == TextOf(value.token)
  IN  IF ~(IsInt(value) \/ Is(value, "string")) THEN UnknownSeverity
      ELSE IF text \in DOMAIN Integer /\ Integer[text] \in 0 .. 7
      THEN SeverityFromSyslog(Integer[text])
      ELSE IF text \in DOMAIN Word THEN SeverityFromWord(Word[text])
      ELSE UnknownSeverity

Blank == [timestamp |-> Unknown, severity |-> UnknownSeverity,
          message |-> Plain(<<>>), host |-> Plain(<<>>), app |-> Plain(<<>>),
          user |-> Plain(<<>>), src_ip |-> Plain(<<>>), fields |-> <<>>]

(* map_to_event: the events it may return, by what the cast of a time      *)
(* leaves. Any value but an object is only a message.                      *)
EventsOf(value) ==
  IF value.type # "object" THEN {[Blank EXCEPT !.message = Display(value)]}
  ELSE
    LET Found(attribute, default, Of(_)) ==
          IF Probe(value, attribute) = {} THEN default
          ELSE Of(CHOOSE v \in Probe(value, attribute) : TRUE)
    IN  {[a \in DOMAIN Blank |->
            CASE a = "timestamp" -> t
              [] a = "severity" -> Found(a, UnknownSeverity, ResolvedSeverity)
              [] a = "fields" -> Flatten(value, <<>>, <<>>)
              [] OTHER -> Found(a, Plain(<<>>), Display)] :
           t \in Found("timestamp", {Unknown}, ResolvedTimes)}

=============================================================================
