------------------------------ MODULE Reimport ------------------------------
(***************************************************************************)
(* The exported text ingested again, by the JSON parser of the suite.      *)
(***************************************************************************)
EXTENDS Readers

(* The JSON reader of the suite, for lines whose times are written as      *)
(* texts and whose levels are words.                                       *)
Mapper ==
  INSTANCE LogMapper WITH
    Integer <- [p \in {<<t>> : t \in DOMAIN Number} |-> Number[p[1]]],
    Fractional <- <<>>,
    Word <- [p \in {<<SeverityName[s]>> : s \in Severities} |-> p[1]],
    TimeOf <- [p \in {CharsOf(IsoText[t]) : t \in DOMAIN IsoText} |->
                 CHOOSE t \in DOMAIN IsoText : CharsOf(IsoText[t]) = p],
    MicrosPerSecond <- 1, MicrosSpan <- 2

(* The value an exported line is, its own fields in an object of theirs.   *)
ValueOf(read) ==
  LET Leaf(m) == [type |-> "leaf",
                  token |-> IF m.is = "string" THEN [is |-> "string", parts |-> m.chars]
                            ELSE [is |-> "number", text |-> m.chars[1]]]
      Object(ms) == [type |-> "object",
                     members |-> [k \in DOMAIN ms |->
                                    [key |-> ms[k].path[Len(ms[k].path)], value |-> Leaf(ms[k])]]]
      own == SelectSeq(read, LAMBDA m : Len(m.path) = 2)
      top == Object(SelectSeq(read, LAMBDA m : Len(m.path) = 1))
  IN  IF own = <<>> THEN top
      ELSE [top EXCEPT !.members = Append(@, [key |-> <<"fields">>, value |-> Object(own)])]

(* An exported event comes back: ingested as JSON, its line gives an event *)
(* of the same time, severity, message, host, application, user and source *)
(* address, and everything else it said is in the field map, its own       *)
(* fields below "fields".                                                  *)
ReimportKeeps ==
  out_kind \in {"ndjson", "json"} =>
    \A k \in DOMAIN events :
      LET e == events[k]
          read == ReadObject(LinesOf(output).done[k])
          Same(again, name) ==
            CASE name \in {"timestamp", "severity"} -> again[name] = e[name]
              [] name = "fields" ->
                   \A n \in Nameable : Carries(e, n) =>
                     /\ CharsOf(n) \in DOMAIN again.fields
                     /\ Mapper!TextOf(again.fields[CharsOf(n)].token) = CharsOf(Says(e, n))
              [] OTHER -> again[name] = Mapper!Plain(CharsOf(e[name]))
      IN  \A again \in Mapper!EventsOf(ValueOf(read)) :
            /\ \A name \in DOMAIN Mapper!Blank : Same(again, name)
            /\ \A f \in DOMAIN e.fields :
                 LET name == <<"fields">> \o CharsOf(e.fields[f].key)
                 IN  Mapper!TextOf(again.fields[name].token) = CharsOf(e.fields[f].text)

=============================================================================
