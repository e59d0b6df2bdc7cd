------------------------------ MODULE LogExport ------------------------------
(***************************************************************************)
(* The logexport tool: ingest, compile the filter, keep the events it      *)
(* matches in a new stream that replaces the old one, and print that       *)
(* stream as the text asked for.                                           *)
(***************************************************************************)
EXTENDS EventStream, Filter, Writer

CONSTANTS
  Events,       \* the LogEvents the parsers may add
  MaxEvents,    \* bound on the length of the stream
  Expressions,  \* the filter expressions the user may type
  OutKinds      \* the output formats the user may name

ASSUME ExportAssumption ==
  MaxEvents \in Nat /\ \A typed \in Expressions : typed \in Seq(Tokens)

(* The events have a level and texts of the instance.                      *)
ASSUME EventTexts ==
  \A e \in Events :
    /\ e.severity \in Severities
    /\ \A a \in TextAttributes \cup CountAttributes \cup {"source"} :
         e[a] \in {Texts[k] : k \in DOMAIN Texts}
    /\ \A k \in DOMAIN e.fields :
         e.fields[k].text \in {Texts[i] : i \in DOMAIN Texts}

(* A time is unknown or has a text, a source has a name, and a number is a *)
(* text of digits and a sign.                                              *)
ASSUME EventRecords ==
  \A e \in Events :
    /\ e.timestamp = Unknown \/ (e.timestamp.valid /\ e.timestamp \in DOMAIN IsoText)
    /\ e.source # ""
    /\ \A a \in CountAttributes \cup {"pid", "record_index"} :
         e[a] \notin SpecialChars \cup DOMAIN Spelling \cup {""}
    /\ e.fields \in Seq([key : STRING, text : STRING])

VARIABLES
  tokens,    \* the expression as typed
  source,    \* the ingested events the filter loop has yet to look at
  ingested,  \* all of them
  out_kind,  \* the output format, "" until it is looked at
  output,    \* what is printed, character by character
  pc         \* "ingest", "parse", "filter", "written" or "error"

outVars == <<out_kind, output>>

vars == <<streamVars, filterVars, tokens, source, ingested, outVars, pc>>

Init ==
  /\ InitStream
  /\ tokens \in Expressions
  /\ InitFilter(tokens)
  /\ source = <<>> /\ ingested = <<>>
  /\ out_kind = "" /\ output = <<>>
  /\ pc = "ingest"

Ingest ==
  /\ pc = "ingest"
  /\ Len(events) < MaxEvents
  /\ \E e \in Events : Add(e)
  /\ UNCHANGED <<filterVars, tokens, source, ingested, pc, outVars>>

CompileFilter ==
  /\ pc = "ingest"
  /\ pc' = "parse"
  /\ UNCHANGED <<streamVars, filterVars, tokens, source, ingested, outVars>>

Parse ==
  /\ pc = "parse"
  /\ ParseStep
  /\ UNCHANGED <<streamVars, tokens, source, ingested, pc, outVars>>

BadFilter ==
  /\ pc = "parse" /\ status \notin {"parsing", "Ok"}
  /\ pc' = "error"
  /\ UNCHANGED <<streamVars, filterVars, tokens, source, ingested, outVars>>

(* The filtered stream starts empty, its span of times too.                *)
StartFilter ==
  /\ pc = "parse" /\ status = "Ok"
  /\ pc' = "filter"
  /\ source' = events /\ ingested' = events
  /\ events' = <<>>
  /\ earliest' = Unknown /\ latest' = Unknown
  /\ UNCHANGED <<filterVars, tokens, outVars>>

Keep ==
  /\ pc = "filter" /\ source # <<>>
  /\ FilterMatches(Head(source))
  /\ Add(Head(source))
  /\ source' = Tail(source)
  /\ UNCHANGED <<filterVars, tokens, ingested, pc, outVars>>

Drop ==
  /\ pc = "filter" /\ source # <<>>
  /\ ~FilterMatches(Head(source))
  /\ source' = Tail(source)
  /\ UNCHANGED <<streamVars, filterVars, tokens, ingested, pc, outVars>>

Written == pc = "filter" /\ source = <<>>

WriteCsv ==
  /\ Written
  /\ "csv" \in OutKinds
  /\ out_kind' = "csv"
  /\ output' = Printed(ToCsv(events))
  /\ pc' = "written"
  /\ UNCHANGED <<streamVars, filterVars, tokens, source, ingested>>

WriteNdjson ==
  /\ Written
  /\ \E kind \in OutKinds \cap {"ndjson", "json"} : out_kind' = kind
  /\ output' = Printed(ToNdjson(events))
  /\ pc' = "written"
  /\ UNCHANGED <<streamVars, filterVars, tokens, source, ingested>>

(* The name of the format is looked at only here, behind all the work.     *)
BadOutKind ==
  /\ Written
  /\ \E kind \in OutKinds \ {"csv", "ndjson", "json"} : out_kind' = kind
  /\ pc' = "error"
  /\ UNCHANGED <<streamVars, filterVars, tokens, source, ingested, output>>

Next ==
  \/ Ingest \/ CompileFilter \/ Parse \/ BadFilter
  \/ StartFilter \/ Keep \/ Drop
  \/ WriteCsv \/ WriteNdjson \/ BadOutKind

Spec == Init /\ [][Next]_vars

----------------------------------------------------------------------------
(* Three tokens a predicate and a keyword between two of them.             *)
Typed(i) ==
  [field |-> tokens[4 * i - 3].text, op |-> tokens[4 * i - 2].text,
   value |-> tokens[4 * i - 1].text]

(* The expression as typed joins predicate i to those before it by OR, or  *)
(* begins with it.                                                         *)
Opens(i) == i = 1 \/ IsOr(tokens[4 * i - 4])

(* Left-to-right evaluation, said without the loop: the expression holds   *)
(* when some predicate that opens it or follows an OR holds and so does    *)
(* every predicate that is joined by AND anywhere after it.                *)
Satisfies(e) ==
  LET n == (Len(tokens) + 1) \div 4
  IN  \/ tokens = <<>>
      \/ \E j \in 1 .. n :
           /\ Opens(j) /\ Matches(Typed(j), e)
           /\ \A i \in j + 1 .. n : ~Opens(i) => Matches(Typed(i), e)

Asked == {k \in DOMAIN ingested : Satisfies(ingested[k])}

(* What is exported is what was asked for: the ingested events that        *)
(* satisfy the expression as typed, all of them, in their order.           *)
ExportsWhatWasAsked ==
  pc = "written" =>
    /\ Len(events) = Cardinality(Asked)
    /\ \A k \in Asked : events[Cardinality({j \in Asked : j <= k})] = ingested[k]

(* What the grammar has at a place of the expression.                      *)
TokenFits(k, token) ==
  /\ k % 4 = 1 => token.is = "name"
  /\ k % 4 = 2 => token.is = "op"
  /\ k % 4 = 3 => token.is \notin {"open", "long"}
  /\ k % 4 = 0 => IsAnd(token) \/ IsOr(token)

InTheGrammar ==
  /\ Len(tokens) % 4 = 3
  /\ \A k \in DOMAIN tokens : TokenFits(k, tokens[k])

(* The parser accepts the language of the grammar at the head of the file, *)
(* up to its limits, and nothing else.                                     *)
AcceptsTheGrammar ==
  /\ status = "Ok" =>
       tokens = <<>> \/ (InTheGrammar /\ Len(tokens) < 4 * MaxPredicates)
  /\ status \in {"Malformed", "InvalidField"} => ~InTheGrammar /\ tokens # <<>>
  /\ status = "LimitExceeded" =>
       \/ Len(tokens) > 4 * MaxPredicates
       \/ \E k \in DOMAIN tokens : tokens[k].is = "long"

(* Severities order by what they mean, although the scale runs backwards,  *)
(* numbers and words name levels, and unknown stands at no end of it: >=   *)
(* against a known level matches what at_least_as_severe holds of, and an  *)
(* unknown severity is below every known one. On any field the orderings   *)
(* are total where it is present and match nothing where it is absent.     *)
OrderingsSound ==
  \A k \in DOMAIN predicates : \A e \in Events :
    LET p == predicates[k]
        M(op) == Matches([p EXCEPT !.op = op], e)
        present == Resolved(p.field, e).present
        level == IF p.value \in DOMAIN Number
                 THEN SeverityFromSyslog(Number[p.value])
                 ELSE SeverityFromWord(Lower[p.value])
    IN  /\ M("<=") = (present /\ ~M(">"))
        /\ M(">=") = (present /\ ~M("<"))
        /\ ~(M("<") /\ M(">"))
        /\ Lower[p.field] = "severity" /\ level \in 0 .. 7 =>
             /\ M(">=") = AtLeastAsSevere(e.severity, level)
             /\ M("<=") = (e.severity \in level .. UnknownSeverity)

=============================================================================
