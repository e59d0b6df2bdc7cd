------------------------------- MODULE Filter -------------------------------
(***************************************************************************)
(* The filter language of src/query/filter.cpp: how an expression compiles *)
(* to predicates joined by AND and OR, and which events it matches.        *)
(*                                                                         *)
(* An expression is a sequence of tokens that white space separates. Texts *)
(* are names; what the code asks of a text (its place in byte order, its   *)
(* lower-case form, the number it says) is given by constants. No text has *)
(* white space at its ends.                                                *)
(***************************************************************************)
EXTENDS LogEvent, FiniteSets

CONSTANTS
  Texts,           \* every text of the instance, as a sequence in byte order
  Lower,           \* to_lower, a function on the texts
  Number,          \* parse_i64, a function on the texts that are numbers
  Holds,           \* the pairs <<a, b>> of lower-case texts: b is in a
  MaxPredicates    \* kMaxPredicates

ASSUME FilterAssumption == MaxPredicates \in Nat \ {0}

VARIABLES
  expr,          \* the tokens of the expression still to read
  predicates,    \* predicates_
  conjunctions,  \* conjunctions_
  pending,       \* pending_conj
  expecting,     \* expecting_predicate
  status         \* "parsing", or the status parse_filter returned

filterVars == <<expr, predicates, conjunctions, pending, expecting, status>>

(* A token: [is |-> kind, text |-> its text].                              *)
TokenKinds == {"name",    \* a run of the characters of field names
               "long",    \* one of more than kMaxTokenLen of them
               "op",      \* an operator
               "quoted",  \* a text in quotes, which text is without
               "open",    \* a quote that is not closed, up to the end
               "junk"}    \* anything else

Operators == {"=", "!=", "~", "!~", "<", "<=", ">", ">="}

(* Texts have their place in the order, and operators are texts too.       *)
ASSUME WordsAssumption ==
  /\ DOMAIN Texts \subseteq Nat
  /\ Operators \cup {""} \subseteq {Texts[k] : k \in DOMAIN Texts}
  /\ \A t \in DOMAIN Number : Number[t] \in Int

Tokens ==
  [is : TokenKinds \ {"op"}, text : {Texts[k] : k \in DOMAIN Texts}]
  \cup [is : {"op"}, text : Operators]

TokenIs(k, kinds) == k <= Len(expr) /\ expr[k].is \in kinds

(* AND and OR are names too, and keywords only where one is expected.      *)
IsAnd(token) == token.is = "name" /\ Lower[token.text] = "and"

IsOr(token) == token.is = "name" /\ Lower[token.text] = "or"

(* parse_op, behind the field name.                                        *)
HasOperator == TokenIs(2, {"op"})

(* read_value: a quoted text, or whatever stands up to the next space.     *)
ValueStatus ==
  IF TokenIs(3, {"long"}) THEN "LimitExceeded"
  ELSE IF TokenIs(3, {"name", "op", "quoted", "junk"}) THEN "Ok"
  ELSE "Malformed"

(* parse_predicate: the field, the operator, the value.                    *)
PredicateStatus ==
  IF TokenIs(1, {"long"}) THEN "LimitExceeded"
  ELSE IF ~TokenIs(1, {"name"}) THEN "InvalidField"
  ELSE IF ~HasOperator THEN "Malformed"
  ELSE ValueStatus

PredicateRead ==
  [field |-> expr[1].text, op |-> expr[2].text, value |-> expr[3].text]

----------------------------------------------------------------------------
(* parse_filter.                                                           *)
InitFilter(tokens) ==
  /\ expr = tokens
  /\ predicates = <<>> /\ conjunctions = <<>>
  /\ pending = "AND"
  /\ expecting = TRUE
  /\ status = "parsing"

Fail(code) ==
  /\ status' = code
  /\ UNCHANGED <<expr, predicates, conjunctions, pending, expecting>>

(* Filter::add: the first predicate has no conjunction before it.          *)
AddPredicate(p, conj_with_previous) ==
  /\ conjunctions' = IF predicates = <<>> THEN conjunctions
                     ELSE Append(conjunctions, conj_with_previous)
  /\ predicates' = Append(predicates, p)

Reading == status = "parsing" /\ expr # <<>>

TooManyPredicates ==
  /\ Reading /\ expecting /\ Len(predicates) >= MaxPredicates
  /\ Fail("LimitExceeded")

BadPredicate ==
  /\ Reading /\ expecting /\ Len(predicates) < MaxPredicates
  /\ PredicateStatus # "Ok"
  /\ Fail(PredicateStatus)

ReadPredicate ==
  /\ Reading /\ expecting /\ Len(predicates) < MaxPredicates
  /\ PredicateStatus = "Ok"
  /\ AddPredicate(PredicateRead, pending)
  /\ expecting' = FALSE
  /\ expr' = SubSeq(expr, 4, Len(expr))
  /\ UNCHANGED <<pending, status>>

ReadKeyword ==
  /\ Reading /\ ~expecting
  /\ \/ IsAnd(Head(expr)) /\ pending' = "AND"
     \/ IsOr(Head(expr)) /\ pending' = "OR"
  /\ expecting' = TRUE
  /\ expr' = Tail(expr)
  /\ UNCHANGED <<predicates, conjunctions, status>>

BadKeyword ==
  /\ Reading /\ ~expecting
  /\ ~IsAnd(Head(expr)) /\ ~IsOr(Head(expr))
  /\ Fail("Malformed")

(* A slip: a dangling keyword is ignored.                                  *)
EndOfAnyExpression ==
  /\ status = "parsing" /\ expr = <<>>
  /\ Fail("Ok")

(* A dangling keyword is an error; nothing at all is the universal filter. *)
EndOfExpression ==
  /\ status = "parsing" /\ expr = <<>>
  /\ Fail(IF expecting /\ predicates # <<>> THEN "Malformed" ELSE "Ok")

ParseStep ==
  \/ TooManyPredicates
  \/ BadPredicate
  \/ ReadPredicate
  \/ ReadKeyword
  \/ BadKeyword
  \/ EndOfExpression

----------------------------------------------------------------------------
(* The attribute a built-in field name stands for.                         *)
BuiltIn(name) ==
  CASE name = "status" -> "http_status"
    [] name = "method" -> "http_method"
    [] name = "path" -> "http_path"
    [] OTHER -> name

BuiltInNames ==
  ((TextAttributes \cup CountAttributes \cup {"severity", "source"})
   \ {"bytes", "http_status", "http_method", "http_path"})
  \cup {"status", "method", "path"}

NumericFields == {"src_port", "dst_port", "status", "event_id"}

(* resolve_string, whatever the case of the name, and the lookup after it, *)
(* by the name as typed. A built-in text that is empty falls through to    *)
(* the event's own fields.                                                 *)
Resolved(field, e) ==
  LET found == [text |-> "", present |-> TRUE, dynamic |-> FALSE]
      name == Lower[field]
  IN  IF name = "severity"
      THEN [found EXCEPT !.text = SeverityName[e.severity]]
      ELSE IF name \in BuiltInNames /\ e[BuiltIn(name)] # ""
      THEN [found EXCEPT !.text = e[BuiltIn(name)]]
      ELSE IF field \in FieldKeys(e.fields)
      THEN [text |-> FieldText(e.fields, field), present |-> TRUE, dynamic |-> TRUE]
      ELSE [found EXCEPT !.present = FALSE]

SeverityRank(s) == IF s = UnknownSeverity THEN 1000 ELSE s

(* The rank a severity predicate's value stands for: a number is put on    *)
(* the scale, an unknown word ranks last.                                  *)
SeverityValueRank(value) ==
  IF value \in DOMAIN Number
  THEN LET num == Number[value]
       IN  IF num < 0 THEN 0 ELSE IF num > 8 THEN 1000 ELSE SeverityRank(num)
  ELSE SeverityRank(SeverityFromWord(Lower[value]))

Place(text) == CHOOSE k \in DOMAIN Texts : Texts[k] = text

(* A slip: severities are compared by rank, the most severe lowest.        *)
SidesByRank(p, e) ==
  LET lhs == Resolved(p.field, e)
      numeric == /\ lhs.dynamic \/ Lower[p.field] \in NumericFields
                 /\ {lhs.text, p.value} \subseteq DOMAIN Number
  IN  IF Lower[p.field] = "severity"
      THEN <<SeverityRank(e.severity), SeverityValueRank(p.value)>>
      ELSE IF numeric THEN <<Number[lhs.text], Number[p.value]>>
      ELSE <<Place(lhs.text), Place(p.value)>>

(* The two numbers an ordering comparison compares: magnitudes for         *)
(* severity, integers where both sides are and the field is a number, else *)
(* the places in byte order.                                               *)
Sides(p, e) ==
  LET lhs == Resolved(p.field, e)
      numeric == /\ lhs.dynamic \/ Lower[p.field] \in NumericFields
                 /\ {lhs.text, p.value} \subseteq DOMAIN Number
  IN  IF Lower[p.field] = "severity"
      THEN <<-SeverityRank(e.severity), -SeverityValueRank(p.value)>>
      ELSE IF numeric THEN <<Number[lhs.text], Number[p.value]>>
      ELSE <<Place(lhs.text), Place(p.value)>>

Orders(op, a, b) ==
  CASE op = "<" -> a < b
    [] op = "<=" -> a <= b
    [] op = ">" -> a > b
    [] op = ">=" -> a >= b

(* Predicate::matches. A missing field is the empty text for = and ~ and   *)
(* satisfies no ordering.                                                  *)
Matches(p, e) ==
  LET lhs == Resolved(p.field, e)
      left == Lower[lhs.text]
      right == Lower[p.value]
  IN  CASE p.op = "=" -> left = right
        [] p.op = "!=" -> left # right
        [] p.op = "~" -> <<left, right>> \in Holds
        [] p.op = "!~" -> <<left, right>> \notin Holds
        [] OTHER -> /\ lhs.present
                    /\ Orders(p.op, Sides(p, e)[1], Sides(p, e)[2])

(* A slip: the conjunction after a predicate, not the one before it.       *)
FilterMatchesNext(e) ==
  LET Conj(i) == IF i <= Len(conjunctions) THEN conjunctions[i] ELSE "AND"
      acc[i \in 1 .. Len(predicates)] ==
        IF i = 1 THEN Matches(predicates[1], e)
        ELSE IF Conj(i) = "AND" THEN acc[i - 1] /\ Matches(predicates[i], e)
        ELSE acc[i - 1] \/ Matches(predicates[i], e)
  IN  IF predicates = <<>> THEN TRUE ELSE acc[Len(predicates)]

(* Filter::matches: the running result, combined with one predicate after  *)
(* the other. A missing conjunction is taken for AND.                      *)
FilterMatches(e) ==
  LET Conj(i) == IF i - 1 <= Len(conjunctions) THEN conjunctions[i - 1]
                 ELSE "AND"
      acc[i \in 1 .. Len(predicates)] ==
        IF i = 1 THEN Matches(predicates[1], e)
        ELSE IF Conj(i) = "AND" THEN acc[i - 1] /\ Matches(predicates[i], e)
        ELSE acc[i - 1] \/ Matches(predicates[i], e)
  IN  IF predicates = <<>> THEN TRUE ELSE acc[Len(predicates)]
=============================================================================
