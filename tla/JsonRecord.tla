----------------------------- MODULE JsonRecord -----------------------------
(***************************************************************************)
(* One JSON log line: JsonParser::parse (src/jsonlog/json_parser.cpp), a   *)
(* recursive descent whose calls are a stack of open containers here, and  *)
(* the event map_to_event makes of the value. White space and the          *)
(* characters of strings and numbers are left out: a text is a sequence of *)
(* tokens.                                                                 *)
(***************************************************************************)
EXTENDS LogMapper, FiniteSets

CONSTANTS
  Lines,              \* the texts a line may hold
  MaxDepth,           \* limits.max_depth
  MaxItems,           \* limits.max_array_items
  MaxMembers,         \* limits.max_object_members
  MaxTotalValues      \* limits.max_total_values

ASSUME JsonLimits ==
  {MaxDepth, MaxItems, MaxMembers, MaxTotalValues} \subseteq Nat

(* Beyond the tokens of LogMapper there are [is |-> "bad"], a character    *)
(* that starts no value, or a number or literal that breaks off, and [is   *)
(* |-> "bad string", flaw |-> f], a quote that parse_string fails behind.  *)

VARIABLES
  text,    \* the line
  pos,     \* the next token
  stack,   \* the containers being parsed, outermost first
  total,   \* total_values_
  next,    \* what comes next: "value", "element", "comma", "end", "done"
  root,    \* the value parsed
  status,  \* the status of the Result
  event    \* the LogEvent made of it

jsonVars == <<text, pos, stack, total, next, root, status, event>>

None == [type |-> "none"]

InitJson ==
  /\ text \in Lines
  /\ pos = 1 /\ total = 0
  /\ stack = <<>>
  /\ next = "value"
  /\ root = None /\ event = Blank
  /\ status = "parsing"

Top == stack[Len(stack)]

AtEnd == pos > Len(text)

Here(mark) == ~AtEnd /\ text[pos].is = mark

NextIs(mark) == pos < Len(text) /\ text[pos + 1].is = mark

Opens(mark) == IF mark = "[" THEN "array" ELSE "object"

Fail(code) ==
  /\ status' = code
  /\ next' = "done"
  /\ UNCHANGED <<text, pos, stack, root, event>>

----------------------------------------------------------------------------
(* A slip: a key is taken for one that it only begins with.                *)
SetMemberByPrefix(members, key, value) ==
  LET Same(k) == /\ Len(members[k].key) <= Len(key)
                 /\ members[k].key = SubSeq(key, 1, Len(members[k].key))
  IN  IF \E k \in DOMAIN members : Same(k)
      THEN [k \in DOMAIN members |->
              IF Same(k) THEN [key |-> key, value |-> value] ELSE members[k]]
      ELSE Append(members, [key |-> key, value |-> value])

(* set_member: the last value of a key, in the place of its first.         *)
SetMember(members, key, value) ==
  IF \E k \in DOMAIN members : members[k].key = key
  THEN [k \in DOMAIN members |->
          IF members[k].key = key THEN [key |-> key, value |-> value]
          ELSE members[k]]
  ELSE Append(members, [key |-> key, value |-> value])

(* parse_string, by what it stumbles over first: the end of the text, also *)
(* behind a backslash; an escape that is none, or a control character; or  *)
(* more than max_string_bytes.                                             *)
StringStatus(flaw) ==
  CASE flaw = "end" -> "Truncated"
    [] flaw \in {"escape", "control"} -> "Malformed"
    [] flaw = "long" -> "LimitExceeded"

(* A value is finished: parse_value returns it to the container in which   *)
(* it was found, or to parse.                                              *)
Deliver(value, outer) ==
  IF outer = <<>>
  THEN stack' = outer /\ root' = value /\ next' = "end"
  ELSE LET n == Len(outer)
           frame == outer[n]
           members == IF frame.type = "array"
                      THEN Append(frame.members,
                                  [key |-> IndexText(frame.count), value |-> value])
                      ELSE SetMember(frame.members, frame.key, value)
       IN  /\ stack' = [outer EXCEPT ![n].members = members, ![n].count = @ + 1]
           /\ root' = root
           /\ next' = "comma"

(* The limits are looked at before the token.                              *)
TooDeep == Len(stack) > MaxDepth

ValueRefused ==
  /\ next = "value"
  /\ \/ text = <<>> /\ Fail("Empty") /\ total' = total
     \/ text # <<>> /\ TooDeep /\ Fail("LimitExceeded") /\ total' = total
     \/ /\ text # <<>> /\ ~TooDeep /\ total + 1 > MaxTotalValues
        /\ Fail("LimitExceeded") /\ total' = total + 1

Entering ==
  /\ next = "value"
  /\ text # <<>> /\ ~TooDeep /\ total < MaxTotalValues
  /\ total' = total + 1

BadValue ==
  /\ Entering
  /\ \/ AtEnd /\ Fail("Truncated")
     \/ Here("bad string") /\ Fail(StringStatus(text[pos].flaw))
     \/ \E mark \in {"}", "]", ",", ":", "bad"} : Here(mark) /\ Fail("Malformed")

(* parse_string and parse_number: one token each.                          *)
StringValue ==
  /\ Entering
  /\ Here("string")
  /\ Deliver([type |-> "leaf", token |-> text[pos]], stack)
  /\ pos' = pos + 1
  /\ UNCHANGED <<text, status, event>>

Number ==
  /\ Entering
  /\ Here("number")
  /\ Deliver([type |-> "leaf", token |-> text[pos]], stack)
  /\ pos' = pos + 1
  /\ UNCHANGED <<text, status, event>>

(* true, false and null.                                                   *)
Literal ==
  /\ Entering
  /\ Here("literal")
  /\ Deliver([type |-> "leaf", token |-> text[pos]], stack)
  /\ pos' = pos + 1
  /\ UNCHANGED <<text, status, event>>

EmptyContainer ==
  /\ Entering
  /\ \E mark \in {"{", "["} :
       /\ Here(mark) /\ NextIs(Closer(Opens(mark)))
       /\ Deliver([type |-> Opens(mark), members |-> <<>>], stack)
  /\ pos' = pos + 2
  /\ UNCHANGED <<text, status, event>>

OpenContainer ==
  /\ Entering
  /\ \E mark \in {"{", "["} :
       /\ Here(mark) /\ ~NextIs(Closer(Opens(mark)))
       /\ stack' = Append(stack, [type |-> Opens(mark), key |-> <<>>,
                                  count |-> 0, members |-> <<>>])
  /\ pos' = pos + 1
  /\ next' = "element"
  /\ UNCHANGED <<text, root, status, event>>

(* A slip: one element too many.                                           *)
ContainerPastFull ==
  Top.count > (IF Top.type = "array" THEN MaxItems ELSE MaxMembers)

(* The head of the loops of parse_array and parse_object.                  *)
ContainerFull ==
  Top.count >= (IF Top.type = "array" THEN MaxItems ELSE MaxMembers)

TooManyElements ==
  /\ next = "element" /\ ContainerFull
  /\ Fail("LimitExceeded") /\ UNCHANGED total

Element ==
  /\ next = "element" /\ ~ContainerFull /\ Top.type = "array"
  /\ next' = "value"
  /\ UNCHANGED <<text, pos, stack, total, root, status, event>>

Key ==
  /\ next = "element" /\ ~ContainerFull /\ Top.type = "object"
  /\ Here("string") /\ NextIs(":")
  /\ stack' = [stack EXCEPT ![Len(stack)].key = text[pos].parts]
  /\ pos' = pos + 2
  /\ next' = "value"
  /\ UNCHANGED <<text, total, root, status, event>>

(* No key, or no colon behind it: the end of the text is malformed, too.   *)
BadKey ==
  /\ next = "element" /\ ~ContainerFull /\ Top.type = "object"
  /\ ~(Here("string") /\ NextIs(":"))
  /\ Fail(IF Here("bad string") THEN StringStatus(text[pos].flaw) ELSE "Malformed")
  /\ UNCHANGED total

TrailingComma == Here(",") /\ NextIs(Closer(Top.type))

Comma ==
  /\ next = "comma"
  /\ Here(",") /\ ~TrailingComma
  /\ pos' = pos + 1
  /\ next' = "element"
  /\ UNCHANGED <<text, stack, total, root, status, event>>

Close ==
  /\ next = "comma"
  /\ Here(Closer(Top.type))
  /\ Deliver([type |-> Top.type, members |-> Top.members],
             SubSeq(stack, 1, Len(stack) - 1))
  /\ pos' = pos + 1
  /\ UNCHANGED <<text, total, status, event>>

BadSeparator ==
  /\ next = "comma"
  /\ \/ AtEnd /\ Fail("Truncated")
     \/ ~AtEnd /\ TrailingComma /\ Fail("Malformed")
     \/ /\ ~AtEnd /\ ~Here(",") /\ ~Here(Closer(Top.type))
        /\ Fail("Malformed")
  /\ UNCHANGED total

----------------------------------------------------------------------------
(* parse looks for trailing data; a value without any is made an event.    *)
Return ==
  /\ next = "end"
  /\ next' = "done"
  /\ IF AtEnd THEN status' = "Ok" /\ event' \in EventsOf(root)
     ELSE status' = "Malformed" /\ event' = event
  /\ UNCHANGED <<text, pos, stack, total, root>>

JsonStep ==
  \/ ValueRefused \/ BadValue \/ StringValue \/ Number \/ Literal
  \/ EmptyContainer \/ OpenContainer
  \/ TooManyElements \/ Element \/ Key \/ BadKey
  \/ Comma \/ Close \/ BadSeparator
  \/ Return

----------------------------------------------------------------------------
(* The grammar of RFC 8259 over the tokens i to j of the text, by itself.  *)
RECURSIVE IsValue(_, _), AreItems(_, _), AreMembers(_, _)
IsValue(i, j) ==
  \/ i = j /\ text[i].is \in {"string", "number", "literal"}
  \/ /\ i < j /\ text[i].is = "[" /\ text[j].is = "]"
     /\ i + 1 = j \/ AreItems(i + 1, j - 1)
  \/ /\ i < j /\ text[i].is = "{" /\ text[j].is = "}"
     /\ i + 1 = j \/ AreMembers(i + 1, j - 1)

AreItems(i, j) ==
  \/ IsValue(i, j)
  \/ \E k \in i + 1 .. j - 1 :
       text[k].is = "," /\ IsValue(i, k - 1) /\ AreItems(k + 1, j)

IsMember(i, j) ==
  i + 2 <= j /\ text[i].is = "string" /\ text[i + 1].is = ":" /\ IsValue(i + 2, j)

AreMembers(i, j) ==
  \/ IsMember(i, j)
  \/ \E k \in i + 3 .. j - 1 :
       text[k].is = "," /\ IsMember(i, k - 1) /\ AreMembers(k + 1, j)

(* What the limits bound, counted on the tokens of a grammatical text.     *)
Count(S, Test(_)) == Cardinality({k \in S : Test(text[k])})

NestingAt(k) ==
  Count(1 .. k - 1, LAMBDA t : t.is \in {"[", "{"})
    - Count(1 .. k - 1, LAMBDA t : t.is \in {"]", "}"})

NextIsColon(k) == k < Len(text) /\ text[k + 1].is = ":"

StartsValue(k) ==
  \/ text[k].is \in {"[", "{", "number", "literal"}
  \/ text[k].is = "string" /\ ~NextIsColon(k)

Elements(k) ==
  LET close == CHOOSE j \in k + 1 .. Len(text) : IsValue(k, j)
      top == {j \in k + 1 .. close - 1 :
                text[j].is = "," /\ NestingAt(j) = NestingAt(k) + 1}
  IN  IF close = k + 1 THEN 0 ELSE Cardinality(top) + 1

WithinLimits ==
  LET values == {k \in DOMAIN text : StartsValue(k)}
  IN  /\ Cardinality(values) <= MaxTotalValues
      /\ \A k \in values :
           /\ NestingAt(k) <= MaxDepth
           /\ text[k].is = "[" => Elements(k) <= MaxItems
           /\ text[k].is = "{" => Elements(k) <= MaxMembers

(* The parser accepts the JSON texts within its limits and no others.      *)
AcceptsExactly ==
  next = "done" =>
    (status = "Ok") = (text # <<>> /\ IsValue(1, Len(text)) /\ WithinLimits)

(* The leaves of a value with the keys that lead to them.                  *)
RECURSIVE Leaves(_)
Leaves(value) ==
  IF value.type = "leaf" THEN {[path |-> <<>>, leaf |-> value]}
  ELSE IF value.members = <<>> THEN {[path |-> <<>>, leaf |-> value]}
  ELSE UNION {{[l EXCEPT !.path = <<value.members[k].key>> \o @] :
                 l \in Leaves(value.members[k].value)} : k \in DOMAIN value.members}

(* The value parsed is the one the text says: rendered it is the text      *)
(* again, as long as no object repeats a key, and then it is shorter.      *)
RoundTrips ==
  status = "Ok" =>
    \/ Rendered(root) = text
    \/ /\ Len(Rendered(root)) < Len(text)
       /\ \E j, k \in DOMAIN text : /\ j < k /\ text[j].is = "string"
                                    /\ text[j] = text[k] /\ NextIsColon(j)
                                    /\ NextIsColon(k) /\ NestingAt(j) = NestingAt(k)

(* "Flatten every member into the field map for completeness": each leaf   *)
(* of an object has the field its keys joined with dots name, and there is *)
(* no other field; only leaves whose dotted names are equal displace one   *)
(* another.                                                                *)
EveryLeafHasAField ==
  status = "Ok" /\ root.type = "object" =>
    LET leaves == Leaves(root)
        Name(path) ==
          LET join[k \in 0 .. Len(path)] ==
                IF k = 0 THEN <<>>
                ELSE IF join[k - 1] = <<>> THEN path[k]
                ELSE join[k - 1] \o (IF path[k] = <<>> THEN <<"">> ELSE path[k])
          IN  join[Len(path)]
    IN  /\ DOMAIN event.fields = {Name(l.path) : l \in leaves}
        /\ \A l \in leaves :
             \/ event.fields[Name(l.path)] = l.leaf
             \/ \E m \in leaves : m.path # l.path /\ Name(m.path) = Name(l.path)

=============================================================================
