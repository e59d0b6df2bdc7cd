------------------------------- MODULE BinXml -------------------------------
(***************************************************************************)
(* decode_binxml: the walk over the Binary XML tokens of one event record. *)
(* A template instance makes the walk descend into the template's body, so *)
(* the recursion of walk_fragment and expand_template is a stack of        *)
(* frames, one per fragment being walked. What a token says byte by byte   *)
(* is left out: a fragment is a sequence of tokens, and any token may be   *)
(* cut off by the end of the bytes.                                        *)
(***************************************************************************)
EXTENDS Integers, Sequences, FiniteSets

CONSTANTS
  Records,               \* the token sequences a record may hold
  Chunks,                \* the chunk's template definitions: functions from
                         \* offset to token sequence
  Tokens,                \* the tokens garbled bytes may be read as
  Truncated,             \* a definition cut off by the end of the chunk
  MaxDepth,              \* limits.max_depth
  MaxFields,             \* limits.max_fields
  MaxTemplateInstances,  \* limits.max_template_instances
  TokenCap               \* kAbsoluteTokenCap

(* A decoder whose max_depth is 0 returns at once; it is left out.         *)
ASSUME LimitsAssumption ==
  /\ {MaxFields, MaxTemplateInstances, TokenCap} \subseteq Nat
  /\ MaxDepth \in Nat \ {0}

(* A token is a record with a field kind and, by kind, name (open, attr),  *)
(* text (value, cdata), idx (subst), def and subs (template). A field cut  *)
(* marks one that holds more than is read of it: a name or a text beyond   *)
(* max_string_chars, or more substitutions than max_fields.                *)

VARIABLES
  chunk,      \* the template definitions
  stack,      \* the fragments being walked, outermost first
  path,       \* ctx.path: names of the open elements
  fields,     \* out.fields
  active,     \* ctx.active_templates
  instances,  \* ctx.template_instances
  walked,     \* ctx.tokens_walked
  full,       \* ctx.fields_full
  nesting,    \* history: the elements the document has open, per frame
  refused     \* history: has an element been refused for its depth?

vars == <<chunk, stack, path, fields, active, instances, walked, full,
          nesting, refused>>

Frame(body, subs, template) ==
  [body |-> body, pos |-> 1, subs |-> subs, template |-> template,
   opened |-> 0, aligned |-> TRUE, caller |-> path]

Top == stack[Len(stack)]

(* What SetTop leaves is the running fragment with its cursor moved on.    *)
SetTop(frame) == stack' = [stack EXCEPT ![Len(stack)] = frame]

Advanced == [Top EXCEPT !.pos = @ + 1]

Init ==
  /\ chunk \in Chunks
  /\ path = <<>>
  /\ \E r \in Records : stack = <<[body |-> r, pos |-> 1, subs |-> <<>>,
                                   template |-> -1, opened |-> 0,
                                   aligned |-> TRUE, caller |-> <<>>]>>
  /\ fields = <<>>
  /\ active = {}
  /\ instances = 0
  /\ walked = 0
  /\ full = FALSE
  /\ nesting = <<<<>>>>
  /\ refused = FALSE

----------------------------------------------------------------------------
(* The loop goes on while there are bytes, tokens and room for fields.     *)
Walking ==
  /\ stack # <<>>
  /\ Top.pos <= Len(Top.body)
  /\ walked < TokenCap
  /\ ~full

(* The token at the cursor. Once a refusal has left a substitution array   *)
(* unread, a value of no known length its bytes, or a limit the rest of a  *)
(* token, they are taken for tokens: anything may follow, of the length of *)
(* what was left.                                                          *)
Read(token) ==
  /\ Walking
  /\ walked' = walked + 1
  /\ IF Top.aligned THEN token = Top.body[Top.pos] ELSE token \in Tokens

DocumentPath ==
  LET Joined[n \in 0 .. Len(nesting)] ==
        IF n = 0 THEN <<>> ELSE Joined[n - 1] \o nesting[n]
  IN  Joined[Len(nesting)]

(* add_field: refused and latched once max_fields are held. The name is    *)
(* the path, with the attribute behind an @ ("" for none). The last two    *)
(* parts are history: where in the document the field stands, and whether  *)
(* every element up to it could be pushed.                                 *)
AddField(attr, value) ==
  IF Len(fields) >= MaxFields
  THEN full' = TRUE /\ fields' = fields
  ELSE /\ full' = full
       /\ fields' = Append(fields, [name |-> path, attr |-> attr, value |-> value,
                                    under |-> DocumentPath, sound |-> ~refused])

(* The cursor behind a token. How long a value of another type is, is not  *)
(* known.                                                                  *)
Behind(token, frame) ==
  [frame EXCEPT !.pos = @ + 1,
                !.aligned = @ /\ token.kind # "typed" /\ "cut" \notin DOMAIN token]

(* Names an open start tag. Past max_depth the element is not pushed.      *)
OpenElement ==
  \E token \in Tokens :
    /\ Read(token)
    /\ token.kind = "open"
    /\ IF Len(path) < MaxDepth
       THEN /\ path' = Append(path, token.name)
            /\ SetTop([Behind(token, Top) EXCEPT !.opened = @ + 1])
            /\ refused' = refused
       ELSE /\ SetTop(Behind(token, Top))
            /\ refused' = TRUE
            /\ path' = path
    /\ nesting' = [nesting EXCEPT ![Len(nesting)] = Append(@, token.name)]
    /\ UNCHANGED <<chunk, fields, active, instances, full>>

Shorter(s) == SubSeq(s, 1, Len(s) - 1)

(* The end of an element this fragment has opened and still has open.      *)
Closable == Top.opened > 0 /\ path # <<>>

(* EndElement and CloseEmptyElement.                                       *)
EndElement ==
  \E token \in Tokens :
    /\ Read(token)
    /\ token.kind = "close"
    /\ IF Closable
       THEN /\ path' = Shorter(path)
            /\ SetTop([Advanced EXCEPT !.opened = @ - 1])
       ELSE SetTop(Advanced) /\ path' = path
    /\ nesting' = IF nesting[Len(nesting)] = <<>> THEN nesting
                  ELSE [nesting EXCEPT ![Len(nesting)] = Shorter(@)]
    /\ UNCHANGED <<chunk, fields, active, instances, full, refused>>

(* The value of a substitution, empty outside a template and past the end  *)
(* of the array.                                                           *)
Substituted(idx) == IF idx \in DOMAIN Top.subs THEN Top.subs[idx] ELSE ""

(* What a value-bearing token says: nothing, if its type is no string.     *)
TextOf(token) ==
  IF token.kind = "subst" THEN Substituted(token.idx)
  ELSE IF token.kind = "typed" THEN "" ELSE token.text

(* Values, CDATA sections and substitutions emit a leaf at the path.       *)
Leaf ==
  \E token \in Tokens :
    /\ Read(token)
    /\ token.kind \in {"value", "typed", "cdata", "subst"}
    /\ AddField("", TextOf(token))
    /\ SetTop(Behind(token, Top))
    /\ UNCHANGED <<chunk, path, active, instances, nesting, refused>>

(* An attribute takes a value or substitution that follows it as its own   *)
(* and is recorded empty if something else or nothing follows.             *)
Peeked ==
  IF Top.pos + 1 > Len(Top.body) THEN {[kind |-> "end"]}
  ELSE IF Top.aligned THEN {Top.body[Top.pos + 1]} ELSE Tokens

TakenByAttribute(token) == token.kind \in {"value", "typed", "subst"}

Attribute ==
  \E token \in Tokens :
    /\ Read(token)
    /\ token.kind = "attr"
    /\ \E next \in Peeked :
         \/ /\ TakenByAttribute(next)
            /\ AddField(token.name, TextOf(next))
            /\ SetTop(Behind(next, Behind(token, Top)))
         \/ /\ ~TakenByAttribute(next)
            /\ AddField(token.name, "")
            /\ SetTop(Behind(token, Top))
    /\ UNCHANGED <<chunk, path, active, instances, nesting, refused>>

(* Tokens without effect on the result.                                    *)
Skip ==
  \E token \in Tokens :
    /\ Read(token)
    /\ token.kind = "other"
    /\ SetTop(Advanced)
    /\ UNCHANGED <<chunk, path, fields, active, instances, full, nesting, refused>>

----------------------------------------------------------------------------
Instance(token) ==
  /\ Read(token)
  /\ token.kind = "template"
  /\ instances' = instances + 1

OverLimit == instances + 1 > MaxTemplateInstances

(* The limit is checked first, and of the refusals this one leaves the     *)
(* substitution array unread.                                              *)
RefuseInstance ==
  \E token \in Tokens :
    /\ Instance(token)
    /\ OverLimit
    /\ SetTop([Advanced EXCEPT !.aligned = FALSE])
    /\ UNCHANGED <<chunk, path, fields, active, full, nesting, refused>>

(* A slip: a template being expanded already is expanded again.            *)
ExpandableAgain(def) ==
  /\ def \in DOMAIN chunk
  /\ chunk[def] # Truncated
  /\ Len(stack) < MaxDepth

(* An offset outside the chunk, a definition being expanded already, one   *)
(* that is cut off, or one a level too deep: nothing is rendered and the   *)
(* walk goes on behind the substitution array.                             *)
Expandable(def) ==
  /\ def \in DOMAIN chunk
  /\ def \notin active
  /\ chunk[def] # Truncated
  /\ Len(stack) < MaxDepth

SkipInstance ==
  \E token \in Tokens :
    /\ Instance(token)
    /\ ~OverLimit
    /\ ~Expandable(token.def)
    /\ SetTop(Behind(token, Top))
    /\ UNCHANGED <<chunk, path, fields, active, full, nesting, refused>>

ExpandTemplate ==
  \E token \in Tokens :
    /\ Instance(token)
    /\ ~OverLimit
    /\ Expandable(token.def)
    /\ active' = active \cup {token.def}
    /\ stack' = Append([stack EXCEPT ![Len(stack)] = Behind(token, Top)],
                       Frame(chunk[token.def], token.subs, token.def))
    /\ nesting' = Append(nesting, <<>>)
    /\ UNCHANGED <<chunk, path, fields, full, refused>>

(* The cursor of a fragment stops at an end-of-stream or unknown token, or *)
(* because the bytes end in the middle of one.                             *)
Stops(token) == token.kind = "stop"

(* A slip: what the fragment left open stays open.                         *)
PoppedNothing == path

(* A slip: one element is left behind.                                     *)
PoppedAllButOne ==
  SubSeq(path, 1, Len(path) - (IF Top.opened > 0 THEN Top.opened - 1 ELSE 0))

(* What the fragment still has open is popped before the caller goes on.   *)
Popped == SubSeq(path, 1, Len(path) - Top.opened)

Return ==
  /\ path' = Popped
  /\ active' = active \ {Top.template}
  /\ stack' = Shorter(stack)
  /\ nesting' = Shorter(nesting)
  /\ UNCHANGED <<chunk, fields, instances, full, refused>>

(* The loop's other ways out: no bytes left, the token cap or no room for  *)
(* another field.                                                          *)
EndFragment ==
  /\ stack # <<>>
  /\ \/ ~Walking /\ walked' = walked
     \/ \E token \in Tokens : Read(token) /\ Stops(token)
  /\ Return

Next ==
  \/ OpenElement
  \/ EndElement
  \/ Leaf
  \/ Attribute
  \/ Skip
  \/ RefuseInstance
  \/ SkipInstance
  \/ ExpandTemplate
  \/ EndFragment

Spec == Init /\ [][Next]_vars

----------------------------------------------------------------------------
(* The path stack is balanced even on malformed input: whatever a fragment *)
(* opened and left open, its caller gets its own path back.                *)
PathRestored ==
  [][Len(stack') < Len(stack) => path' = Top.caller]_vars

(* The set of active templates is the set of those on the stack, and none  *)
(* is on it twice: a definition that refers to itself, directly or through *)
(* others, is never entered again.                                         *)
NoTemplateReentered ==
  /\ active = {stack[n].template : n \in 2 .. Len(stack)}
  /\ \A m, n \in 2 .. Len(stack) :
       stack[m].template = stack[n].template => m = n

(* Element nesting is encoded into the name of every field, as long as no  *)
(* element was refused for its depth: fields of templates, of elements     *)
(* left open and of surplus end tags included.                             *)
NestingKept == \A n \in DOMAIN fields : fields[n].sound => fields[n].name = fields[n].under

(* Element nesting is encoded into the name, past max_depth too: a field   *)
(* has the path of the elements around it, cut at max_depth.               *)
NestingEncoded ==
  \A n \in DOMAIN fields :
    LET under == fields[n].under
        depth == IF Len(under) < MaxDepth THEN Len(under) ELSE MaxDepth
    IN  fields[n].name = SubSeq(under, 1, depth)

=============================================================================
