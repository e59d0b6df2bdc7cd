------------------------------- MODULE MCBinXml -----------------------------
(***************************************************************************)
(* Every record of up to MaxTokens tokens over chunks whose templates use  *)
(* each other in a cycle, leave elements open, end elements they did not   *)
(* open, or are cut off.                                                   *)
(***************************************************************************)
EXTENDS BinXml

CONSTANT MaxTokens

Open(n) == [kind |-> "open", name |-> n]
Close == [kind |-> "close"]
Value == [kind |-> "value", text |-> "v"]
CData == [kind |-> "cdata", text |-> "c"]
LongText == [kind |-> "cdata", text |-> "c", cut |-> TRUE]
LongName == [kind |-> "open", name |-> "x", cut |-> TRUE]
Typed == [kind |-> "typed"]
Subst == [kind |-> "subst", idx |-> 1]
Attr == [kind |-> "attr", name |-> "n"]
Stop == [kind |-> "stop"]
Template(def) == [kind |-> "template", def |-> def, subs |-> <<"s">>]

RecordTokens == {Open("a"), Close, Value, Template(1), Template(2)}

MCTokens == RecordTokens \cup {Subst, Attr, Stop, Open("t"), Open("u"),
                              Typed, CData, LongText, LongName,
                              [kind |-> "other"]}

MCRecords == UNION {[1 .. n -> RecordTokens] : n \in 1 .. MaxTokens}

MCTruncated == <<[kind |-> "truncated"]>>

MCChunks ==
  {<< <<Open("t"), Subst, Template(2), Close>>,
      <<Attr, Subst, Template(1), Open("u"), Value>> >>,
   << <<Close, Attr, Template(2), Open("t"), Stop, Value>>, MCTruncated >>,
   << <<Open("t"), Attr, CData>>, <<Attr, Typed, Close>> >>,
   << <<LongText, Subst>>, <<LongName, Value>> >>}

(* A record without templates.                                             *)
MCPlainChunks == {<< >>}

MCPlainRecords == UNION {[1 .. n -> {Open("a"), Close, Value}] : n \in 1 .. MaxTokens}

=============================================================================
