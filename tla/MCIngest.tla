------------------------------ MODULE MCIngest ------------------------------
(***************************************************************************)
(* Artifacts of up to two lines of every kind, and of three where a line   *)
(* of a format is read, fails or is white, each in every format, asked for *)
(* or detected, with a sink that fills up; and files of up to three        *)
(* chunks, the last one possibly cut off, in a layout scaled down so that  *)
(* a chunk claims room for one record past the limit.                      *)
(***************************************************************************)
EXTENDS Ingest

Bare(n) == [k \in 1 .. n |-> "bare"]

Element(id, params, end) == [id |-> id, params |-> params, end |-> end]

Param(name, value) == [name |-> name, value |-> value]

One == <<Param(<<"p">>, "v")>>

Good == Element(<<"id">>, One, "]")

(* Parameters that share a key: in one element, or because a dot belongs   *)
(* to the id of one and to the name of the other.                          *)
Again == Element(<<"id">>, <<Param(<<"p">>, "w")>>, "]")
Twice == One \o Again.params
Dotted == Element(<<"a">>, <<Param(<<"b", "c">>, "v")>>, "]")
DottedId == Element(<<"a", "b">>, <<Param(<<"c">>, "w")>>, "]")

(* None, one, two at the limit, three beyond it, one without parameters,   *)
(* some with the same key, and elements that fail in every way, alone or    *)
(* behind a good one.                                                      *)
StructuredDatas ==
  {<<>>, <<Good>>, <<Element(<<"id">>, <<>>, "]"), Good>>, <<Good, Good, Good>>,
   <<Good, Again>>, <<Element(<<"id">>, Twice, "]")>>, <<Dotted, DottedId>>,
   <<Element(<<>>, <<>>, "]")>>, <<Good, Element(<<"id">>, <<>>, "bad param")>>,
   <<Element(<<"id">>, <<>>, "open value")>>, <<Element(<<"id">>, Twice \o One, "]")>>,
   <<Good, Element(<<"id">>, Twice, "open value")>>}

SyslogLines ==
  {[is |-> "syslog", pieces |-> Bare(7), pri |-> "legal", version |-> TRUE,
    time |-> At(5), sd |-> sd] : sd \in StructuredDatas}
  \cup {[is |-> "syslog", pieces |-> Bare(5), pri |-> pri, version |-> v,
         time |-> At(7), sd |-> IF v THEN <<Good>> ELSE <<>>] :
           pri \in {"none", "illegal"}, v \in BOOLEAN}

Rt(time) == [key |-> "rt", time |-> time]
Other == [key |-> "other", time |-> Unknown]

CefLines ==
  {[is |-> "cef", pieces |-> Bare(3), fields |-> n, pairs |-> <<>>] : n \in {0, 5}}
  \cup {[is |-> "cef", pieces |-> Bare(5), fields |-> 6, pairs |-> p] :
          p \in {<<>>, <<Rt(At(4)), Rt(Unknown)>>, <<Rt(At(4)), Rt(At(6))>>,
                 <<Other, Other, Rt(At(4))>>}}

(* host - - [time] "request" status bytes, with the quote and the bracket  *)
(* closed or not.                                                          *)
Access == Bare(3) \o <<"bracketed", "quoted", "bare", "bare">>

WebLines ==
  {[is |-> "web", pieces |-> p, time |-> At(5)] :
     p \in {SubSeq(Access, 1, 4), Access, [Access EXCEPT ![5] = "open quote"],
            [Access EXCEPT ![4] = "open bracket"]}}
  \cup {[is |-> "web", pieces |-> Access, time |-> Unknown]}

JsonLines ==
  {[is |-> "json", pieces |-> Bare(2), value |-> v, time |-> At(3)] :
     v \in {"object", "scalar", "Malformed", "LimitExceeded"}}

OtherLines ==
  {[is |-> "empty", pieces |-> Bare(0)], [is |-> "white", pieces |-> Bare(0)],
   [is |-> "text", pieces |-> Bare(2)], [is |-> "text", pieces |-> Bare(5)]}

MCLines == SyslogLines \cup CefLines \cup WebLines \cup JsonLines \cup OtherLines

Ordinary ==
  {CHOOSE line \in SyslogLines : line.version /\ line.sd = <<Good>>,
   CHOOSE line \in CefLines : line.fields = 6 /\ line.pairs = <<>>,
   CHOOSE line \in WebLines : line.pieces = Access /\ line.time.valid,
   CHOOSE line \in JsonLines : line.value = "object",
   CHOOSE line \in JsonLines : line.value = "Malformed"} \cup OtherLines

MCArtifacts ==
  UNION {[1 .. n -> MCLines] : n \in 0 .. 2} \cup [1 .. 3 -> Ordinary]

MCRequests == {"auto", "syslog", "json", "web", "cef", "evtx"}

MCStamps == {Unknown, At(1)}

=============================================================================
