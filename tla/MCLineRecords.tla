--------------------------- MODULE MCLineRecords ----------------------------
EXTENDS LineRecords

One == [is |-> "number", text |-> "1"]
Str(parts) == [is |-> "string", parts |-> parts]

(* The keys "a", "b", "a.b" and "": joined, a and b make the third.        *)
Keys == {<<"a">>, <<"b">>, <<"a", "b">>, <<>>}

Alphabet ==
  {[is |-> m] : m \in {"{", "}", "[", "]", ",", ":", "bad"}}
  \cup {One, Str(<<"a">>), [is |-> "literal", text |-> "null"]}
  \cup {[is |-> "bad string", flaw |-> f] : f \in {"end", "escape", "long"}}

Leaf == [type |-> "leaf", token |-> One]
Arr(vs) == [type |-> "array",
            members |-> [k \in DOMAIN vs |-> [key |-> <<>>, value |-> vs[k]]]]
Obj(ks, vs) == [type |-> "object",
                members |-> [k \in DOMAIN vs |-> [key |-> ks[k], value |-> vs[k]]]]

Small == {Leaf, Arr(<<>>), Obj(<<>>, <<>>),
          [type |-> "leaf", token |-> Str(<<"a">>)]}

Mid == Small \cup {Arr(<<x>>) : x \in Small} \cup {Arr(<<Leaf, x>>) : x \in Small}
       \cup {Obj(<<k>>, <<x>>) : k \in Keys, x \in Small}

Big == Mid \cup {Obj(<<k, l>>, <<x, Leaf>>) : k, l \in Keys, x \in Mid}
       \cup {Arr(<<x>>) : x \in Mid} \cup {Arr(<<Arr(<<x>>)>>) : x \in Mid}
       \cup {Arr(<<Leaf, Leaf, x>>) : x \in Small}
       \cup {Obj(<<<<"a">>, <<"b">>, k>>, <<x, Leaf, Leaf>>) : k \in Keys, x \in Small}

Documents == {Rendered(v) : v \in Big}

(* A document cut short, or with one token changed or left out.            *)
Broken(d) ==
  {SubSeq(d, 1, k) : k \in 0 .. Len(d)}
  \cup {[d EXCEPT ![k] = t] : k \in DOMAIN d, t \in Alphabet}
  \cup {SubSeq(d, 1, k - 1) \o SubSeq(d, k + 1, Len(d)) : k \in DOMAIN d}

(* Two names of one concept, in either order; levels and times of every    *)
(* kind.                                                                   *)
Txt(t) == [type |-> "leaf", token |-> Str(t)]
Num(t) == [type |-> "leaf", token |-> [is |-> "number", text |-> t]]

Told ==
  {Obj(<<<<k>>>>, <<v>>) : k \in {"level", "severity", "ts", "date"},
     v \in {Num("1"), Num("9"), Num("0.5"), Num("1e9"), Num("-1e9"), Txt(<<"1">>),
            Txt(<<"err">>), Txt(<<"now">>), Arr(<<Leaf>>),
            [type |-> "leaf", token |-> [is |-> "literal", text |-> "null"]]}}
  \cup {Obj(<<<<k>>, <<l>>>>, <<v, w>>) :
          k, l \in {"level", "severity", "msg", "log"},
          v, w \in {Leaf, Txt(<<"err">>), Obj(<<>>, <<>>)}}
  \cup {Obj(<<<<"ip">>, <<>>>>, <<Leaf, Obj(<<<<"ip">>>>, <<Txt(<<"a">>)>>)>>)}

MCInteger == (<<"1">> :> 1) @@ (<<"9">> :> 9)
MCFractional == (<<"0.5">> :> 5) @@ (<<"1e9">> :> 1000) @@ (<<"-1e9">> :> -1000)
MCWord == (<<"err">> :> "err") @@ (<<"a">> :> "a") @@ (<<"9">> :> "9")
MCTimeOf == (<<"now">> :> At(7))

(* Every text of up to three tokens, documents three levels deep, what is  *)
(* a slip away from a smaller document, and objects that tell an event.    *)
MCLines ==
  UNION {[1 .. n -> Alphabet] : n \in 0 .. 3} \cup Documents
  \cup UNION {Broken(Rendered(v)) :
                v \in Mid \cup {Obj(<<<<"a">>, <<"b">>>>, <<x, Leaf>>) : x \in Mid}}
  \cup {Rendered(v) : v \in Told}

----------------------------------------------------------------------------
MCKeyRuns == {"a", "n", "src", "rt", "msg", "spt", "cef.name", "high"} \cup DOMAIN Digit
MCWords == (<<"high">> :> "high")
MCTimes == (<<"a">> :> At(3))

H(k, t) == [[n \in 1 .. 6 |-> <<"a">>] EXCEPT ![k] = t]

Headers ==
  {H(k, t) : k \in {1, 5, 6}, t \in UNION {[1 .. n -> {"|", "\\", "=", " ", "a"}] : n \in 0 .. 2}}
  \cup {H(6, t) : t \in {<<"5">>, <<"1", "1">>, <<"high">>, <<"9", "9", "9", "9", "9">>}}
  \cup {H(4, t) : t \in {<<>>, <<"7">>, <<"9", "9", "9">>}}

Pair(k, v) == [key |-> <<k>>, value |-> v]

Texts(n) == UNION {[1 .. i -> {"a", "n", "=", " ", "\\", "\n"}] : i \in 0 .. n}

PairLists ==
  {<<>>} \cup {<<Pair("a", v), Pair("msg", w)>> : v \in Texts(2), w \in Texts(1)}
  \cup {<<Pair("msg", v), Pair("src", <<"a">>)>> : v \in [1 .. 3 -> {"a", "=", " ", "\\"}]}
  \cup {<<Pair(k, v), Pair(k, w)>> : k \in {"src", "rt", "spt", "cef.name"},
          v, w \in {<<>>, <<"a">>, <<"5">>, <<"9", "9", "9">>}}
  \cup {<<Pair("a", v), Pair("src", <<>>), Pair("rt", <<"5">>)>> : v \in Texts(1)}

Send(v, h, p) == [version |-> v, header |-> h, pairs |-> p]

MCSent ==
  {Send(<<"0">>, h, <<Pair("a", <<"a">>)>>) : h \in Headers}
  \cup {Send(<<"0">>, H(1, <<"a">>), p) : p \in PairLists}
  \cup {Send(v, H(1, <<"a">>), <<>>) : v \in {<<>>, <<"9", "9", "9">>}}

Head6 == <<"CEF:", "0", "|", "a", "|", "a", "|", "a", "|", "a", "|", "a", "|", "a">>

Long == [k \in 1 .. 26 |-> "a"]

(* Sent lines, also cut short or behind a syslog header; every extension   *)
(* section of up to five characters; versions no word holds; and texts     *)
(* longer than a field may be.                                             *)
MCCefLines ==
  LET full == SentLine(Send(<<"0">>, H(5, <<"|">>), <<Pair("a", <<"=">>), Pair("msg", <<" ">>)>>))
  IN  {SentLine(sent) : sent \in MCSent}
      \cup {SubSeq(full, k, n) : k \in {1, 2}, n \in 0 .. Len(full)}
      \cup {<<"(", " ">> \o full}
      \cup {Head6 \o <<"|">> \o e :
              e \in UNION {[1 .. n -> {"a", "=", " ", "\\", "("}] : n \in 0 .. 5}}
      \cup {<<"CEF:">> \o v \o SubSeq(Head6, 3, 14) :
              v \in {<<"1", "0", "0", "0", "0">>, <<"2", "5", "0", "0", "7">>}}
      \cup {Head6 \o Long \o <<"|">>,
             Head6 \o <<"|", "a", "=">> \o Long \o <<" ", "msg", "=", "a">>,
             Head6 \o <<"|">> \o Long \o <<"=", "a">>}
=============================================================================
