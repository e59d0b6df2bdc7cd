-------------------------- MODULE LogExportProofs ---------------------------
(***************************************************************************)
(* Proofs about the filter language and the export behind it, for any      *)
(* texts, any expressions, any events and any limit of predicates.         *)
(***************************************************************************)
EXTENDS Readers, FiniteSetTheorems, NaturalsInduction, WellFoundedInduction, TLAPS

----------------------------------------------------------------------------
(* The places of an expression, three to a predicate and one to a keyword. *)
LEMMA PlacesOfFour ==
  ASSUME NEW p \in Nat
  PROVE  /\ (4 * p + 1) % 4 = 1 /\ (4 * p + 2) % 4 = 2
         /\ (4 * p + 3) % 4 = 3 /\ (4 * p + 4) % 4 = 0 /\ (4 * p) % 4 = 0
OBVIOUS

LEMMA FitsAt ==
  ASSUME NEW p \in Nat, NEW token
  PROVE  /\ TokenFits(4 * p + 1, token) <=> token.is = "name"
         /\ TokenFits(4 * p + 2, token) <=> token.is = "op"
         /\ TokenFits(4 * p + 3, token) <=> token.is \notin {"open", "long"}
         /\ TokenFits(4 * p + 4, token) <=> IsAnd(token) \/ IsOr(token)
BY PlacesOfFour DEF TokenFits

----------------------------------------------------------------------------
(* The parser has read a whole number of predicates and keywords, and what *)
(* it has read is in the grammar.                                          *)
Behind == Len(tokens) - Len(expr)

Phrases ==
  [field : {Texts[k] : k \in DOMAIN Texts} \cup Operators,
   op : {Texts[k] : k \in DOMAIN Texts} \cup Operators,
   value : {Texts[k] : k \in DOMAIN Texts} \cup Operators]

ParserType ==
  /\ tokens \in Seq(Tokens) /\ expr \in Seq(Tokens)
  /\ predicates \in Seq(Phrases)
  /\ conjunctions \in Seq({"AND", "OR"})
  /\ pending \in {"AND", "OR"}
  /\ expecting \in BOOLEAN
  /\ status \in {"parsing", "Ok", "Malformed", "InvalidField", "LimitExceeded"}

TokensRead ==
  /\ Len(expr) <= Len(tokens)
  /\ \A k \in 1 .. Len(expr) : expr[k] = tokens[Behind + k]
  /\ \A k \in 1 .. Behind : TokenFits(k, tokens[k])
  /\ expecting => Behind = 4 * Len(predicates)
  /\ ~expecting => Len(predicates) >= 1 /\ Behind = 4 * Len(predicates) - 1

PredicatesRead ==
  /\ Len(predicates) <= MaxPredicates
  /\ \A i \in 1 .. Len(predicates) : predicates[i] = Typed(i)
  /\ Len(conjunctions) = IF Len(predicates) = 0 THEN 0 ELSE Len(predicates) - 1
  /\ \A i \in 1 .. Len(conjunctions) : conjunctions[i] = "OR" <=> IsOr(tokens[4 * i])
  /\ expecting /\ Len(predicates) > 0 =>
       (pending = "OR" <=> IsOr(tokens[4 * Len(predicates)]))

Verdict ==
  /\ AcceptsTheGrammar
  /\ status = "Ok" => expr = <<>> /\ (expecting => Len(predicates) = 0)

ParserInv == ParserType /\ TokensRead /\ PredicatesRead /\ Verdict

LEMMA ParserInit == Init => ParserInv
<1> SUFFICES ASSUME Init PROVE ParserInv
  OBVIOUS
<1>1. tokens \in Seq(Tokens)
  BY ExportAssumption DEF Init
<1>2. /\ expr = tokens /\ predicates = <<>> /\ conjunctions = <<>>
      /\ pending = "AND" /\ expecting = TRUE /\ status = "parsing"
  BY DEF Init, InitFilter
<1>3. ParserType
  BY <1>1, <1>2 DEF ParserType
<1>4. Behind = 0 /\ Len(predicates) = 0 /\ Len(conjunctions) = 0
  BY <1>1, <1>2 DEF Behind
<1>5. TokensRead
  BY <1>1, <1>2, <1>4 DEF TokensRead
<1>6. PredicatesRead
  BY <1>4, FilterAssumption DEF PredicatesRead
<1>7. Verdict
  BY <1>2 DEF Verdict, AcceptsTheGrammar
<1> QED
  BY <1>3, <1>5, <1>6, <1>7 DEF ParserInv

(* A verdict that refuses leaves everything else as it is.                 *)
LEMMA ParserFails ==
  ASSUME ParserInv, NEW code, Fail(code), UNCHANGED tokens,
         \/ /\ code = "LimitExceeded"
            /\ \/ Len(tokens) > 4 * MaxPredicates
               \/ \E k \in DOMAIN tokens : tokens[k].is = "long"
         \/ /\ code \in {"Malformed", "InvalidField"}
            /\ ~InTheGrammar /\ tokens # <<>>
  PROVE  ParserInv'
<1>1. /\ UNCHANGED <<tokens, expr, predicates, conjunctions, pending, expecting>>
      /\ status' = code /\ code \in {"LimitExceeded", "Malformed", "InvalidField"}
  BY DEF Fail
<1>2. ParserType'
  BY <1>1 DEF ParserInv, ParserType
<1>3. TokensRead'
  BY <1>1 DEF ParserInv, TokensRead, Behind
<1>4. PredicatesRead'
  BY <1>1 DEF ParserInv, PredicatesRead, Typed
<1>5. Verdict'
  BY <1>1 DEF Verdict, AcceptsTheGrammar, InTheGrammar
<1> QED
  BY <1>2, <1>3, <1>4, <1>5 DEF ParserInv

LEMMA ParserTooMany ==
  ASSUME ParserInv, TooManyPredicates, UNCHANGED tokens
  PROVE  ParserInv'
<1>1. /\ expr # <<>> /\ expecting /\ Len(predicates) >= MaxPredicates
      /\ Fail("LimitExceeded")
  BY DEF TooManyPredicates, Reading
<1>2. /\ Len(tokens) \in Nat /\ Len(expr) \in Nat \ {0} /\ Len(predicates) \in Nat
      /\ MaxPredicates \in Nat
  BY <1>1, FilterAssumption DEF ParserInv, ParserType
<1>3. Len(tokens) - Len(expr) = 4 * Len(predicates)
  BY <1>1 DEF ParserInv, TokensRead, Behind
<1>4. Len(tokens) > 4 * MaxPredicates
  BY <1>1, <1>2, <1>3
<1> QED
  BY <1>1, <1>4, ParserFails

(* What stands at the head of the rest, and at which place of the whole.   *)
LEMMA HeadOfRest ==
  ASSUME ParserInv, expr # <<>>
  PROVE  /\ Len(tokens) \in Nat /\ Len(expr) \in Nat \ {0} /\ Len(predicates) \in Nat
         /\ Behind \in Nat /\ Len(tokens) = Behind + Len(expr)
         /\ \A k \in 1 .. Len(expr) :
              /\ expr[k] = tokens[Behind + k] /\ Behind + k \in DOMAIN tokens
              /\ expr[k] \in Tokens
<1>1. /\ Len(tokens) \in Nat /\ Len(expr) \in Nat \ {0} /\ Len(predicates) \in Nat
      /\ DOMAIN tokens = 1 .. Len(tokens)
      /\ \A k \in 1 .. Len(expr) : expr[k] \in Tokens
  BY DEF ParserInv, ParserType
<1>2. Len(expr) <= Len(tokens)
  BY DEF ParserInv, TokensRead
<1>3. Behind \in Nat /\ Len(tokens) = Behind + Len(expr)
  BY <1>1, <1>2 DEF Behind
<1>4. \A k \in 1 .. Len(expr) : Behind + k \in DOMAIN tokens
  BY <1>1, <1>3
<1> QED
  BY <1>1, <1>3, <1>4 DEF ParserInv, TokensRead

LEMMA TokenKind ==
  ASSUME NEW token \in Tokens
  PROVE  token.is \in TokenKinds
BY DEF Tokens, TokenKinds

LEMMA ParserBadPredicate ==
  ASSUME ParserInv, BadPredicate, UNCHANGED tokens
  PROVE  ParserInv'
<1>1. /\ expr # <<>> /\ expecting /\ PredicateStatus # "Ok" /\ Fail(PredicateStatus)
  BY DEF BadPredicate, Reading
<1>2. PICK p \in Nat, n \in Nat, m \in Nat \ {0}, c \in Nat :
        /\ p = Len(predicates) /\ n = Len(tokens) /\ m = Len(expr) /\ c = Behind
        /\ n = c + m /\ c = 4 * p
  BY <1>1, HeadOfRest DEF ParserInv, TokensRead
<1>3. \A k \in 1 .. m : /\ expr[k] = tokens[c + k] /\ c + k \in DOMAIN tokens
                        /\ expr[k] \in Tokens
  BY <1>1, <1>2, HeadOfRest
<1>4. tokens # <<>>
  <2>1. c + 1 \in DOMAIN tokens
    BY <1>2, <1>3
  <2> QED
    BY <2>1
<1>5. ASSUME NEW k \in 1 .. m, ~TokenFits(c + k, tokens[c + k]) PROVE ~InTheGrammar
  BY <1>3, <1>5 DEF InTheGrammar
<1>6. /\ \A token : TokenFits(c + 1, token) <=> token.is = "name"
      /\ \A token : TokenFits(c + 2, token) <=> token.is = "op"
      /\ \A token : TokenFits(c + 3, token) <=> token.is \notin {"open", "long"}
  BY <1>2, FitsAt
<1>7. \A k \in 1 .. m : expr[k].is \in TokenKinds
  BY <1>3, TokenKind
<1>8. CASE \E k \in 1 .. m : expr[k].is = "long" /\ PredicateStatus = "LimitExceeded"
  <2>1. \E k \in DOMAIN tokens : tokens[k].is = "long"
    BY <1>3, <1>8
  <2> QED
    BY <1>1, <1>8, <2>1, ParserFails
<1>9. CASE PredicateStatus = "InvalidField" /\ expr[1].is # "name"
  <2>1. ~InTheGrammar
    BY <1>2, <1>3, <1>5, <1>6, <1>9
  <2> QED
    BY <1>1, <1>4, <1>9, <2>1, ParserFails
<1>10. CASE /\ PredicateStatus = "Malformed"
            /\ \/ m < 2 \/ m < 3
               \/ expr[2].is # "op" \/ expr[3].is = "open"
  <2>1. ~InTheGrammar
    <3>1. CASE m = 1
      <4>1. n % 4 = 1
        BY <1>2, <3>1, PlacesOfFour
      <4> QED
        BY <1>2, <4>1 DEF InTheGrammar
    <3>2. CASE m = 2
      <4>1. n % 4 = 2
        BY <1>2, <3>2, PlacesOfFour
      <4> QED
        BY <1>2, <4>1 DEF InTheGrammar
    <3>3. CASE m >= 3 /\ expr[2].is # "op"
      BY <1>2, <1>3, <1>5, <1>6, <3>3
    <3>4. CASE m >= 3 /\ expr[3].is = "open"
      BY <1>2, <1>3, <1>5, <1>6, <3>4
    <3> QED
      BY <1>2, <1>10, <3>1, <3>2, <3>3, <3>4
  <2> QED
    BY <1>1, <1>4, <1>10, <2>1, ParserFails
<1>11. \/ \E k \in 1 .. m : expr[k].is = "long" /\ PredicateStatus = "LimitExceeded"
       \/ PredicateStatus = "InvalidField" /\ expr[1].is # "name"
       \/ /\ PredicateStatus = "Malformed"
          /\ \/ m < 2 \/ m < 3
             \/ expr[2].is # "op" \/ expr[3].is = "open"
  <2>1. \A kinds : \A k \in {1, 2, 3} : TokenIs(k, kinds) <=> k <= m /\ expr[k].is \in kinds
    BY <1>2 DEF TokenIs
  <2>2. 1 \in 1 .. m
    BY <1>2
  <2>3. CASE expr[1].is = "long"
    BY <2>1, <2>2, <2>3 DEF PredicateStatus
  <2>4. CASE expr[1].is \notin {"long", "name"}
    BY <2>1, <2>2, <2>4 DEF PredicateStatus
  <2>5. CASE expr[1].is = "name"
    <3>1. CASE ~(2 <= m /\ expr[2].is = "op")
      BY <1>2, <2>1, <2>2, <2>5, <3>1 DEF PredicateStatus, HasOperator
    <3>2. CASE 2 <= m /\ expr[2].is = "op"
      <4>1. PredicateStatus = ValueStatus
        BY <2>1, <2>2, <2>5, <3>2 DEF PredicateStatus, HasOperator
      <4>2. CASE 3 <= m
        <5>1. 3 \in 1 .. m
          BY <1>2, <4>2
        <5>2. expr[3].is \in {"name", "long", "op", "quoted", "open", "junk"}
          BY <1>7, <5>1 DEF TokenKinds
        <5>3. CASE expr[3].is = "long"
          BY <2>1, <4>1, <4>2, <5>1, <5>3 DEF ValueStatus
        <5>4. CASE expr[3].is = "open"
          BY <2>1, <4>1, <4>2, <5>4 DEF ValueStatus
        <5>5. CASE expr[3].is \in {"name", "op", "quoted", "junk"}
          BY <1>1, <2>1, <4>1, <4>2, <5>5 DEF ValueStatus
        <5> QED
          BY <5>2, <5>3, <5>4, <5>5
      <4>3. CASE ~(3 <= m)
        BY <1>2, <2>1, <4>1, <4>3 DEF ValueStatus
      <4> QED
        BY <4>2, <4>3
    <3> QED
      BY <3>1, <3>2
  <2> QED
    BY <2>3, <2>4, <2>5
<1> QED
  BY <1>8, <1>9, <1>10, <1>11

LEMMA ParserReadPredicate ==
  ASSUME ParserInv, ReadPredicate, UNCHANGED tokens
  PROVE  ParserInv'
<1>1. /\ expr # <<>> /\ expecting /\ PredicateStatus = "Ok" /\ status = "parsing"
      /\ Len(predicates) < MaxPredicates
      /\ predicates' = Append(predicates, PredicateRead)
      /\ conjunctions' = IF predicates = <<>> THEN conjunctions
                         ELSE Append(conjunctions, pending)
      /\ expecting' = FALSE /\ expr' = SubSeq(expr, 4, Len(expr))
      /\ UNCHANGED <<tokens, pending, status>>
  BY DEF ReadPredicate, Reading, AddPredicate
<1>2. PICK p \in Nat, n \in Nat, m \in Nat \ {0}, c \in Nat :
        /\ p = Len(predicates) /\ n = Len(tokens) /\ m = Len(expr) /\ c = Behind
        /\ n = c + m /\ c = 4 * p
  BY <1>1, HeadOfRest DEF ParserInv, TokensRead
<1>3. \A k \in 1 .. m : /\ expr[k] = tokens[c + k] /\ c + k \in DOMAIN tokens
                        /\ expr[k] \in Tokens
  BY <1>1, <1>2, HeadOfRest
<1>4. /\ 3 <= m /\ expr[1].is = "name" /\ expr[2].is = "op"
      /\ expr[3].is \notin {"open", "long"}
  <2>1. \A kinds : \A k \in {1, 2, 3} : TokenIs(k, kinds) <=> k <= m /\ expr[k].is \in kinds
    BY <1>2 DEF TokenIs
  <2>2. expr[1].is = "name"
    BY <1>1, <1>2, <2>1 DEF PredicateStatus
  <2>3. 2 <= m /\ expr[2].is = "op"
    BY <1>1, <1>2, <2>1, <2>2 DEF PredicateStatus, HasOperator
  <2>4. ValueStatus = "Ok"
    BY <1>1, <1>2, <2>1, <2>2, <2>3 DEF PredicateStatus, HasOperator
  <2>5. 3 <= m /\ expr[3].is \in {"name", "op", "quoted", "junk"}
    BY <2>1, <2>4 DEF ValueStatus
  <2> QED
    BY <2>2, <2>3, <2>5
<1>5. 1 \in 1 .. m /\ 2 \in 1 .. m /\ 3 \in 1 .. m
  BY <1>2, <1>4
<1>6. /\ TokenFits(c + 1, tokens[c + 1]) /\ TokenFits(c + 2, tokens[c + 2])
      /\ TokenFits(c + 3, tokens[c + 3])
  BY <1>2, <1>3, <1>4, <1>5, FitsAt
<1>7. Len(expr') = m - 3 /\ expr' \in Seq(Tokens)
      /\ \A k \in 1 .. m - 3 : expr'[k] = expr[3 + k]
  <2>1. expr \in Seq(Tokens) /\ Len(expr) = m /\ 3 <= m
    BY <1>1, <1>2, <1>4 DEF ParserInv, ParserType
  <2>2. expr' = SubSeq(expr, 4, m)
    BY <1>1, <2>1
  <2> QED
    BY <2>1, <2>2
<1>8. Behind' = c + 3
  <2>1. Len(tokens') = n
    BY <1>1, <1>2
  <2>2. Behind' = Len(tokens') - Len(expr')
    BY DEF Behind
  <2>3. Len(expr') = m - 3
    BY <1>7
  <2>4. n - (m - 3) = c + 3
    BY <1>2
  <2> QED
    BY <2>1, <2>2, <2>3, <2>4
<1>9. PredicateRead \in Phrases
  <2>1. \A token \in Tokens : token.text \in {Texts[k] : k \in DOMAIN Texts} \cup Operators
    BY DEF Tokens
  <2> QED
    BY <1>3, <1>5, <2>1 DEF PredicateRead, Phrases
<1>10. PredicateRead = Typed(p + 1)
  <2>1. /\ 4 * (p + 1) - 3 = c + 1 /\ 4 * (p + 1) - 2 = c + 2
        /\ 4 * (p + 1) - 1 = c + 3
    BY <1>2
  <2> QED
    BY <1>3, <1>5, <2>1 DEF PredicateRead, Typed
<1>11. /\ predicates' \in Seq(Phrases) /\ Len(predicates') = p + 1
       /\ predicates'[p + 1] = PredicateRead
       /\ \A i \in 1 .. p : predicates'[i] = predicates[i]
  BY <1>1, <1>2, <1>9 DEF ParserInv, ParserType
<1>12. p = 0 <=> predicates = <<>>
  BY <1>2 DEF ParserInv, ParserType
<1>13. conjunctions \in Seq({"AND", "OR"}) /\ pending \in {"AND", "OR"}
  BY DEF ParserInv, ParserType
<1>14. /\ Len(conjunctions) = IF p = 0 THEN 0 ELSE p - 1
       /\ \A i \in 1 .. Len(conjunctions) : conjunctions[i] = "OR" <=> IsOr(tokens[4 * i])
       /\ p > 0 => (pending = "OR" <=> IsOr(tokens[4 * p]))
       /\ \A i \in 1 .. p : predicates[i] = Typed(i)
  BY <1>1, <1>2 DEF ParserInv, PredicatesRead
<1>15. /\ conjunctions' \in Seq({"AND", "OR"}) /\ Len(conjunctions') = p
       /\ \A i \in 1 .. p : conjunctions'[i] = "OR" <=> IsOr(tokens[4 * i])
  <2>1. CASE p = 0
    BY <1>1, <1>12, <1>13, <1>14, <2>1
  <2>2. CASE p # 0
    <3>1. conjunctions' = Append(conjunctions, pending) /\ Len(conjunctions) = p - 1
      BY <1>1, <1>12, <1>14, <2>2
    <3>2. /\ conjunctions' \in Seq({"AND", "OR"}) /\ Len(conjunctions') = p
          /\ conjunctions'[p] = pending
          /\ \A i \in 1 .. p - 1 : conjunctions'[i] = conjunctions[i]
      BY <1>2, <1>13, <2>2, <3>1
    <3>3. \A i \in 1 .. p : i = p \/ i \in 1 .. p - 1
      BY <1>2
    <3>4. \A i \in 1 .. p - 1 : conjunctions[i] = "OR" <=> IsOr(tokens[4 * i])
      BY <1>14, <3>1
    <3>5. conjunctions'[p] = "OR" <=> IsOr(tokens[4 * p])
      BY <1>2, <1>14, <2>2, <3>2
    <3> QED
      BY <3>2, <3>3, <3>4, <3>5
  <2> QED
    BY <2>1, <2>2
<1>16. ParserType'
  BY <1>1, <1>7, <1>11, <1>13, <1>15 DEF ParserInv, ParserType
<1>17. TokensRead'
  <2>1. Len(expr') <= Len(tokens') /\ tokens' = tokens
    BY <1>1, <1>2, <1>4, <1>7
  <2>2. \A k \in 1 .. m - 3 : expr'[k] = tokens[(c + 3) + k]
    <3> TAKE k \in 1 .. m - 3
    <3>1. 3 + k \in 1 .. m /\ c + (3 + k) = (c + 3) + k
      BY <1>2
    <3> QED
      BY <1>3, <1>7, <3>1
  <2>3. \A k \in 1 .. c + 3 : TokenFits(k, tokens[k])
    <3>1. \A k \in 1 .. c + 3 : k \in 1 .. c \/ k = c + 1 \/ k = c + 2 \/ k = c + 3
      BY <1>2
    <3>2. \A k \in 1 .. c : TokenFits(k, tokens[k])
      BY <1>2 DEF ParserInv, TokensRead
    <3> QED
      BY <1>6, <3>1, <3>2
  <2>4. c + 3 = 4 * (p + 1) - 1 /\ p + 1 >= 1
    BY <1>2
  <2>5. \A k, token : TokenFits(k, token)' <=> TokenFits(k, token)
    OBVIOUS
  <2> QED
    BY <1>1, <1>7, <1>8, <1>11, <2>1, <2>2, <2>3, <2>4 DEF TokensRead
<1>18. PredicatesRead'
  <2>1. \A i \in 1 .. p + 1 : predicates'[i] = Typed(i)
    <3>1. \A i \in 1 .. p + 1 : i \in 1 .. p \/ i = p + 1
      BY <1>2
    <3> QED
      BY <1>10, <1>11, <1>14, <3>1
  <2>2. \A i : Typed(i)' = Typed(i)
    BY <1>1 DEF Typed
  <2>3. p + 1 <= MaxPredicates /\ ~(p + 1 = 0) /\ p + 1 - 1 = p
    BY <1>1, <1>2, FilterAssumption
  <2> QED
    BY <1>1, <1>11, <1>15, <2>1, <2>2, <2>3 DEF PredicatesRead
<1>19. Verdict'
  BY <1>1 DEF Verdict, AcceptsTheGrammar
<1> QED
  BY <1>16, <1>17, <1>18, <1>19 DEF ParserInv

LEMMA ParserReadKeyword ==
  ASSUME ParserInv, ReadKeyword, UNCHANGED tokens
  PROVE  ParserInv'
<1>1. /\ expr # <<>> /\ ~expecting /\ status = "parsing"
      /\ \/ IsAnd(Head(expr)) /\ pending' = "AND"
         \/ IsOr(Head(expr)) /\ pending' = "OR"
      /\ expecting' = TRUE /\ expr' = Tail(expr)
      /\ UNCHANGED <<tokens, predicates, conjunctions, status>>
  BY DEF ReadKeyword, Reading
<1>2. PICK p \in Nat \ {0}, n \in Nat, m \in Nat \ {0}, c \in Nat :
        /\ p = Len(predicates) /\ n = Len(tokens) /\ m = Len(expr) /\ c = Behind
        /\ n = c + m /\ c = 4 * p - 1
  <2>1. Len(predicates) >= 1 /\ Behind = 4 * Len(predicates) - 1
    BY <1>1 DEF ParserInv, TokensRead
  <2>2. /\ Len(tokens) \in Nat /\ Len(expr) \in Nat \ {0} /\ Len(predicates) \in Nat
        /\ Behind \in Nat /\ Len(tokens) = Behind + Len(expr)
    BY <1>1, HeadOfRest
  <2>3. Len(predicates) \in Nat \ {0}
    BY <2>1, <2>2
  <2> QED
    BY <2>1, <2>2, <2>3, Zenon
<1>3. \A k \in 1 .. m : /\ expr[k] = tokens[c + k] /\ c + k \in DOMAIN tokens
                        /\ expr[k] \in Tokens
  BY <1>1, <1>2, HeadOfRest
<1>4. Head(expr) = tokens[4 * p] /\ c + 1 = 4 * p
  <2>1. 1 \in 1 .. m /\ c + 1 = 4 * p
    BY <1>2
  <2>2. Head(expr) = expr[1]
    BY <1>1 DEF ParserInv, ParserType
  <2> QED
    BY <1>3, <2>1, <2>2
<1>5. TokenFits(4 * p, tokens[4 * p])
  <2>1. 4 * (p - 1) + 4 = 4 * p /\ p - 1 \in Nat
    BY <1>2
  <2>2. \A token : TokenFits(4 * (p - 1) + 4, token) <=> IsAnd(token) \/ IsOr(token)
    BY <2>1, FitsAt
  <2> QED
    BY <1>1, <1>4, <2>1, <2>2
<1>6. pending' = "OR" <=> IsOr(tokens[4 * p])
  BY <1>1, <1>4 DEF IsAnd, IsOr
<1>7. Len(expr') = m - 1 /\ expr' \in Seq(Tokens)
      /\ \A k \in 1 .. m - 1 : expr'[k] = expr[k + 1]
  BY <1>1, <1>2 DEF ParserInv, ParserType
<1>8. Behind' = c + 1
  <2>1. Len(tokens') = n
    BY <1>1, <1>2
  <2>2. Behind' = Len(tokens') - Len(expr')
    BY DEF Behind
  <2>3. Len(expr') = m - 1
    BY <1>7
  <2>4. n - (m - 1) = c + 1
    BY <1>2
  <2> QED
    BY <2>1, <2>2, <2>3, <2>4
<1>9. ParserType'
  BY <1>1, <1>7 DEF ParserInv, ParserType
<1>10. TokensRead'
  <2>1. Len(expr') <= Len(tokens')
    BY <1>1, <1>2, <1>7
  <2>2. \A k \in 1 .. m - 1 : expr'[k] = tokens[(c + 1) + k]
    <3> TAKE k \in 1 .. m - 1
    <3>1. k + 1 \in 1 .. m /\ c + (k + 1) = (c + 1) + k
      BY <1>2
    <3> QED
      BY <1>3, <1>7, <3>1
  <2>3. \A k \in 1 .. c + 1 : TokenFits(k, tokens[k])
    <3>1. \A k \in 1 .. c + 1 : k \in 1 .. c \/ k = c + 1
      BY <1>2
    <3>2. \A k \in 1 .. c : TokenFits(k, tokens[k])
      BY <1>2 DEF ParserInv, TokensRead
    <3> QED
      BY <1>4, <1>5, <3>1, <3>2
  <2> QED
    BY <1>1, <1>2, <1>4, <1>7, <1>8, <2>1, <2>2, <2>3 DEF TokensRead
<1>11. PredicatesRead'
  <2>1. \A i : Typed(i)' = Typed(i)
    BY <1>1 DEF Typed
  <2> QED
    BY <1>1, <1>2, <1>6, <2>1 DEF ParserInv, PredicatesRead
<1>12. Verdict'
  BY <1>1 DEF Verdict, AcceptsTheGrammar
<1> QED
  BY <1>9, <1>10, <1>11, <1>12 DEF ParserInv

LEMMA ParserBadKeyword ==
  ASSUME ParserInv, BadKeyword, UNCHANGED tokens
  PROVE  ParserInv'
<1>1. /\ expr # <<>> /\ ~expecting /\ Fail("Malformed")
      /\ ~IsAnd(Head(expr)) /\ ~IsOr(Head(expr))
  BY DEF BadKeyword, Reading
<1>2. PICK p \in Nat \ {0}, m \in Nat \ {0}, c \in Nat :
        /\ p = Len(predicates) /\ m = Len(expr) /\ c = Behind /\ c = 4 * p - 1
  BY <1>1, HeadOfRest DEF ParserInv, TokensRead
<1>3. 1 \in 1 .. m /\ c + 1 = 4 * (p - 1) + 4 /\ p - 1 \in Nat
  BY <1>2
<1>4. Head(expr) = tokens[c + 1] /\ c + 1 \in DOMAIN tokens
  <2>1. Head(expr) = expr[1]
    BY <1>1 DEF ParserInv, ParserType
  <2> QED
    BY <1>1, <1>2, <1>3, <2>1, HeadOfRest
<1>5. ~TokenFits(c + 1, tokens[c + 1])
  <2>1. \A token : TokenFits(4 * (p - 1) + 4, token) <=> IsAnd(token) \/ IsOr(token)
    BY <1>3, FitsAt
  <2> QED
    BY <1>1, <1>3, <1>4, <2>1
<1>6. ~InTheGrammar /\ tokens # <<>>
  BY <1>4, <1>5 DEF InTheGrammar
<1> QED
  BY <1>1, <1>6, ParserFails

LEMMA ParserEnds ==
  ASSUME ParserInv, EndOfExpression, UNCHANGED tokens
  PROVE  ParserInv'
<1>1. /\ expr = <<>> /\ status = "parsing"
      /\ Fail(IF expecting /\ predicates # <<>> THEN "Malformed" ELSE "Ok")
  BY DEF EndOfExpression
<1>2. PICK p \in Nat, n \in Nat :
        /\ p = Len(predicates) /\ n = Len(tokens) /\ n = Behind
        /\ (expecting => n = 4 * p) /\ (~expecting => p >= 1 /\ n = 4 * p - 1)
        /\ p <= MaxPredicates /\ \A k \in 1 .. n : TokenFits(k, tokens[k])
  BY <1>1 DEF ParserInv, ParserType, TokensRead, PredicatesRead, Behind
<1>3. /\ (p = 0 <=> predicates = <<>>) /\ (n = 0 <=> tokens = <<>>)
      /\ DOMAIN tokens = 1 .. n
  <2>1. tokens \in Seq(Tokens) /\ predicates \in Seq(Phrases)
    BY DEF ParserInv, ParserType
  <2>2. p = 0 <=> predicates = <<>>
    <3>1. Len(predicates) = 0 <=> predicates = <<>>
      BY <2>1
    <3> QED
      BY <1>2, <3>1
  <2>3. n = 0 <=> tokens = <<>>
    <3>1. Len(tokens) = 0 <=> tokens = <<>>
      BY <2>1
    <3> QED
      BY <1>2, <3>1
  <2>4. DOMAIN tokens = 1 .. n
    <3>1. DOMAIN tokens = 1 .. Len(tokens)
      BY <2>1
    <3> QED
      BY <1>2, <3>1
  <2> QED
    BY <2>2, <2>3, <2>4, Zenon
<1>4. CASE expecting /\ predicates # <<>>
  <2>1. ~InTheGrammar /\ tokens # <<>>
    BY <1>2, <1>3, <1>4, PlacesOfFour DEF InTheGrammar
  <2> QED
    BY <1>1, <1>4, <2>1, ParserFails
<1>5. CASE ~(expecting /\ predicates # <<>>)
  <2>1. /\ UNCHANGED <<tokens, expr, predicates, conjunctions, pending, expecting>>
        /\ status' = "Ok"
    BY <1>1, <1>5 DEF Fail
  <2>2. tokens = <<>> \/ (InTheGrammar /\ Len(tokens) < 4 * MaxPredicates)
    <3>1. CASE expecting
      BY <1>2, <1>3, <1>5, <3>1
    <3>2. CASE ~expecting
      <4>1. p - 1 \in Nat /\ n = 4 * (p - 1) + 3
        BY <1>2, <3>2
      <4>2. n % 4 = 3
        BY <4>1, PlacesOfFour
      <4>3. n < 4 * MaxPredicates
        BY <1>2, <3>2, FilterAssumption
      <4> QED
        BY <1>2, <1>3, <4>2, <4>3 DEF InTheGrammar
    <3> QED
      BY <3>1, <3>2
  <2>3. ParserType'
    BY <2>1 DEF ParserInv, ParserType
  <2>4. TokensRead'
    BY <2>1 DEF ParserInv, TokensRead, Behind
  <2>5. PredicatesRead'
    BY <2>1 DEF ParserInv, PredicatesRead, Typed
  <2>6. Verdict'
    <3>1. AcceptsTheGrammar'
      BY <2>1, <2>2 DEF AcceptsTheGrammar, InTheGrammar
    <3> QED
      BY <1>1, <1>2, <1>3, <1>5, <2>1, <3>1 DEF Verdict
  <2> QED
    BY <2>3, <2>4, <2>5, <2>6 DEF ParserInv
<1> QED
  BY <1>4, <1>5


LEMMA ParserStep ==
  ASSUME ParserInv, [Next]_vars
  PROVE  ParserInv'
<1>1. CASE UNCHANGED <<filterVars, tokens>>
  <2>1. UNCHANGED <<tokens, expr, predicates, conjunctions, pending, expecting, status>>
    BY <1>1 DEF filterVars
  <2> QED
    BY <2>1 DEF ParserInv, ParserType, TokensRead, PredicatesRead, Verdict,
                Behind, Typed, AcceptsTheGrammar, InTheGrammar
<1>2. CASE Parse
  <2>1. UNCHANGED tokens /\ ParseStep
    BY <1>2 DEF Parse
  <2> QED
    BY <2>1, ParserTooMany, ParserBadPredicate, ParserReadPredicate,
       ParserReadKeyword, ParserBadKeyword, ParserEnds DEF ParseStep
<1> QED
  BY <1>1, <1>2 DEF Next, vars, Ingest, CompileFilter, BadFilter, StartFilter,
     Keep, Drop, WriteCsv, WriteNdjson, BadOutKind

LEMMA ParserAlways == Spec => []ParserInv
BY ParserInit, ParserStep, PTL DEF Spec

(* The parser accepts what the grammar has, whatever the expression, and a *)
(* limit is only given as the reason where the expression is over it.      *)
THEOREM GrammarAccepted == Spec => []AcceptsTheGrammar
<1>1. ParserInv => AcceptsTheGrammar
  BY DEF ParserInv, Verdict
<1> QED
  BY <1>1, ParserAlways, PTL

----------------------------------------------------------------------------
LEMMA SmallestExists ==
  ASSUME NEW S \in SUBSET Nat, S # {}
  PROVE  \E x \in S : \A y \in S : x <= y
<1> DEFINE R == OpToRel(<, Nat)
<1>1. IsWellFoundedOn(R, Nat)
  BY NatLessThanWellFounded
<1>2. \A x \in Nat, y \in Nat : y < x => <<y, x>> \in R
  BY DEF OpToRel
<1> HIDE DEF R
<1>3. \E x \in S : \A y \in S : ~ (<<y, x>> \in R)
  BY <1>1, WFMin
<1>4. \A x \in S : x \in Nat
  OBVIOUS
<1>5. \A x, y \in S : ~ (<<y, x>> \in R) => x <= y
  BY <1>2, <1>4
<1> QED
  BY <1>3, <1>5

(* Left-to-right evaluation without the loop: M[i] says that predicate i   *)
(* matches, O[i] that OR joins it to those before.                         *)
Accumulates(acc, M, O, p) ==
  acc = [i \in 1 .. p |-> IF i = 1 THEN M[1]
                          ELSE IF ~O[i] THEN acc[i - 1] /\ M[i]
                          ELSE acc[i - 1] \/ M[i]]

HoldsUpTo(i, M, O) ==
  \E j \in 1 .. i : /\ (j = 1 \/ O[j]) /\ M[j]
                    /\ \A k \in j + 1 .. i : ~O[k] => M[k]

LEMMA HoldsOnwards ==
  ASSUME NEW p \in Nat, NEW M \in [1 .. p -> BOOLEAN], NEW O \in [1 .. p -> BOOLEAN],
         NEW i \in 1 .. p
  PROVE  /\ i = 1 => (HoldsUpTo(i, M, O) <=> M[1])
         /\ i # 1 /\ ~O[i] => (HoldsUpTo(i, M, O) <=> HoldsUpTo(i - 1, M, O) /\ M[i])
         /\ i # 1 /\ O[i] => (HoldsUpTo(i, M, O) <=> HoldsUpTo(i - 1, M, O) \/ M[i])
<1>1. CASE i = 1
  BY <1>1 DEF HoldsUpTo
<1>2. CASE i # 1
  <2>1. /\ i - 1 \in 1 .. p
        /\ \A j : j \in 1 .. i <=> (j \in 1 .. i - 1 \/ j = i)
        /\ \A j \in 1 .. i - 1 : \A k : k \in j + 1 .. i <=> (k \in j + 1 .. i - 1 \/ k = i)
        /\ \A k : k \notin i + 1 .. i
    BY <1>2
  <2>2. CASE ~O[i]
    BY <2>1, <2>2, <1>2, Zenon DEF HoldsUpTo
  <2>3. CASE O[i]
    BY <2>1, <2>3, <1>2, Zenon DEF HoldsUpTo
  <2> QED
    BY <1>2, <2>2, <2>3
<1> QED
  BY <1>1, <1>2

LEMMA Accumulated ==
  ASSUME NEW p \in Nat \ {0}, NEW M \in [1 .. p -> BOOLEAN], NEW O \in [1 .. p -> BOOLEAN]
  PROVE  \E acc : Accumulates(acc, M, O, p)
<1> DEFINE J == [i \in 1 .. p |-> HoldsUpTo(i, M, O)]
<1>1. \A i \in 1 .. p : J[i] = IF i = 1 THEN M[1]
                               ELSE IF ~O[i] THEN J[i - 1] /\ M[i]
                               ELSE J[i - 1] \/ M[i]
  <2> TAKE i \in 1 .. p
  <2>1. J[i] = HoldsUpTo(i, M, O) /\ (i # 1 => J[i - 1] = HoldsUpTo(i - 1, M, O))
    OBVIOUS
  <2>2. M[1] \in BOOLEAN /\ HoldsUpTo(i, M, O) \in BOOLEAN
    BY DEF HoldsUpTo
  <2> HIDE DEF J
  <2> QED
    BY <2>1, <2>2, HoldsOnwards
<1>2. Accumulates(J, M, O, p)
  BY <1>1, Zenon DEF Accumulates
<1> HIDE DEF J
<1> QED
  BY <1>2

LEMMA LeftToRight ==
  ASSUME NEW p \in Nat \ {0}, NEW M \in [1 .. p -> BOOLEAN], NEW O \in [1 .. p -> BOOLEAN],
         NEW acc, Accumulates(acc, M, O, p)
  PROVE  acc[p] <=> HoldsUpTo(p, M, O)
<1> DEFINE Wrong == {i \in 1 .. p : ~(acc[i] <=> HoldsUpTo(i, M, O))}
<1>1. \A i \in 1 .. p : i # 1 => i - 1 \in 1 .. p /\ ~(i <= i - 1)
  OBVIOUS
<1>2. \A i \in 1 .. p : /\ i = 1 => (acc[i] <=> M[1])
                        /\ i # 1 /\ ~O[i] => (acc[i] <=> acc[i - 1] /\ M[i])
                        /\ i # 1 /\ O[i] => (acc[i] <=> acc[i - 1] \/ M[i])
  BY DEF Accumulates
<1>3. SUFFICES ASSUME Wrong # {} PROVE FALSE
  <2>1. p \in 1 .. p
    OBVIOUS
  <2> QED
    BY <2>1
<1>4. PICK i \in Wrong : \A k \in Wrong : i <= k
  <2>1. 1 .. p \subseteq Nat
    OBVIOUS
  <2>2. Wrong \in SUBSET Nat
    BY <2>1
  <2> QED
    BY <1>3, <2>2, SmallestExists
<1>5. i \in 1 .. p /\ ~(acc[i] <=> HoldsUpTo(i, M, O))
  BY <1>4
<1>6. i # 1 => (acc[i - 1] <=> HoldsUpTo(i - 1, M, O))
  BY <1>1, <1>4, <1>5
<1> QED
  BY <1>2, <1>5, <1>6, HoldsOnwards, Zenon

LEMMA MatchesIsTruth ==
  ASSUME NEW predicate, NEW e
  PROVE  Matches(predicate, e) \in BOOLEAN
<1>1. CASE predicate.op = "="
  BY <1>1 DEF Matches
<1>2. CASE predicate.op = "!="
  BY <1>2 DEF Matches
<1>3. CASE predicate.op = "~"
  BY <1>3 DEF Matches
<1>4. CASE predicate.op = "!~"
  BY <1>4 DEF Matches
<1>5. CASE predicate.op \notin {"=", "!=", "~", "!~"}
  BY <1>5 DEF Matches
<1> QED
  BY <1>1, <1>2, <1>3, <1>4, <1>5

(* A compiled filter matches the events that satisfy the expression.       *)
LEMMA FilterIsAsTyped ==
  ASSUME ParserInv, status = "Ok", NEW e
  PROVE  FilterMatches(e) <=> Satisfies(e)
<1>1. PICK p \in Nat, n \in Nat :
        /\ p = Len(predicates) /\ n = Len(tokens)
        /\ p = 0 => n = 0
        /\ p # 0 => n = 4 * p - 1
  <2>1. expr = <<>> /\ (expecting => Len(predicates) = 0)
    BY DEF ParserInv, Verdict
  <2> QED
    BY <2>1 DEF ParserInv, ParserType, TokensRead, Behind
<1>2. p = (n + 1) \div 4
  BY <1>1
<1>3. /\ (p = 0 <=> predicates = <<>>) /\ (p = 0 <=> tokens = <<>>)
      /\ conjunctions \in Seq({"AND", "OR"})
  BY <1>1 DEF ParserInv, ParserType
<1>4. CASE p = 0
  BY <1>3, <1>4 DEF FilterMatches, Satisfies
<1>5. CASE p # 0
  <2> DEFINE M == [i \in 1 .. p |-> Matches(Typed(i), e)]
        O == [i \in 1 .. p |-> Opens(i)]
        Conj(i) == IF i - 1 <= Len(conjunctions) THEN conjunctions[i - 1] ELSE "AND"
        Folds(acc) ==
          acc = [i \in 1 .. p |->
                   IF i = 1 THEN Matches(predicates[1], e)
                   ELSE IF Conj(i) = "AND" THEN acc[i - 1] /\ Matches(predicates[i], e)
                   ELSE acc[i - 1] \/ Matches(predicates[i], e)]
        result == CHOOSE acc : Folds(acc)
  <2>1. M \in [1 .. p -> BOOLEAN] /\ O \in [1 .. p -> BOOLEAN]
    BY MatchesIsTruth DEF Opens, IsOr
  <2>2. \A i \in 1 .. p : predicates[i] = Typed(i)
    BY <1>1 DEF ParserInv, PredicatesRead
  <2>3. \A i \in 1 .. p : i # 1 => (Conj(i) = "AND" <=> ~Opens(i))
    <3>1. Len(conjunctions) = p - 1
      BY <1>1, <1>5 DEF ParserInv, PredicatesRead
    <3> TAKE i \in 1 .. p
    <3> HAVE i # 1
    <3>2. PICK j \in 1 .. p - 1 : i - 1 = j /\ 4 * i - 4 = 4 * j
      OBVIOUS
    <3>3. conjunctions[j] \in {"AND", "OR"}
      BY <1>3, <3>1, <3>2
    <3>4. conjunctions[j] = "OR" <=> IsOr(tokens[4 * j])
      BY <3>1 DEF ParserInv, PredicatesRead
    <3>5. Conj(i) = conjunctions[j]
      BY <3>1, <3>2
    <3> QED
      BY <3>2, <3>3, <3>4, <3>5 DEF Opens
  <2>4. \A acc : Folds(acc) <=> Accumulates(acc, M, O, p)
    <3>1. 1 \in 1 .. p
      BY <1>5
    <3> HIDE DEF Conj
    <3> QED
      BY <2>2, <2>3, <3>1 DEF Accumulates
  <2>5. FilterMatches(e) <=> result[p]
    BY <1>1, <1>3, <1>5 DEF FilterMatches
  <2> HIDE DEF Folds, Conj, M, O
  <2>6. Folds(result)
    <3>1. \E acc : Accumulates(acc, M, O, p)
      BY <1>5, <2>1, Accumulated
    <3>2. \E acc : Folds(acc)
      BY <2>4, <3>1
    <3> QED
      BY <3>2
  <2>7. result[p] <=> HoldsUpTo(p, M, O)
    <3>1. Accumulates(result, M, O, p)
      BY <2>4, <2>6
    <3> HIDE DEF result
    <3> QED
      BY <1>5, <2>1, <3>1, LeftToRight
  <2>8. Satisfies(e) <=> \E j \in 1 .. p :
                            /\ Opens(j) /\ Matches(Typed(j), e)
                            /\ \A i \in j + 1 .. p : ~Opens(i) => Matches(Typed(i), e)
    BY <1>1, <1>2, <1>3, <1>5, Zenon DEF Satisfies
  <2>9. HoldsUpTo(p, M, O) <=> \E j \in 1 .. p :
                            /\ Opens(j) /\ Matches(Typed(j), e)
                            /\ \A i \in j + 1 .. p : ~Opens(i) => Matches(Typed(i), e)
    <3>1. \A i \in 1 .. p : M[i] = Matches(Typed(i), e) /\ O[i] = Opens(i)
      BY DEF M, O
    <3>2. \A j \in 1 .. p : \A i \in j + 1 .. p : i \in 1 .. p
      OBVIOUS
    <3>3. \A j : (j = 1 \/ Opens(j)) <=> Opens(j)
      BY DEF Opens
    <3> QED
      BY <3>1, <3>2, <3>3, Zenon DEF HoldsUpTo
  <2> QED
    BY <2>5, <2>7, <2>8, <2>9
<1> QED
  BY <1>4, <1>5

----------------------------------------------------------------------------
(* A sequence that holds f at the places of a set, in their order, and the *)
(* place after all of them.                                                *)
Rank(k, S) == Cardinality({j \in S : j <= k})

Lists(s, f, S) ==
  /\ Len(s) = Cardinality(S)
  /\ \A k \in S : s[Rank(k, S)] = f[k]

LEMMA ListOneMore ==
  ASSUME NEW n \in Nat, NEW S \in SUBSET (1 .. n), NEW E, NEW s \in Seq(E), NEW f,
         Lists(s, f, S), f[n + 1] \in E
  PROVE  Lists(Append(s, f[n + 1]), f, S \cup {n + 1})
<1> DEFINE T == S \cup {n + 1}
<1>1. IsFiniteSet(S)
  <2>1. IsFiniteSet(1 .. n)
    BY FS_Interval
  <2> QED
    BY <2>1, FS_Subset
<1>2. n + 1 \notin S
  OBVIOUS
<1>3. Cardinality(S) \in Nat /\ Cardinality(T) = Cardinality(S) + 1
  BY <1>1, <1>2, FS_AddElement, FS_CardinalityType
<1>4. Len(s) = Cardinality(S)
  BY DEF Lists
<1>5. /\ Len(Append(s, f[n + 1])) = Len(s) + 1
      /\ Append(s, f[n + 1])[Len(s) + 1] = f[n + 1]
      /\ \A i \in 1 .. Len(s) : Append(s, f[n + 1])[i] = s[i]
  OBVIOUS
<1>6. \A k \in T : Append(s, f[n + 1])[Rank(k, T)] = f[k]
  <2> TAKE k \in T
  <2>1. CASE k \in S
    <3>1. {j \in T : j <= k} = {j \in S : j <= k}
      <4>1. ~(n + 1 <= k)
        BY <2>1
      <4> QED
        BY <4>1
    <3>2. Rank(k, T) = Rank(k, S)
      BY <3>1 DEF Rank
    <3>3. Rank(k, S) \in 1 .. Cardinality(S)
      <4> DEFINE B == {j \in S : j <= k}
      <4>1. B \in SUBSET S /\ k \in B
        BY <2>1
      <4> HIDE DEF B
      <4>2. IsFiniteSet(B) /\ Cardinality(B) <= Cardinality(S)
        BY <1>1, <4>1, FS_Subset
      <4>3. Cardinality(B) \in Nat /\ Cardinality(B) # 0
        BY <4>1, <4>2, FS_CardinalityType, FS_EmptySet
      <4> QED
        BY <1>3, <4>2, <4>3 DEF Rank, B
    <3>4. s[Rank(k, S)] = f[k]
      BY <2>1 DEF Lists
    <3> QED
      BY <1>4, <1>5, <3>2, <3>3, <3>4
  <2>2. CASE k = n + 1
    <3>1. {j \in T : j <= k} = T
      <4>1. \A j \in T : j <= k
        BY <2>2
      <4> QED
        BY <4>1
    <3>2. Rank(k, T) = Len(s) + 1
      BY <1>3, <1>4, <3>1 DEF Rank
    <3> QED
      BY <1>5, <2>2, <3>2
  <2> QED
    BY <2>1, <2>2
<1> QED
  BY <1>3, <1>4, <1>5, <1>6 DEF Lists

(* The filter loop has put what it has seen of the ingested events, and    *)
(* what of that satisfies the expression, in their order into the new      *)
(* stream.                                                                 *)
Seen == Len(ingested) - Len(source)

AskedOf(n) == {k \in 1 .. n : Satisfies(ingested[k])}

StreamsType ==
  /\ events \in Seq(Events) /\ ingested \in Seq(Events) /\ source \in Seq(Events)
  /\ pc \in {"ingest", "parse", "filter", "written", "error"}

KeptSoFar ==
  pc \in {"filter", "written"} =>
    /\ status = "Ok"
    /\ Len(source) <= Len(ingested)
    /\ \A k \in 1 .. Len(source) : source[k] = ingested[Seen + k]
    /\ Lists(events, ingested, AskedOf(Seen))
    /\ pc = "written" => source = <<>>

ExportInv == ParserInv /\ StreamsType /\ KeptSoFar

LEMMA ExportInit == Init => ExportInv
<1> SUFFICES ASSUME Init PROVE ExportInv
  OBVIOUS
<1>1. /\ events = <<>> /\ source = <<>> /\ ingested = <<>> /\ pc = "ingest"
      /\ ParserInv
  BY ParserInit DEF Init, InitStream
<1> QED
  BY <1>1 DEF ExportInv, StreamsType, KeptSoFar

LEMMA StartsEmpty ==
  ASSUME ExportInv, StartFilter
  PROVE  StreamsType' /\ KeptSoFar'
<1>1. /\ pc' = "filter" /\ events' = <<>> /\ source' = events /\ ingested' = events
      /\ status = "Ok" /\ status' = status
  BY DEF StartFilter, filterVars
<1>2. StreamsType'
  BY <1>1 DEF ExportInv, StreamsType
<1>3. Len(events) \in Nat /\ Seen' = 0
  BY <1>1 DEF ExportInv, StreamsType, Seen
<1>4. AskedOf(Seen)' = {}
  BY <1>3 DEF AskedOf
<1>5. Lists(events, ingested, AskedOf(Seen))'
  BY <1>1, <1>4, FS_EmptySet DEF Lists
<1>6. \A k \in 1 .. Len(source') : source'[k] = ingested'[Seen' + k]
  BY <1>1, <1>3
<1> QED
  BY <1>1, <1>2, <1>3, <1>5, <1>6 DEF KeptSoFar

(* What the loop looks at next is the ingested event after those it saw.   *)
LEMMA NextSeen ==
  ASSUME ExportInv, pc = "filter", source # <<>>, source' = Tail(source),
         UNCHANGED <<pc, ingested, status, tokens>>
  PROVE  /\ Seen \in Nat /\ Seen' = Seen + 1 /\ Head(source) = ingested[Seen + 1]
         /\ Head(source) \in Events
         /\ source' \in Seq(Events)
         /\ Len(source') <= Len(ingested')
         /\ \A k \in 1 .. Len(source') : source'[k] = ingested'[Seen' + k]
         /\ AskedOf(Seen)' = IF FilterMatches(Head(source))
                             THEN AskedOf(Seen) \cup {Seen + 1} ELSE AskedOf(Seen)
<1>1. /\ ingested \in Seq(Events) /\ source \in Seq(Events) /\ source # <<>>
      /\ Len(source) <= Len(ingested) /\ status = "Ok"
      /\ \A k \in 1 .. Len(source) : source[k] = ingested[Seen + k]
  BY DEF ExportInv, StreamsType, KeptSoFar
<1>2. PICK n \in Nat, m \in Nat \ {0} : n = Seen /\ m = Len(source) /\ Len(ingested) = n + m
  <2>1. Len(source) \in Nat \ {0} /\ Len(ingested) \in Nat
    BY <1>1
  <2>2. Seen \in Nat /\ Len(ingested) = Seen + Len(source)
    BY <1>1, <2>1 DEF Seen
  <2> QED
    BY <2>1, <2>2
<1>3. Len(source') = m - 1 /\ \A k \in 1 .. m - 1 : source'[k] = source[k + 1]
  BY <1>1, <1>2
<1>4. Seen' = n + 1
  BY <1>2, <1>3 DEF Seen
<1>5. Head(source) = source[1] /\ Head(source) \in Events /\ source' \in Seq(Events)
  BY <1>1
<1>6. Head(source) = ingested[n + 1]
  BY <1>1, <1>2, <1>5
<1>7. \A k \in 1 .. m - 1 : source'[k] = ingested[(n + 1) + k]
  <2> TAKE k \in 1 .. m - 1
  <2>1. k + 1 \in 1 .. m /\ n + (k + 1) = (n + 1) + k
    OBVIOUS
  <2> QED
    BY <1>1, <1>2, <1>3, <2>1
<1>8. AskedOf(Seen)' = IF FilterMatches(Head(source))
                       THEN AskedOf(n) \cup {n + 1} ELSE AskedOf(n)
  <2>1. FilterMatches(Head(source)) <=> Satisfies(ingested[n + 1])
    BY <1>1, <1>6, FilterIsAsTyped DEF ExportInv
  <2>2. \A e : Satisfies(e)' <=> Satisfies(e)
    BY DEF Satisfies, Opens, Typed
  <2>3. AskedOf(Seen)' = {k \in 1 .. n + 1 : Satisfies(ingested[k])}
    BY <1>4, <2>2 DEF AskedOf
  <2>4. \A k : k \in 1 .. n + 1 <=> (k \in 1 .. n \/ k = n + 1)
    OBVIOUS
  <2> QED
    BY <2>1, <2>3, <2>4 DEF AskedOf
<1> QED
  BY <1>2, <1>3, <1>4, <1>5, <1>6, <1>7, <1>8

LEMMA KeepsOne ==
  ASSUME ExportInv, Keep
  PROVE  StreamsType' /\ KeptSoFar'
<1>1. /\ pc = "filter" /\ source # <<>> /\ source' = Tail(source)
      /\ FilterMatches(Head(source)) /\ events' = Append(events, Head(source))
      /\ UNCHANGED <<pc, ingested, status, tokens>>
  BY DEF Keep, Add, filterVars
<1>2. PICK n \in Nat, e \in Events :
        /\ n = Seen /\ Seen' = n + 1 /\ e = Head(source) /\ e = ingested[n + 1]
        /\ AskedOf(Seen)' = AskedOf(n) \cup {n + 1}
  BY <1>1, NextSeen
<1>3. events \in Seq(Events) /\ Lists(events, ingested, AskedOf(n)) /\ status = "Ok"
  BY <1>1, <1>2 DEF ExportInv, StreamsType, KeptSoFar
<1>4. Lists(Append(events, e), ingested, AskedOf(n) \cup {n + 1})
  <2>1. AskedOf(n) \in SUBSET (1 .. n)
    BY DEF AskedOf
  <2> QED
    <3>1. Lists(events, ingested, AskedOf(n)) /\ ingested[n + 1] \in Events
      BY <1>2, <1>3
    <3>2. Lists(Append(events, ingested[n + 1]), ingested, AskedOf(n) \cup {n + 1})
      BY <1>3, <2>1, <3>1, ListOneMore
    <3> QED
      BY <1>2, <3>2
<1>5. Lists(events, ingested, AskedOf(Seen))'
  BY <1>1, <1>2, <1>4 DEF Lists, Rank
<1>6. /\ source' \in Seq(Events) /\ Len(source') <= Len(ingested')
      /\ \A k \in 1 .. Len(source') : source'[k] = ingested'[Seen' + k]
  BY <1>1, NextSeen
<1>7. StreamsType'
  BY <1>1, <1>2, <1>3, <1>6 DEF ExportInv, StreamsType
<1> QED
  BY <1>1, <1>3, <1>5, <1>6, <1>7 DEF KeptSoFar

LEMMA DropsOne ==
  ASSUME ExportInv, Drop
  PROVE  StreamsType' /\ KeptSoFar'
<1>1. /\ pc = "filter" /\ source # <<>> /\ source' = Tail(source)
      /\ ~FilterMatches(Head(source))
      /\ UNCHANGED <<events, pc, ingested, status, tokens>>
  BY DEF Drop, filterVars, streamVars
<1>2. /\ AskedOf(Seen)' = AskedOf(Seen) /\ Lists(events, ingested, AskedOf(Seen))
      /\ status = "Ok"
  BY <1>1, NextSeen DEF ExportInv, KeptSoFar
<1>3. Lists(events, ingested, AskedOf(Seen))'
  BY <1>1, <1>2 DEF Lists, Rank
<1>4. /\ source' \in Seq(Events) /\ Len(source') <= Len(ingested')
      /\ \A k \in 1 .. Len(source') : source'[k] = ingested'[Seen' + k]
  BY <1>1, NextSeen
<1>5. StreamsType'
  BY <1>1, <1>4 DEF ExportInv, StreamsType
<1> QED
  BY <1>1, <1>2, <1>3, <1>4, <1>5 DEF KeptSoFar

LEMMA StreamsStay ==
  ASSUME ExportInv, UNCHANGED <<events, source, ingested, tokens, status>>,
         \/ pc' = pc
         \/ Written /\ pc' \in {"written", "error"}
  PROVE  StreamsType' /\ KeptSoFar'
<1>1. Seen' = Seen
  BY DEF Seen
<1>2. AskedOf(Seen)' = AskedOf(Seen)
  <2>1. \A e : Satisfies(e)' <=> Satisfies(e)
    BY DEF Satisfies, Opens, Typed
  <2> QED
    BY <1>1, <2>1 DEF AskedOf
<1>3. Lists(events, ingested, AskedOf(Seen)) => Lists(events, ingested, AskedOf(Seen))'
  BY <1>2 DEF Lists, Rank
<1>4. StreamsType'
  BY DEF ExportInv, StreamsType, Written
<1> QED
  BY <1>1, <1>3, <1>4 DEF ExportInv, KeptSoFar, Written

LEMMA ExportStep ==
  ASSUME ExportInv, [Next]_vars
  PROVE  ExportInv'
<1>1. ParserInv'
  BY ParserStep DEF ExportInv
<1>2. StreamsType' /\ KeptSoFar'
  <2>1. CASE Ingest
    BY <2>1 DEF Ingest, Add, ExportInv, StreamsType, KeptSoFar
  <2>2. CASE CompileFilter
    BY <2>2 DEF CompileFilter, streamVars, ExportInv, StreamsType, KeptSoFar
  <2>3. CASE Parse
    BY <2>3 DEF Parse, streamVars, ExportInv, StreamsType, KeptSoFar
  <2>4. CASE BadFilter
    BY <2>4 DEF BadFilter, streamVars, ExportInv, StreamsType, KeptSoFar
  <2>5. CASE StartFilter
    BY <2>5, StartsEmpty
  <2>6. CASE Keep
    BY <2>6, KeepsOne
  <2>7. CASE Drop
    BY <2>7, DropsOne
  <2>8. CASE WriteCsv \/ WriteNdjson \/ BadOutKind
    BY <2>8, StreamsStay
       DEF WriteCsv, WriteNdjson, BadOutKind, streamVars, filterVars
  <2>9. CASE UNCHANGED vars
    BY <2>9, StreamsStay DEF vars, streamVars, filterVars
  <2> QED
    BY <2>1, <2>2, <2>3, <2>4, <2>5, <2>6, <2>7, <2>8, <2>9 DEF Next
<1> QED
  BY <1>1, <1>2 DEF ExportInv

LEMMA ExportAlways == Spec => []ExportInv
BY ExportInit, ExportStep, PTL DEF Spec

(* Whatever was ingested and whatever was asked for, what is written are   *)
(* the events that satisfy the expression as typed, all of them, in the    *)
(* order they came.                                                        *)
THEOREM ExportIsWhatWasAsked == Spec => []ExportsWhatWasAsked
<1>1. ASSUME ExportInv, pc = "written" PROVE ExportsWhatWasAsked
  <2>1. Seen = Len(ingested) /\ DOMAIN ingested = 1 .. Len(ingested)
    BY <1>1 DEF ExportInv, StreamsType, KeptSoFar, Seen
  <2>2. AskedOf(Seen) = Asked
    BY <2>1 DEF AskedOf, Asked
  <2>3. Lists(events, ingested, Asked)
    BY <1>1, <2>2 DEF ExportInv, KeptSoFar
  <2> QED
    BY <2>3 DEF ExportsWhatWasAsked, Lists, Rank
<1>2. ExportInv => ExportsWhatWasAsked
  BY <1>1 DEF ExportsWhatWasAsked
<1> QED
  BY <1>2, ExportAlways, PTL

----------------------------------------------------------------------------
(* The ordering operators compare two numbers, whatever the field.         *)
TextSet == {Texts[k] : k \in DOMAIN Texts}

LEMMA PlaceType ==
  ASSUME NEW t \in TextSet
  PROVE  Place(t) \in Int
<1>1. \E k \in DOMAIN Texts : Texts[k] = t
  BY DEF TextSet
<1>2. Place(t) \in DOMAIN Texts
  BY <1>1, Zenon DEF Place
<1>3. DOMAIN Texts \subseteq Nat
  BY WordsAssumption
<1> QED
  BY <1>2, <1>3

LEMMA BuiltInType ==
  ASSUME NEW name \in BuiltInNames, name # "severity"
  PROVE  BuiltIn(name) \in TextAttributes \cup CountAttributes \cup {"source"}
BY DEF BuiltIn, BuiltInNames, TextAttributes, CountAttributes

LEMMA ResolvedType ==
  ASSUME NEW e \in Events, NEW field
  PROVE  /\ Resolved(field, e).present \in BOOLEAN
         /\ Lower[field] = "severity" => Resolved(field, e).present = TRUE
         /\ Lower[field] # "severity" => Resolved(field, e).text \in TextSet
<1>1. PICK name : name = Lower[field]
  OBVIOUS
<1>2. PICK r : r = Resolved(field, e)
  OBVIOUS
<1>3. CASE name = "severity"
  BY <1>1, <1>3 DEF Resolved
<1>4. CASE name # "severity" /\ name \in BuiltInNames /\ e[BuiltIn(name)] # ""
  <2>1. r.text = e[BuiltIn(name)] /\ r.present = TRUE
    BY <1>1, <1>2, <1>4 DEF Resolved
  <2>2. e[BuiltIn(name)] \in TextSet
    BY <1>4, BuiltInType, EventTexts DEF TextSet
  <2> QED
    BY <1>1, <1>2, <1>4, <2>1, <2>2
<1>5. CASE /\ name # "severity" /\ ~(name \in BuiltInNames /\ e[BuiltIn(name)] # "")
           /\ field \in FieldKeys(e.fields)
  <2>1. r.text = FieldText(e.fields, field) /\ r.present = TRUE
    BY <1>1, <1>2, <1>5 DEF Resolved
  <2>2. \E k \in DOMAIN e.fields : e.fields[k].key = field
    BY <1>5 DEF FieldKeys
  <2>3. PICK k \in DOMAIN e.fields : FieldText(e.fields, field) = e.fields[k].text
    BY <2>2 DEF FieldText
  <2>4. FieldText(e.fields, field) \in TextSet
    BY <2>3, EventTexts DEF TextSet
  <2> QED
    BY <1>1, <1>2, <1>5, <2>1, <2>4
<1>6. CASE /\ name # "severity" /\ ~(name \in BuiltInNames /\ e[BuiltIn(name)] # "")
           /\ field \notin FieldKeys(e.fields)
  <2>1. r.text = "" /\ r.present = FALSE
    BY <1>1, <1>2, <1>6 DEF Resolved
  <2>2. "" \in TextSet
    BY WordsAssumption DEF TextSet
  <2> QED
    BY <1>1, <1>2, <1>6, <2>1, <2>2
<1> QED
  BY <1>3, <1>4, <1>5, <1>6

LEMMA ValueRankType ==
  ASSUME NEW value
  PROVE  SeverityValueRank(value) \in Int
<1>1. \A s \in Int : SeverityRank(s) \in Int
  BY DEF SeverityRank
<1>2. \A w : SeverityFromWord(w) \in Int
  BY DEF SeverityFromWord, UnknownSeverity
<1>3. value \in DOMAIN Number => Number[value] \in Int
  BY WordsAssumption
<1> QED
  BY <1>1, <1>2, <1>3 DEF SeverityValueRank

LEMMA SidesType ==
  ASSUME NEW p, p.value \in TextSet, NEW e \in Events
  PROVE  Sides(p, e)[1] \in Int /\ Sides(p, e)[2] \in Int
<1>1. SeverityRank(e.severity) \in Int /\ SeverityValueRank(p.value) \in Int
  BY ValueRankType, EventTexts DEF SeverityRank, Severities, UnknownSeverity
<1>2. Lower[p.field] # "severity" =>
        Place(Resolved(p.field, e).text) \in Int /\ Place(p.value) \in Int
  BY ResolvedType, PlaceType
<1>3. \A t \in DOMAIN Number : Number[t] \in Int
  BY WordsAssumption
<1> QED
  BY <1>1, <1>2, <1>3 DEF Sides

(* The level a value names is the one it ranks as.                         *)
Level(value) ==
  IF value \in DOMAIN Number THEN SeverityFromSyslog(Number[value])
  ELSE SeverityFromWord(Lower[value])

LEMMA LevelRanks ==
  ASSUME NEW value, Level(value) \in 0 .. 7
  PROVE  SeverityValueRank(value) = Level(value)
<1>1. CASE value \in DOMAIN Number
  <2>1. PICK n \in Int : n = Number[value]
    BY <1>1, WordsAssumption
  <2>2. n \in 0 .. 7 /\ Level(value) = n
    BY <1>1, <2>1 DEF Level, SeverityFromSyslog, UnknownSeverity
  <2> QED
    BY <1>1, <2>1, <2>2 DEF SeverityValueRank, SeverityRank, UnknownSeverity
<1>2. CASE value \notin DOMAIN Number
  <2>1. PICK s \in 0 .. 7 : s = SeverityFromWord(Lower[value]) /\ s = Level(value)
    BY <1>2 DEF Level
  <2> QED
    BY <1>2, <2>1 DEF SeverityValueRank, SeverityRank, UnknownSeverity
<1> QED
  BY <1>1, <1>2

LEMMA OrderingMatches ==
  ASSUME NEW p \in Phrases, NEW e \in Events, NEW op \in {"<", "<=", ">", ">="}
  PROVE  Matches([p EXCEPT !.op = op], e) <=>
           /\ Resolved(p.field, e).present
           /\ Orders(op, Sides(p, e)[1], Sides(p, e)[2])
<1>1. PICK q : q = [p EXCEPT !.op = op]
  OBVIOUS
<1>2. q.op = op /\ q.field = p.field /\ q.value = p.value
  BY <1>1 DEF Phrases
<1>3. Sides(q, e) = Sides(p, e)
  BY <1>2 DEF Sides
<1>4. Matches(q, e) <=> Resolved(q.field, e).present /\ Orders(q.op, Sides(q, e)[1], Sides(q, e)[2])
  BY <1>2 DEF Matches
<1> QED
  BY <1>1, <1>2, <1>3, <1>4

LEMMA OrderingOf ==
  ASSUME NEW p \in Phrases, NEW e \in Events
  PROVE  LET M(op) == Matches([p EXCEPT !.op = op], e)
             present == Resolved(p.field, e).present
             level == Level(p.value)
         IN  /\ M("<=") = (present /\ ~M(">"))
             /\ M(">=") = (present /\ ~M("<"))
             /\ ~(M("<") /\ M(">"))
             /\ Lower[p.field] = "severity" /\ level \in 0 .. 7 =>
                  /\ M(">=") = AtLeastAsSevere(e.severity, level)
                  /\ M("<=") = (e.severity \in level .. UnknownSeverity)
<1> DEFINE M(op) == Matches([p EXCEPT !.op = op], e)
<1>1. PICK present \in BOOLEAN : present = Resolved(p.field, e).present
  BY ResolvedType
<1>2. PICK a \in Int, b \in Int : a = Sides(p, e)[1] /\ b = Sides(p, e)[2]
  <2>1. p.value \in TextSet
    BY WordsAssumption DEF Phrases, TextSet
  <2> QED
    BY <2>1, SidesType
<1>3. /\ M("<") <=> present /\ a < b
      /\ M("<=") <=> present /\ a <= b
      /\ M(">") <=> present /\ a > b
      /\ M(">=") <=> present /\ a >= b
  BY <1>1, <1>2, OrderingMatches DEF Orders
<1>4. /\ M("<") \in BOOLEAN /\ M("<=") \in BOOLEAN /\ M(">") \in BOOLEAN /\ M(">=") \in BOOLEAN
  BY MatchesIsTruth
<1>5. Lower[p.field] = "severity" /\ Level(p.value) \in 0 .. 7 =>
        /\ M(">=") <=> AtLeastAsSevere(e.severity, Level(p.value))
        /\ M("<=") <=> e.severity \in Level(p.value) .. UnknownSeverity
  <2> SUFFICES ASSUME Lower[p.field] = "severity", Level(p.value) \in 0 .. 7
               PROVE  /\ M(">=") <=> AtLeastAsSevere(e.severity, Level(p.value))
                      /\ M("<=") <=> e.severity \in Level(p.value) .. UnknownSeverity
    OBVIOUS
  <2>1. PICK s \in 0 .. 8, l \in 0 .. 7 : s = e.severity /\ l = Level(p.value)
    BY EventTexts DEF Severities, UnknownSeverity
  <2>2. a = -SeverityRank(s) /\ b = -l
    BY <1>2, <2>1, LevelRanks DEF Sides
  <2>3. present = TRUE
    BY <1>1, ResolvedType
  <2>4. a >= b <=> AtLeastAsSevere(s, l)
    BY <2>2 DEF SeverityRank, AtLeastAsSevere, UnknownSeverity
  <2>5. a <= b <=> s \in l .. UnknownSeverity
    BY <2>2 DEF SeverityRank, UnknownSeverity
  <2> QED
    BY <1>3, <2>1, <2>3, <2>4, <2>5
<1>6. /\ M("<=") <=> present /\ ~M(">")
      /\ M(">=") <=> present /\ ~M("<")
      /\ ~(M("<") /\ M(">"))
  BY <1>2, <1>3
<1> HIDE DEF M
<1>7. AtLeastAsSevere(e.severity, Level(p.value)) \in BOOLEAN
  BY DEF AtLeastAsSevere
<1>8. /\ M("<=") = (present /\ ~M(">"))
      /\ M(">=") = (present /\ ~M("<"))
  BY <1>1, <1>4, <1>6
<1>9. Lower[p.field] = "severity" /\ Level(p.value) \in 0 .. 7 =>
        /\ M(">=") = AtLeastAsSevere(e.severity, Level(p.value))
        /\ M("<=") = (e.severity \in Level(p.value) .. UnknownSeverity)
  BY <1>4, <1>5, <1>7
<1> QED
  BY <1>1, <1>6, <1>8, <1>9 DEF M

(* On every field >= and <= are the negations of < and > where the field   *)
(* is present and hold nowhere else, whatever the texts; and severities    *)
(* order by what they mean.                                                *)
THEOREM OrderingsAreSound == Spec => []OrderingsSound
<1>1. ParserInv => OrderingsSound
  <2> SUFFICES ASSUME ParserInv, NEW k \in DOMAIN predicates, NEW e \in Events
               PROVE  LET p == predicates[k]
                          M(op) == Matches([p EXCEPT !.op = op], e)
                          present == Resolved(p.field, e).present
                          level == IF p.value \in DOMAIN Number
                                   THEN SeverityFromSyslog(Number[p.value])
                                   ELSE SeverityFromWord(Lower[p.value])
                      IN  /\ M("<=") = (present /\ ~M(">"))
                          /\ M(">=") = (present /\ ~M("<"))
                          /\ ~(M("<") /\ M(">"))
                          /\ Lower[p.field] = "severity" /\ level \in 0 .. 7 =>
                               /\ M(">=") = AtLeastAsSevere(e.severity, level)
                               /\ M("<=") = (e.severity \in level .. UnknownSeverity)
    BY DEF OrderingsSound
  <2>1. predicates[k] \in Phrases
    BY DEF ParserInv, ParserType
  <2> QED
    BY <2>1, OrderingOf, Zenon DEF Level
<1> QED
  BY <1>1, ParserAlways, PTL

----------------------------------------------------------------------------
(* A reader reads the pieces of a text one after the other.                *)
StepOf(kind, r, c) ==
  CASE kind = "csv" -> CsvStep(r, c)
    [] kind = "line" -> LineStep(r, c)
    [] kind = "json" -> JsonStep(r, c)
    [] kind = "object" -> ObjectStep(r, c)

Runs(kind, f, a, s) ==
  f = [k \in 0 .. Len(s) |-> IF k = 0 THEN a ELSE StepOf(kind, f[k - 1], s[k])]

Reads(kind, a, s, b) == \E f : Runs(kind, f, a, s) /\ b = f[Len(s)]

LEMMA ReadsByStates ==
  ASSUME NEW kind, NEW S, NEW s \in Seq(S), NEW b,
         \A k \in 1 .. Len(s) : StepOf(kind, b[k - 1], s[k]) = b[k]
  PROVE  Reads(kind, b[0], s, b[Len(s)])
<1> DEFINE f == [k \in 0 .. Len(s) |-> b[k]]
<1>1. Len(s) \in Nat
  OBVIOUS
<1>2. \A k \in 0 .. Len(s) : f[k] = IF k = 0 THEN b[0]
                                    ELSE StepOf(kind, f[k - 1], s[k])
  BY <1>1
<1>3. f[Len(s)] = b[Len(s)] /\ f = [k \in 0 .. Len(s) |-> f[k]]
  BY <1>1
<1> HIDE DEF f
<1>4. Runs(kind, f, b[0], s)
  BY <1>2, <1>3, Zenon DEF Runs
<1> QED
  BY <1>3, <1>4 DEF Reads

LEMMA ReadsNothing ==
  ASSUME NEW kind, NEW a
  PROVE  Reads(kind, a, <<>>, a)
<1> DEFINE b == [k \in {0} |-> a]
      none == <<>>
<1>1. none \in Seq({}) /\ Len(none) = 0 /\ b[0] = a
  OBVIOUS
<1> HIDE DEF b, none
<1>2. \A k \in 1 .. Len(none) : StepOf(kind, b[k - 1], none[k]) = b[k]
  BY <1>1
<1> QED
  BY <1>1, <1>2, ReadsByStates DEF none

LEMMA ReadsOne ==
  ASSUME NEW kind, NEW a, NEW c
  PROVE  Reads(kind, a, <<c>>, StepOf(kind, a, c))
<1> DEFINE b == [k \in 0 .. 1 |-> IF k = 0 THEN a ELSE StepOf(kind, a, c)]
      one == <<c>>
<1>1. one \in Seq({c}) /\ Len(one) = 1 /\ one[1] = c /\ b[0] = a
      /\ b[1] = StepOf(kind, a, c)
  OBVIOUS
<1> HIDE DEF b, one
<1>2. \A k \in 1 .. Len(one) : StepOf(kind, b[k - 1], one[k]) = b[k]
  BY <1>1
<1> QED
  BY <1>1, <1>2, ReadsByStates DEF one

LEMMA ReadsBoth ==
  ASSUME NEW kind, NEW S, NEW s \in Seq(S), NEW t \in Seq(S), NEW a, NEW b, NEW c,
         Reads(kind, a, s, b), Reads(kind, b, t, c)
  PROVE  Reads(kind, a, s \o t, c)
<1>1. PICK n \in Nat, m \in Nat : n = Len(s) /\ m = Len(t)
  OBVIOUS
<1>2. PICK f : Runs(kind, f, a, s) /\ b = f[n]
  BY <1>1 DEF Reads
<1>3. PICK g : Runs(kind, g, b, t) /\ c = g[m]
  BY <1>1 DEF Reads
<1>4. /\ \A k \in 0 .. n : f[k] = IF k = 0 THEN a ELSE StepOf(kind, f[k - 1], s[k])
      /\ \A k \in 0 .. m : g[k] = IF k = 0 THEN b ELSE StepOf(kind, g[k - 1], t[k])
  BY <1>1, <1>2, <1>3 DEF Runs
<1> DEFINE h == [k \in 0 .. n + m |-> IF k <= n THEN f[k] ELSE g[k - n]]
      u == s \o t
<1>5. u \in Seq(S) /\ Len(u) = n + m
  BY <1>1
<1>6. /\ \A k \in 1 .. n : u[k] = s[k]
      /\ \A k \in 1 .. m : u[n + k] = t[k]
  BY <1>1
<1>7. \A k \in 0 .. n : h[k] = f[k]
  OBVIOUS
<1>8. \A k \in 0 .. m : h[n + k] = g[k]
  <2>1. g[0] = f[n]
    BY <1>2, <1>4
  <2> QED
    BY <2>1
<1> HIDE DEF h, u
<1>9. \A k \in 1 .. n + m : StepOf(kind, h[k - 1], u[k]) = h[k]
  <2> TAKE k \in 1 .. n + m
  <2>1. CASE k <= n
    <3>1. k \in 1 .. n /\ k \in 0 .. n /\ k - 1 \in 0 .. n /\ k # 0
      BY <2>1
    <3> QED
      BY <3>1, <1>4, <1>6, <1>7
  <2>2. CASE k > n
    <3>1. PICK j \in 1 .. m : k = n + j /\ k - 1 = n + (j - 1)
      BY <2>2
    <3>2. j \in 0 .. m /\ j - 1 \in 0 .. m /\ j # 0
      OBVIOUS
    <3> QED
      BY <3>1, <3>2, <1>4, <1>6, <1>8
  <2> QED
    BY <2>1, <2>2
<1>10. h[0] = a /\ h[n + m] = c
  <2>1. 0 \in 0 .. n /\ m \in 0 .. m
    OBVIOUS
  <2>2. h[0] = f[0] /\ h[n + m] = g[m]
    BY <2>1, <1>7, <1>8
  <2> QED
    BY <2>1, <2>2, <1>3, <1>4
<1>11. Reads(kind, h[0], u, h[Len(u)])
  BY <1>5, <1>9, ReadsByStates
<1> QED
  BY <1>5, <1>10, <1>11 DEF u

LEMMA ReadsUnique ==
  ASSUME NEW kind, NEW S, NEW s \in Seq(S), NEW a, NEW b, NEW c,
         Reads(kind, a, s, b), Reads(kind, a, s, c)
  PROVE  b = c
<1>1. PICK n \in Nat : n = Len(s)
  OBVIOUS
<1>2. PICK f : Runs(kind, f, a, s) /\ b = f[n]
  BY <1>1 DEF Reads
<1>3. PICK g : Runs(kind, g, a, s) /\ c = g[n]
  BY <1>1 DEF Reads
<1>4. \A k \in 0 .. n : /\ f[k] = IF k = 0 THEN a ELSE StepOf(kind, f[k - 1], s[k])
                        /\ g[k] = IF k = 0 THEN a ELSE StepOf(kind, g[k - 1], s[k])
  BY <1>1, <1>2, <1>3 DEF Runs
<1> DEFINE Wrong == {k \in 0 .. n : f[k] # g[k]}
<1>5. SUFFICES ASSUME Wrong # {} PROVE FALSE
  BY <1>2, <1>3
<1>6. PICK k \in Wrong : \A j \in Wrong : k <= j
  <2>1. Wrong \in SUBSET Nat
    OBVIOUS
  <2> QED
    BY <1>5, <2>1, SmallestExists
<1>7. k \in 0 .. n /\ f[k] # g[k]
  BY <1>6
<1>8. k # 0
  BY <1>4, <1>7
<1>9. k - 1 \in 0 .. n /\ ~(k <= k - 1)
  BY <1>7, <1>8
<1>10. f[k - 1] = g[k - 1]
  BY <1>6, <1>9
<1> QED
  BY <1>4, <1>7, <1>8, <1>10

LEMMA ReadsOneIs ==
  ASSUME NEW kind, NEW a, NEW c, NEW d, Reads(kind, a, <<c>>, d)
  PROVE  StepOf(kind, a, c) = d
<1> DEFINE one == <<c>>
      next == StepOf(kind, a, c)
<1>1. one \in Seq({c}) /\ Reads(kind, a, one, d)
  OBVIOUS
<1>2. Reads(kind, a, one, next)
  BY ReadsOne
<1> HIDE DEF one, next
<1>3. next = d
  BY <1>1, <1>2, ReadsUnique
<1> QED
  BY <1>3 DEF next

LEMMA ReadsEach ==
  ASSUME NEW kind, NEW S, NEW s \in Seq(S), NEW b,
         \A k \in 1 .. Len(s) : Reads(kind, b[k - 1], <<s[k]>>, b[k])
  PROVE  Reads(kind, b[0], s, b[Len(s)])
<1>1. ASSUME NEW k \in 1 .. Len(s) PROVE StepOf(kind, b[k - 1], s[k]) = b[k]
  BY ReadsOneIs
<1> QED
  BY <1>1, ReadsByStates

LEMMA ScansAre ==
  ASSUME NEW S, NEW s \in Seq(S), NEW a, NEW b
  PROVE  /\ Reads("csv", a, s, b) => Scan(CsvStep, a, s) = b
         /\ Reads("line", a, s, b) => Scan(LineStep, a, s) = b
         /\ Reads("json", a, s, b) => Scan(JsonStep, a, s) = b
         /\ Reads("object", a, s, b) => Scan(ObjectStep, a, s) = b
<1> DEFINE Final(kind) == (CHOOSE f : Runs(kind, f, a, s))[Len(s)]
<1>1. ASSUME NEW kind, Reads(kind, a, s, b) PROVE Final(kind) = b
  <2> DEFINE f == CHOOSE g : Runs(kind, g, a, s)
  <2>1. Runs(kind, f, a, s)
    BY <1>1, Zenon DEF Reads
  <2> HIDE DEF f
  <2>2. Reads(kind, a, s, f[Len(s)])
    BY <2>1 DEF Reads
  <2>3. f[Len(s)] = b
    BY <1>1, <2>2, ReadsUnique
  <2> QED
    BY <2>3 DEF f
<1>2. /\ Scan(CsvStep, a, s) = Final("csv") /\ Scan(LineStep, a, s) = Final("line")
      /\ Scan(JsonStep, a, s) = Final("json")
      /\ Scan(ObjectStep, a, s) = Final("object")
  <2>1. Scan(CsvStep, a, s) = Final("csv")
    BY DEF Scan, Runs, StepOf
  <2>2. Scan(LineStep, a, s) = Final("line")
    BY DEF Scan, Runs, StepOf
  <2>3. Scan(JsonStep, a, s) = Final("json")
    BY DEF Scan, Runs, StepOf
  <2>4. Scan(ObjectStep, a, s) = Final("object")
    BY DEF Scan, Runs, StepOf
  <2> QED
    BY <2>1, <2>2, <2>3, <2>4
<1> QED
  BY <1>1, <1>2
----------------------------------------------------------------------------
(* FlattenSeq, one piece more.                                             *)
Flattens(f, P) ==
  f = [i \in 1 .. Len(P) |-> IF i = 1 THEN P[i] ELSE f[i - 1] \o P[i]]

Upto(P, n) == [k \in 1 .. n |-> P[k]]

LEMMA UptoType ==
  ASSUME NEW S, NEW P \in Seq(S), NEW n \in 0 .. Len(P)
  PROVE  /\ Upto(P, n) \in Seq(S) /\ Len(Upto(P, n)) = n
         /\ \A k \in 1 .. n : Upto(P, n)[k] = P[k]
         /\ n = Len(P) => Upto(P, n) = P
BY DEF Upto

LEMMA FlattenExists ==
  ASSUME NEW S, NEW P \in Seq(Seq(S))
  PROVE  \E f \in [1 .. Len(P) -> Seq(S)] : Flattens(f, P)
<1>1. PICK n \in Nat : n = Len(P)
  OBVIOUS
<1>2. \A k \in 1 .. n : P[k] \in Seq(S)
  BY <1>1
<1> DEFINE Builds(f, j) ==
             \A i \in 1 .. j : f[i] = IF i = 1 THEN P[i] ELSE f[i - 1] \o P[i]
      Wrong == {j \in 0 .. n : ~ \E f \in [1 .. j -> Seq(S)] : Builds(f, j)}
<1>3. Wrong = {}
  <2>1. SUFFICES ASSUME Wrong # {} PROVE FALSE
    OBVIOUS
  <2>2. PICK j \in Wrong : \A i \in Wrong : j <= i
    <3>1. Wrong \in SUBSET Nat
      OBVIOUS
    <3> HIDE DEF Wrong
    <3> QED
      BY <2>1, <3>1, SmallestExists
  <2>3. j \in 0 .. n /\ ~ \E f \in [1 .. j -> Seq(S)] : Builds(f, j)
    BY <2>2
  <2>4. j # 0
    <3>1. SUFFICES ASSUME j = 0 PROVE FALSE
      OBVIOUS
    <3>2. [i \in 1 .. 0 |-> <<>>] \in [1 .. j -> Seq(S)]
      BY <3>1
    <3>3. Builds([i \in 1 .. 0 |-> <<>>], j)
      BY <3>1
    <3> QED
      BY <2>3, <3>2, <3>3
  <2>5. j - 1 \in 0 .. n /\ ~(j <= j - 1)
    BY <2>3, <2>4
  <2>6. PICK f \in [1 .. j - 1 -> Seq(S)] : Builds(f, j - 1)
    BY <2>2, <2>5
  <2> DEFINE g == [i \in 1 .. j |-> IF i < j THEN f[i]
                                    ELSE IF i = 1 THEN P[i] ELSE f[i - 1] \o P[i]]
  <2>7. g \in [1 .. j -> Seq(S)]
    <3>1. ASSUME NEW i \in 1 .. j
          PROVE  (IF i < j THEN f[i] ELSE IF i = 1 THEN P[i] ELSE f[i - 1] \o P[i]) \in Seq(S)
      <4>1. i \in 1 .. n /\ P[i] \in Seq(S)
        BY <2>3, <1>2
      <4>2. CASE i < j
        BY <4>2
      <4>3. CASE i = j /\ i = 1
        BY <4>1, <4>3
      <4>4. CASE i = j /\ i # 1
        <5>1. f[i - 1] \in Seq(S)
          BY <4>4
        <5> QED
          BY <4>1, <4>4, <5>1
      <4> QED
        BY <4>2, <4>3, <4>4
    <3> QED
      BY <3>1
  <2>8. Builds(g, j)
    <3> SUFFICES ASSUME NEW i \in 1 .. j
                 PROVE  g[i] = IF i = 1 THEN P[i] ELSE g[i - 1] \o P[i]
      OBVIOUS
    <3>1. i # 1 => g[i - 1] = f[i - 1]
      OBVIOUS
    <3>2. CASE i < j
      <4>1. g[i] = f[i] /\ i \in 1 .. j - 1
        BY <3>2
      <4>2. f[i] = IF i = 1 THEN P[i] ELSE f[i - 1] \o P[i]
        BY <2>6, <4>1
      <4> HIDE DEF g
      <4> QED
        BY <3>1, <4>1, <4>2
    <3>3. CASE i = j
      <4>1. g[i] = IF i = 1 THEN P[i] ELSE f[i - 1] \o P[i]
        BY <3>3
      <4> HIDE DEF g
      <4> QED
        BY <3>1, <4>1
    <3> QED
      BY <3>2, <3>3
  <2> HIDE DEF g, Builds
  <2> QED
    BY <2>3, <2>7, <2>8
<1>4. PICK f \in [1 .. n -> Seq(S)] : Builds(f, n)
  <2>1. n \in 0 .. n /\ n \notin Wrong
    <3> HIDE DEF Wrong
    <3> QED
      BY <1>3
  <2> HIDE DEF Builds
  <2> QED
    BY <2>1
<1>5. f = [i \in 1 .. n |-> f[i]]
  OBVIOUS
<1>6. Flattens(f, P)
  BY <1>1, <1>4, <1>5 DEF Flattens
<1> QED
  BY <1>1, <1>6

Begins(P, Q, n) ==
  /\ Len(P) \in Nat /\ n <= Len(P) /\ Len(Q) = n
  /\ \A k \in 1 .. n : Q[k] = P[k]

Agree(f, g, n) == \A k \in 1 .. n : g[k] = f[k]

LEMMA FlattenUnique ==
  ASSUME NEW P, NEW Q, NEW f, NEW g, NEW n \in Nat,
         Begins(P, Q, n), Flattens(f, P), Flattens(g, Q)
  PROVE  Agree(f, g, n)
<1> USE DEF Begins, Agree
<1>1. /\ \A i \in 1 .. n : f[i] = IF i = 1 THEN P[i] ELSE f[i - 1] \o P[i]
      /\ \A i \in 1 .. n : g[i] = IF i = 1 THEN P[i] ELSE g[i - 1] \o P[i]
  <2>1. \A i \in 1 .. n : i \in 1 .. Len(P)
    OBVIOUS
  <2>2. \A i \in 1 .. Len(P) : f[i] = IF i = 1 THEN P[i] ELSE f[i - 1] \o P[i]
    BY Zenon DEF Flattens
  <2>3. \A i \in 1 .. n : g[i] = IF i = 1 THEN Q[i] ELSE g[i - 1] \o Q[i]
    BY Zenon DEF Flattens
  <2> QED
    BY <2>1, <2>2, <2>3
<1> DEFINE Wrong == {k \in 1 .. n : f[k] # g[k]}
<1>2. SUFFICES ASSUME Wrong # {} PROVE FALSE
  OBVIOUS
<1>3. PICK k \in Wrong : \A j \in Wrong : k <= j
  <2>1. Wrong \in SUBSET Nat
    OBVIOUS
  <2> HIDE DEF Wrong
  <2> QED
    BY <1>2, <2>1, SmallestExists
<1>4. k \in 1 .. n /\ f[k] # g[k]
  BY <1>3
<1>5. k # 1
  BY <1>1, <1>4
<1>6. k - 1 \in 1 .. n /\ ~(k <= k - 1)
  BY <1>4, <1>5
<1>7. f[k - 1] = g[k - 1]
  BY <1>3, <1>6
<1> QED
  BY <1>1, <1>4, <1>5, <1>7

LEMMA FlattenIs ==
  ASSUME NEW S, NEW P \in Seq(Seq(S))
  PROVE  /\ Len(P) = 0 => FlattenSeq(P) = <<>>
         /\ Len(P) # 0 => \E f \in [1 .. Len(P) -> Seq(S)] :
                            Flattens(f, P) /\ FlattenSeq(P) = f[Len(P)]
<1>1. CASE Len(P) = 0
  BY <1>1 DEF FlattenSeq
<1>2. CASE Len(P) # 0
  <2> DEFINE g == CHOOSE f : Flattens(f, P)
  <2>1. PICK n \in Nat : n = Len(P)
    OBVIOUS
  <2>2. FlattenSeq(P) = g[n]
    BY <1>2, <2>1 DEF FlattenSeq, Flattens
  <2>3. PICK f \in [1 .. n -> Seq(S)] : Flattens(f, P)
    BY <2>1, FlattenExists
  <2>4. Flattens(g, P)
    BY <2>3
  <2> HIDE DEF g
  <2>5. \A k \in 1 .. n : g[k] = f[k]
    <3>1. Begins(P, P, n)
      BY <2>1 DEF Begins
    <3>2. Agree(f, g, n)
      BY <2>1, <2>3, <2>4, <3>1, FlattenUnique, Zenon
    <3> QED
      BY <3>2 DEF Agree
  <2>6. n \in 1 .. n
    BY <1>2, <2>1
  <2> QED
    BY <1>2, <2>1, <2>2, <2>3, <2>5, <2>6
<1> QED
  BY <1>1, <1>2

LEMMA FlattenType ==
  ASSUME NEW S, NEW P \in Seq(Seq(S))
  PROVE  FlattenSeq(P) \in Seq(S)
<1>1. CASE Len(P) = 0
  <2>1. FlattenSeq(P) = <<>>
    BY <1>1, FlattenIs
  <2> QED
    BY <2>1
<1>2. CASE Len(P) # 0
  <2>1. Len(P) \in 1 .. Len(P)
    BY <1>2
  <2>2. PICK f \in [1 .. Len(P) -> Seq(S)] : FlattenSeq(P) = f[Len(P)]
    BY <1>2, FlattenIs
  <2> QED
    BY <2>1, <2>2
<1> QED
  BY <1>1, <1>2

LEMMA FlattenOneMore ==
  ASSUME NEW S, NEW P \in Seq(Seq(S)), NEW n \in 1 .. Len(P)
  PROVE  /\ FlattenSeq(Upto(P, n - 1)) \in Seq(S)
         /\ FlattenSeq(Upto(P, n)) = FlattenSeq(Upto(P, n - 1)) \o P[n]
<1> DEFINE A == Upto(P, n - 1)
      B == Upto(P, n)
<1>1. P[n] \in Seq(S) /\ n - 1 \in 0 .. Len(P) /\ n \in 0 .. Len(P) /\ n \in Nat
  OBVIOUS
<1>2. /\ A \in Seq(Seq(S)) /\ Len(A) = n - 1 /\ \A k \in 1 .. n - 1 : A[k] = P[k]
      /\ B \in Seq(Seq(S)) /\ Len(B) = n /\ \A k \in 1 .. n : B[k] = P[k]
  BY <1>1, UptoType, Zenon
<1> HIDE DEF A, B
<1>3. PICK f \in [1 .. n -> Seq(S)] : Flattens(f, B) /\ FlattenSeq(B) = f[n]
  <2>1. Len(B) # 0
    BY <1>2
  <2>2. \E f \in [1 .. Len(B) -> Seq(S)] : Flattens(f, B) /\ FlattenSeq(B) = f[Len(B)]
    BY <1>2, <2>1, FlattenIs
  <2> QED
    BY <1>2, <2>2
<1>4. CASE n = 1
  <2>1. FlattenSeq(A) = <<>>
    <3>1. Len(A) = 0
      BY <1>2, <1>4
    <3> QED
      BY <1>2, <3>1, FlattenIs
  <2>2. f[n] = P[n]
    BY <1>2, <1>3, <1>4 DEF Flattens
  <2>3. <<>> \o P[n] = P[n] /\ <<>> \in Seq(S)
    BY <1>1
  <2>4. FlattenSeq(A) \in Seq(S) /\ FlattenSeq(B) = FlattenSeq(A) \o P[n]
    BY <1>3, <2>1, <2>2, <2>3
  <2> QED
    BY <2>4 DEF A, B
<1>5. CASE n # 1
  <2>1. PICK g \in [1 .. n - 1 -> Seq(S)] : Flattens(g, A) /\ FlattenSeq(A) = g[n - 1]
    <3>1. Len(A) # 0
      BY <1>1, <1>2, <1>5
    <3>2. \E g \in [1 .. Len(A) -> Seq(S)] : Flattens(g, A) /\ FlattenSeq(A) = g[Len(A)]
      BY <1>2, <3>1, FlattenIs
    <3> QED
      BY <1>2, <3>2
  <2>2. \A k \in 1 .. n - 1 : A[k] = B[k]
    <3>1. \A k \in 1 .. n - 1 : k \in 1 .. n
      OBVIOUS
    <3> QED
      BY <1>2, <3>1, Zenon
  <2>3. n - 1 \in Nat /\ n - 1 <= n /\ n - 1 \in 1 .. n - 1
    BY <1>5
  <2>4. g[n - 1] = f[n - 1]
    <3>1. \A k \in 1 .. n - 1 : g[k] = f[k]
      <4>1. PICK j \in Nat : j = n - 1 /\ j <= n
        BY <2>3
      <4>2. Begins(B, A, j) /\ Flattens(f, B) /\ Flattens(g, A)
        BY <1>1, <1>2, <1>3, <2>1, <2>2, <4>1 DEF Begins
      <4>3. \A k \in 1 .. j : g[k] = f[k]
        <5>1. Agree(f, g, j)
          BY <4>1, <4>2, FlattenUnique, Zenon
        <5> QED
          BY <5>1 DEF Agree
      <4> QED
        BY <4>1, <4>3
    <3> QED
      BY <2>3, <3>1
  <2>5. f[n] = f[n - 1] \o P[n]
    <3>1. n \in 1 .. n /\ B[n] = P[n]
      BY <1>1, <1>2
    <3>2. \A i \in 1 .. n : f[i] = IF i = 1 THEN B[i] ELSE f[i - 1] \o B[i]
      BY <1>2, <1>3, Zenon DEF Flattens
    <3> QED
      BY <1>5, <3>1, <3>2
  <2>6. FlattenSeq(A) \in Seq(S) /\ FlattenSeq(B) = FlattenSeq(A) \o P[n]
    BY <1>3, <2>1, <2>3, <2>4, <2>5
  <2> QED
    BY <2>6 DEF A, B
<1> QED
  BY <1>4, <1>5

(* Reading piece k leads from state k - 1 to state k.                      *)
LEMMA ReadsFlat ==
  ASSUME NEW kind, NEW S, NEW P \in Seq(Seq(S)), NEW b,
         \A k \in 1 .. Len(P) : Reads(kind, b[k - 1], P[k], b[k])
  PROVE  Reads(kind, b[0], FlattenSeq(P), b[Len(P)])
<1>1. PICK n \in Nat : n = Len(P)
  OBVIOUS
<1> DEFINE Wrong == {k \in 0 .. n : ~Reads(kind, b[0], FlattenSeq(Upto(P, k)), b[k])}
<1>2. Wrong = {}
  <2>1. SUFFICES ASSUME Wrong # {} PROVE FALSE
    OBVIOUS
  <2>2. PICK k \in Wrong : \A j \in Wrong : k <= j
    <3>1. Wrong \in SUBSET Nat
      OBVIOUS
    <3> HIDE DEF Wrong
    <3> QED
      BY <2>1, <3>1, SmallestExists
  <2>3. k \in 0 .. n /\ ~Reads(kind, b[0], FlattenSeq(Upto(P, k)), b[k])
    BY <2>2
  <2>4. k # 0
    <3>1. SUFFICES ASSUME k = 0 PROVE FALSE
      OBVIOUS
    <3>2. Upto(P, 0) \in Seq(Seq(S)) /\ Len(Upto(P, 0)) = 0
      <4>1. 0 \in 0 .. Len(P)
        BY <1>1
      <4> QED
        BY <4>1, UptoType, Zenon
    <3>3. FlattenSeq(Upto(P, 0)) = <<>>
      BY <3>2, FlattenIs
    <3> QED
      BY <2>3, <3>1, <3>3, ReadsNothing
  <2>5. k \in 1 .. n /\ k - 1 \in 0 .. n /\ ~(k <= k - 1)
    BY <2>3, <2>4
  <2>6. Reads(kind, b[0], FlattenSeq(Upto(P, k - 1)), b[k - 1])
    BY <2>2, <2>5
  <2>7. /\ FlattenSeq(Upto(P, k - 1)) \in Seq(S) /\ P[k] \in Seq(S)
        /\ FlattenSeq(Upto(P, k)) = FlattenSeq(Upto(P, k - 1)) \o P[k]
    <3>1. k \in 1 .. Len(P) /\ P[k] \in Seq(S)
      BY <1>1, <2>5
    <3> HIDE DEF Wrong
    <3> QED
      BY <3>1, FlattenOneMore, Zenon
  <2>8. Reads(kind, b[0], FlattenSeq(Upto(P, k - 1)) \o P[k], b[k])
    BY <1>1, <2>5, <2>6, <2>7, ReadsBoth
  <2> QED
    BY <2>3, <2>7, <2>8
<1>3. Upto(P, n) = P /\ n \in 0 .. n
  BY <1>1, UptoType
<1> QED
  BY <1>1, <1>2, <1>3

LEMMA UptoOneMore ==
  ASSUME NEW S, NEW s \in Seq(S), NEW k \in 1 .. Len(s)
  PROVE  /\ Upto(s, k - 1) \in Seq(S) /\ s[k] \in S
         /\ Append(Upto(s, k - 1), s[k]) = Upto(s, k)
<1> DEFINE u == Upto(s, k - 1)
<1>1. k - 1 \in 0 .. Len(s) /\ k \in 0 .. Len(s) /\ s[k] \in S
  OBVIOUS
<1>2. /\ u \in Seq(S) /\ Len(u) = k - 1
      /\ \A i \in 1 .. k - 1 : u[i] = s[i]
  BY <1>1, UptoType, Zenon
<1>3. /\ Upto(s, k) \in Seq(S) /\ Len(Upto(s, k)) = k
      /\ \A i \in 1 .. k : Upto(s, k)[i] = s[i]
  BY <1>1, UptoType, Zenon
<1> HIDE DEF u
<1>4. /\ Append(u, s[k]) \in Seq(S) /\ Len(Append(u, s[k])) = k
      /\ \A i \in 1 .. k : Append(u, s[k])[i] = s[i]
  BY <1>1, <1>2
<1>5. Append(u, s[k]) = Upto(s, k)
  BY <1>3, <1>4
<1> QED
  BY <1>1, <1>2, <1>5 DEF u

LEMMA UptoNone ==
  ASSUME NEW s
  PROVE  Upto(s, 0) = <<>>
BY DEF Upto

LEMMA Flattenable ==
  ASSUME NEW S, NEW n \in Nat, NEW P, P = [k \in 1 .. n |-> P[k]],
         \A k \in 1 .. n : P[k] \in S
  PROVE  P \in Seq(S) /\ Len(P) = n
OBVIOUS

----------------------------------------------------------------------------
(* Reading CSV.                                                            *)
Quoted(chars) == \E k \in DOMAIN chars : chars[k] \in {",", Quote, Return, LineFeed}

Splits(c) == c \in {",", Quote, LineFeed, Return}

InText(at) == at \in {"start", "plain"}

AtEnd(at) == at \in {"start", "plain", "quote"}

(* Where the reader stands behind a cell.                                  *)
BehindCell(chars) ==
  IF Quoted(chars) THEN "quote" ELSE IF chars = <<>> THEN "start" ELSE "plain"

LEMMA Characters ==
  /\ Quote \notin {Backslash, Tab, LineFeed, Return, FormFeed, ",", ":", "{", "}", "u",
                  "f", "n", "r", "t", "NUL", "ESC"}
  /\ LineFeed \notin {Backslash, Tab, Return, FormFeed, ",", ":", "{", "}", "u",
                  "f", "n", "r", "t", "NUL", "ESC"}
  /\ Return \notin {Backslash, Tab, FormFeed, ",", ":", "{", "}", "u",
                  "f", "n", "r", "t", "NUL", "ESC"}
  /\ Backslash \notin {Tab, FormFeed, ",", ":", "{", "}", "u",
                  "f", "n", "r", "t", "NUL", "ESC"}
  /\ Tab \notin {FormFeed, ",", ":", "{", "}", "u", "f", "n", "r", "t", "NUL", "ESC"}
  /\ FormFeed \notin {",", ":", "{", "}", "u", "f", "n", "r", "t", "NUL", "ESC"}
BY Zenon DEF Quote, Backslash, Tab, LineFeed, Return, FormFeed

(* The texts of the events and their names, and the characters of them all. *)
ShownTexts == UNION {{Shown(name, e) : name \in Nameable} : e \in Events}

KeyTexts == UNION {{e.fields[k].key : k \in DOMAIN e.fields} : e \in Events}

FieldTexts == UNION {{e.fields[k].text : k \in DOMAIN e.fields} : e \in Events}

Wordings == ShownTexts \cup KeyTexts \cup FieldTexts \cup Nameable \cup {"fields"}

Chars ==
  Wordings \cup SpecialChars \cup {"u", "0", "1", "b", "f", "n", "r", "t"}
  \cup UNION {Range(Spelling[text]) : text \in DOMAIN Spelling}

LEMMA SequenceOfItsOwn ==
  ASSUME NEW S, NEW s \in Seq(S)
  PROVE  s \in Seq(Range(s))
<1>1. \A k \in 1 .. Len(s) : s[k] \in Range(s)
  BY DEF Range
<1> QED
  BY <1>1

LEMMA SequenceOfMore ==
  ASSUME NEW S, NEW T, NEW s \in Seq(S), S \subseteq T
  PROVE  s \in Seq(T)
OBVIOUS

LEMMA OneIsSequence ==
  ASSUME NEW S, NEW c \in S
  PROVE  <<c>> \in Seq(S)
OBVIOUS

LEMMA BothAreSequence ==
  ASSUME NEW S, NEW s \in Seq(S), NEW t \in Seq(S)
  PROVE  s \o t \in Seq(S)
OBVIOUS

LEMMA SpecialAreChars ==
  /\ {Quote, Backslash, Tab, LineFeed, Return, FormFeed, ","} \subseteq Chars
  /\ \A c \in {Quote, Backslash, LineFeed, ","} : <<c>> \in Seq(Chars)
<1>1. {Quote, Backslash, Tab, LineFeed, Return, FormFeed, ","} \subseteq Chars
  BY Zenon DEF Chars, SpecialChars
<1>2. ASSUME NEW c \in {Quote, Backslash, LineFeed, ","} PROVE <<c>> \in Seq(Chars)
  <2>1. c \in Chars
    BY <1>1, Zenon
  <2> QED
    BY <2>1, OneIsSequence, Zenon
<1> QED
  BY <1>1, <1>2, Zenon

LEMMA CsvTakes ==
  ASSUME NEW at, NEW cell, NEW row, NEW rows, NEW c,
         InText(at), ~Splits(c)
  PROVE  Reads("csv", CsvAt(at, cell, row, rows), <<c>>,
               CsvAt("plain", Append(cell, c), row, rows))
<1>1. CsvStep(CsvAt(at, cell, row, rows), c) = CsvAt("plain", Append(cell, c), row, rows)
  BY Characters DEF CsvStep, CsvAt, InText, AtEnd, Splits
<1> QED
  BY <1>1, ReadsOne DEF StepOf

LEMMA CsvEndsCell ==
  ASSUME NEW at, NEW cell, NEW row, NEW rows, AtEnd(at)
  PROVE  Reads("csv", CsvAt(at, cell, row, rows), <<",">>,
               CsvAt("start", <<>>, Append(row, cell), rows))
<1>1. CsvStep(CsvAt(at, cell, row, rows), ",") = CsvAt("start", <<>>, Append(row, cell), rows)
  BY Characters DEF CsvStep, CsvAt, InText, AtEnd, Splits
<1> QED
  BY <1>1, ReadsOne DEF StepOf

LEMMA CsvEndsRow ==
  ASSUME NEW at, NEW cell, NEW row, NEW rows, AtEnd(at)
  PROVE  Reads("csv", CsvAt(at, cell, row, rows), <<LineFeed>>,
               CsvAt("start", <<>>, <<>>, Append(rows, Append(row, cell))))
<1>1. CsvStep(CsvAt(at, cell, row, rows), LineFeed) = CsvAt("start", <<>>, <<>>, Append(rows, Append(row, cell)))
  BY Characters DEF CsvStep, CsvAt, InText, AtEnd, Splits
<1> QED
  BY <1>1, ReadsOne DEF StepOf

LEMMA CsvTakesQuoted ==
  ASSUME NEW cell, NEW row, NEW rows, NEW c, c # Quote
  PROVE  Reads("csv", CsvAt("quoted", cell, row, rows), <<c>>,
               CsvAt("quoted", Append(cell, c), row, rows))
<1>1. CsvStep(CsvAt("quoted", cell, row, rows), c) = CsvAt("quoted", Append(cell, c), row, rows)
  BY Characters DEF CsvStep, CsvAt
<1> QED
  BY <1>1, ReadsOne DEF StepOf

LEMMA CsvQuotes ==
  ASSUME NEW cell, NEW row, NEW rows
  PROVE  Reads("csv", CsvAt("quoted", cell, row, rows), <<Quote>>,
               CsvAt("quote", cell, row, rows))
<1>1. CsvStep(CsvAt("quoted", cell, row, rows), Quote) = CsvAt("quote", cell, row, rows)
  BY Characters DEF CsvStep, CsvAt
<1> QED
  BY <1>1, ReadsOne DEF StepOf

LEMMA CsvTakesQuote ==
  ASSUME NEW cell, NEW row, NEW rows
  PROVE  Reads("csv", CsvAt("quote", cell, row, rows), <<Quote>>,
               CsvAt("quoted", Append(cell, Quote), row, rows))
<1>1. CsvStep(CsvAt("quote", cell, row, rows), Quote) = CsvAt("quoted", Append(cell, Quote), row, rows)
  BY Characters DEF CsvStep, CsvAt
<1> QED
  BY <1>1, ReadsOne DEF StepOf

LEMMA CsvOpens ==
  ASSUME NEW cell, NEW row, NEW rows
  PROVE  Reads("csv", CsvAt("start", cell, row, rows), <<Quote>>,
               CsvAt("quoted", cell, row, rows))
<1>1. CsvStep(CsvAt("start", cell, row, rows), Quote) = CsvAt("quoted", cell, row, rows)
  BY Characters DEF CsvStep, CsvAt
<1> QED
  BY <1>1, ReadsOne DEF StepOf

(* The text of a cell in quotes, with each quote in it doubled.            *)
Doubled(c) == IF c = Quote THEN <<Quote, Quote>> ELSE <<c>>

LEMMA CsvReadsQuoted ==
  ASSUME NEW chars \in Seq(Chars), NEW row, NEW rows
  PROVE  /\ FlattenSeq([k \in DOMAIN chars |-> Doubled(chars[k])]) \in Seq(Chars)
         /\ Reads("csv", CsvAt("quoted", <<>>, row, rows),
                  FlattenSeq([k \in DOMAIN chars |-> Doubled(chars[k])]),
                  CsvAt("quoted", chars, row, rows))
<1> DEFINE P == [k \in DOMAIN chars |-> Doubled(chars[k])]
      b == [k \in 0 .. Len(chars) |-> CsvAt("quoted", Upto(chars, k), row, rows)]
<1>1. P \in Seq(Seq(Chars)) /\ Len(P) = Len(chars)
  <2>1. \A k \in 1 .. Len(chars) : Doubled(chars[k]) \in Seq(Chars)
    <3>1. \A k \in 1 .. Len(chars) : chars[k] \in Chars
      OBVIOUS
    <3> QED
      BY <3>1 DEF Doubled
  <2>2. Len(chars) \in Nat /\ P = [k \in 1 .. Len(chars) |-> Doubled(chars[k])]
    OBVIOUS
  <2> QED
    BY <2>1, <2>2
<1>2. ASSUME NEW k \in 1 .. Len(chars)
      PROVE  Reads("csv", b[k - 1], P[k], b[k])
  <2> DEFINE u == Upto(chars, k - 1)
  <2>1. /\ b[k - 1] = CsvAt("quoted", u, row, rows)
        /\ b[k] = CsvAt("quoted", Append(u, chars[k]), row, rows)
        /\ P[k] = Doubled(chars[k])
    <3>1. Append(u, chars[k]) = Upto(chars, k)
      BY UptoOneMore
    <3>2. k - 1 \in 0 .. Len(chars) /\ k \in 0 .. Len(chars) /\ k \in DOMAIN chars
      OBVIOUS
    <3> QED
      BY <3>1, <3>2
  <2>2. chars[k] \in Chars
    OBVIOUS
  <2> HIDE DEF u, P, b
  <2>3. CASE chars[k] = Quote
    <3>1. Reads("csv", CsvAt("quoted", u, row, rows), <<Quote>>, CsvAt("quote", u, row, rows))
      BY CsvQuotes
    <3>2. Reads("csv", CsvAt("quote", u, row, rows), <<Quote>>,
                CsvAt("quoted", Append(u, Quote), row, rows))
      BY CsvTakesQuote
    <3>3. Doubled(chars[k]) = <<Quote>> \o <<Quote>> /\ <<Quote>> \in Seq(Chars)
      <4>1. <<Quote>> \in Seq(Chars)
        BY SpecialAreChars
      <4> QED
        BY <2>3, <4>1 DEF Doubled
    <3>4. Reads("csv", CsvAt("quoted", u, row, rows), <<Quote>> \o <<Quote>>,
                CsvAt("quoted", Append(u, Quote), row, rows))
      BY <3>1, <3>2, <3>3, ReadsBoth
    <3> QED
      BY <2>1, <2>3, <3>3, <3>4
  <2>4. CASE chars[k] # Quote
    <3>1. Reads("csv", CsvAt("quoted", u, row, rows), <<chars[k]>>,
                CsvAt("quoted", Append(u, chars[k]), row, rows))
      BY <2>4, CsvTakesQuoted
    <3> QED
      BY <2>1, <2>4, <3>1 DEF Doubled
  <2> QED
    BY <2>3, <2>4
<1>3. b[0] = CsvAt("quoted", <<>>, row, rows) /\ b[Len(P)] = CsvAt("quoted", chars, row, rows)
  BY <1>1, UptoNone, UptoType
<1> HIDE DEF P, b
<1>4. Reads("csv", b[0], FlattenSeq(P), b[Len(P)])
  BY <1>1, <1>2, ReadsFlat
<1>5. FlattenSeq(P) \in Seq(Chars)
  BY <1>1, FlattenType
<1> QED
  BY <1>3, <1>4, <1>5 DEF P

LEMMA CsvReadsPlain ==
  ASSUME NEW chars \in Seq(Chars), NEW row, NEW rows, ~Quoted(chars)
  PROVE  Reads("csv", CsvAt("start", <<>>, row, rows), chars,
               CsvAt(BehindCell(chars), chars, row, rows))
<1> DEFINE b == [k \in 0 .. Len(chars) |->
                   CsvAt(IF k = 0 THEN "start" ELSE "plain", Upto(chars, k), row, rows)]
<1>1. ASSUME NEW k \in 1 .. Len(chars)
      PROVE  Reads("csv", b[k - 1], <<chars[k]>>, b[k])
  <2> DEFINE u == Upto(chars, k - 1)
  <2>1. Append(u, chars[k]) = Upto(chars, k)
    BY UptoOneMore
  <2>2. k - 1 \in 0 .. Len(chars) /\ k \in 0 .. Len(chars) /\ k \in DOMAIN chars /\ k # 0
    OBVIOUS
  <2>3. PICK at : InText(at) /\ b[k - 1] = CsvAt(at, u, row, rows)
    BY <2>2 DEF InText
  <2>4. b[k] = CsvAt("plain", Append(u, chars[k]), row, rows)
    BY <2>1, <2>2
  <2>5. ~Splits(chars[k])
    BY <2>2 DEF Quoted, Splits
  <2> HIDE DEF u, b
  <2>6. Reads("csv", CsvAt(at, u, row, rows), <<chars[k]>>,
              CsvAt("plain", Append(u, chars[k]), row, rows))
    BY <2>3, <2>5, CsvTakes
  <2> QED
    BY <2>3, <2>4, <2>6
<1>2. b[0] = CsvAt("start", <<>>, row, rows)
  BY UptoNone
<1>3. b[Len(chars)] = CsvAt(BehindCell(chars), chars, row, rows)
  <2>1. Upto(chars, Len(chars)) = chars /\ Len(chars) \in 0 .. Len(chars)
    <3>1. Len(chars) \in 0 .. Len(chars)
      OBVIOUS
    <3> QED
      BY <3>1, UptoType
  <2>2. Len(chars) = 0 <=> chars = <<>>
    OBVIOUS
  <2> QED
    BY <2>1, <2>2 DEF BehindCell
<1> HIDE DEF b
<1>4. Reads("csv", b[0], chars, b[Len(chars)])
  BY <1>1, ReadsEach
<1> QED
  BY <1>2, <1>3, <1>4

LEMMA CsvReadsCell ==
  ASSUME NEW chars \in Seq(Chars), NEW row, NEW rows
  PROVE  /\ CsvQuote(chars) \in Seq(Chars)
         /\ Reads("csv", CsvAt("start", <<>>, row, rows), CsvQuote(chars),
                  CsvAt(BehindCell(chars), chars, row, rows))
<1>1. CASE ~Quoted(chars)
  <2>1. CsvQuote(chars) = chars
    BY <1>1, Zenon DEF CsvQuote, Quoted
  <2> QED
    BY <1>1, <2>1, CsvReadsPlain
<1>2. CASE Quoted(chars)
  <2> DEFINE body == FlattenSeq([k \in DOMAIN chars |-> Doubled(chars[k])])
  <2>1. CsvQuote(chars) = <<Quote>> \o body \o <<Quote>>
    <3>1. CsvQuote(chars) = Enclosed(body, Quote, Quote)
      BY <1>2, Zenon DEF CsvQuote, Quoted, Doubled
    <3> QED
      BY <3>1, Zenon DEF Enclosed
  <2>2. /\ body \in Seq(Chars)
        /\ Reads("csv", CsvAt("quoted", <<>>, row, rows), body,
                 CsvAt("quoted", chars, row, rows))
    BY CsvReadsQuoted
  <2> HIDE DEF body
  <2>3. <<Quote>> \in Seq(Chars) /\ <<Quote>> \o body \in Seq(Chars)
        /\ <<Quote>> \o body \o <<Quote>> \in Seq(Chars)
    <3>1. <<Quote>> \in Seq(Chars)
      BY SpecialAreChars
    <3> QED
      BY <2>2, <3>1
  <2>4. Reads("csv", CsvAt("start", <<>>, row, rows), <<Quote>>,
              CsvAt("quoted", <<>>, row, rows))
    BY CsvOpens
  <2>5. Reads("csv", CsvAt("quoted", chars, row, rows), <<Quote>>,
              CsvAt("quote", chars, row, rows))
    BY CsvQuotes
  <2>6. Reads("csv", CsvAt("start", <<>>, row, rows), <<Quote>> \o body,
              CsvAt("quoted", chars, row, rows))
    BY <2>2, <2>3, <2>4, ReadsBoth
  <2>7. Reads("csv", CsvAt("start", <<>>, row, rows), <<Quote>> \o body \o <<Quote>>,
              CsvAt("quote", chars, row, rows))
    BY <2>3, <2>5, <2>6, ReadsBoth
  <2> QED
    BY <1>2, <2>1, <2>3, <2>7 DEF BehindCell
<1> QED
  BY <1>1, <1>2

(* The cells of a line, and the line feed behind them.                     *)
LEMMA CsvReadsLine ==
  ASSUME NEW texts, NEW n \in Nat \ {0}, NEW cells \in Seq(Seq(Chars)), NEW rows,
         DOMAIN texts = 1 .. n, Len(cells) = n,
         \A k \in 1 .. n : cells[k] = CharsOf(texts[k])
  PROVE  /\ CsvLine(texts) \in Seq(Chars)
         /\ Reads("csv", CsvAt("start", <<>>, <<>>, rows), CsvLine(texts),
                  CsvAt("start", <<>>, <<>>, Append(rows, cells)))
<1> DEFINE Piece(k) == IF k = 1 THEN CsvQuote(cells[k]) ELSE <<",">> \o CsvQuote(cells[k])
      P == [k \in 1 .. n |-> Piece(k)]
      b == [k \in 0 .. n |-> IF k = 0 THEN CsvAt("start", <<>>, <<>>, rows)
                             ELSE CsvAt(BehindCell(cells[k]), cells[k], Upto(cells, k - 1), rows)]
<1>1. ASSUME NEW k \in 1 .. n
      PROVE  cells[k] \in Seq(Chars) /\ CsvQuote(cells[k]) \in Seq(Chars)
  <2>1. cells[k] \in Seq(Chars)
    OBVIOUS
  <2> QED
    BY <2>1, CsvReadsCell
<1>2. CsvLine(texts) = FlattenSeq(P) \o <<LineFeed>>
  <2> DEFINE Q == [k \in DOMAIN texts |-> CsvQuote(CharsOf(texts[k]))]
  <2>1. DOMAIN Q = 1 .. n /\ \A k \in 1 .. n : Q[k] = CsvQuote(cells[k])
    OBVIOUS
  <2> HIDE DEF Q
  <2>2. [k \in DOMAIN Q |-> IF k = 1 THEN Q[k] ELSE <<",">> \o Q[k]] = P
    BY <2>1
  <2>3. Joined(Q) = FlattenSeq(P)
    BY <2>2, Zenon DEF Joined
  <2> QED
    BY <2>3, Zenon DEF CsvLine, Q
<1>3. \A k \in 1 .. n : Piece(k) \in Seq(Chars)
  <2>1. <<",">> \in Seq(Chars)
    BY SpecialAreChars
  <2> TAKE k \in 1 .. n
  <2>2. CsvQuote(cells[k]) \in Seq(Chars)
    BY <1>1
  <2>3. <<",">> \o CsvQuote(cells[k]) \in Seq(Chars)
    BY <2>1, <2>2, BothAreSequence, Zenon
  <2> QED
    BY <2>2, <2>3
<1>4. P \in Seq(Seq(Chars)) /\ Len(P) = n
  <2> HIDE DEF Piece
  <2> QED
    BY <1>3
<1>5. ASSUME NEW k \in 1 .. n
      PROVE  Reads("csv", b[k - 1], P[k], b[k])
  <2> DEFINE q == CsvQuote(cells[k])
        done == CsvAt(BehindCell(cells[k]), cells[k], Upto(cells, k - 1), rows)
  <2>1. b[k] = done /\ P[k] = Piece(k)
    OBVIOUS
  <2>2. /\ q \in Seq(Chars)
        /\ Reads("csv", CsvAt("start", <<>>, Upto(cells, k - 1), rows), q, done)
    BY <1>1, CsvReadsCell
  <2>3. CASE k = 1
    <3>1. b[k - 1] = CsvAt("start", <<>>, Upto(cells, k - 1), rows) /\ P[k] = q
      BY <2>3, UptoNone
    <3> HIDE DEF q, done, b, P
    <3> QED
      BY <2>1, <2>2, <3>1
  <2>4. CASE k # 1
    <3> DEFINE j == k - 1
          prior == CsvAt(BehindCell(cells[j]), cells[j], Upto(cells, j - 1), rows)
    <3>1. j \in 1 .. n /\ j \in 0 .. n /\ j # 0
      BY <2>4
    <3>2. b[k - 1] = prior /\ P[k] = <<",">> \o q
      BY <2>4, <3>1
    <3>3. Upto(cells, j) = Append(Upto(cells, j - 1), cells[j])
      BY <3>1, UptoOneMore
    <3>4. AtEnd(BehindCell(cells[j]))
      BY DEF BehindCell, AtEnd
    <3>5. Reads("csv", prior, <<",">>,
                CsvAt("start", <<>>, Append(Upto(cells, j - 1), cells[j]), rows))
      BY <3>4, CsvEndsCell
    <3>6. Reads("csv", prior, <<",">>, CsvAt("start", <<>>, Upto(cells, j), rows))
      BY <3>3, <3>5
    <3>7. <<",">> \in Seq(Chars)
      BY SpecialAreChars
    <3> HIDE DEF q, done, b, P, prior
    <3>8. Reads("csv", prior, <<",">> \o q, done)
      BY <2>2, <3>6, <3>7, ReadsBoth
    <3> QED
      BY <2>1, <3>2, <3>8
  <2> QED
    BY <2>3, <2>4
<1>6. b[0] = CsvAt("start", <<>>, <<>>, rows)
      /\ b[n] = CsvAt(BehindCell(cells[n]), cells[n], Upto(cells, n - 1), rows)
  OBVIOUS
<1> HIDE DEF P, b
<1>7. FlattenSeq(P) \in Seq(Chars) /\ Reads("csv", b[0], FlattenSeq(P), b[n])
  BY <1>4, <1>5, ReadsFlat, FlattenType
<1>8. Reads("csv", b[n], <<LineFeed>>, CsvAt("start", <<>>, <<>>, Append(rows, cells)))
  <2>1. Append(Upto(cells, n - 1), cells[n]) = cells
    <3>1. n \in 1 .. Len(cells) /\ n \in 0 .. Len(cells)
      OBVIOUS
    <3>2. Upto(cells, n) = cells
      BY <3>1, UptoType
    <3> QED
      BY <3>1, <3>2, UptoOneMore
  <2>2. AtEnd(BehindCell(cells[n]))
    BY DEF BehindCell, AtEnd
  <2>3. Reads("csv", CsvAt(BehindCell(cells[n]), cells[n], Upto(cells, n - 1), rows),
              <<LineFeed>>,
              CsvAt("start", <<>>, <<>>, Append(rows, Append(Upto(cells, n - 1), cells[n]))))
    BY <2>2, CsvEndsRow
  <2> QED
    BY <1>6, <2>1, <2>3
<1>10. <<LineFeed>> \in Seq(Chars)
  BY SpecialAreChars
<1>11. FlattenSeq(P) \o <<LineFeed>> \in Seq(Chars)
  BY <1>7, <1>10
<1>12. Reads("csv", b[0], FlattenSeq(P) \o <<LineFeed>>,
             CsvAt("start", <<>>, <<>>, Append(rows, cells)))
  BY <1>7, <1>8, <1>10, ReadsBoth
<1> QED
  BY <1>2, <1>6, <1>11, <1>12

----------------------------------------------------------------------------
(* What an event shows of its attributes.                                  *)
LEMMA CharsType ==
  ASSUME NEW text \in Wordings
  PROVE  CharsOf(text) \in Seq(Chars)
<1>1. text \in DOMAIN Spelling => Spelling[text] \in Seq(Chars)
  <2> SUFFICES ASSUME text \in DOMAIN Spelling PROVE Spelling[text] \in Seq(Chars)
    OBVIOUS
  <2>1. Spelling[text] \in Seq(STRING)
    BY SpellingAssumption
  <2>2. Spelling[text] \in Seq(Range(Spelling[text]))
    BY <2>1, SequenceOfItsOwn, Zenon
  <2>3. Range(Spelling[text]) \subseteq Chars
    BY Zenon DEF Chars
  <2> QED
    BY <2>2, <2>3, SequenceOfMore, Zenon
<1>2. <<text>> \in Seq(Chars)
  <2>1. text \in Chars
    BY Zenon DEF Chars
  <2> QED
    BY <2>1, OneIsSequence, Zenon
<1>3. <<>> \in Seq(Chars)
  OBVIOUS
<1> QED
  BY <1>1, <1>2, <1>3, Zenon DEF CharsOf

LEMMA BlankIs ==
  /\ DOMAIN BlankEvent
       = TextAttributes \cup CountAttributes
         \cup {"pid", "source", "record_index", "timestamp", "severity", "fields"}
  /\ \A a \in TextAttributes : BlankEvent[a] = ""
  /\ \A a \in CountAttributes : BlankEvent[a] = "0"
  /\ BlankEvent["pid"] = "-1" /\ BlankEvent["timestamp"] = Unknown
BY DEF BlankEvent, TextAttributes, CountAttributes

LEMMA ShownOfTexts ==
  ASSUME NEW e \in Events, NEW name \in TextAttributes
  PROVE  /\ Shown(name, e) = e[name]
         /\ Carries(e, name) <=> e[name] # ""
         /\ Says(e, name) = e[name]
<1>2. name \notin {"timestamp", "severity", "pid", "source", "record_index"} \cup CountAttributes
  BY DEF TextAttributes, CountAttributes
<1>3. BlankEvent[name] = ""
  BY BlankIs
<1> QED
  BY <1>2, <1>3 DEF Shown, Carries, Says

LEMMA ShownOfCounts ==
  ASSUME NEW e \in Events, NEW name \in CountAttributes
  PROVE  /\ Shown(name, e) = (IF e[name] = "0" THEN "" ELSE e[name])
         /\ e[name] # ""
         /\ Carries(e, name) <=> e[name] # "0"
         /\ Says(e, name) = e[name]
<1>1. e[name] # ""
  BY EventRecords
<1>2. name \notin {"timestamp", "severity", "pid", "source", "record_index"} \cup TextAttributes
  BY DEF TextAttributes, CountAttributes
<1>3. BlankEvent[name] = "0"
  BY BlankIs
<1> QED
  BY <1>1, <1>2, <1>3 DEF Shown, Carries, Says

LEMMA SeverityNames ==
  ASSUME NEW s \in Severities
  PROVE  SeverityName[s] # ""
<1>1. \/ s = 0 \/ s = 1 \/ s = 2 \/ s = 3 \/ s = 4
      \/ s = 5 \/ s = 6 \/ s = 7 \/ s = 8
  BY DEF Severities, UnknownSeverity
<1> QED
  BY <1>1 DEF SeverityName, Severities, UnknownSeverity

LEMMA ShownIs ==
  ASSUME NEW e \in Events, NEW name \in Nameable
  PROVE  /\ Carries(e, name) <=> Shown(name, e) # ""
         /\ Carries(e, name) => Shown(name, e) = Says(e, name)
<1>1. CASE name \in TextAttributes
  BY <1>1, ShownOfTexts
<1>2. CASE name \in CountAttributes
  <2>1. Shown(name, e) = (IF e[name] = "0" THEN "" ELSE e[name])
    BY <1>2, ShownOfCounts
  <2>2. e[name] # ""
    BY <1>2, ShownOfCounts
  <2>3. (Carries(e, name) <=> e[name] # "0") /\ Says(e, name) = e[name]
    BY <1>2, ShownOfCounts
  <2> QED
    BY <2>1, <2>2, <2>3
<1>3. CASE name = "pid"
  <2>1. e["pid"] # "" /\ e["pid"] = e.pid
    BY EventRecords
  <2>2. Shown(name, e) = (IF e["pid"] = "-1" THEN "" ELSE e["pid"])
    BY <1>3, <2>1 DEF Shown, CountAttributes
  <2>3. (Carries(e, name) <=> e["pid"] # "-1") /\ Says(e, name) = e["pid"]
    BY <1>3, BlankIs DEF Carries, Says
  <2> QED
    BY <2>1, <2>2, <2>3
<1>4. CASE name = "source"
  <2>1. e["source"] # ""
    BY EventTexts, EventRecords
  <2> QED
    BY <1>4, <2>1 DEF Shown, Carries, Says, CountAttributes
<1>5. CASE name = "record_index"
  <2>1. e["record_index"] # ""
    BY EventRecords
  <2> QED
    BY <1>5, <2>1 DEF Shown, Carries, Says, CountAttributes
<1>6. CASE name = "severity"
  <2>1. SeverityName[e.severity] # ""
    BY EventTexts, SeverityNames
  <2> QED
    BY <1>6, <2>1 DEF Shown, Carries, Says, CountAttributes
<1>7. CASE name = "timestamp"
  <2>1. CASE e.timestamp = Unknown
    <3>1. ~e.timestamp.valid /\ e["timestamp"] = Unknown
      BY <2>1 DEF Unknown
    <3> QED
      BY <1>7, <3>1, BlankIs DEF Shown, Carries, CountAttributes
  <2>2. CASE e.timestamp.valid /\ e.timestamp \in DOMAIN IsoText
    <3>0. IsoText[e.timestamp] # ""
      BY <2>2, SpellingAssumption
    <3>1. IsoText[e.timestamp] # "" /\ e["timestamp"] # Unknown
      <4>1. ~Unknown.valid
        BY DEF Unknown
      <4>2. e.timestamp # Unknown
        BY <4>1, <2>2
      <4> QED
        BY <3>0, <4>2
    <3>2. Shown(name, e) = IsoText[e.timestamp] /\ Says(e, name) = IsoText[e.timestamp]
      BY <1>7, <2>2 DEF Shown, Says, CountAttributes
    <3>3. Carries(e, name)
      BY <1>7, <3>1, BlankIs DEF Carries
    <3> QED
      BY <3>1, <3>2, <3>3
  <2> QED
    BY <2>1, <2>2, EventRecords
<1> QED
  BY <1>1, <1>2, <1>3, <1>4, <1>5, <1>6, <1>7, BlankIs DEF Nameable

Names ==
  {"timestamp", "severity", "source", "record_index", "host", "app", "pid",
   "user", "src_ip", "dst_ip", "src_port", "dst_port", "http_method",
   "http_path", "http_status", "bytes", "event_id", "channel", "provider",
   "message"}

LEMMA NamesAre == Nameable = Names
<1>1. \A name \in Nameable : name \in Names
  BY BlankIs DEF Nameable, Names, TextAttributes, CountAttributes
<1>2. \A name \in Names : name \in Nameable
  BY BlankIs DEF Nameable, Names, TextAttributes, CountAttributes
<1> QED
  BY <1>1, <1>2

LEMMA ColumnsAre ==
  /\ DOMAIN CsvColumns = 1 .. 20
  /\ \A c \in 1 .. 20 : CsvColumns[c] \in Nameable
  /\ \A name \in Nameable : \E c \in 1 .. 20 : CsvColumns[c] = name
  /\ \A c, d \in 1 .. 20 : CsvColumns[c] = CsvColumns[d] => c = d
<1>1. DOMAIN CsvColumns = 1 .. 20
  BY DEF CsvColumns
<1>2. \A c \in 1 .. 20 : CsvColumns[c] \in Nameable
  <2> TAKE c \in 1 .. 20
  <2>1. \/ c = 1 \/ c = 2 \/ c = 3 \/ c = 4 \/ c = 5 \/ c = 6 \/ c = 7
        \/ c = 8 \/ c = 9 \/ c = 10 \/ c = 11 \/ c = 12 \/ c = 13 \/ c = 14
        \/ c = 15 \/ c = 16 \/ c = 17 \/ c = 18 \/ c = 19 \/ c = 20
    OBVIOUS
  <2>2. CsvColumns[c] \in Names
    BY <2>1 DEF CsvColumns, Names
  <2> QED
    BY <2>2, NamesAre
<1>3. \A name \in Nameable : \E c \in 1 .. 20 : CsvColumns[c] = name
  <2> TAKE name \in Nameable
  <2>1. name \in Names
    BY NamesAre
  <2>2. CsvColumns[1] = "timestamp" /\ CsvColumns[2] = "severity"
        /\ CsvColumns[3] = "source" /\ CsvColumns[4] = "record_index"
        /\ CsvColumns[5] = "host" /\ CsvColumns[6] = "app" /\ CsvColumns[7] = "pid"
        /\ CsvColumns[8] = "user" /\ CsvColumns[9] = "src_ip" /\ CsvColumns[10] = "dst_ip"
        /\ CsvColumns[11] = "src_port" /\ CsvColumns[12] = "dst_port"
        /\ CsvColumns[13] = "http_method" /\ CsvColumns[14] = "http_path"
        /\ CsvColumns[15] = "http_status" /\ CsvColumns[16] = "bytes"
        /\ CsvColumns[17] = "event_id" /\ CsvColumns[18] = "channel"
        /\ CsvColumns[19] = "provider" /\ CsvColumns[20] = "message"
    BY DEF CsvColumns
  <2> QED
    BY <2>1, <2>2 DEF Names
<1>4. \A c, d \in 1 .. 20 : CsvColumns[c] = CsvColumns[d] => c = d
  BY DEF CsvColumns
<1> QED
  BY <1>1, <1>2, <1>3, <1>4

LEMMA NamesAreChars ==
  ASSUME NEW name \in Nameable
  PROVE  name # "" /\ CharsOf(name) = <<name>>
<1>1. name # ""
  BY BlankIs DEF Nameable, TextAttributes, CountAttributes
<1>2. name \notin DOMAIN Spelling
  BY SpellingAssumption DEF Nameable
<1> QED
  BY <1>1, <1>2 DEF CharsOf


----------------------------------------------------------------------------
(* The table a CSV text is.                                                *)
HeaderCells == [c \in 1 .. 20 |-> CharsOf(CsvColumns[c])]

EventCells(e) == [c \in 1 .. 20 |-> CharsOf(Shown(CsvColumns[c], e))]

Table(list) ==
  [i \in 1 .. Len(list) + 1 |-> IF i = 1 THEN HeaderCells ELSE EventCells(list[i - 1])]

LEMMA ShownAreWordings ==
  ASSUME NEW e \in Events, NEW name \in Nameable
  PROVE  Shown(name, e) \in Wordings
<1> DEFINE Shows(d) == {Shown(a, d) : a \in Nameable}
<1>1. Shown(name, e) \in Shows(e) /\ Shows(e) \in {Shows(d) : d \in Events}
  OBVIOUS
<1> QED
  BY <1>1, Zenon DEF Wordings, ShownTexts

LEMMA NamesAreWordings ==
  ASSUME NEW name \in Nameable
  PROVE  name \in Wordings
BY DEF Wordings

LEMMA CellsType ==
  /\ HeaderCells \in Seq(Seq(Chars)) /\ Len(HeaderCells) = 20
  /\ \A e \in Events : EventCells(e) \in Seq(Seq(Chars)) /\ Len(EventCells(e)) = 20
<1>1. ASSUME NEW c \in 1 .. 20 PROVE CharsOf(CsvColumns[c]) \in Seq(Chars)
  <2>1. CsvColumns[c] \in Nameable
    BY ColumnsAre
  <2>2. CsvColumns[c] \in Wordings
    BY <2>1, NamesAreWordings
  <2> QED
    BY <2>2, CharsType
<1>2. ASSUME NEW e \in Events, NEW c \in 1 .. 20
      PROVE  CharsOf(Shown(CsvColumns[c], e)) \in Seq(Chars)
  <2>1. CsvColumns[c] \in Nameable
    BY ColumnsAre
  <2>3. Shown(CsvColumns[c], e) \in Wordings
    BY <2>1, ShownAreWordings
  <2> QED
    BY <2>3, CharsType
<1>3. HeaderCells \in Seq(Seq(Chars)) /\ Len(HeaderCells) = 20
  BY <1>1 DEF HeaderCells
<1>4. ASSUME NEW e \in Events
      PROVE  EventCells(e) \in Seq(Seq(Chars)) /\ Len(EventCells(e)) = 20
  <2> DEFINE Cell(c) == CharsOf(Shown(CsvColumns[c], e))
  <2>1. \A c \in 1 .. 20 : Cell(c) \in Seq(Chars)
    BY <1>2
  <2>2. EventCells(e) = [c \in 1 .. 20 |-> Cell(c)]
    BY DEF EventCells
  <2> HIDE DEF Cell
  <2> QED
    BY <2>1, <2>2
<1> QED
  BY <1>3, <1>4

LEMMA TableIs ==
  ASSUME NEW list \in Seq(Events)
  PROVE  /\ Table(list) \in Seq(Seq(Seq(Chars))) /\ Len(Table(list)) = Len(list) + 1
         /\ Table(list)[1] = HeaderCells
         /\ \A k \in 1 .. Len(list) : Table(list)[k + 1] = EventCells(list[k])
<1>1. PICK n \in Nat : n = Len(list) /\ \A k \in 1 .. n : list[k] \in Events
  OBVIOUS
<1>2. \A k \in 1 .. n : EventCells(list[k]) \in Seq(Seq(Chars))
  BY <1>1, CellsType
<1>3. \A i \in 1 .. n + 1 : i # 1 => i - 1 \in 1 .. n
  OBVIOUS
<1>4. \A i \in 1 .. n + 1 :
        (IF i = 1 THEN HeaderCells ELSE EventCells(list[i - 1])) \in Seq(Seq(Chars))
  BY <1>2, <1>3, CellsType
<1>5. \A k \in 1 .. n : k + 1 \in 1 .. n + 1 /\ k + 1 # 1 /\ (k + 1) - 1 = k
  OBVIOUS
<1>6. 1 \in 1 .. n + 1
  OBVIOUS
<1> QED
  BY <1>1, <1>4, <1>5, <1>6 DEF Table

LEMMA CsvReadsTable ==
  ASSUME NEW list \in Seq(Events)
  PROVE  /\ ToCsv(list) \in Seq(Chars)
         /\ Reads("csv", CsvAt("start", <<>>, <<>>, <<>>), ToCsv(list),
                  CsvAt("start", <<>>, <<>>, Table(list)))
<1> DEFINE T == Table(list)
      P == [k \in DOMAIN list |->
              CsvLine([c \in DOMAIN CellOrder |-> Shown(CellOrder[c], list[k])])]
      b == [k \in 0 .. Len(list) |-> CsvAt("start", <<>>, <<>>, Upto(T, k + 1))]
<1>1. PICK n \in Nat : n = Len(list) /\ DOMAIN list = 1 .. n
  OBVIOUS
<1>2. /\ T \in Seq(Seq(Seq(Chars))) /\ Len(T) = n + 1 /\ T[1] = HeaderCells
      /\ \A k \in 1 .. n : T[k + 1] = EventCells(list[k])
  BY <1>1, TableIs
<1> HIDE DEF T
<1>3. ASSUME NEW k \in 1 .. n, NEW rows
      PROVE  /\ P[k] \in Seq(Chars)
             /\ Reads("csv", CsvAt("start", <<>>, <<>>, rows), P[k],
                      CsvAt("start", <<>>, <<>>, Append(rows, T[k + 1])))
  <2> DEFINE texts == [c \in DOMAIN CellOrder |-> Shown(CellOrder[c], list[k])]
        cells == EventCells(list[k])
  <2>1. P[k] = CsvLine(texts)
    BY <1>1
  <2>2. DOMAIN texts = 1 .. 20 /\ \A c \in 1 .. 20 : cells[c] = CharsOf(texts[c])
    BY ColumnsAre DEF CellOrder, EventCells
  <2>3. cells \in Seq(Seq(Chars)) /\ Len(cells) = 20
    BY <1>1, CellsType
  <2>4. T[k + 1] = cells
    BY <1>2
  <2> HIDE DEF texts, cells, P
  <2>5. /\ CsvLine(texts) \in Seq(Chars)
        /\ Reads("csv", CsvAt("start", <<>>, <<>>, rows), CsvLine(texts),
                 CsvAt("start", <<>>, <<>>, Append(rows, cells)))
    <3>1. 20 \in Nat \ {0}
      OBVIOUS
    <3> QED
      BY <2>2, <2>3, <3>1, CsvReadsLine
  <2> QED
    BY <2>1, <2>4, <2>5
<1>4. P \in Seq(Seq(Chars)) /\ Len(P) = n
  <2>1. \A k \in 1 .. n : P[k] \in Seq(Chars)
    BY <1>3
  <2>2. P = [k \in 1 .. n |-> P[k]]
    BY <1>1
  <2> HIDE DEF P
  <2> QED
    BY <2>1, <2>2, Flattenable
<1>5. ASSUME NEW k \in 1 .. n
      PROVE  Reads("csv", b[k - 1], P[k], b[k])
  <2>1. k \in 0 .. n /\ k - 1 \in 0 .. n /\ (k - 1) + 1 = k
    OBVIOUS
  <2>2. b[k - 1] = CsvAt("start", <<>>, <<>>, Upto(T, k))
        /\ b[k] = CsvAt("start", <<>>, <<>>, Upto(T, k + 1))
    BY <1>1, <2>1
  <2>3. Append(Upto(T, k), T[k + 1]) = Upto(T, k + 1)
    <3>1. k + 1 \in 1 .. Len(T) /\ (k + 1) - 1 = k
      BY <1>2
    <3> QED
      BY <1>2, <3>1, UptoOneMore
  <2> HIDE DEF P, b
  <2> QED
    BY <1>3, <2>2, <2>3
<1>6. b[0] = CsvAt("start", <<>>, <<>>, Upto(T, 1)) /\ b[n] = CsvAt("start", <<>>, <<>>, T)
  <2>1. n + 1 \in 0 .. Len(T)
    BY <1>2
  <2>2. Upto(T, n + 1) = T
    BY <1>2, <2>1, UptoType
  <2> QED
    BY <1>1, <2>2
<1> HIDE DEF P, b
<1>7. FlattenSeq(P) \in Seq(Chars) /\ Reads("csv", b[0], FlattenSeq(P), b[n])
  BY <1>4, <1>5, ReadsFlat, FlattenType
<1>8. /\ CsvLine(CsvColumns) \in Seq(Chars)
      /\ Reads("csv", CsvAt("start", <<>>, <<>>, <<>>), CsvLine(CsvColumns),
               CsvAt("start", <<>>, <<>>, Append(<<>>, HeaderCells)))
  <2>1. \A c \in 1 .. 20 : HeaderCells[c] = CharsOf(CsvColumns[c])
    BY DEF HeaderCells
  <2>2. 20 \in Nat \ {0}
    OBVIOUS
  <2> QED
    BY <2>1, <2>2, ColumnsAre, CellsType, CsvReadsLine
<1>9. Append(<<>>, HeaderCells) = Upto(T, 1)
  BY <1>2 DEF Upto
<1>10. ToCsv(list) = CsvLine(CsvColumns) \o FlattenSeq(P)
  BY Zenon DEF ToCsv, P
<1>11. Reads("csv", CsvAt("start", <<>>, <<>>, <<>>), CsvLine(CsvColumns) \o FlattenSeq(P), b[n])
  BY <1>6, <1>7, <1>8, <1>9, ReadsBoth
<1> QED
  BY <1>6, <1>7, <1>8, <1>10, <1>11, BothAreSequence DEF T

----------------------------------------------------------------------------
(* What is printed is the text of the events, and both stay as they are.   *)
WrittenInv ==
  /\ out_kind = "csv" => pc = "written" /\ output = Printed(ToCsv(events))
  /\ out_kind \in {"ndjson", "json"} =>
       pc = "written" /\ output = Printed(ToNdjson(events))

LEMMA WrittenAlways == Spec => []WrittenInv
<1>1. Init => WrittenInv
  BY DEF Init, WrittenInv
<1>2. ASSUME WrittenInv, [Next]_vars PROVE WrittenInv'
  <2>1. CASE UNCHANGED outVars /\ pc # "written"
    BY <2>1, <1>2 DEF WrittenInv, outVars
  <2>3. CASE WriteCsv
    BY <2>3 DEF WriteCsv, WrittenInv, streamVars
  <2>4. CASE WriteNdjson
    BY <2>4 DEF WriteNdjson, WrittenInv, streamVars
  <2>5. CASE BadOutKind
    BY <2>5 DEF BadOutKind, WrittenInv
  <2>6. CASE UNCHANGED vars
    BY <2>6, <1>2 DEF vars, outVars, streamVars, WrittenInv
  <2>7. CASE Ingest \/ CompileFilter \/ Parse \/ BadFilter \/ StartFilter \/ Keep \/ Drop
    BY <1>2, <2>1, <2>7 DEF outVars, Ingest, CompileFilter, Parse, BadFilter, StartFilter, Keep, Drop
  <2> QED
    BY <1>2, <2>3, <2>4, <2>5, <2>6, <2>7 DEF Next
<1> QED
  BY <1>1, <1>2, PTL DEF Spec

LEMMA PrintedWhole ==
  ASSUME NEW chars, "NUL" \notin Range(chars)
  PROVE  Printed(chars) = chars
BY DEF Printed, Range

(* A row holds what its event says of each column, under the column's name. *)
LEMMA CellIs ==
  ASSUME NEW e \in Events, NEW c \in 1 .. 20, NEW name \in Nameable,
         CsvColumns[c] = name
  PROVE  EventCells(e)[c] = IF Carries(e, name) THEN CharsOf(Says(e, name)) ELSE <<>>
<1>1. EventCells(e)[c] = CharsOf(Shown(name, e))
  BY DEF EventCells
<1>2. /\ Carries(e, name) <=> Shown(name, e) # ""
      /\ Carries(e, name) => Shown(name, e) = Says(e, name)
  BY ShownIs
<1>3. CharsOf("") = <<>>
  BY DEF CharsOf
<1> QED
  BY <1>1, <1>2, <1>3

(* The column of a name is the one it stands at.                           *)
LEMMA ColumnOf ==
  ASSUME NEW name \in Nameable
  PROVE  LET c == CHOOSE d \in DOMAIN HeaderCells : HeaderCells[d] = CharsOf(name)
         IN  c \in 1 .. 20 /\ CsvColumns[c] = name
<1> DEFINE c == CHOOSE d \in DOMAIN HeaderCells : HeaderCells[d] = CharsOf(name)
<1>1. \A d \in 1 .. 20 : HeaderCells[d] = <<CsvColumns[d]>>
  BY ColumnsAre, NamesAreChars DEF HeaderCells
<1>2. DOMAIN HeaderCells = 1 .. 20 /\ CharsOf(name) = <<name>>
  BY NamesAreChars DEF HeaderCells
<1>3. \E d \in DOMAIN HeaderCells : HeaderCells[d] = CharsOf(name)
  <2>1. PICK d \in 1 .. 20 : CsvColumns[d] = name
    BY ColumnsAre
  <2> QED
    BY <1>1, <1>2, <2>1
<1>4. c \in 1 .. 20 /\ HeaderCells[c] = CharsOf(name)
  BY <1>2, <1>3
<1> HIDE DEF c
<1>5. <<CsvColumns[c]>> = <<name>>
  BY <1>1, <1>2, <1>4
<1>6. CsvColumns[c] = name
  BY <1>5
<1> QED
  BY <1>4, <1>6 DEF c

LEMMA HeaderNames ==
  Range(HeaderCells) = {CharsOf(name) : name \in Nameable}
<1>1. DOMAIN HeaderCells = 1 .. 20 /\ \A d \in 1 .. 20 : HeaderCells[d] = CharsOf(CsvColumns[d])
  BY DEF HeaderCells
<1>2. ASSUME NEW c \in 1 .. 20
      PROVE  HeaderCells[c] \in {CharsOf(name) : name \in Nameable}
  BY <1>1, ColumnsAre
<1>3. ASSUME NEW name \in Nameable
      PROVE  \E c \in 1 .. 20 : HeaderCells[c] = CharsOf(name)
  BY <1>1, ColumnsAre
<1> QED
  BY <1>1, <1>2, <1>3 DEF Range

(* The CSV of any stream, read back by the rules of RFC 4180, is a table   *)
(* with a header of all the names and a row for each event, and under each *)
(* name what the event says, whatever commas, quotes and line breaks the   *)
(* texts of the events hold.                                               *)
THEOREM CsvIsReadBack == Spec => []CsvReadsBack
<1>1. ASSUME ExportInv, WrittenInv PROVE CsvReadsBack
  <2>1. SUFFICES ASSUME out_kind = "csv", "NUL" \notin Range(ToCsv(events))
                 PROVE  CsvReadsBack
    BY DEF CsvReadsBack
  <2> DEFINE read == ReadCsv(output)
  <2>2. events \in Seq(Events)
    BY <1>1 DEF ExportInv, StreamsType
  <2>3. output = ToCsv(events)
    BY <1>1, <2>1, PrintedWhole DEF WrittenInv
  <2>4. read = CsvAt("start", <<>>, <<>>, Table(events))
    <3>1. /\ ToCsv(events) \in Seq(Chars)
          /\ Reads("csv", CsvAt("start", <<>>, <<>>, <<>>), ToCsv(events),
                   CsvAt("start", <<>>, <<>>, Table(events)))
      BY <2>2, CsvReadsTable
    <3> QED
      BY <2>3, <3>1, ScansAre, Zenon DEF ReadCsv
  <2> HIDE DEF read
  <2>5. CsvComplete(read) /\ read.rows = Table(events)
    BY <2>4 DEF CsvComplete, CsvAt
  <2>6. /\ Len(Table(events)) = Len(events) + 1 /\ Head(Table(events)) = HeaderCells
        /\ \A k \in 1 .. Len(events) : Table(events)[k + 1] = EventCells(events[k])
    BY <2>2, TableIs
  <2> DEFINE Column(name) ==
               CHOOSE c \in DOMAIN HeaderCells : HeaderCells[c] = CharsOf(name)
  <2>7. ASSUME NEW k \in DOMAIN events, NEW name \in Nameable
        PROVE  Table(events)[k + 1][Column(name)]
                 = IF Carries(events[k], name) THEN CharsOf(Says(events[k], name)) ELSE <<>>
    <3>1. Column(name) \in 1 .. 20 /\ CsvColumns[Column(name)] = name
      BY ColumnOf
    <3> HIDE DEF Column
    <3>2. events[k] \in Events /\ Table(events)[k + 1] = EventCells(events[k])
      BY <2>2, <2>6
    <3> QED
      BY <3>1, <3>2, CellIs
  <2> QED
    BY <2>5, <2>6, <2>7, HeaderNames, Zenon DEF CsvReadsBack, read
<1> QED
  BY <1>1, ExportAlways, WrittenAlways, PTL


----------------------------------------------------------------------------
(* Reading a line of JSON. Plain are the characters that a line may have.  *)
Plain == Chars \ {LineFeed, "NUL"}

LEMMA Digits ==
  /\ Quote \notin {"0", "1", "b"} /\ LineFeed \notin {"0", "1", "b"}
  /\ Backslash \notin {"0", "1", "b"}
BY Zenon DEF Quote, Backslash, LineFeed

LEMMA PlainAre ==
  /\ {Quote, Backslash, "u", "0", "1", "b", "f", "n", "r", "t", "{", "}", ":", ","}
       \subseteq Plain
  /\ Plain \subseteq Chars
<1>1. {Quote, Backslash, "{", "}", ":", ","} \subseteq Chars
  BY Zenon DEF Chars, SpecialChars
<1>2. {"u", "0", "1", "b", "f", "n", "r", "t"} \subseteq Chars
  BY Zenon DEF Chars
<1>3. {Quote, Backslash, "u", "0", "1", "b", "f", "n", "r", "t", "{", "}", ":", ","}
        \cap {LineFeed, "NUL"} = {}
  BY Characters, Digits
<1> QED
  BY <1>1, <1>2, <1>3 DEF Plain

LEMMA JsonTakes ==
  ASSUME NEW chars, NEW t0, NEW c, c \notin Controls \cup {Quote, Backslash}
  PROVE  Reads("json", JsonAt("in", chars, <<>>, t0), <<c>>,
               JsonAt("in", Append(chars, c), <<>>, t0))
<1>1. JsonStep(JsonAt("in", chars, <<>>, t0), c) = JsonAt("in", Append(chars, c), <<>>, t0)
  BY Characters DEF JsonStep, JsonAt
<1> QED
  BY <1>1, ReadsOne DEF StepOf

LEMMA JsonEscapes ==
  ASSUME NEW chars, NEW t0
  PROVE  Reads("json", JsonAt("in", chars, <<>>, t0), <<Backslash>>,
               JsonAt("esc", chars, <<>>, t0))
<1>1. JsonStep(JsonAt("in", chars, <<>>, t0), Backslash) = JsonAt("esc", chars, <<>>, t0)
  BY Characters DEF JsonStep, JsonAt
<1> QED
  BY <1>1, ReadsOne DEF StepOf

Shorts == {Quote, Backslash, "f", "n", "r", "t"}

LEMMA JsonUnescapes ==
  ASSUME NEW chars, NEW t0, NEW d \in Shorts
  PROVE  Reads("json", JsonAt("esc", chars, <<>>, t0), <<d>>,
               JsonAt("in", Append(chars, Unescape[d]), <<>>, t0))
<1>1. d \in DOMAIN Unescape
  BY DEF Unescape, Shorts
<1>2. d # "u"
  BY Characters DEF Shorts
<1>3. JsonStep(JsonAt("esc", chars, <<>>, t0), d)
        = JsonAt("in", Append(chars, Unescape[d]), <<>>, t0)
  BY <1>1, <1>2 DEF JsonStep, JsonAt
<1> QED
  BY <1>3, ReadsOne DEF StepOf

LEMMA JsonCountsOut ==
  ASSUME NEW chars, NEW t0
  PROVE  Reads("json", JsonAt("esc", chars, <<>>, t0), <<"u">>,
               JsonAt("hex", chars, <<>>, t0))
<1>1. JsonStep(JsonAt("esc", chars, <<>>, t0), "u") = JsonAt("hex", chars, <<>>, t0)
  <2>1. "u" \notin DOMAIN Unescape
    BY Characters DEF Unescape
  <2> QED
    BY <2>1 DEF JsonStep, JsonAt
<1> QED
  BY <1>1, ReadsOne DEF StepOf

LEMMA JsonDigits ==
  ASSUME NEW chars, NEW t0, NEW hex, NEW c, Len(Append(hex, c)) # 4
  PROVE  Reads("json", JsonAt("hex", chars, hex, t0), <<c>>,
               JsonAt("hex", chars, Append(hex, c), t0))
<1>1. JsonStep(JsonAt("hex", chars, hex, t0), c) = JsonAt("hex", chars, Append(hex, c), t0)
  BY DEF JsonStep, JsonAt
<1> QED
  BY <1>1, ReadsOne DEF StepOf

LEMMA JsonLastDigit ==
  ASSUME NEW chars, NEW t0, NEW hex, NEW c, Len(Append(hex, c)) = 4
  PROVE  Reads("json", JsonAt("hex", chars, hex, t0), <<c>>,
               JsonAt("in", Append(chars, OfHex(Append(hex, c))), <<>>, t0))
<1>1. JsonStep(JsonAt("hex", chars, hex, t0), c)
        = JsonAt("in", Append(chars, OfHex(Append(hex, c))), <<>>, t0)
  BY DEF JsonStep, JsonAt
<1> QED
  BY <1>1, ReadsOne DEF StepOf

LEMMA JsonOpens ==
  ASSUME NEW t0
  PROVE  Reads("json", JsonAt("out", <<>>, <<>>, t0), <<Quote>>,
               JsonAt("in", <<>>, <<>>, t0))
<1>1. JsonStep(JsonAt("out", <<>>, <<>>, t0), Quote) = JsonAt("in", <<>>, <<>>, t0)
  BY Characters DEF JsonStep, JsonAt, SpecialChars
<1> QED
  BY <1>1, ReadsOne DEF StepOf

LEMMA JsonCloses ==
  ASSUME NEW chars, NEW t0
  PROVE  Reads("json", JsonAt("in", chars, <<>>, t0), <<Quote>>,
               JsonAt("out", <<>>, <<>>,
                      Append(t0, [is |-> "string", chars |-> chars])))
<1>1. JsonStep(JsonAt("in", chars, <<>>, t0), Quote)
        = JsonAt("out", <<>>, <<>>, Append(t0, [is |-> "string", chars |-> chars]))
  BY Characters DEF JsonStep, JsonAt
<1> QED
  BY <1>1, ReadsOne DEF StepOf

LEMMA JsonMarks ==
  ASSUME NEW t0, NEW c, c \in {"{", "}", ":", ","}
  PROVE  Reads("json", JsonAt("out", <<>>, <<>>, t0), <<c>>,
               JsonAt("out", <<>>, <<>>, Append(t0, [is |-> c, chars |-> <<>>])))
<1>1. JsonStep(JsonAt("out", <<>>, <<>>, t0), c)
        = JsonAt("out", <<>>, <<>>, Append(t0, [is |-> c, chars |-> <<>>]))
  BY Characters DEF JsonStep, JsonAt, SpecialChars
<1> QED
  BY <1>1, ReadsOne DEF StepOf

LEMMA JsonNumbers ==
  ASSUME NEW t0, NEW c, c \notin SpecialChars
  PROVE  Reads("json", JsonAt("out", <<>>, <<>>, t0), <<c>>,
               JsonAt("out", <<>>, <<>>, Append(t0, [is |-> "number", chars |-> <<c>>])))
<1>1. JsonStep(JsonAt("out", <<>>, <<>>, t0), c)
        = JsonAt("out", <<>>, <<>>, Append(t0, [is |-> "number", chars |-> <<c>>]))
  BY Characters DEF JsonStep, JsonAt, SpecialChars
<1> QED
  BY <1>1, ReadsOne DEF StepOf


(* A piece of a string read back: it is plain, and stands for chars.       *)
Stands(s, chars) ==
  /\ s \in Seq(Plain)
  /\ \A before \in Seq(Chars) : \A t0 :
       Reads("json", JsonAt("in", before, <<>>, t0), s,
             JsonAt("in", before \o chars, <<>>, t0))

LEMMA PlainPieces ==
  ASSUME NEW s, s \in Seq(Plain)
  PROVE  s \in Seq(Chars)
BY PlainAre, SequenceOfMore

LEMMA ShortEscape ==
  ASSUME NEW c \in Chars, NEW d \in Shorts, Unescape[d] = c,
         JsonEscaped(c) = <<Backslash, d>>
  PROVE  Stands(JsonEscaped(c), <<c>>)
<1>1. <<Backslash>> \in Seq(Plain) /\ <<d>> \in Seq(Plain) /\ JsonEscaped(c) = <<Backslash>> \o <<d>>
      /\ JsonEscaped(c) \in Seq(Plain)
  <2>1. Backslash \in Plain /\ d \in Plain
    BY PlainAre DEF Shorts
  <2> QED
    BY <2>1
<1>2. ASSUME NEW before \in Seq(Chars), NEW t0
      PROVE  Reads("json", JsonAt("in", before, <<>>, t0), JsonEscaped(c),
                   JsonAt("in", before \o <<c>>, <<>>, t0))
  <2>1. Reads("json", JsonAt("in", before, <<>>, t0), <<Backslash>>,
              JsonAt("esc", before, <<>>, t0))
    BY JsonEscapes
  <2>2. Reads("json", JsonAt("esc", before, <<>>, t0), <<d>>,
              JsonAt("in", Append(before, Unescape[d]), <<>>, t0))
    BY JsonUnescapes
  <2>3. Append(before, Unescape[d]) = before \o <<c>>
    OBVIOUS
  <2>4. Reads("json", JsonAt("in", before, <<>>, t0), <<Backslash>> \o <<d>>,
              JsonAt("in", before \o <<c>>, <<>>, t0))
    BY <1>1, <2>1, <2>2, <2>3, ReadsBoth
  <2> QED
    BY <1>1, <2>4
<1> QED
  BY <1>1, <1>2 DEF Stands

(* Tuples by their places.                                                 *)
LEMMA SamePlaces ==
  ASSUME NEW S, NEW s \in Seq(S), NEW t \in Seq(S), NEW n \in Nat,
         Len(s) = n, Len(t) = n, \A k \in 1 .. n : s[k] = t[k]
  PROVE  s = t
OBVIOUS

LEMMA NothingAndOne ==
  ASSUME NEW a
  PROVE  Append(<<>>, a) = <<a>>
OBVIOUS

LEMMA OneAndOne ==
  ASSUME NEW a, NEW b
  PROVE  Append(<<a>>, b) = <<a, b>>
<1> DEFINE s == Append(<<a>>, b)
      t == <<a, b>>
<1>1. /\ s \in Seq({a, b}) /\ Len(s) = 2 /\ s[1] = a /\ s[2] = b
      /\ t \in Seq({a, b}) /\ Len(t) = 2 /\ t[1] = a /\ t[2] = b
  OBVIOUS
<1> HIDE DEF s, t
<1>2. \A k \in 1 .. 2 : s[k] = t[k]
  BY <1>1
<1>3. s = t
  BY <1>1, <1>2, SamePlaces
<1> QED
  BY <1>3 DEF s, t

LEMMA TwoAndOne ==
  ASSUME NEW a, NEW b, NEW c
  PROVE  Append(<<a, b>>, c) = <<a, b, c>>
<1> DEFINE s == Append(<<a, b>>, c)
      t == <<a, b, c>>
<1>1. /\ s \in Seq({a, b, c}) /\ Len(s) = 3 /\ s[1] = a /\ s[2] = b /\ s[3] = c
      /\ t \in Seq({a, b, c}) /\ Len(t) = 3 /\ t[1] = a /\ t[2] = b /\ t[3] = c
  OBVIOUS
<1> HIDE DEF s, t
<1>2. \A k \in 1 .. 3 : s[k] = t[k]
  BY <1>1
<1>3. s = t
  BY <1>1, <1>2, SamePlaces
<1> QED
  BY <1>3 DEF s, t

LEMMA ThreeAndOne ==
  ASSUME NEW a, NEW b, NEW c, NEW d
  PROVE  Append(<<a, b, c>>, d) = <<a, b, c, d>>
<1> DEFINE s == Append(<<a, b, c>>, d)
      t == <<a, b, c, d>>
<1>1. /\ s \in Seq({a, b, c, d}) /\ Len(s) = 4
      /\ s[1] = a /\ s[2] = b /\ s[3] = c /\ s[4] = d
      /\ t \in Seq({a, b, c, d}) /\ Len(t) = 4
      /\ t[1] = a /\ t[2] = b /\ t[3] = c /\ t[4] = d
  OBVIOUS
<1> HIDE DEF s, t
<1>2. \A k \in 1 .. 4 : s[k] = t[k]
  BY <1>1
<1>3. s = t
  BY <1>1, <1>2, SamePlaces
<1> QED
  BY <1>3 DEF s, t

LEMMA CountedEscape ==
  ASSUME NEW c \in Chars, NEW a, NEW b, a \in {"0", "1"}, b \in {"0", "b"},
         OfHex(<<"0", "0", a, b>>) = c,
         JsonEscaped(c) = <<Backslash, "u", "0", "0", a, b>>
  PROVE  Stands(JsonEscaped(c), <<c>>)
<1> DEFINE s == <<Backslash, "u", "0", "0", a, b>>
<1>1. /\ s \in Seq(Plain) /\ Len(s) = 6 /\ s[1] = Backslash /\ s[2] = "u" /\ s[3] = "0"
      /\ s[4] = "0" /\ s[5] = a /\ s[6] = b
  <2>1. {Backslash, "u", "0", a, b} \subseteq Plain
    BY PlainAre
  <2> QED
    BY <2>1
<1>2. JsonEscaped(c) = s
  OBVIOUS
<1> HIDE DEF s
<1>3. s \in Seq(Chars)
  BY <1>1, PlainPieces
<1>4. ASSUME NEW before \in Seq(Chars), NEW t0
      PROVE  Reads("json", JsonAt("in", before, <<>>, t0), s,
                   JsonAt("in", before \o <<c>>, <<>>, t0))
  <2> DEFINE q == [k \in 0 .. 6 |->
                     IF k = 0 THEN JsonAt("in", before, <<>>, t0)
                     ELSE IF k = 1 THEN JsonAt("esc", before, <<>>, t0)
                     ELSE IF k = 2 THEN JsonAt("hex", before, <<>>, t0)
                     ELSE IF k = 3 THEN JsonAt("hex", before, <<"0">>, t0)
                     ELSE IF k = 4 THEN JsonAt("hex", before, <<"0", "0">>, t0)
                     ELSE IF k = 5 THEN JsonAt("hex", before, <<"0", "0", a>>, t0)
                     ELSE JsonAt("in", before \o <<c>>, <<>>, t0)]
  <2>1. /\ q[0] = JsonAt("in", before, <<>>, t0) /\ q[1] = JsonAt("esc", before, <<>>, t0)
        /\ q[2] = JsonAt("hex", before, <<>>, t0) /\ q[3] = JsonAt("hex", before, <<"0">>, t0)
        /\ q[4] = JsonAt("hex", before, <<"0", "0">>, t0)
        /\ q[5] = JsonAt("hex", before, <<"0", "0", a>>, t0)
        /\ q[6] = JsonAt("in", before \o <<c>>, <<>>, t0)
    OBVIOUS
  <2> HIDE DEF q
  <2>2. Reads("json", q[0], <<Backslash>>, q[1])
    BY <2>1, JsonEscapes
  <2>3. Reads("json", q[1], <<"u">>, q[2])
    BY <2>1, JsonCountsOut
  <2>4. Reads("json", q[2], <<"0">>, q[3])
    <3>1. Append(<<>>, "0") = <<"0">> /\ Len(<<"0">>) # 4
      OBVIOUS
    <3> QED
      BY <2>1, <3>1, JsonDigits
  <2>5. Reads("json", q[3], <<"0">>, q[4])
    <3>1. Append(<<"0">>, "0") = <<"0", "0">> /\ Len(<<"0", "0">>) # 4
      BY OneAndOne
    <3> QED
      BY <2>1, <3>1, JsonDigits
  <2>6. Reads("json", q[4], <<a>>, q[5])
    <3>1. Append(<<"0", "0">>, a) = <<"0", "0", a>> /\ Len(<<"0", "0", a>>) # 4
      BY TwoAndOne
    <3> QED
      BY <2>1, <3>1, JsonDigits
  <2>7. Reads("json", q[5], <<b>>, q[6])
    <3>1. Append(<<"0", "0", a>>, b) = <<"0", "0", a, b>>
      BY ThreeAndOne
    <3>2. Len(<<"0", "0", a, b>>) = 4 /\ before \o <<c>> = Append(before, c)
      OBVIOUS
    <3> QED
      BY <2>1, <3>1, <3>2, JsonLastDigit
  <2>8. ASSUME NEW k \in 1 .. Len(s) PROVE Reads("json", q[k - 1], <<s[k]>>, q[k])
    <3>1. k = 1 \/ k = 2 \/ k = 3 \/ k = 4 \/ k = 5 \/ k = 6
      BY <1>1
    <3>2. 1 - 1 = 0 /\ 2 - 1 = 1 /\ 3 - 1 = 2 /\ 4 - 1 = 3 /\ 5 - 1 = 4 /\ 6 - 1 = 5
      OBVIOUS
    <3>3. /\ k = 1 => Reads("json", q[k - 1], <<s[k]>>, q[k])
          /\ k = 2 => Reads("json", q[k - 1], <<s[k]>>, q[k])
          /\ k = 3 => Reads("json", q[k - 1], <<s[k]>>, q[k])
      BY <1>1, <2>2, <2>3, <2>4, <3>2, Zenon
    <3>4. /\ k = 4 => Reads("json", q[k - 1], <<s[k]>>, q[k])
          /\ k = 5 => Reads("json", q[k - 1], <<s[k]>>, q[k])
          /\ k = 6 => Reads("json", q[k - 1], <<s[k]>>, q[k])
      BY <1>1, <2>5, <2>6, <2>7, <3>2, Zenon
    <3> QED
      BY <3>1, <3>3, <3>4
  <2>9. Reads("json", q[0], s, q[Len(s)])
    BY <1>3, <2>8, ReadsEach
  <2> QED
    BY <1>1, <2>1, <2>9
<1> QED
  BY <1>1, <1>2, <1>4 DEF Stands

(* Every character is read back from its escape.                           *)
LEMMA EscapedStands ==
  ASSUME NEW c \in Chars
  PROVE  Stands(JsonEscaped(c), <<c>>)
<1>1. CASE c = Quote
  <2>1. JsonEscaped(c) = <<Backslash, Quote>> /\ Unescape[Quote] = Quote
    BY <1>1, Characters DEF JsonEscaped, Unescape
  <2> QED
    BY <1>1, <2>1, ShortEscape DEF Shorts
<1>2. CASE c = Backslash
  <2>1. JsonEscaped(c) = <<Backslash, Backslash>> /\ Unescape[Backslash] = Backslash
    BY <1>2, Characters DEF JsonEscaped, Unescape
  <2> QED
    BY <1>2, <2>1, ShortEscape DEF Shorts
<1>3. CASE c = FormFeed
  <2>1. JsonEscaped(c) = <<Backslash, "f">> /\ Unescape["f"] = FormFeed
    BY <1>3, Characters DEF JsonEscaped, Unescape
  <2> QED
    BY <1>3, <2>1, ShortEscape DEF Shorts
<1>4. CASE c = LineFeed
  <2>1. JsonEscaped(c) = <<Backslash, "n">> /\ Unescape["n"] = LineFeed
    BY <1>4, Characters DEF JsonEscaped, Unescape
  <2> QED
    BY <1>4, <2>1, ShortEscape DEF Shorts
<1>5. CASE c = Return
  <2>1. JsonEscaped(c) = <<Backslash, "r">> /\ Unescape["r"] = Return
    BY <1>5, Characters DEF JsonEscaped, Unescape
  <2> QED
    BY <1>5, <2>1, ShortEscape DEF Shorts
<1>6. CASE c = Tab
  <2>1. JsonEscaped(c) = <<Backslash, "t">> /\ Unescape["t"] = Tab
    BY <1>6, Characters DEF JsonEscaped, Unescape
  <2> QED
    BY <1>6, <2>1, ShortEscape DEF Shorts
<1>7. CASE c = "NUL"
  <2>1. ControlByte[c] = 0
    BY <1>7, Characters DEF ControlByte
  <2>2. Nibble(0 \div 16) = "0" /\ Nibble(0 % 16) = "0"
    BY DEF Nibble
  <2>3. JsonEscaped(c) = <<Backslash, "u", "0", "0", "0", "0">>
    BY <1>7, <2>1, <2>2, Characters DEF JsonEscaped
  <2>4. OfHex(<<"0", "0", "0", "0">>) = c
    BY <1>7 DEF OfHex
  <2> QED
    BY <2>3, <2>4, CountedEscape
<1>8. CASE c = "ESC"
  <2>1. ControlByte[c] = 27
    BY <1>8, Characters DEF ControlByte
  <2>2. Nibble(27 \div 16) = "1" /\ Nibble(27 % 16) = "b"
    BY DEF Nibble
  <2>3. JsonEscaped(c) = <<Backslash, "u", "0", "0", "1", "b">>
    BY <1>8, <2>1, <2>2, Characters DEF JsonEscaped
  <2>4. OfHex(<<"0", "0", "1", "b">>) = c
    BY <1>8 DEF OfHex
  <2> QED
    BY <2>3, <2>4, CountedEscape
<1>9. CASE c \notin Controls \cup {Quote, Backslash}
  <2>1. JsonEscaped(c) = <<c>>
    BY <1>9 DEF JsonEscaped, Controls
  <2>2. <<c>> \in Seq(Plain)
    <3>1. c \in Plain
      BY <1>9 DEF Plain, Controls
    <3> QED
      BY <3>1
  <2>3. \A before \in Seq(Chars) : Append(before, c) = before \o <<c>>
    OBVIOUS
  <2> QED
    BY <1>9, <2>1, <2>2, <2>3, JsonTakes DEF Stands
<1> QED
  BY <1>1, <1>2, <1>3, <1>4, <1>5, <1>6, <1>7, <1>8, <1>9 DEF Controls


Associate(x, y, z) == (x \o y) \o z = x \o (y \o z)

LEMMA Joins ==
  ASSUME NEW S, NEW x \in Seq(S), NEW y \in Seq(S), NEW z \in Seq(S)
  PROVE  Associate(x, y, z)
BY DEF Associate

LEMMA NothingType ==
  ASSUME NEW S
  PROVE  <<>> \in Seq(S) /\ Len(<<>>) = 0
OBVIOUS

LEMMA AppendIsJoin ==
  ASSUME NEW S, NEW x \in Seq(S), NEW c \in S
  PROVE  Append(x, c) = x \o <<c>> /\ <<c>> \in Seq(S)
OBVIOUS

(* ... and a text from the escapes of its characters.                      *)
LEMMA EscapedTextStands ==
  ASSUME NEW chars \in Seq(Chars)
  PROVE  Stands(JsonEscape(chars), chars)
<1> DEFINE P == [k \in DOMAIN chars |-> JsonEscaped(chars[k])]
<1>1. PICK n \in Nat : n = Len(chars) /\ DOMAIN chars = 1 .. n
  OBVIOUS
<1>2. ASSUME NEW k \in 1 .. n
      PROVE  chars[k] \in Chars /\ P[k] \in Seq(Plain) /\ Stands(P[k], <<chars[k]>>)
  <2>1. chars[k] \in Chars /\ P[k] = JsonEscaped(chars[k])
    BY <1>1
  <2>2. Stands(JsonEscaped(chars[k]), <<chars[k]>>)
    BY <2>1, EscapedStands
  <2> HIDE DEF P
  <2> QED
    BY <2>1, <2>2 DEF Stands
<1>3. P \in Seq(Seq(Plain)) /\ Len(P) = n
  <2>1. P = [k \in 1 .. n |-> P[k]]
    BY <1>1
  <2> HIDE DEF P
  <2> QED
    BY <1>2, <2>1, Flattenable
<1>4. JsonEscape(chars) = FlattenSeq(P)
  BY Zenon DEF JsonEscape
<1> HIDE DEF P
<1>5. FlattenSeq(P) \in Seq(Plain)
  BY <1>3, FlattenType
<1>6. ASSUME NEW before \in Seq(Chars), NEW t0
      PROVE  Reads("json", JsonAt("in", before, <<>>, t0), FlattenSeq(P),
                   JsonAt("in", before \o chars, <<>>, t0))
  <2> DEFINE b == [k \in 0 .. n |-> JsonAt("in", before \o Upto(chars, k), <<>>, t0)]
  <2>1. ASSUME NEW k \in 1 .. n PROVE Reads("json", b[k - 1], P[k], b[k])
    <3> DEFINE u == Upto(chars, k - 1)
    <3>1. k \in 0 .. n /\ k - 1 \in 0 .. n
      OBVIOUS
    <3>2. u \in Seq(Chars) /\ Append(u, chars[k]) = Upto(chars, k)
      BY <1>1, UptoOneMore
    <3>3. b[k - 1] = JsonAt("in", before \o u, <<>>, t0)
          /\ b[k] = JsonAt("in", before \o Append(u, chars[k]), <<>>, t0)
      BY <3>1, <3>2
    <3> HIDE DEF u, b
    <3>4. PICK z \in Seq(Chars) : z = <<chars[k]>> /\ u \o z = Append(u, chars[k])
      BY <1>2, <3>2, AppendIsJoin
    <3>5. before \o u \in Seq(Chars) /\ (before \o u) \o z = before \o (u \o z)
      <4>1. Associate(before, u, z)
        BY <3>2, Joins
      <4> QED
        BY <3>2, <4>1, BothAreSequence DEF Associate
    <3>6. Reads("json", JsonAt("in", before \o u, <<>>, t0), P[k],
                JsonAt("in", (before \o u) \o z, <<>>, t0))
      BY <1>2, <3>4, <3>5 DEF Stands
    <3> QED
      BY <3>3, <3>4, <3>5, <3>6
  <2>2. b[0] = JsonAt("in", before, <<>>, t0) /\ b[n] = JsonAt("in", before \o chars, <<>>, t0)
    <3>1. before \o Upto(chars, 0) = before
      <4>1. before \o <<>> = before
        OBVIOUS
      <4> QED
        BY <4>1, UptoNone
    <3>2. Upto(chars, n) = chars
      <4>1. n \in 0 .. Len(chars)
        BY <1>1
      <4> QED
        BY <1>1, <4>1, UptoType
    <3>3. 0 \in 0 .. n /\ n \in 0 .. n
      OBVIOUS
    <3> QED
      BY <3>1, <3>2, <3>3, Zenon
  <2> HIDE DEF b
  <2>3. Reads("json", b[0], FlattenSeq(P), b[Len(P)])
    BY <1>3, <2>1, ReadsFlat
  <2> QED
    BY <1>3, <2>2, <2>3
<1> QED
  BY <1>4, <1>5, <1>6 DEF Stands

(* A piece of a line and the tokens it is.                                 *)
Kinds == {"string", "number", "{", "}", ":", ","}

Toks == [is : Kinds, chars : Seq(Chars)]

Tok(kind, chars) == [is |-> kind, chars |-> chars]

Lexes(s, ts) ==
  /\ s \in Seq(Plain) /\ ts \in Seq(Toks)
  /\ \A t0 \in Seq(Toks) :
       Reads("json", JsonAt("out", <<>>, <<>>, t0), s, JsonAt("out", <<>>, <<>>, t0 \o ts))

LEMMA TokType ==
  ASSUME NEW kind \in Kinds, NEW chars \in Seq(Chars)
  PROVE  Tok(kind, chars) \in Toks /\ <<Tok(kind, chars)>> \in Seq(Toks)
<1>1. Tok(kind, chars) \in Toks
  BY DEF Tok, Toks
<1> QED
  BY <1>1, OneIsSequence

LEMMA LexesBoth ==
  ASSUME NEW s, NEW u, NEW ts, NEW tu, Lexes(s, ts), Lexes(u, tu)
  PROVE  Lexes(s \o u, ts \o tu)
<1>1. /\ s \in Seq(Plain) /\ u \in Seq(Plain) /\ ts \in Seq(Toks) /\ tu \in Seq(Toks)
      /\ s \o u \in Seq(Plain) /\ ts \o tu \in Seq(Toks)
  BY BothAreSequence DEF Lexes
<1>2. ASSUME NEW t0 \in Seq(Toks)
      PROVE  Reads("json", JsonAt("out", <<>>, <<>>, t0), s \o u,
                   JsonAt("out", <<>>, <<>>, t0 \o (ts \o tu)))
  <2>1. t0 \o ts \in Seq(Toks) /\ (t0 \o ts) \o tu = t0 \o (ts \o tu)
    <3>1. Associate(t0, ts, tu)
      BY <1>1, Joins
    <3> QED
      BY <1>1, <3>1, BothAreSequence DEF Associate
  <2>2. Reads("json", JsonAt("out", <<>>, <<>>, t0), s, JsonAt("out", <<>>, <<>>, t0 \o ts))
    BY DEF Lexes
  <2>3. Reads("json", JsonAt("out", <<>>, <<>>, t0 \o ts), u,
              JsonAt("out", <<>>, <<>>, (t0 \o ts) \o tu))
    BY <2>1 DEF Lexes
  <2> QED
    BY <1>1, <2>1, <2>2, <2>3, ReadsBoth
<1> QED
  BY <1>1, <1>2 DEF Lexes

LEMMA LexesMark ==
  ASSUME NEW c, c \in {"{", "}", ":", ","}
  PROVE  Lexes(<<c>>, <<Tok(c, <<>>)>>)
<1>1. <<c>> \in Seq(Plain)
  BY PlainAre, OneIsSequence
<1>2. Tok(c, <<>>) \in Toks /\ <<Tok(c, <<>>)>> \in Seq(Toks)
  <2>1. c \in Kinds
    BY DEF Kinds
  <2> QED
    BY <2>1, NothingType, TokType
<1>3. ASSUME NEW t0 \in Seq(Toks)
      PROVE  Reads("json", JsonAt("out", <<>>, <<>>, t0), <<c>>,
                   JsonAt("out", <<>>, <<>>, t0 \o <<Tok(c, <<>>)>>))
  <2>1. t0 \o <<Tok(c, <<>>)>> = Append(t0, Tok(c, <<>>))
    BY <1>2, AppendIsJoin
  <2>2. Tok(c, <<>>) = [is |-> c, chars |-> <<>>]
    BY DEF Tok
  <2> QED
    BY <2>1, <2>2, JsonMarks
<1> QED
  BY <1>1, <1>2, <1>3 DEF Lexes

LEMMA LexesNumber ==
  ASSUME NEW c \in Chars, c \notin SpecialChars
  PROVE  Lexes(<<c>>, <<Tok("number", <<c>>)>>)
<1>1. <<c>> \in Seq(Plain) /\ <<c>> \in Seq(Chars)
  <2>1. c \in Plain
    BY DEF Plain, SpecialChars
  <2> QED
    BY <2>1, OneIsSequence
<1>2. Tok("number", <<c>>) \in Toks /\ <<Tok("number", <<c>>)>> \in Seq(Toks)
  BY <1>1, TokType DEF Kinds
<1>3. ASSUME NEW t0 \in Seq(Toks)
      PROVE  Reads("json", JsonAt("out", <<>>, <<>>, t0), <<c>>,
                   JsonAt("out", <<>>, <<>>, t0 \o <<Tok("number", <<c>>)>>))
  BY <1>2, AppendIsJoin, JsonNumbers DEF Tok
<1> QED
  BY <1>1, <1>2, <1>3 DEF Lexes

LEMMA LexesString ==
  ASSUME NEW text \in Wordings
  PROVE  Lexes(JsonString(text), <<Tok("string", CharsOf(text))>>)
<1> DEFINE chars == CharsOf(text)
      body == JsonEscape(chars)
<1>1. chars \in Seq(Chars)
  BY CharsType
<1>2. JsonString(text) = <<Quote>> \o body \o <<Quote>>
  BY Zenon DEF JsonString, Enclosed
<1> HIDE DEF chars
<1>3. Stands(body, chars)
  BY <1>1, EscapedTextStands
<1> HIDE DEF body
<1>4. body \in Seq(Plain) /\ <<Quote>> \in Seq(Plain) /\ <<Quote>> \o body \in Seq(Plain)
      /\ <<Quote>> \o body \o <<Quote>> \in Seq(Plain)
  <2>1. body \in Seq(Plain)
    BY <1>3 DEF Stands
  <2>2. <<Quote>> \in Seq(Plain)
    BY PlainAre, OneIsSequence
  <2> QED
    BY <2>1, <2>2, BothAreSequence
<1>5. Tok("string", chars) \in Toks /\ <<Tok("string", chars)>> \in Seq(Toks)
  BY <1>1, TokType DEF Kinds
<1>6. ASSUME NEW t0 \in Seq(Toks)
      PROVE  Reads("json", JsonAt("out", <<>>, <<>>, t0), <<Quote>> \o body \o <<Quote>>,
                   JsonAt("out", <<>>, <<>>, t0 \o <<Tok("string", chars)>>))
  <2>1. Reads("json", JsonAt("out", <<>>, <<>>, t0), <<Quote>>, JsonAt("in", <<>>, <<>>, t0))
    BY JsonOpens
  <2>2. Reads("json", JsonAt("in", <<>>, <<>>, t0), body, JsonAt("in", chars, <<>>, t0))
    <3>1. <<>> \in Seq(Chars) /\ <<>> \o chars = chars
      BY <1>1
    <3>2. Reads("json", JsonAt("in", <<>>, <<>>, t0), body, JsonAt("in", <<>> \o chars, <<>>, t0))
      BY <1>3, <3>1 DEF Stands
    <3> QED
      BY <3>1, <3>2
  <2>3. Reads("json", JsonAt("in", chars, <<>>, t0), <<Quote>>,
              JsonAt("out", <<>>, <<>>, t0 \o <<Tok("string", chars)>>))
    BY <1>5, AppendIsJoin, JsonCloses DEF Tok
  <2>4. Reads("json", JsonAt("out", <<>>, <<>>, t0), <<Quote>> \o body,
              JsonAt("in", chars, <<>>, t0))
    BY <1>4, <2>1, <2>2, ReadsBoth
  <2> QED
    BY <1>4, <2>3, <2>4, ReadsBoth
<1> QED
  BY <1>2, <1>4, <1>5, <1>6 DEF Lexes, chars


----------------------------------------------------------------------------
(* Reading the tokens of an object.                                        *)
Paths == Seq(Seq(Chars))

Leaves == {"string", "number"}

Mems == [path : Paths, is : Leaves, chars : Seq(Chars)]

Mem(path, kind, chars) == [path |-> path, is |-> kind, chars |-> chars]

Expects(at) == at \in {"key", "member"}

Closes(at) == at \in {"key", "comma"}

LEMMA ObjectTakesKey ==
  ASSUME NEW at, NEW path, NEW ms, NEW chars, Expects(at)
  PROVE  Reads("object", ObjectAt(at, path, ms), <<Tok("string", chars)>>,
               ObjectAt("colon", Append(path, chars), ms))
<1>1. ObjectStep(ObjectAt(at, path, ms), Tok("string", chars))
        = ObjectAt("colon", Append(path, chars), ms)
  BY DEF ObjectStep, ObjectAt, Tok, Expects
<1> QED
  BY <1>1, ReadsOne DEF StepOf

LEMMA ObjectTakesColon ==
  ASSUME NEW path, NEW ms, NEW chars
  PROVE  Reads("object", ObjectAt("colon", path, ms), <<Tok(":", chars)>>,
               ObjectAt("value", path, ms))
<1>1. ObjectStep(ObjectAt("colon", path, ms), Tok(":", chars)) = ObjectAt("value", path, ms)
  BY DEF ObjectStep, ObjectAt, Tok
<1> QED
  BY <1>1, ReadsOne DEF StepOf

LEMMA ObjectTakesLeaf ==
  ASSUME NEW path, NEW ms, NEW kind, NEW chars, kind \in Leaves
  PROVE  Reads("object", ObjectAt("value", path, ms), <<Tok(kind, chars)>>,
               ObjectAt("comma", Front(path), Append(ms, Mem(path, kind, chars))))
<1>1. ObjectStep(ObjectAt("value", path, ms), Tok(kind, chars))
        = ObjectAt("comma", Front(path), Append(ms, Mem(path, kind, chars)))
  BY DEF ObjectStep, ObjectAt, Tok, Mem, Leaves
<1> QED
  BY <1>1, ReadsOne DEF StepOf

LEMMA ObjectOpens ==
  ASSUME NEW path, NEW ms, NEW chars
  PROVE  Reads("object", ObjectAt("value", path, ms), <<Tok("{", chars)>>,
               ObjectAt("key", path, ms))
<1>1. ObjectStep(ObjectAt("value", path, ms), Tok("{", chars)) = ObjectAt("key", path, ms)
  BY DEF ObjectStep, ObjectAt, Tok
<1> QED
  BY <1>1, ReadsOne DEF StepOf

LEMMA ObjectTakesComma ==
  ASSUME NEW path, NEW ms, NEW chars
  PROVE  Reads("object", ObjectAt("comma", path, ms), <<Tok(",", chars)>>,
               ObjectAt("member", path, ms))
<1>1. ObjectStep(ObjectAt("comma", path, ms), Tok(",", chars)) = ObjectAt("member", path, ms)
  BY DEF ObjectStep, ObjectAt, Tok
<1> QED
  BY <1>1, ReadsOne DEF StepOf

LEMMA ObjectCloses ==
  ASSUME NEW at, NEW path, NEW ms, NEW chars, Closes(at)
  PROVE  Reads("object", ObjectAt(at, path, ms), <<Tok("}", chars)>>,
               IF path = <<>> THEN ObjectAt("end", path, ms)
               ELSE ObjectAt("comma", Front(path), ms))
<1>1. ObjectStep(ObjectAt(at, path, ms), Tok("}", chars))
        = IF path = <<>> THEN ObjectAt("end", path, ms)
          ELSE ObjectAt("comma", Front(path), ms)
  BY DEF ObjectStep, ObjectAt, Tok, Closes
<1> QED
  BY <1>1, ReadsOne DEF StepOf

LEMMA FrontIs ==
  ASSUME NEW S, NEW path \in Seq(S), NEW c \in S
  PROVE  /\ Front(Append(path, c)) = path /\ Append(path, c) # <<>>
         /\ Append(path, c) \in Seq(S)
BY DEF Front

(* Tokens that are members of an object, and a text that tells of them.    *)
Objects(ts, path, ms) ==
  /\ ts \in Seq(Toks) /\ ms \in Seq(Mems)
  /\ \A at, m0 : Expects(at) /\ m0 \in Seq(Mems) =>
       Reads("object", ObjectAt(at, path, m0), ts, ObjectAt("comma", path, m0 \o ms))

Tells(s, path, ms) == \E ts : Lexes(s, ts) /\ Objects(ts, path, ms)

(* A key, a colon and a text or a number.                                  *)
LEMMA TellsLeaf ==
  ASSUME NEW key \in Wordings, NEW path \in Paths, NEW value, NEW kind, NEW chars,
         kind \in Leaves, chars \in Seq(Chars), Lexes(value, <<Tok(kind, chars)>>)
  PROVE  Tells(JsonMember(key, value), path,
               <<Mem(Append(path, CharsOf(key)), kind, chars)>>)
<1> DEFINE name == CharsOf(key)
      own == Append(path, name)
      k1 == <<Tok("string", name)>>
      k2 == k1 \o <<Tok(":", <<>>)>>
      ts == k2 \o <<Tok(kind, chars)>>
      m == Mem(own, kind, chars)
<1>1. name \in Seq(Chars) /\ own \in Paths /\ Front(own) = path
  BY CharsType, FrontIs DEF Paths
<1>2. Lexes(JsonMember(key, value), ts)
  <2>1. Lexes(JsonString(key), k1)
    BY LexesString
  <2>2. Lexes(<<":">>, <<Tok(":", <<>>)>>)
    BY LexesMark
  <2>3. Lexes(JsonString(key) \o <<":">>, k2)
    BY <2>1, <2>2, LexesBoth
  <2> HIDE DEF k2
  <2>4. Lexes(JsonString(key) \o <<":">> \o value, ts)
    BY <2>3, LexesBoth
  <2> QED
    BY <2>4 DEF JsonMember
<1>3. /\ k1 \in Seq(Toks) /\ <<Tok(":", <<>>)>> \in Seq(Toks) /\ <<Tok(kind, chars)>> \in Seq(Toks)
      /\ k2 \in Seq(Toks) /\ ts \in Seq(Toks)
  <2>1. {"string", ":", kind} \subseteq Kinds
    BY DEF Kinds, Leaves
  <2>2. k1 \in Seq(Toks) /\ <<Tok(":", <<>>)>> \in Seq(Toks) /\ <<Tok(kind, chars)>> \in Seq(Toks)
    BY <1>1, <2>1, TokType, NothingType
  <2>3. k2 \in Seq(Toks)
    BY <2>2, BothAreSequence
  <2> HIDE DEF k2
  <2> QED
    BY <2>2, <2>3, BothAreSequence
<1>4. m \in Mems /\ <<m>> \in Seq(Mems)
  <2>1. m \in Mems
    BY <1>1 DEF Mem, Mems
  <2> HIDE DEF m
  <2> QED
    BY <2>1, OneIsSequence
<1>5. ASSUME NEW at, NEW m0, Expects(at), m0 \in Seq(Mems)
      PROVE  Reads("object", ObjectAt(at, path, m0), ts, ObjectAt("comma", path, m0 \o <<m>>))
  <2>1. Reads("object", ObjectAt(at, path, m0), k1, ObjectAt("colon", own, m0))
    BY <1>5, ObjectTakesKey
  <2>2. Reads("object", ObjectAt("colon", own, m0), <<Tok(":", <<>>)>>, ObjectAt("value", own, m0))
    BY ObjectTakesColon
  <2>3. Reads("object", ObjectAt("value", own, m0), <<Tok(kind, chars)>>,
              ObjectAt("comma", path, m0 \o <<m>>))
    <3>1. Append(m0, m) = m0 \o <<m>>
      BY <1>4, <1>5, AppendIsJoin
    <3> HIDE DEF own
    <3>2. Reads("object", ObjectAt("value", own, m0), <<Tok(kind, chars)>>,
                ObjectAt("comma", Front(own), Append(m0, m)))
      BY ObjectTakesLeaf
    <3> QED
      BY <1>1, <3>1, <3>2
  <2> HIDE DEF k1, own, m
  <2>4. Reads("object", ObjectAt(at, path, m0), k2, ObjectAt("value", own, m0))
    BY <1>3, <2>1, <2>2, ReadsBoth DEF k2
  <2> HIDE DEF k2
  <2> QED
    BY <1>3, <2>3, <2>4, ReadsBoth
<1> HIDE DEF ts
<1>6. Objects(ts, path, <<m>>)
  BY <1>3, <1>4, <1>5 DEF Objects
<1> QED
  BY <1>2, <1>6, Zenon DEF Tells


LEMMA LexesFlat ==
  ASSUME NEW n \in Nat, NEW P, NEW T, P = [k \in 1 .. n |-> P[k]], T = [k \in 1 .. n |-> T[k]],
         \A k \in 1 .. n : Lexes(P[k], T[k])
  PROVE  Lexes(FlattenSeq(P), FlattenSeq(T))
<1>1. P \in Seq(Seq(Plain)) /\ Len(P) = n
  <2>1. \A k \in 1 .. n : P[k] \in Seq(Plain)
    BY DEF Lexes
  <2> QED
    BY <2>1, Flattenable
<1>2. T \in Seq(Seq(Toks)) /\ Len(T) = n
  <2>1. \A k \in 1 .. n : T[k] \in Seq(Toks)
    BY DEF Lexes
  <2> QED
    BY <2>1, Flattenable
<1>3. FlattenSeq(P) \in Seq(Plain) /\ FlattenSeq(T) \in Seq(Toks)
  BY <1>1, <1>2, FlattenType
<1>4. ASSUME NEW t0 \in Seq(Toks)
      PROVE  Reads("json", JsonAt("out", <<>>, <<>>, t0), FlattenSeq(P),
                   JsonAt("out", <<>>, <<>>, t0 \o FlattenSeq(T)))
  <2> DEFINE Flat(k) == FlattenSeq(Upto(T, k))
        b == [k \in 0 .. n |-> JsonAt("out", <<>>, <<>>, t0 \o Flat(k))]
  <2>1. ASSUME NEW k \in 1 .. n PROVE Reads("json", b[k - 1], P[k], b[k])
    <3>1. k \in 0 .. n /\ k - 1 \in 0 .. n /\ k \in 1 .. Len(T)
      BY <1>2
    <3>2. b[k - 1] = JsonAt("out", <<>>, <<>>, t0 \o Flat(k - 1))
          /\ b[k] = JsonAt("out", <<>>, <<>>, t0 \o Flat(k))
      BY <3>1, Zenon
    <3>3. Flat(k - 1) \in Seq(Toks) /\ Flat(k) = Flat(k - 1) \o T[k]
      BY <1>2, <3>1, FlattenOneMore, Zenon
    <3>4. T[k] \in Seq(Toks) /\ Lexes(P[k], T[k])
      BY <1>2
    <3> HIDE DEF b, Flat
    <3>5. t0 \o Flat(k - 1) \in Seq(Toks) /\ (t0 \o Flat(k - 1)) \o T[k] = t0 \o Flat(k)
      <4>1. Associate(t0, Flat(k - 1), T[k])
        BY <3>3, <3>4, Joins
      <4> QED
        BY <3>3, <4>1, BothAreSequence DEF Associate
    <3>6. Reads("json", JsonAt("out", <<>>, <<>>, t0 \o Flat(k - 1)), P[k],
                JsonAt("out", <<>>, <<>>, (t0 \o Flat(k - 1)) \o T[k]))
      BY <3>4, <3>5 DEF Lexes
    <3> QED
      BY <3>2, <3>5, <3>6
  <2>2. b[0] = JsonAt("out", <<>>, <<>>, t0)
        /\ b[n] = JsonAt("out", <<>>, <<>>, t0 \o FlattenSeq(T))
    <3>1. 0 \in 0 .. n /\ n \in 0 .. n /\ n \in 0 .. Len(T)
      BY <1>2
    <3>2. Upto(T, 0) = <<>> /\ Upto(T, n) = T
      BY <1>2, <3>1, UptoNone, UptoType
    <3>3. t0 \o Flat(0) = t0 /\ Flat(n) = FlattenSeq(T)
      <4>1. t0 \o <<>> = t0
        OBVIOUS
      <4>2. FlattenSeq(<<>>) = <<>>
        <5>1. <<>> \in Seq(Seq(Toks)) /\ Len(<<>>) = 0
          BY NothingType
        <5> QED
          BY <5>1, FlattenIs
      <4> QED
        BY <3>2, <4>1, <4>2
    <3> QED
      BY <3>1, <3>3, Zenon
  <2> HIDE DEF b
  <2>3. Reads("json", b[0], FlattenSeq(P), b[Len(P)])
    BY <1>1, <2>1, ReadsFlat
  <2> QED
    BY <1>1, <2>2, <2>3
<1> QED
  BY <1>3, <1>4 DEF Lexes

(* Members one after the other.                                            *)
Members(P, n, path, D) ==
  /\ P = [k \in 1 .. n |-> P[k]] /\ D \in Seq(Seq(Mems)) /\ Len(D) = n
  /\ \A k \in 1 .. n : Tells(P[k], path, D[k])

NextIs(n) == IF n = 0 THEN "key" ELSE "comma"

LEMMA TellsAll ==
  ASSUME NEW n \in Nat, NEW P, NEW path, NEW D, Members(P, n, path, D)
  PROVE  \E ts :
           /\ Lexes(Joined(P), ts) /\ FlattenSeq(D) \in Seq(Mems)
           /\ \A m0 : m0 \in Seq(Mems) =>
                Reads("object", ObjectAt("key", path, m0), ts,
                      ObjectAt(NextIs(n), path, m0 \o FlattenSeq(D)))
<1> DEFINE T == [k \in 1 .. n |-> CHOOSE ts : Lexes(P[k], ts) /\ Objects(ts, path, D[k])]
      comma == Tok(",", <<>>)
      Q == [k \in 1 .. n |-> IF k = 1 THEN P[k] ELSE <<",">> \o P[k]]
      U == [k \in 1 .. n |-> IF k = 1 THEN T[k] ELSE <<comma>> \o T[k]]
<1>1. /\ P = [k \in 1 .. n |-> P[k]] /\ D \in Seq(Seq(Mems)) /\ Len(D) = n
      /\ \A k \in 1 .. n : Tells(P[k], path, D[k])
  BY DEF Members
<1>2. ASSUME NEW k \in 1 .. n PROVE Lexes(P[k], T[k]) /\ Objects(T[k], path, D[k])
  <2>1. \E ts : Lexes(P[k], ts) /\ Objects(ts, path, D[k])
    BY <1>1 DEF Tells
  <2>2. T[k] = CHOOSE ts : Lexes(P[k], ts) /\ Objects(ts, path, D[k])
    OBVIOUS
  <2> HIDE DEF T
  <2> QED
    BY <2>1, <2>2, Zenon
<1> HIDE DEF T
<1>3. Lexes(<<",">>, <<comma>>) /\ <<comma>> \in Seq(Toks)
  BY LexesMark DEF Lexes
<1> HIDE DEF comma
<1>4. ASSUME NEW k \in 1 .. n PROVE Lexes(Q[k], U[k])
  <2>1. CASE k = 1
    <3>1. Q[k] = P[k] /\ U[k] = T[k]
      BY <2>1
    <3> QED
      BY <1>2, <3>1
  <2>2. CASE k # 1
    <3>1. Q[k] = <<",">> \o P[k] /\ U[k] = <<comma>> \o T[k]
      BY <2>2
    <3> HIDE DEF Q, U
    <3>2. Lexes(P[k], T[k])
      BY <1>2
    <3>3. Lexes(<<",">> \o P[k], <<comma>> \o T[k])
      BY <1>3, <3>2, LexesBoth
    <3> QED
      BY <3>1, <3>3
  <2> QED
    BY <2>1, <2>2
<1>5. Joined(P) = FlattenSeq(Q)
  <2>1. DOMAIN P = 1 .. n
    BY <1>1
  <2> QED
    BY <2>1, Zenon DEF Joined
<1>6. Q = [k \in 1 .. n |-> Q[k]] /\ U = [k \in 1 .. n |-> U[k]]
  OBVIOUS
<1>7. Lexes(FlattenSeq(Q), FlattenSeq(U))
  <2> HIDE DEF Q, U
  <2> QED
    BY <1>4, <1>6, LexesFlat
<1>8. U \in Seq(Seq(Toks)) /\ Len(U) = n
  <2> HIDE DEF Q, U
  <2>1. \A k \in 1 .. n : U[k] \in Seq(Toks)
    BY <1>4 DEF Lexes
  <2> QED
    BY <1>6, <2>1, Flattenable
<1>9. ASSUME NEW m0, m0 \in Seq(Mems)
      PROVE  Reads("object", ObjectAt("key", path, m0), FlattenSeq(U),
                   ObjectAt(NextIs(n), path, m0 \o FlattenSeq(D)))
  <2> DEFINE Flat(k) == FlattenSeq(Upto(D, k))
        b == [k \in 0 .. n |-> ObjectAt(NextIs(k), path, m0 \o Flat(k))]
  <2>1. ASSUME NEW k \in 1 .. n PROVE Reads("object", b[k - 1], U[k], b[k])
    <3>1. k \in 0 .. n /\ k - 1 \in 0 .. n /\ k \in 1 .. Len(D) /\ k # 0
      BY <1>1
    <3>2. b[k - 1] = ObjectAt(NextIs(k - 1), path, m0 \o Flat(k - 1))
          /\ b[k] = ObjectAt("comma", path, m0 \o Flat(k))
      BY <3>1, Zenon DEF NextIs
    <3>3. Flat(k - 1) \in Seq(Mems) /\ Flat(k) = Flat(k - 1) \o D[k]
      BY <1>1, <3>1, FlattenOneMore, Zenon
    <3>4. D[k] \in Seq(Mems) /\ Objects(T[k], path, D[k]) /\ T[k] \in Seq(Toks)
      BY <1>1, <1>2 DEF Objects
    <3> HIDE DEF b, Flat
    <3>5. m0 \o Flat(k - 1) \in Seq(Mems) /\ (m0 \o Flat(k - 1)) \o D[k] = m0 \o Flat(k)
      <4>1. Associate(m0, Flat(k - 1), D[k])
        BY <1>9, <3>3, <3>4, Joins
      <4> QED
        BY <1>9, <3>3, <4>1, BothAreSequence DEF Associate
    <3>6. ASSUME NEW at, Expects(at)
          PROVE  Reads("object", ObjectAt(at, path, m0 \o Flat(k - 1)), T[k], b[k])
      <4>1. Reads("object", ObjectAt(at, path, m0 \o Flat(k - 1)), T[k],
                  ObjectAt("comma", path, (m0 \o Flat(k - 1)) \o D[k]))
        BY <3>4, <3>5, <3>6 DEF Objects
      <4> QED
        BY <3>2, <3>5, <4>1
    <3>7. CASE k = 1
      <4>1. U[k] = T[k] /\ NextIs(k - 1) = "key" /\ Expects("key")
        BY <3>7 DEF NextIs, Expects
      <4> QED
        BY <3>2, <3>6, <4>1
    <3>8. CASE k # 1
      <4>1. U[k] = <<comma>> \o T[k] /\ NextIs(k - 1) = "comma" /\ Expects("member")
        BY <3>8 DEF NextIs, Expects
      <4>2. Reads("object", ObjectAt("comma", path, m0 \o Flat(k - 1)), <<comma>>,
                  ObjectAt("member", path, m0 \o Flat(k - 1)))
        BY ObjectTakesComma DEF comma
      <4>3. Reads("object", ObjectAt("member", path, m0 \o Flat(k - 1)), T[k], b[k])
        BY <3>6, <4>1
      <4> HIDE DEF U
      <4> QED
        BY <1>3, <3>2, <3>4, <4>1, <4>2, <4>3, ReadsBoth
    <3> QED
      BY <3>7, <3>8
  <2>2. b[0] = ObjectAt("key", path, m0) /\ b[n] = ObjectAt(NextIs(n), path, m0 \o FlattenSeq(D))
    <3>1. 0 \in 0 .. n /\ n \in 0 .. n /\ n \in 0 .. Len(D)
      BY <1>1
    <3>2. Upto(D, 0) = <<>> /\ Upto(D, n) = D
      BY <1>1, <3>1, UptoNone, UptoType
    <3>3. m0 \o Flat(0) = m0 /\ Flat(n) = FlattenSeq(D)
      <4>1. m0 \o <<>> = m0
        BY <1>9
      <4>2. FlattenSeq(<<>>) = <<>>
        <5>1. <<>> \in Seq(Seq(Mems)) /\ Len(<<>>) = 0
          BY NothingType
        <5> QED
          BY <5>1, FlattenIs
      <4> QED
        BY <3>2, <4>1, <4>2
    <3>4. NextIs(0) = "key"
      BY DEF NextIs
    <3> QED
      BY <3>1, <3>3, <3>4, Zenon
  <2> HIDE DEF b, U
  <2>3. Reads("object", b[0], FlattenSeq(U), b[Len(U)])
    BY <1>8, <2>1, ReadsFlat
  <2> QED
    BY <1>8, <2>2, <2>3
<1>10. FlattenSeq(D) \in Seq(Mems)
  BY <1>1, FlattenType
<1> QED
  BY <1>5, <1>7, <1>9, <1>10


(* An object below a key.                                                  *)
LEMMA TellsObject ==
  ASSUME NEW n \in Nat, NEW P, NEW key \in Wordings, NEW path \in Paths, NEW D,
         Members(P, n, Append(path, CharsOf(key)), D)
  PROVE  Tells(JsonMember(key, Enclosed(Joined(P), "{", "}")), path, FlattenSeq(D))
<1> DEFINE name == CharsOf(key)
      own == Append(path, name)
      body == Joined(P)
      ms == FlattenSeq(D)
<1>1. name \in Seq(Chars) /\ Front(own) = path /\ own # <<>>
  BY CharsType, FrontIs DEF Paths
<1>2. PICK ts : /\ Lexes(body, ts) /\ ms \in Seq(Mems)
                /\ \A m0 : m0 \in Seq(Mems) =>
                     Reads("object", ObjectAt("key", own, m0), ts,
                           ObjectAt(NextIs(n), own, m0 \o ms))
  BY TellsAll
<1> DEFINE t1 == <<Tok("string", name)>>
      t2 == t1 \o <<Tok(":", <<>>)>>
      t3 == <<Tok("{", <<>>)>>
      t4 == t3 \o ts
      t5 == t4 \o <<Tok("}", <<>>)>>
      all == t2 \o t5
<1>3. Lexes(JsonMember(key, Enclosed(body, "{", "}")), all)
  <2> HIDE DEF body
  <2>1. Lexes(JsonString(key), t1) /\ Lexes(<<":">>, <<Tok(":", <<>>)>>)
        /\ Lexes(<<"{">>, t3) /\ Lexes(<<"}">>, <<Tok("}", <<>>)>>)
    BY LexesString, LexesMark
  <2> HIDE DEF t1, t3
  <2>2. Lexes(JsonString(key) \o <<":">>, t2)
    BY <2>1, LexesBoth
  <2>3. Lexes(<<"{">> \o body, t4)
    BY <1>2, <2>1, LexesBoth
  <2> HIDE DEF t2, t4
  <2>4. Lexes(<<"{">> \o body \o <<"}">>, t5)
    BY <2>1, <2>3, LexesBoth
  <2>5. Lexes(Enclosed(body, "{", "}"), t5)
    BY <2>4 DEF Enclosed
  <2> HIDE DEF t5
  <2>6. Lexes(JsonString(key) \o <<":">> \o Enclosed(body, "{", "}"), all)
    BY <2>2, <2>5, LexesBoth
  <2> QED
    BY <2>6 DEF JsonMember
<1>4. /\ t1 \in Seq(Toks) /\ <<Tok(":", <<>>)>> \in Seq(Toks) /\ t3 \in Seq(Toks)
      /\ <<Tok("}", <<>>)>> \in Seq(Toks) /\ ts \in Seq(Toks)
  <2>1. {"string", ":", "{", "}"} \subseteq Kinds
    BY DEF Kinds
  <2>2. ts \in Seq(Toks)
    BY <1>2 DEF Lexes
  <2> QED
    BY <1>1, <2>1, <2>2, TokType, NothingType
<1>5. t2 \in Seq(Toks) /\ t4 \in Seq(Toks) /\ t5 \in Seq(Toks) /\ all \in Seq(Toks)
  <2> HIDE DEF t1, t3
  <2>1. t2 \in Seq(Toks) /\ t4 \in Seq(Toks)
    BY <1>4, BothAreSequence
  <2> HIDE DEF t2, t4
  <2>2. t5 \in Seq(Toks)
    BY <1>4, <2>1, BothAreSequence
  <2> HIDE DEF t5
  <2> QED
    BY <2>1, <2>2, BothAreSequence
<1>6. ASSUME NEW at, NEW m0, Expects(at), m0 \in Seq(Mems)
      PROVE  Reads("object", ObjectAt(at, path, m0), all, ObjectAt("comma", path, m0 \o ms))
  <2>1. Reads("object", ObjectAt(at, path, m0), t1, ObjectAt("colon", own, m0))
    BY <1>6, ObjectTakesKey
  <2>2. Reads("object", ObjectAt("colon", own, m0), <<Tok(":", <<>>)>>, ObjectAt("value", own, m0))
    BY ObjectTakesColon
  <2>3. Reads("object", ObjectAt("value", own, m0), t3, ObjectAt("key", own, m0))
    BY ObjectOpens
  <2>4. Reads("object", ObjectAt("key", own, m0), ts, ObjectAt(NextIs(n), own, m0 \o ms))
    BY <1>2, <1>6
  <2>5. Reads("object", ObjectAt(NextIs(n), own, m0 \o ms), <<Tok("}", <<>>)>>,
              ObjectAt("comma", path, m0 \o ms))
    <3>1. Closes(NextIs(n))
      BY DEF Closes, NextIs
    <3> HIDE DEF own, ms
    <3> QED
      BY <1>1, <3>1, ObjectCloses
  <2> HIDE DEF t1, t3, own, ms
  <2>6. Reads("object", ObjectAt(at, path, m0), t2, ObjectAt("value", own, m0))
    BY <1>4, <2>1, <2>2, ReadsBoth DEF t2
  <2>7. Reads("object", ObjectAt("value", own, m0), t4, ObjectAt(NextIs(n), own, m0 \o ms))
    BY <1>4, <2>3, <2>4, ReadsBoth DEF t4
  <2> HIDE DEF t2, t4
  <2>8. Reads("object", ObjectAt("value", own, m0), t5, ObjectAt("comma", path, m0 \o ms))
    BY <1>4, <1>5, <2>5, <2>7, ReadsBoth DEF t5
  <2> HIDE DEF t5
  <2> QED
    BY <1>5, <2>6, <2>8, ReadsBoth DEF all
<1> HIDE DEF all, ms
<1>7. Objects(all, path, ms)
  BY <1>2, <1>5, <1>6 DEF Objects
<1> QED
  BY <1>3, <1>7, Zenon DEF Tells, ms

LEMMA HeadAndRest ==
  ASSUME NEW S, NEW c \in S, NEW r \in Seq(S)
  PROVE  /\ <<c>> \o r \in Seq(S) /\ <<c>> \o r # <<>>
         /\ Head(<<c>> \o r) = c /\ Tail(<<c>> \o r) = r
<1> DEFINE s == <<c>> \o r
<1>1. s \in Seq(S) /\ Len(s) = Len(r) + 1 /\ s[1] = c
      /\ \A k \in 1 .. Len(r) : s[k + 1] = r[k]
  OBVIOUS
<1> HIDE DEF s
<1>2. s # <<>> /\ Head(s) = c
  BY <1>1
<1>3. Tail(s) \in Seq(S) /\ Len(Tail(s)) = Len(r)
      /\ \A k \in 1 .. Len(r) : Tail(s)[k] = r[k]
  BY <1>1, <1>2
<1>4. Tail(s) = r
  <2>1. Len(r) \in Nat
    OBVIOUS
  <2> QED
    BY <1>3, <2>1, SamePlaces
<1> QED
  BY <1>1, <1>2, <1>4 DEF s

(* A line is read as its members, and it is one line.                      *)
LEMMA LineIs ==
  ASSUME NEW n \in Nat, NEW P, NEW D, Members(P, n, <<>>, D)
  PROVE  /\ Enclosed(Joined(P), "{", "}") \in Seq(Plain)
         /\ ReadObject(Enclosed(Joined(P), "{", "}")) = FlattenSeq(D)
<1> DEFINE body == Joined(P)
      line == Enclosed(body, "{", "}")
      ms == FlattenSeq(D)
      open == Tok("{", <<>>)
      close == <<Tok("}", <<>>)>>
<1>1. PICK ts : /\ Lexes(body, ts) /\ ms \in Seq(Mems)
                /\ \A m0 : m0 \in Seq(Mems) =>
                     Reads("object", ObjectAt("key", <<>>, m0), ts,
                           ObjectAt(NextIs(n), <<>>, m0 \o ms))
  BY TellsAll
<1> HIDE DEF body, ms
<1>2. open \in Toks /\ <<open>> \in Seq(Toks) /\ close \in Seq(Toks) /\ ts \in Seq(Toks)
  <2>1. {"{", "}"} \subseteq Kinds
    BY DEF Kinds
  <2>2. ts \in Seq(Toks)
    BY <1>1 DEF Lexes
  <2> QED
    BY <2>1, <2>2, TokType, NothingType
<1> DEFINE inner == ts \o close
<1>3. inner \in Seq(Toks)
  BY <1>2, BothAreSequence
<1>4. Lexes(line, <<open>> \o inner)
  <2>1. Lexes(<<"{">>, <<open>>) /\ Lexes(<<"}">>, close)
    BY LexesMark
  <2> HIDE DEF open, close
  <2>2. Lexes(<<"{">> \o body, <<open>> \o ts)
    BY <1>1, <2>1, LexesBoth
  <2>3. Lexes(<<"{">> \o body \o <<"}">>, (<<open>> \o ts) \o close)
    BY <2>1, <2>2, LexesBoth
  <2>4. Associate(<<open>>, ts, close)
    BY <1>2, Joins
  <2> QED
    BY <2>3, <2>4 DEF Associate, Enclosed
<1>5. JsonTokens(line) = JsonAt("out", <<>>, <<>>, <<open>> \o inner)
  <2>1. /\ line \in Seq(Plain)
        /\ Reads("json", JsonAt("out", <<>>, <<>>, <<>>), line,
                 JsonAt("out", <<>>, <<>>, <<>> \o (<<open>> \o inner)))
    <3>1. <<>> \in Seq(Toks)
      BY NothingType
    <3> HIDE DEF line, open, inner
    <3> QED
      BY <1>4, <3>1 DEF Lexes
  <2>2. <<>> \o (<<open>> \o inner) = <<open>> \o inner
    <3>1. PICK z \in Seq(Toks) : z = <<open>> \o inner
      BY <1>2, <1>3, BothAreSequence
    <3>2. <<>> \o z = z
      OBVIOUS
    <3> QED
      BY <3>1, <3>2
  <2> HIDE DEF line, open, inner
  <2>3. Reads("json", JsonAt("out", <<>>, <<>>, <<>>), line,
              JsonAt("out", <<>>, <<>>, <<open>> \o inner))
    BY <2>1, <2>2
  <2> QED
    BY <2>1, <2>3, ScansAre, Zenon DEF JsonTokens
<1>6. Scan(ObjectStep, ObjectAt("key", <<>>, <<>>), inner) = ObjectAt("end", <<>>, ms)
  <2>1. Reads("object", ObjectAt("key", <<>>, <<>>), ts, ObjectAt(NextIs(n), <<>>, ms))
    <3>1. <<>> \in Seq(Mems) /\ <<>> \o ms = ms
      BY <1>1
    <3>2. Reads("object", ObjectAt("key", <<>>, <<>>), ts,
                ObjectAt(NextIs(n), <<>>, <<>> \o ms))
      BY <1>1, <3>1
    <3> QED
      BY <3>1, <3>2
  <2>2. Reads("object", ObjectAt(NextIs(n), <<>>, ms), close, ObjectAt("end", <<>>, ms))
    <3>1. Closes(NextIs(n))
      BY DEF Closes, NextIs
    <3> QED
      BY <3>1, ObjectCloses
  <2> HIDE DEF close
  <2>3. Reads("object", ObjectAt("key", <<>>, <<>>), inner, ObjectAt("end", <<>>, ms))
    BY <1>2, <2>1, <2>2, ReadsBoth
  <2> HIDE DEF inner
  <2> QED
    BY <1>3, <2>3, ScansAre, Zenon
<1> DEFINE lexed == JsonTokens(line)
      read == Scan(ObjectStep, ObjectAt("key", <<>>, <<>>), Tail(lexed.tokens))
<1>7. lexed.at = "out" /\ lexed.tokens = <<open>> \o inner
  <2> HIDE DEF line, open, inner
  <2>1. \A t0 : JsonAt("out", <<>>, <<>>, t0).at = "out" /\ JsonAt("out", <<>>, <<>>, t0).tokens = t0
    BY DEF JsonAt
  <2> QED
    BY <1>5, <2>1, Zenon
<1>8. lexed.tokens # <<>> /\ Head(lexed.tokens) = open /\ Tail(lexed.tokens) = inner
  <2> HIDE DEF lexed, open, inner
  <2> QED
    BY <1>2, <1>3, <1>7, HeadAndRest
<1>9. open.is = "{"
  BY DEF Tok
<1>10. read.next = "end" /\ read.members = ms
  <2>1. read = ObjectAt("end", <<>>, ms)
    BY <1>6, <1>8, Zenon
  <2>2. ObjectAt("end", <<>>, ms).next = "end" /\ ObjectAt("end", <<>>, ms).members = ms
    BY DEF ObjectAt
  <2> QED
    BY <2>1, <2>2, Zenon
<1>11. line \in Seq(Plain)
  BY <1>4, Zenon DEF Lexes
<1>12. ReadObject(line) = read.members
  <2>1. Head(lexed.tokens).is = "{"
    BY <1>8, <1>9, Zenon
  <2> QED
    BY <1>7, <1>8, <1>10, <2>1, Zenon DEF ReadObject
<1> QED
  BY <1>10, <1>11, <1>12 DEF body, ms


----------------------------------------------------------------------------
(* The pieces of one member each, and one piece more.                      *)
LEMMA FlattenSingles ==
  ASSUME NEW S, NEW s \in Seq(S)
  PROVE  FlattenSeq([k \in 1 .. Len(s) |-> <<s[k]>>]) = s
<1> DEFINE P == [k \in 1 .. Len(s) |-> <<s[k]>>]
      Flat(k) == FlattenSeq(Upto(P, k))
<1>1. PICK n \in Nat : n = Len(s)
  OBVIOUS
<1>2. \A k \in 1 .. n : P[k] = <<s[k]>> /\ s[k] \in S /\ P[k] \in Seq(S)
  BY <1>1
<1>3. P \in Seq(Seq(S)) /\ Len(P) = n
  <2>1. P = [k \in 1 .. n |-> P[k]]
    BY <1>1
  <2> HIDE DEF P
  <2> QED
    BY <1>2, <2>1, Flattenable
<1> HIDE DEF P
<1> DEFINE Wrong == {k \in 0 .. n : Flat(k) # Upto(s, k)}
<1>4. Wrong = {}
  <2>1. SUFFICES ASSUME Wrong # {} PROVE FALSE
    OBVIOUS
  <2>2. PICK k \in Wrong : \A j \in Wrong : k <= j
    <3>1. Wrong \in SUBSET Nat
      OBVIOUS
    <3> HIDE DEF Wrong
    <3> QED
      BY <2>1, <3>1, SmallestExists
  <2>3. k \in 0 .. n /\ Flat(k) # Upto(s, k)
    BY <2>2
  <2>4. Flat(0) = <<>>
    <3>1. <<>> \in Seq(Seq(S)) /\ Len(<<>>) = 0
      BY NothingType
    <3> QED
      BY <3>1, FlattenIs, UptoNone
  <2>5. k # 0
    BY <2>3, <2>4, UptoNone
  <2>6. k \in 1 .. n /\ k - 1 \in 0 .. n /\ ~(k <= k - 1)
    BY <2>3, <2>5
  <2>7. Flat(k - 1) = Upto(s, k - 1)
    BY <2>2, <2>6
  <2>8. Flat(k) = Flat(k - 1) \o P[k]
    <3>1. k \in 1 .. Len(P)
      BY <1>3, <2>6
    <3> QED
      BY <1>3, <3>1, FlattenOneMore, Zenon
  <2>9. Upto(s, k - 1) \in Seq(S) /\ Append(Upto(s, k - 1), s[k]) = Upto(s, k)
    BY <1>1, <2>6, UptoOneMore
  <2>10. Append(Upto(s, k - 1), s[k]) = Upto(s, k - 1) \o <<s[k]>>
    BY <1>2, <2>6, <2>9, AppendIsJoin
  <2> HIDE DEF Flat, Wrong
  <2> QED
    BY <1>2, <2>3, <2>6, <2>7, <2>8, <2>9, <2>10
<1>5. Flat(n) = Upto(s, n)
  <2>1. n \in 0 .. n
    OBVIOUS
  <2> HIDE DEF Flat
  <2> QED
    BY <1>4, <2>1
<1>6. Upto(P, n) = P /\ Upto(s, n) = s
  <2>1. n \in 0 .. Len(P) /\ n \in 0 .. Len(s)
    BY <1>1, <1>3
  <2> QED
    BY <1>1, <1>3, <2>1, UptoType
<1> QED
  BY <1>5, <1>6 DEF P

LEMMA FlattenAppend ==
  ASSUME NEW S, NEW P \in Seq(Seq(S)), NEW s \in Seq(S)
  PROVE  /\ Append(P, s) \in Seq(Seq(S))
         /\ FlattenSeq(Append(P, s)) = FlattenSeq(P) \o s
<1>1. PICK n \in Nat : n = Len(P)
  OBVIOUS
<1>2. /\ Append(P, s) \in Seq(Seq(S)) /\ Len(Append(P, s)) = n + 1
      /\ Append(P, s)[n + 1] = s /\ \A k \in 1 .. n : Append(P, s)[k] = P[k]
  BY <1>1
<1> DEFINE Q == Append(P, s)
<1> HIDE DEF Q
<1>3. Q \in Seq(Seq(S)) /\ Len(Q) = n + 1 /\ Q[n + 1] = s /\ \A k \in 1 .. n : Q[k] = P[k]
  BY <1>2 DEF Q
<1>4. n + 1 \in 1 .. Len(Q) /\ (n + 1) - 1 = n /\ n \in 0 .. Len(Q) /\ n + 1 \in 0 .. Len(Q)
  BY <1>3
<1>5. Upto(Q, n + 1) = Q
  BY <1>3, <1>4, UptoType
<1>6. Upto(Q, n) = P
  <2>1. Upto(Q, n) \in Seq(Seq(S)) /\ Len(Upto(Q, n)) = n
        /\ \A k \in 1 .. n : Upto(Q, n)[k] = Q[k]
    BY <1>3, <1>4, UptoType, Zenon
  <2>2. \A k \in 1 .. n : Upto(Q, n)[k] = P[k]
    BY <1>3, <2>1
  <2> QED
    BY <1>1, <2>1, <2>2, SamePlaces
<1>7. FlattenSeq(Upto(Q, n + 1)) = FlattenSeq(Upto(Q, (n + 1) - 1)) \o Q[n + 1]
  BY <1>3, <1>4, FlattenOneMore, Zenon
<1> QED
  BY <1>2, <1>3, <1>4, <1>5, <1>6, <1>7 DEF Q

(* Those of an order that are kept, in that order.                         *)
Picked(s, S, order, Kept, j) ==
  /\ s \in Seq(S)
  /\ \A k \in 1 .. Len(s) : s[k] \in Kept /\ \E c \in 1 .. j : s[k] = order[c]
  /\ \A k, i \in 1 .. Len(s) : s[k] = s[i] => k = i
  /\ \A c \in 1 .. j : order[c] \in Kept => \E k \in 1 .. Len(s) : s[k] = order[c]

LEMMA PicksOneMore ==
  ASSUME NEW S, NEW order, NEW Kept, NEW j \in Nat, NEW s,
         Picked(s, S, order, Kept, j), order[j + 1] \in S,
         \A c \in 1 .. j : order[c] # order[j + 1]
  PROVE  Picked(IF order[j + 1] \in Kept THEN s \o <<order[j + 1]>> ELSE s,
                S, order, Kept, j + 1)
<1>1. /\ s \in Seq(S)
      /\ \A k \in 1 .. Len(s) : s[k] \in Kept /\ \E c \in 1 .. j : s[k] = order[c]
      /\ \A k, i \in 1 .. Len(s) : s[k] = s[i] => k = i
      /\ \A c \in 1 .. j : order[c] \in Kept => \E k \in 1 .. Len(s) : s[k] = order[c]
  BY DEF Picked
<1>2. \A c : c \in 1 .. j + 1 <=> (c \in 1 .. j \/ c = j + 1)
  OBVIOUS
<1>3. CASE order[j + 1] \notin Kept
  <2>1. \A c \in 1 .. j + 1 : order[c] \in Kept => \E k \in 1 .. Len(s) : s[k] = order[c]
    BY <1>1, <1>2, <1>3
  <2>2. \A k \in 1 .. Len(s) : s[k] \in Kept /\ \E c \in 1 .. j + 1 : s[k] = order[c]
    BY <1>1, <1>2
  <2>3. Picked(s, S, order, Kept, j + 1)
    BY <1>1, <2>1, <2>2 DEF Picked
  <2> QED
    BY <1>3, <2>3
<1>4. CASE order[j + 1] \in Kept
  <2> DEFINE t == s \o <<order[j + 1]>>
        n == Len(s)
  <2>1. n \in Nat
    BY <1>1
  <2>2. /\ t \in Seq(S) /\ Len(t) = n + 1 /\ t[n + 1] = order[j + 1]
        /\ \A k \in 1 .. n : t[k] = s[k]
    BY <1>1
  <2>3. \A k : k \in 1 .. n + 1 <=> (k \in 1 .. n \/ k = n + 1)
    BY <2>1
  <2> HIDE DEF t, n
  <2>4. /\ \A k \in 1 .. n : s[k] \in Kept /\ \E c \in 1 .. j : s[k] = order[c]
        /\ \A k, i \in 1 .. n : s[k] = s[i] => k = i
        /\ \A c \in 1 .. j : order[c] \in Kept => \E k \in 1 .. n : s[k] = order[c]
    BY <1>1 DEF n
  <2>5. \A k \in 1 .. n + 1 : t[k] \in Kept /\ \E c \in 1 .. j + 1 : t[k] = order[c]
    <3> TAKE k \in 1 .. n + 1
    <3>1. CASE k = n + 1
      <4>1. j + 1 \in 1 .. j + 1
        OBVIOUS
      <4> QED
        BY <1>4, <2>2, <3>1, <4>1
    <3>2. CASE k \in 1 .. n
      <4>1. PICK c \in 1 .. j : s[k] = order[c]
        BY <2>4, <3>2
      <4>2. t[k] = order[c] /\ t[k] \in Kept /\ c \in 1 .. j + 1
        BY <1>2, <2>2, <2>4, <3>2, <4>1
      <4> QED
        BY <4>2
    <3> QED
      BY <2>3, <3>1, <3>2
  <2>6. \A k \in 1 .. n : t[k] # t[n + 1]
    BY <2>2, <2>4
  <2>7. \A k, i \in 1 .. n + 1 : t[k] = t[i] => k = i
    BY <2>2, <2>3, <2>4, <2>6
  <2>8. \A c \in 1 .. j + 1 : order[c] \in Kept => \E k \in 1 .. n + 1 : t[k] = order[c]
    <3> TAKE c \in 1 .. j + 1
    <3>1. SUFFICES ASSUME order[c] \in Kept PROVE \E k \in 1 .. n + 1 : t[k] = order[c]
      OBVIOUS
    <3>2. CASE c = j + 1
      <4>1. n + 1 \in 1 .. n + 1
        BY <2>1
      <4> QED
        BY <2>2, <3>2, <4>1
    <3>3. CASE c \in 1 .. j
      <4>1. PICK k \in 1 .. n : s[k] = order[c]
        BY <2>4, <3>1, <3>3
      <4>2. k \in 1 .. n + 1 /\ t[k] = order[c]
        BY <2>2, <2>3, <4>1
      <4> QED
        BY <4>2
    <3> QED
      BY <1>2, <3>2, <3>3
  <2>9. Picked(t, S, order, Kept, j + 1)
    BY <2>2, <2>5, <2>7, <2>8 DEF Picked
  <2> QED
    BY <1>4, <2>9 DEF t
<1> QED
  BY <1>3, <1>4

LEMMA PicksAll ==
  ASSUME NEW S, NEW order, NEW Kept, NEW n \in Nat, NEW P,
         \A c \in 1 .. n : order[c] \in S,
         \A c, d \in 1 .. n : order[c] = order[d] => c = d,
         P = [c \in 1 .. n |-> P[c]],
         \A c \in 1 .. n : P[c] = IF order[c] \in Kept THEN <<order[c]>> ELSE <<>>
  PROVE  Picked(FlattenSeq(P), S, order, Kept, n)
<1> DEFINE Flat(k) == FlattenSeq(Upto(P, k))
      Wrong == {k \in 0 .. n : ~Picked(Flat(k), S, order, Kept, k)}
<1>1. ASSUME NEW c \in 1 .. n
      PROVE  P[c] \in Seq(S) /\ P[c] = (IF order[c] \in Kept THEN <<order[c]>> ELSE <<>>)
  <2>1. <<order[c]>> \in Seq(S) /\ <<>> \in Seq(S)
    BY OneIsSequence, NothingType
  <2>2. P[c] = (IF order[c] \in Kept THEN <<order[c]>> ELSE <<>>)
    OBVIOUS
  <2> QED
    BY <2>1, <2>2, Zenon
<1>2. P \in Seq(Seq(S)) /\ Len(P) = n
  BY <1>1, Flattenable
<1>3. Wrong = {}
  <2>1. SUFFICES ASSUME Wrong # {} PROVE FALSE
    OBVIOUS
  <2>2. PICK k \in Wrong : \A j \in Wrong : k <= j
    <3>1. Wrong \in SUBSET Nat
      OBVIOUS
    <3> HIDE DEF Wrong
    <3> QED
      BY <2>1, <3>1, SmallestExists
  <2>3. k \in 0 .. n /\ ~Picked(Flat(k), S, order, Kept, k)
    BY <2>2
  <2>4. k # 0
    <3>1. Flat(0) = <<>>
      <4>1. <<>> \in Seq(Seq(S)) /\ Len(<<>>) = 0
        BY NothingType
      <4> QED
        BY <4>1, FlattenIs, UptoNone
    <3>2. Picked(<<>>, S, order, Kept, 0)
      <4>1. <<>> \in Seq(S) /\ Len(<<>>) = 0
        BY NothingType
      <4> QED
        BY <4>1 DEF Picked
    <3> QED
      BY <2>3, <3>1, <3>2
  <2>5. PICK j \in Nat : k = j + 1 /\ j \in 0 .. n /\ k \in 1 .. n /\ ~(k <= j) /\ k - 1 = j
    BY <2>3, <2>4
  <2>6. Picked(Flat(j), S, order, Kept, j)
    BY <2>2, <2>5
  <2>7. Flat(k) = Flat(j) \o P[k] /\ Flat(j) \in Seq(S)
    <3>1. k \in 1 .. Len(P)
      BY <1>2, <2>5
    <3>2. FlattenSeq(Upto(P, k - 1)) \in Seq(S)
          /\ FlattenSeq(Upto(P, k)) = FlattenSeq(Upto(P, k - 1)) \o P[k]
      BY <1>2, <3>1, FlattenOneMore, Zenon
    <3> QED
      BY <2>5, <3>2
  <2> HIDE DEF Flat, Wrong
  <2>8. Flat(k) = IF order[k] \in Kept THEN Flat(j) \o <<order[k]>> ELSE Flat(j)
    <3>1. Flat(j) \o <<>> = Flat(j)
      BY <2>7
    <3> QED
      BY <1>1, <2>5, <2>7, <3>1
  <2>9. order[j + 1] \in S /\ \A c \in 1 .. j : order[c] # order[j + 1]
    <3>1. \A c \in 1 .. j : c \in 1 .. n /\ c # j + 1
      BY <2>5
    <3> QED
      BY <2>5, <3>1
  <2>10. Picked(IF order[j + 1] \in Kept THEN Flat(j) \o <<order[j + 1]>> ELSE Flat(j),
                S, order, Kept, j + 1)
    BY <2>6, <2>9, PicksOneMore
  <2> QED
    BY <2>3, <2>5, <2>8, <2>10
<1>4. Picked(Flat(n), S, order, Kept, n)
  <2>1. n \in 0 .. n
    OBVIOUS
  <2> HIDE DEF Flat
  <2> QED
    BY <1>3, <2>1
<1>5. Upto(P, n) = P
  <2>1. n \in 0 .. Len(P)
    BY <1>2
  <2> QED
    BY <1>2, <2>1, UptoType
<1> QED
  BY <1>4, <1>5


----------------------------------------------------------------------------
(* The members of a line.                                                  *)
KindOf(name) ==
  IF name \in TextAttributes \cup {"timestamp", "severity", "source"}
  THEN "string" ELSE "number"

ValueOfName(e, name) ==
  IF IsNumber(name) THEN CharsOf(Shown(name, e)) ELSE JsonString(Shown(name, e))

NameMem(e, name) == Mem(<<CharsOf(name)>>, KindOf(name), CharsOf(Says(e, name)))

OwnMem(f) == Mem(<<<<"fields">>, CharsOf(f.key)>>, "string", CharsOf(f.text))

OwnMems(e) == [n \in DOMAIN e.fields |-> OwnMem(e.fields[n])]

LEMMA KindIs ==
  ASSUME NEW name \in Nameable
  PROVE  IsNumber(name) <=> KindOf(name) = "number"
<1>1. name \in Names
  BY NamesAre
<1> QED
  BY <1>1 DEF Names, IsNumber, KindOf, CountAttributes, TextAttributes

LEMMA NumeralIs ==
  ASSUME NEW e \in Events, NEW name \in Nameable, IsNumber(name), Shown(name, e) # ""
  PROVE  /\ Shown(name, e) \in Chars /\ Shown(name, e) \notin SpecialChars
         /\ CharsOf(Shown(name, e)) = <<Shown(name, e)>>
<1>1. Shown(name, e) \in Chars
  BY ShownAreWordings, Zenon DEF Chars
<1>2. Shown(name, e) = e[name]
  <2>1. CASE name \in CountAttributes
    <3>1. Shown(name, e) = (IF e[name] = "0" THEN "" ELSE e[name])
      BY <2>1, ShownOfCounts
    <3> QED
      BY <3>1
  <2>2. CASE name = "pid"
    BY <2>2 DEF Shown, CountAttributes
  <2>3. CASE name = "record_index"
    BY <2>3 DEF Shown, CountAttributes
  <2> QED
    BY <2>1, <2>2, <2>3 DEF IsNumber
<1>3. e[name] \notin SpecialChars \cup DOMAIN Spelling \cup {""}
  BY EventRecords DEF IsNumber
<1> QED
  BY <1>1, <1>2, <1>3, Zenon DEF CharsOf

LEMMA TellsName ==
  ASSUME NEW e \in Events, NEW name \in Nameable, Shown(name, e) # ""
  PROVE  Tells(JsonMember(name, ValueOfName(e, name)), <<>>, <<NameMem(e, name)>>)
<1> DEFINE shown == Shown(name, e)
<1>1. shown = Says(e, name)
  BY ShownIs
<1>2. shown \in Wordings /\ CharsOf(shown) \in Seq(Chars) /\ name \in Wordings
  BY ShownAreWordings, NamesAreWordings, CharsType
<1>3. Lexes(ValueOfName(e, name), <<Tok(KindOf(name), CharsOf(shown))>>)
  <2>1. CASE IsNumber(name)
    <3>1. shown \in Chars /\ shown \notin SpecialChars /\ CharsOf(shown) = <<shown>>
      BY <2>1, NumeralIs
    <3>2. KindOf(name) = "number" /\ ValueOfName(e, name) = CharsOf(shown)
      BY <2>1, KindIs DEF ValueOfName
    <3> HIDE DEF shown
    <3>3. Lexes(<<shown>>, <<Tok("number", <<shown>>)>>)
      BY <3>1, LexesNumber
    <3> QED
      BY <3>1, <3>2, <3>3
  <2>2. CASE ~IsNumber(name)
    <3>1. KindOf(name) = "string" /\ ValueOfName(e, name) = JsonString(shown)
      BY <2>2, KindIs DEF ValueOfName, KindOf
    <3> HIDE DEF shown
    <3> QED
      BY <1>2, <3>1, LexesString
  <2> QED
    BY <2>1, <2>2
<1>4. KindOf(name) \in Leaves /\ <<>> \in Paths
  BY NothingType DEF KindOf, Leaves, Paths
<1>5. Append(<<>>, CharsOf(name)) = <<CharsOf(name)>>
  BY NothingAndOne
<1> HIDE DEF shown
<1>6. Tells(JsonMember(name, ValueOfName(e, name)), <<>>,
            <<Mem(Append(<<>>, CharsOf(name)), KindOf(name), CharsOf(shown))>>)
  BY <1>2, <1>3, <1>4, TellsLeaf
<1> QED
  BY <1>1, <1>5, <1>6 DEF NameMem

LEMMA PlacesOf ==
  ASSUME NEW S, NEW s \in Seq(S)
  PROVE  /\ Len(s) \in Nat /\ DOMAIN s = 1 .. Len(s) /\ (s = <<>> <=> Len(s) = 0)
         /\ s = [k \in 1 .. Len(s) |-> s[k]]
OBVIOUS

LEMMA FieldsAre ==
  ASSUME NEW e \in Events
  PROVE  /\ Len(e.fields) \in Nat /\ DOMAIN e.fields = 1 .. Len(e.fields)
         /\ e.fields = <<>> <=> Len(e.fields) = 0
         /\ \A k \in 1 .. Len(e.fields) :
              e.fields[k].key \in Wordings /\ e.fields[k].text \in Wordings
<1>1. e.fields \in Seq([key : STRING, text : STRING])
  BY EventRecords, Zenon
<1>2. /\ Len(e.fields) \in Nat /\ DOMAIN e.fields = 1 .. Len(e.fields)
      /\ e.fields = <<>> <=> Len(e.fields) = 0
  BY <1>1, PlacesOf, Zenon
<1>3. ASSUME NEW k \in DOMAIN e.fields
      PROVE  e.fields[k].key \in Wordings /\ e.fields[k].text \in Wordings
  <2> DEFINE Keys(d) == {d.fields[n].key : n \in DOMAIN d.fields}
        Tx(d) == {d.fields[n].text : n \in DOMAIN d.fields}
  <2>1. e.fields[k].key \in Keys(e) /\ e.fields[k].text \in Tx(e)
    OBVIOUS
  <2>2. Keys(e) \in {Keys(d) : d \in Events} /\ Tx(e) \in {Tx(d) : d \in Events}
    OBVIOUS
  <2>3. e.fields[k].key \in UNION {Keys(d) : d \in Events}
        /\ e.fields[k].text \in UNION {Tx(d) : d \in Events}
    BY <2>1, <2>2, Zenon
  <2>4. e.fields[k].key \in KeyTexts
    BY <2>3, Zenon DEF KeyTexts
  <2>5. e.fields[k].text \in FieldTexts
    BY <2>3, Zenon DEF FieldTexts
  <2> QED
    BY <2>4, <2>5, Zenon DEF Wordings
<1> QED
  BY <1>2, <1>3

LEMMA MemType ==
  ASSUME NEW path \in Paths, NEW kind \in Leaves, NEW chars \in Seq(Chars)
  PROVE  Mem(path, kind, chars) \in Mems
BY DEF Mem, Mems

LEMMA FieldsIsText ==
  /\ "fields" \in Wordings /\ CharsOf("fields") = <<"fields">>
  /\ <<<<"fields">>>> \in Paths
<1>1. "fields" \in Wordings
  BY DEF Wordings
<1>2. CharsOf("fields") = <<"fields">>
  <2>1. "fields" \in DOMAIN BlankEvent
    BY BlankIs
  <2>2. "fields" \notin DOMAIN Spelling
    BY <2>1, SpellingAssumption
  <2> QED
    BY <2>2 DEF CharsOf
<1>3. <<"fields">> \in Seq(Chars)
  BY <1>1, <1>2, CharsType
<1> QED
  BY <1>1, <1>2, <1>3, OneIsSequence DEF Paths

LEMMA TellsFields ==
  ASSUME NEW e \in Events, e.fields # <<>>
  PROVE  /\ Tells(JsonMember("fields", JsonFields(e.fields)), <<>>, OwnMems(e))
         /\ OwnMems(e) \in Seq(Mems) /\ Len(OwnMems(e)) = Len(e.fields)
<1> DEFINE n == Len(e.fields)
      F == e.fields
      P == [k \in DOMAIN F |-> JsonMember(F[k].key, JsonString(F[k].text))]
      ms == OwnMems(e)
      D == [k \in 1 .. Len(ms) |-> <<ms[k]>>]
      path == <<<<"fields">>>>
<1>1. n \in Nat /\ DOMAIN F = 1 .. n
      /\ \A k \in 1 .. n : F[k].key \in Wordings /\ F[k].text \in Wordings
  BY FieldsAre
<1>2. JsonFields(F) = Enclosed(Joined(P), "{", "}")
  BY Zenon DEF JsonFields
<1>3. ms = [k \in 1 .. n |-> OwnMem(F[k])]
  BY <1>1 DEF OwnMems
<1>4. P = [k \in 1 .. n |-> P[k]]
      /\ \A k \in 1 .. n : P[k] = JsonMember(F[k].key, JsonString(F[k].text))
  BY <1>1
<1> HIDE DEF P, F, n, ms
<1>5. ASSUME NEW k \in 1 .. n
      PROVE  /\ OwnMem(F[k]) \in Mems
             /\ Tells(P[k], path, <<OwnMem(F[k])>>)
  <2> DEFINE key == F[k].key
        text == F[k].text
  <2>1. key \in Wordings /\ text \in Wordings
    BY <1>1
  <2>2. CharsOf(key) \in Seq(Chars) /\ CharsOf(text) \in Seq(Chars)
    BY <2>1, CharsType
  <2>3. OwnMem(F[k]) = Mem(<<<<"fields">>, CharsOf(key)>>, "string", CharsOf(text))
    BY DEF OwnMem
  <2> HIDE DEF key, text
  <2>4. path \in Paths /\ "string" \in Leaves
    BY FieldsIsText DEF Leaves
  <2>5. Append(path, CharsOf(key)) = <<<<"fields">>, CharsOf(key)>>
    BY OneAndOne
  <2>6. Append(path, CharsOf(key)) \in Paths
    BY <2>2, <2>4, FrontIs DEF Paths
  <2>7. OwnMem(F[k]) = Mem(Append(path, CharsOf(key)), "string", CharsOf(text))
    BY <2>3, <2>5
  <2> HIDE DEF path
  <2>8. OwnMem(F[k]) \in Mems
    BY <2>2, <2>4, <2>6, <2>7, MemType
  <2>9. Lexes(JsonString(text), <<Tok("string", CharsOf(text))>>)
    BY <2>1, LexesString
  <2>10. Tells(JsonMember(key, JsonString(text)), path,
               <<Mem(Append(path, CharsOf(key)), "string", CharsOf(text))>>)
    BY <2>1, <2>2, <2>4, <2>9, TellsLeaf
  <2>11. P[k] = JsonMember(key, JsonString(text))
    BY <1>4 DEF key, text
  <2> QED
    BY <2>7, <2>8, <2>10, <2>11
<1>6. ms \in Seq(Mems) /\ Len(ms) = n
  <2>1. ms = [k \in 1 .. n |-> ms[k]] /\ \A k \in 1 .. n : ms[k] = OwnMem(F[k])
    BY <1>3
  <2>2. \A k \in 1 .. n : ms[k] \in Mems
    BY <1>5, <2>1
  <2> QED
    BY <1>1, <2>1, <2>2, Flattenable
<1>7. FlattenSeq(D) = ms
  BY <1>6, FlattenSingles
<1>8. D \in Seq(Seq(Mems)) /\ Len(D) = n /\ \A k \in 1 .. n : D[k] = <<OwnMem(F[k])>>
  <2>1. \A k \in 1 .. n : D[k] = <<ms[k]>> /\ ms[k] = OwnMem(F[k])
    BY <1>3, <1>6
  <2>2. D = [k \in 1 .. n |-> D[k]]
    BY <1>6
  <2> HIDE DEF D
  <2>3. \A k \in 1 .. n : D[k] \in Seq(Mems)
    BY <1>5, <2>1, OneIsSequence
  <2> QED
    BY <1>1, <2>1, <2>2, <2>3, Flattenable
<1>9. Members(P, n, path, D)
  <2> HIDE DEF D, path
  <2> QED
    BY <1>4, <1>5, <1>8 DEF Members
<1>10. Append(<<>>, CharsOf("fields")) = path
  BY FieldsIsText, NothingAndOne
<1>11. Members(P, n, Append(<<>>, CharsOf("fields")), D)
  BY <1>9, <1>10
<1>12. <<>> \in Paths /\ "fields" \in Wordings
  BY NothingType, FieldsIsText DEF Paths
<1> HIDE DEF D, path
<1>13. Tells(JsonMember("fields", Enclosed(Joined(P), "{", "}")), <<>>, FlattenSeq(D))
  BY <1>1, <1>11, <1>12, TellsObject
<1> QED
  BY <1>2, <1>6, <1>7, <1>13 DEF F, n, ms


(* The names whose attributes a line shows.                                *)
NamesOf(e) ==
  FlattenSeq([c \in DOMAIN MemberOrder |->
                IF Shown(MemberOrder[c], e) = "" THEN <<>> ELSE <<MemberOrder[c]>>])

KeptNames(e) == {name \in Nameable : Shown(name, e) # ""}

TopMems(e) == [k \in 1 .. Len(NamesOf(e)) |-> NameMem(e, NamesOf(e)[k])]

LEMMA NamesPicked ==
  ASSUME NEW e \in Events
  PROVE  Picked(NamesOf(e), Nameable, CsvColumns, KeptNames(e), 20)
<1> DEFINE P == [c \in DOMAIN MemberOrder |->
                   IF Shown(MemberOrder[c], e) = "" THEN <<>> ELSE <<MemberOrder[c]>>]
<1>1. DOMAIN MemberOrder = 1 .. 20
  BY ColumnsAre DEF MemberOrder
<1>2. ASSUME NEW c \in 1 .. 20
      PROVE  P[c] = IF CsvColumns[c] \in KeptNames(e) THEN <<CsvColumns[c]>> ELSE <<>>
  <2>1. CsvColumns[c] \in Nameable
    BY ColumnsAre
  <2>2. CsvColumns[c] \in KeptNames(e) <=> Shown(CsvColumns[c], e) # ""
    BY <2>1 DEF KeptNames
  <2>3. P[c] = IF Shown(CsvColumns[c], e) = "" THEN <<>> ELSE <<CsvColumns[c]>>
    BY <1>1, Zenon DEF MemberOrder
  <2> QED
    BY <2>2, <2>3, Zenon
<1>3. P = [c \in 1 .. 20 |-> P[c]]
  BY <1>1
<1>4. 20 \in Nat
  OBVIOUS
<1> HIDE DEF P
<1>5. Picked(FlattenSeq(P), Nameable, CsvColumns, KeptNames(e), 20)
  BY <1>2, <1>3, <1>4, ColumnsAre, PicksAll
<1> QED
  BY <1>5, Zenon DEF NamesOf, P

LEMMA NameMemType ==
  ASSUME NEW e \in Events, NEW name \in KeptNames(e)
  PROVE  NameMem(e, name) \in Mems /\ Shown(name, e) # "" /\ name \in Nameable
<1>1. name \in Nameable /\ Shown(name, e) # ""
  BY DEF KeptNames
<1>2. Says(e, name) = Shown(name, e)
  BY <1>1, ShownIs
<1>3. CharsOf(Says(e, name)) \in Seq(Chars) /\ CharsOf(name) \in Seq(Chars)
  BY <1>1, <1>2, ShownAreWordings, NamesAreWordings, CharsType
<1>4. <<CharsOf(name)>> \in Paths
  BY <1>3, OneIsSequence DEF Paths
<1>5. KindOf(name) \in Leaves
  BY DEF KindOf, Leaves
<1> QED
  BY <1>1, <1>3, <1>4, <1>5, MemType DEF NameMem

LEMMA TopIs ==
  ASSUME NEW e \in Events
  PROVE  /\ TopMems(e) \in Seq(Mems) /\ Len(TopMems(e)) = Len(NamesOf(e))
         /\ Len(NamesOf(e)) \in Nat /\ DOMAIN NamesOf(e) = 1 .. Len(NamesOf(e))
         /\ \A k \in 1 .. Len(NamesOf(e)) :
              /\ NamesOf(e)[k] \in KeptNames(e)
              /\ TopMems(e)[k] = NameMem(e, NamesOf(e)[k])
<1> DEFINE names == NamesOf(e)
      n == Len(names)
      top == TopMems(e)
<1>1. Picked(names, Nameable, CsvColumns, KeptNames(e), 20)
  BY NamesPicked
<1> HIDE DEF names
<1>2. n \in Nat /\ DOMAIN names = 1 .. n
  BY <1>1 DEF Picked
<1>3. \A k \in 1 .. n : names[k] \in KeptNames(e)
  BY <1>1 DEF Picked
<1>4. top = [k \in 1 .. n |-> top[k]] /\ \A k \in 1 .. n : top[k] = NameMem(e, names[k])
  BY DEF TopMems, names
<1> HIDE DEF top, n
<1>5. \A k \in 1 .. n : top[k] \in Mems
  BY <1>3, <1>4, NameMemType
<1>6. top \in Seq(Mems) /\ Len(top) = n
  BY <1>2, <1>4, <1>5, Flattenable
<1> QED
  BY <1>2, <1>3, <1>4, <1>6 DEF names, n, top

LEMMA MembersAppend ==
  ASSUME NEW n \in Nat, NEW P, NEW path, NEW D, Members(P, n, path, D),
         NEW piece, NEW ms, Tells(piece, path, ms), ms \in Seq(Mems)
  PROVE  Members(Append(P, piece), n + 1, path, Append(D, ms))
<1>1. /\ P = [k \in 1 .. n |-> P[k]] /\ D \in Seq(Seq(Mems)) /\ Len(D) = n
      /\ \A k \in 1 .. n : Tells(P[k], path, D[k])
  BY DEF Members
<1>2. /\ Append(D, ms) \in Seq(Seq(Mems)) /\ Len(Append(D, ms)) = n + 1
      /\ Append(D, ms)[n + 1] = ms /\ \A k \in 1 .. n : Append(D, ms)[k] = D[k]
  BY <1>1
<1>3. P \in Seq({P[k] : k \in 1 .. n}) /\ Len(P) = n
  <2> DEFINE S == {P[k] : k \in 1 .. n}
  <2>1. \A k \in 1 .. n : P[k] \in S
    OBVIOUS
  <2> HIDE DEF S
  <2>2. P \in Seq(S) /\ Len(P) = n
    BY <1>1, <2>1, Flattenable
  <2> QED
    BY <2>2 DEF S
<1>4. /\ Append(P, piece) = [k \in 1 .. n + 1 |-> Append(P, piece)[k]]
      /\ Append(P, piece)[n + 1] = piece /\ \A k \in 1 .. n : Append(P, piece)[k] = P[k]
  <2> DEFINE S == {P[k] : k \in 1 .. n} \cup {piece}
        Q == Append(P, piece)
  <2>1. P \in Seq(S) /\ piece \in S
    BY <1>3
  <2> HIDE DEF S
  <2>2. Q \in Seq(S) /\ Len(Q) = n + 1 /\ Q[n + 1] = piece /\ \A k \in 1 .. n : Q[k] = P[k]
    BY <1>3, <2>1
  <2> HIDE DEF Q
  <2>3. Q = [k \in 1 .. n + 1 |-> Q[k]]
    BY <2>2
  <2> QED
    BY <2>2, <2>3 DEF Q
<1>5. \A k \in 1 .. n + 1 : Tells(Append(P, piece)[k], path, Append(D, ms)[k])
  <2>1. \A k : k \in 1 .. n + 1 <=> (k \in 1 .. n \/ k = n + 1)
    OBVIOUS
  <2> QED
    BY <1>1, <1>2, <1>4, <2>1, Zenon
<1> QED
  BY <1>2, <1>4, <1>5, Zenon DEF Members

(* The line of an event is read as what the event says.                    *)
LEMMA EventLine ==
  ASSUME NEW e \in Events
  PROVE  /\ EventToJson(e) \in Seq(Plain)
         /\ ReadObject(EventToJson(e)) = TopMems(e) \o OwnMems(e)
         /\ OwnMems(e) \in Seq(Mems) /\ Len(OwnMems(e)) = Len(e.fields)
<1> DEFINE names == NamesOf(e)
      n == Len(names)
      top == TopMems(e)
      own == OwnMems(e)
      P == [k \in DOMAIN names |-> JsonMember(names[k], ValueOfName(e, names[k]))]
      D == [k \in 1 .. Len(top) |-> <<top[k]>>]
      F == JsonMember("fields", JsonFields(e.fields))
<1>1. /\ top \in Seq(Mems) /\ Len(top) = n /\ n \in Nat /\ DOMAIN names = 1 .. n
      /\ \A k \in 1 .. n : names[k] \in KeptNames(e) /\ top[k] = NameMem(e, names[k])
  BY TopIs
<1>2. EventToJson(e) = Enclosed(Joined(IF e.fields = <<>> THEN P ELSE Append(P, F)), "{", "}")
  BY Zenon DEF EventToJson, NamesOf, ValueOfName
<1> HIDE DEF names, n, top, own
<1>3. FlattenSeq(D) = top
  BY <1>1, FlattenSingles
<1>4. D \in Seq(Seq(Mems)) /\ Len(D) = n
      /\ \A k \in 1 .. n : D[k] = <<NameMem(e, names[k])>>
  <2>1. \A k \in 1 .. n : D[k] = <<top[k]>> /\ top[k] \in Mems
    BY <1>1
  <2>2. D = [k \in 1 .. n |-> D[k]]
    BY <1>1
  <2> HIDE DEF D
  <2>3. \A k \in 1 .. n : D[k] \in Seq(Mems)
    BY <2>1, OneIsSequence
  <2> QED
    BY <1>1, <2>1, <2>2, <2>3, Flattenable
<1>5. Members(P, n, <<>>, D)
  <2>1. \A k \in 1 .. n : Tells(JsonMember(names[k], ValueOfName(e, names[k])), <<>>,
                                <<NameMem(e, names[k])>>)
    BY <1>1, NameMemType, TellsName
  <2>2. P = [k \in 1 .. n |-> P[k]]
        /\ \A k \in 1 .. n : P[k] = JsonMember(names[k], ValueOfName(e, names[k]))
    BY <1>1
  <2> HIDE DEF P, D
  <2> QED
    BY <1>4, <2>1, <2>2 DEF Members
<1> HIDE DEF P, D
<1>6. CASE e.fields = <<>>
  <2>1. own = <<>> /\ Len(e.fields) = 0
    <3>1. DOMAIN e.fields = 1 .. 0 /\ Len(e.fields) = 0
      BY <1>6, FieldsAre
    <3> QED
      BY <3>1 DEF own, OwnMems
  <2>2. top \o <<>> = top /\ <<>> \in Seq(Mems) /\ Len(<<>>) = 0
    BY <1>1
  <2>3. EventToJson(e) = Enclosed(Joined(P), "{", "}")
    BY <1>2, <1>6
  <2>4. Enclosed(Joined(P), "{", "}") \in Seq(Plain)
        /\ ReadObject(Enclosed(Joined(P), "{", "}")) = FlattenSeq(D)
    BY <1>1, <1>5, LineIs
  <2>5. ReadObject(EventToJson(e)) = top \o own
    BY <1>3, <2>1, <2>2, <2>3, <2>4, Zenon
  <2> QED
    BY <2>1, <2>2, <2>3, <2>4, <2>5, Zenon DEF own, top
<1>7. CASE e.fields # <<>>
  <2>1. /\ Tells(F, <<>>, own) /\ own \in Seq(Mems) /\ Len(own) = Len(e.fields)
    BY <1>7, TellsFields DEF own
  <2> HIDE DEF F
  <2>2. Members(Append(P, F), n + 1, <<>>, Append(D, own))
    BY <1>1, <1>5, <2>1, MembersAppend
  <2>3. FlattenSeq(Append(D, own)) = top \o own
    BY <1>3, <1>4, <2>1, FlattenAppend
  <2>4. EventToJson(e) = Enclosed(Joined(Append(P, F)), "{", "}")
    BY <1>2, <1>7
  <2>5. n + 1 \in Nat
    BY <1>1
  <2>6. Enclosed(Joined(Append(P, F)), "{", "}") \in Seq(Plain)
        /\ ReadObject(Enclosed(Joined(Append(P, F)), "{", "}")) = FlattenSeq(Append(D, own))
    BY <2>2, <2>5, LineIs
  <2> QED
    BY <2>1, <2>3, <2>4, <2>6, Zenon DEF own, top
<1> QED
  BY <1>6, <1>7


----------------------------------------------------------------------------
(* Reading lines.                                                          *)
LinesAt(done, open) == [done |-> done, open |-> open]

LEMMA LineTakes ==
  ASSUME NEW done, NEW open, NEW c, c # LineFeed
  PROVE  Reads("line", LinesAt(done, open), <<c>>, LinesAt(done, Append(open, c)))
<1>1. LineStep(LinesAt(done, open), c) = LinesAt(done, Append(open, c))
  BY DEF LineStep, LinesAt
<1> QED
  BY <1>1, ReadsOne DEF StepOf

LEMMA LineEnds ==
  ASSUME NEW done, NEW open
  PROVE  Reads("line", LinesAt(done, open), <<LineFeed>>, LinesAt(Append(done, open), <<>>))
<1>1. LineStep(LinesAt(done, open), LineFeed) = LinesAt(Append(done, open), <<>>)
  BY DEF LineStep, LinesAt
<1> QED
  BY <1>1, ReadsOne DEF StepOf

(* What is printed has no NUL in it.                                       *)
Printable == Chars \ {"NUL"}

LEMMA LineReads ==
  ASSUME NEW s, s \in Seq(Plain), NEW done
  PROVE  /\ s \o <<LineFeed>> \in Seq(Printable)
         /\ Reads("line", LinesAt(done, <<>>), s \o <<LineFeed>>,
                  LinesAt(Append(done, s), <<>>))
<1>1. s \in Seq(Printable) /\ <<LineFeed>> \in Seq(Printable)
  <2>1. LineFeed \in Printable
    BY SpecialAreChars, Characters DEF Printable
  <2>2. Plain \subseteq Printable
    BY DEF Plain, Printable
  <2> QED
    BY <2>1, <2>2, OneIsSequence, SequenceOfMore
<1>2. s \o <<LineFeed>> \in Seq(Printable)
  BY <1>1, BothAreSequence
<1> DEFINE b == [k \in 0 .. Len(s) |-> LinesAt(done, Upto(s, k))]
<1>3. ASSUME NEW k \in 1 .. Len(s)
      PROVE  Reads("line", b[k - 1], <<s[k]>>, b[k])
  <2> DEFINE u == Upto(s, k - 1)
  <2>1. Append(u, s[k]) = Upto(s, k)
    BY UptoOneMore
  <2>2. k - 1 \in 0 .. Len(s) /\ k \in 0 .. Len(s)
    OBVIOUS
  <2>3. b[k - 1] = LinesAt(done, u) /\ b[k] = LinesAt(done, Append(u, s[k]))
    BY <2>1, <2>2
  <2>4. s[k] # LineFeed
    <3>1. s[k] \in Plain
      OBVIOUS
    <3> QED
      BY <3>1 DEF Plain
  <2> HIDE DEF u, b
  <2> QED
    BY <2>3, <2>4, LineTakes
<1>4. b[0] = LinesAt(done, <<>>) /\ b[Len(s)] = LinesAt(done, s)
  <2>1. Len(s) \in 0 .. Len(s) /\ 0 \in 0 .. Len(s)
    OBVIOUS
  <2>2. Upto(s, Len(s)) = s
    BY <2>1, UptoType
  <2> QED
    BY <2>1, <2>2, UptoNone
<1> HIDE DEF b
<1>5. Reads("line", b[0], s, b[Len(s)])
  BY <1>3, ReadsEach
<1>6. Reads("line", LinesAt(done, s), <<LineFeed>>, LinesAt(Append(done, s), <<>>))
  BY LineEnds
<1>7. Reads("line", LinesAt(done, <<>>), s \o <<LineFeed>>, LinesAt(Append(done, s), <<>>))
  BY <1>1, <1>4, <1>5, <1>6, ReadsBoth
<1> QED
  BY <1>2, <1>7

JsonLines(list) == [k \in 1 .. Len(list) |-> EventToJson(list[k])]

LEMMA LinesAre ==
  ASSUME NEW list \in Seq(Events)
  PROVE  /\ ToNdjson(list) \in Seq(Printable)
         /\ LinesOf(ToNdjson(list)) = LinesAt(JsonLines(list), <<>>)
<1> DEFINE L == JsonLines(list)
      P == [k \in DOMAIN list |-> EventToJson(list[k]) \o <<LineFeed>>]
      b == [k \in 0 .. Len(list) |-> LinesAt(Upto(L, k), <<>>)]
<1>1. PICK n \in Nat : n = Len(list) /\ DOMAIN list = 1 .. n
  OBVIOUS
<1>2. L = [k \in 1 .. n |-> L[k]] /\ \A k \in 1 .. n : L[k] = EventToJson(list[k])
  BY <1>1 DEF JsonLines
<1>3. P = [k \in 1 .. n |-> P[k]] /\ \A k \in 1 .. n : P[k] = EventToJson(list[k]) \o <<LineFeed>>
  BY <1>1
<1> HIDE DEF L, P
<1>4. ASSUME NEW k \in 1 .. n
      PROVE  L[k] \in Seq(Plain) /\ P[k] = L[k] \o <<LineFeed>>
  <2>1. list[k] \in Events
    BY <1>1
  <2>2. EventToJson(list[k]) \in Seq(Plain)
    BY <2>1, EventLine
  <2> QED
    BY <1>2, <1>3, <2>2
<1>5. L \in Seq(Seq(Plain)) /\ Len(L) = n
  BY <1>2, <1>4, Flattenable
<1>6. ASSUME NEW k \in 1 .. n, NEW done
      PROVE  /\ P[k] \in Seq(Printable)
             /\ Reads("line", LinesAt(done, <<>>), P[k], LinesAt(Append(done, L[k]), <<>>))
  BY <1>4, LineReads
<1>7. P \in Seq(Seq(Printable)) /\ Len(P) = n
  BY <1>3, <1>6, Flattenable
<1>8. ASSUME NEW k \in 1 .. n
      PROVE  Reads("line", b[k - 1], P[k], b[k])
  <2>1. k \in 0 .. n /\ k - 1 \in 0 .. n /\ k \in 1 .. Len(L)
    BY <1>5
  <2>2. Append(Upto(L, k - 1), L[k]) = Upto(L, k)
    BY <1>5, <2>1, UptoOneMore
  <2>3. b[k - 1] = LinesAt(Upto(L, k - 1), <<>>) /\ b[k] = LinesAt(Upto(L, k), <<>>)
    BY <1>1, <2>1
  <2> HIDE DEF b
  <2> QED
    BY <1>6, <2>2, <2>3
<1>9. b[0] = LinesAt(<<>>, <<>>) /\ b[n] = LinesAt(L, <<>>)
  <2>1. 0 \in 0 .. n /\ n \in 0 .. n /\ n \in 0 .. Len(L)
    BY <1>5
  <2>2. Upto(L, n) = L
    BY <1>5, <2>1, UptoType
  <2> QED
    BY <1>1, <2>1, <2>2, UptoNone
<1> HIDE DEF b
<1>10. Reads("line", b[0], FlattenSeq(P), b[n])
  BY <1>7, <1>8, ReadsFlat
<1>11. FlattenSeq(P) \in Seq(Printable)
  BY <1>7, FlattenType
<1>12. ToNdjson(list) = FlattenSeq(P)
  BY Zenon DEF ToNdjson, P
<1> DEFINE text == FlattenSeq(P)
<1>13. Reads("line", b[0], text, b[n]) /\ text \in Seq(Printable)
  BY <1>10, <1>11
<1> HIDE DEF text
<1>14. Scan(LineStep, b[0], text) = b[n]
  BY <1>13, ScansAre
<1>15. Scan(LineStep, LinesAt(<<>>, <<>>), text) = LinesAt(L, <<>>)
  BY <1>9, <1>14
<1>16. LinesOf(text) = Scan(LineStep, LinesAt(<<>>, <<>>), text)
  BY Zenon DEF LinesOf, LinesAt
<1>17. LinesOf(text) = LinesAt(L, <<>>)
  BY <1>15, <1>16, Zenon
<1> USE DEF text
<1> QED
  BY <1>11, <1>12, <1>17 DEF L

LEMMA FrontPart ==
  ASSUME NEW S, NEW x \in Seq(S), NEW y \in Seq(S)
  PROVE  SubSeq(x \o y, 1, Len(x \o y) - Len(y)) = x
<1> DEFINE z == x \o y
<1>1. PICK n \in Nat, m \in Nat : n = Len(x) /\ m = Len(y)
  OBVIOUS
<1>2. z \in Seq(S) /\ Len(z) = n + m /\ \A k \in 1 .. n : z[k] = x[k]
  BY <1>1
<1> HIDE DEF z
<1>3. Len(z) - m = n
  BY <1>2
<1>4. SubSeq(z, 1, n) \in Seq(S) /\ Len(SubSeq(z, 1, n)) = n
      /\ \A k \in 1 .. n : SubSeq(z, 1, n)[k] = z[k]
  BY <1>2
<1>5. SubSeq(z, 1, n) = x
  BY <1>1, <1>2, <1>4, SamePlaces
<1> QED
  BY <1>1, <1>3, <1>5 DEF z

(* The members at the top name each attribute the event carries once.      *)
LEMMA TopSays ==
  ASSUME NEW e \in Events
  PROVE  /\ IsInjective(TopMems(e))
         /\ Range(TopMems(e)) = {NameMem(e, name) : name \in {n \in Nameable : Carries(e, n)}}
<1> DEFINE names == NamesOf(e)
      n == Len(names)
      top == TopMems(e)
<1>1. /\ top \in Seq(Mems) /\ Len(top) = n /\ n \in Nat
      /\ \A k \in 1 .. n : names[k] \in KeptNames(e) /\ top[k] = NameMem(e, names[k])
  BY TopIs
<1>2. Picked(names, Nameable, CsvColumns, KeptNames(e), 20)
  BY NamesPicked
<1> HIDE DEF names, top
<1>3. /\ \A k, i \in 1 .. n : names[k] = names[i] => k = i
      /\ \A c \in 1 .. 20 : CsvColumns[c] \in KeptNames(e) =>
           \E k \in 1 .. n : names[k] = CsvColumns[c]
  BY <1>2 DEF Picked
<1> HIDE DEF n
<1>4. DOMAIN top = 1 .. n
  BY <1>1
<1>5. ASSUME NEW k \in 1 .. n, NEW i \in 1 .. n, top[k] = top[i] PROVE k = i
  <2>1. names[k] \in Nameable /\ names[i] \in Nameable
    BY <1>1 DEF KeptNames
  <2>2. top[k].path = <<<<names[k]>>>> /\ top[i].path = <<<<names[i]>>>>
    <3>1. CharsOf(names[k]) = <<names[k]>> /\ CharsOf(names[i]) = <<names[i]>>
      BY <2>1, NamesAreChars
    <3>2. top[k].path = <<CharsOf(names[k])>> /\ top[i].path = <<CharsOf(names[i])>>
      BY <1>1 DEF NameMem, Mem
    <3> QED
      BY <3>1, <3>2, Zenon
  <2>3. <<<<names[k]>>>> = <<<<names[i]>>>>
    BY <1>5, <2>2, Zenon
  <2>4. names[k] = names[i]
    <3>1. <<<<names[k]>>>>[1] = <<names[k]>> /\ <<<<names[i]>>>>[1] = <<names[i]>>
      OBVIOUS
    <3>2. <<names[k]>> = <<names[i]>>
      BY <2>3, <3>1, Zenon
    <3>3. <<names[k]>>[1] = names[k] /\ <<names[i]>>[1] = names[i]
      OBVIOUS
    <3> QED
      BY <3>2, <3>3, Zenon
  <2> QED
    BY <1>3, <2>4, Zenon
<1>6. \A name \in Nameable : name \in KeptNames(e) <=> Carries(e, name)
  BY ShownIs DEF KeptNames
<1>7. ASSUME NEW name \in Nameable, Carries(e, name)
      PROVE  \E k \in 1 .. n : top[k] = NameMem(e, name)
  <2>1. name \in KeptNames(e)
    BY <1>6, <1>7
  <2>2. PICK c \in 1 .. 20 : CsvColumns[c] = name
    BY ColumnsAre
  <2>3. PICK k \in 1 .. n : names[k] = name
    BY <1>3, <2>1, <2>2
  <2> QED
    BY <1>1, <2>3
<1>8. ASSUME NEW k \in 1 .. n
      PROVE  \E name \in Nameable : Carries(e, name) /\ top[k] = NameMem(e, name)
  <2>1. names[k] \in KeptNames(e) /\ names[k] \in Nameable
    BY <1>1 DEF KeptNames
  <2> QED
    BY <1>1, <1>6, <2>1
<1>9. Range(top) = {NameMem(e, name) : name \in {a \in Nameable : Carries(e, a)}}
  BY <1>4, <1>7, <1>8 DEF Range
<1>10. IsInjective(top)
  BY <1>4, <1>5 DEF IsInjective
<1> QED
  BY <1>9, <1>10 DEF top

(* The NDJSON of any stream, read back, is a line for each event and an    *)
(* object in each that holds what the event says and no more, each         *)
(* attribute once under its name and the event's own fields behind them in *)
(* their order, whatever quotes, backslashes, line breaks and control      *)
(* characters the texts of the events hold.                                *)
THEOREM NdjsonIsReadBack == Spec => []NdjsonReadsBack
<1>1. ASSUME ExportInv, WrittenInv PROVE NdjsonReadsBack
  <2>1. SUFFICES ASSUME out_kind \in {"ndjson", "json"} PROVE NdjsonReadsBack
    BY DEF NdjsonReadsBack
  <2>2. events \in Seq(Events)
    BY <1>1 DEF ExportInv, StreamsType
  <2>3. ToNdjson(events) \in Seq(Printable)
        /\ LinesOf(ToNdjson(events)) = LinesAt(JsonLines(events), <<>>)
    BY <2>2, LinesAre
  <2>4. output = ToNdjson(events)
    <3>1. \A k \in DOMAIN ToNdjson(events) : ToNdjson(events)[k] # "NUL"
      BY <2>3 DEF Printable
    <3>2. "NUL" \notin Range(ToNdjson(events))
      BY <3>1 DEF Range
    <3> QED
      BY <1>1, <2>1, <3>2, PrintedWhole DEF WrittenInv
  <2> DEFINE lines == LinesOf(output)
  <2>5. lines.open = <<>> /\ lines.done = JsonLines(events)
    BY <2>3, <2>4 DEF LinesAt
  <2> HIDE DEF lines
  <2>6. Len(JsonLines(events)) = Len(events)
        /\ \A k \in DOMAIN events : JsonLines(events)[k] = EventToJson(events[k])
    BY <2>2 DEF JsonLines
  <2> DEFINE Kind(name) == IF name \in TextAttributes \cup {"timestamp", "severity", "source"}
                           THEN "string" ELSE "number"
        Member(e, name) ==
          [path |-> <<CharsOf(name)>>, is |-> Kind(name), chars |-> CharsOf(Says(e, name))]
        Own(field) == [path |-> <<<<"fields">>, CharsOf(field.key)>>, is |-> "string",
                       chars |-> CharsOf(field.text)]
  <2>7. /\ \A e, name : Member(e, name) = NameMem(e, name)
        /\ \A f : Own(f) = OwnMem(f)
    BY Zenon DEF NameMem, KindOf, Mem, OwnMem
  <2> HIDE DEF Member, Own, Kind
  <2>8. ASSUME NEW k \in DOMAIN events
        PROVE  LET e == events[k]
                   own == [n \in DOMAIN e.fields |-> Own(e.fields[n])]
                   read == ReadObject(lines.done[k])
                   top == SubSeq(read, 1, Len(read) - Len(own))
               IN  /\ read = top \o own
                   /\ IsInjective(top)
                   /\ Range(top) =
                        {Member(e, name) : name \in {n \in Nameable : Carries(e, n)}}
    <3> DEFINE e == events[k]
          own == [n \in DOMAIN e.fields |-> Own(e.fields[n])]
          read == ReadObject(lines.done[k])
          top == SubSeq(read, 1, Len(read) - Len(own))
    <3>1. e \in Events
      BY <2>2
    <3>2. own = OwnMems(e)
      BY <2>7 DEF OwnMems
    <3>3. read = ReadObject(EventToJson(e))
      BY <2>5, <2>6
    <3> HIDE DEF e, own, read
    <3>4. read = TopMems(e) \o OwnMems(e) /\ OwnMems(e) \in Seq(Mems) /\ TopMems(e) \in Seq(Mems)
      BY <3>1, <3>3, EventLine, TopIs
    <3>5. top = TopMems(e)
      BY <3>2, <3>4, FrontPart
    <3>6. IsInjective(TopMems(e))
          /\ Range(TopMems(e)) = {NameMem(e, name) : name \in {n \in Nameable : Carries(e, n)}}
      BY <3>1, TopSays
    <3>7. {NameMem(e, name) : name \in {n \in Nameable : Carries(e, n)}}
            = {Member(e, name) : name \in {n \in Nameable : Carries(e, n)}}
      BY <2>7
    <3> HIDE DEF top
    <3>8. /\ read = top \o own /\ IsInjective(top)
          /\ Range(top) = {Member(e, name) : name \in {n \in Nameable : Carries(e, n)}}
      BY <3>2, <3>4, <3>5, <3>6, <3>7
    <3> QED
      BY <3>8, Zenon DEF e, own, read, top
  <2> QED
    BY <2>5, <2>6, <2>8, Zenon DEF NdjsonReadsBack, lines, Kind, Member, Own
<1> QED
  BY <1>1, ExportAlways, WrittenAlways, PTL

=============================================================================
