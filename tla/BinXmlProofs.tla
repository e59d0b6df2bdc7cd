---------------------------- MODULE BinXmlProofs ----------------------------
(***************************************************************************)
(* Proofs about the walk over Binary XML tokens, for any record, any       *)
(* template definitions, any garbled bytes and any limits.                 *)
(***************************************************************************)
EXTENDS BinXml, SequenceTheorems, WellFoundedInduction, NaturalsInduction, TLAPS

Names == {token.name : token \in Tokens}

Bodies == Records \cup UNION {{c[def] : def \in DOMAIN c} : c \in Chunks}

Frames ==
  [body : Bodies, pos : Nat,
   subs : {token.subs : token \in Tokens} \cup {<<>>},
   template : {token.def : token \in Tokens} \cup {-1},
   opened : Nat, aligned : BOOLEAN, caller : Seq(Names)]

WalkTypes ==
  /\ chunk \in Chunks
  /\ stack \in Seq(Frames)
  /\ path \in Seq(Names)
  /\ nesting \in Seq(Seq(Names))
  /\ Len(nesting) = Len(stack)
  /\ refused \in BOOLEAN

(* The path inside fragment n, when the fragment above it was entered; 0   *)
(* is what is around the record.                                           *)
PathIn(n) == IF n < Len(stack) THEN stack[n + 1].caller ELSE path

(* A fragment has its caller's path and then the elements it has open.     *)
Balanced ==
  /\ PathIn(0) = <<>>
  /\ \A n \in 1 .. Len(stack) :
       /\ Len(PathIn(n)) = Len(stack[n].caller) + stack[n].opened
       /\ \A k \in 1 .. Len(stack[n].caller) : PathIn(n)[k] = stack[n].caller[k]

(* As long as no element is refused, those are the ones the document has   *)
(* open there.                                                             *)
Documented ==
  ~refused =>
    \A n \in 1 .. Len(stack) :
      /\ Len(nesting[n]) = stack[n].opened
      /\ \A k \in 1 .. stack[n].opened :
           PathIn(n)[Len(stack[n].caller) + k] = nesting[n][k]

WalkInv ==
  /\ WalkTypes /\ Balanced /\ Documented
  /\ NoTemplateReentered
  /\ \E S : fields \in Seq(S)
  /\ NestingKept

----------------------------------------------------------------------------
(* The path of the document is the one the walk holds.                     *)
LEMMA SmallestExists ==
  ASSUME NEW S \in SUBSET Nat, S # {}
  PROVE  \E x \in S : \A y \in S : x <= y
<1> DEFINE R == OpToRel(<, Nat)
<1>1. IsWellFoundedOn(R, Nat)
  BY NatLessThanWellFounded
<1>2. \A x \in Nat, y \in Nat : y < x => <<y, x>> \in R
  BY DEF OpToRel
<1> HIDE DEF R
<1>3. \E x \in S : \A y \in S : ~ (<<y, x>> \in R)
  BY <1>1, WFMin
<1>4. \A x \in S : x \in Nat
  OBVIOUS
<1>5. \A x, y \in S : ~ (<<y, x>> \in R) => x <= y
  BY <1>2, <1>4
<1> QED
  BY <1>3, <1>5

(* The paths the fragments of a document lead to, one behind the other.    *)
LEMMA JoinedExists ==
  ASSUME NEW N \in Nat, NEW parts
  PROVE  \E J : J = [n \in 0 .. N |-> IF n = 0 THEN <<>> ELSE J[n - 1] \o parts[n]]
<1> DEFINE Joins(J, m) ==
      J = [n \in 0 .. m |-> IF n = 0 THEN <<>> ELSE J[n - 1] \o parts[n]]
    Missing == {m \in 0 .. N : ~ \E J : Joins(J, m)}
<1> HIDE DEF Joins
<1>1. SUFFICES ASSUME Missing # {} PROVE FALSE
  <2>1. N \in 0 .. N
    OBVIOUS
  <2>2. ASSUME Missing = {} PROVE \E J : Joins(J, N)
    BY <2>1, <2>2
  <2> QED
    BY <2>2 DEF Joins
<1>2. PICK m \in Missing : \A k \in Missing : m <= k
  <2>1. 0 .. N \subseteq Nat
    OBVIOUS
  <2>2. Missing \in SUBSET Nat
    BY <2>1
  <2> QED
    BY <1>1, <2>2, SmallestExists
<1>3. m \in 0 .. N /\ ~ \E J : Joins(J, m)
  BY <1>2
<1>4. CASE m = 0
  <2>1. Joins([n \in 0 .. 0 |-> <<>>], 0)
    BY DEF Joins
  <2> QED
    BY <1>3, <1>4, <2>1
<1>5. CASE m # 0
  <2>1. m - 1 \in 0 .. N /\ m - 1 \notin Missing
    <3>1. m - 1 \in 0 .. N /\ ~(m <= m - 1)
      BY <1>3, <1>5
    <3> QED
      BY <1>2, <3>1
  <2>2. PICK J : Joins(J, m - 1)
    BY <2>1
  <2> DEFINE K == [n \in 0 .. m |-> IF n = m THEN J[m - 1] \o parts[m] ELSE J[n]]
  <2>3. \A n \in 0 .. m - 1 :
          K[n] = IF n = 0 THEN <<>> ELSE K[n - 1] \o parts[n]
    <3>1. \A n \in 0 .. m - 1 : J[n] = IF n = 0 THEN <<>> ELSE J[n - 1] \o parts[n]
      BY <2>2 DEF Joins
    <3>2. \A n \in 0 .. m - 1 : n \in 0 .. m /\ n # m
      BY <1>3, <1>5
    <3>3. \A n \in 0 .. m - 1 : n # 0 => n - 1 \in 0 .. m /\ n - 1 # m
      BY <1>3, <1>5
    <3>4. \A n \in 0 .. m : n # m => K[n] = J[n]
      OBVIOUS
    <3> HIDE DEF K
    <3> QED
      BY <3>1, <3>2, <3>3, <3>4, Zenon
  <2>4. K[m] = K[m - 1] \o parts[m]
    BY <1>3, <1>5
  <2>5. \A n \in 0 .. m : n \in 0 .. m - 1 \/ n = m
    BY <1>3, <1>5
  <2>6. Joins(K, m)
    BY <1>5, <2>3, <2>4, <2>5 DEF Joins
  <2> QED
    BY <1>3, <2>6
<1> QED
  BY <1>4, <1>5

LEMMA PathInType ==
  ASSUME WalkTypes
  PROVE  /\ Len(stack) \in Nat /\ Len(path) \in Nat /\ DOMAIN path = 1 .. Len(path)
         /\ \A n \in 1 .. Len(stack) :
              /\ stack[n] \in Frames /\ stack[n].opened \in Nat
              /\ stack[n].caller \in Seq(Names) /\ Len(stack[n].caller) \in Nat
              /\ nesting[n] \in Seq(Names) /\ Len(nesting[n]) \in Nat
         /\ \A n \in 0 .. Len(stack) : PathIn(n) \in Seq(Names)
<1>1. Len(stack) \in Nat /\ Len(path) \in Nat /\ DOMAIN path = 1 .. Len(path)
  BY DEF WalkTypes
<1>2. ASSUME NEW n \in 1 .. Len(stack)
      PROVE  /\ stack[n] \in Frames /\ stack[n].opened \in Nat
             /\ stack[n].caller \in Seq(Names) /\ Len(stack[n].caller) \in Nat
             /\ nesting[n] \in Seq(Names) /\ Len(nesting[n]) \in Nat
  <2>1. stack[n] \in Frames /\ nesting[n] \in Seq(Names)
    BY DEF WalkTypes
  <2>2. stack[n].opened \in Nat /\ stack[n].caller \in Seq(Names)
    BY <2>1 DEF Frames
  <2> QED
    BY <2>1, <2>2
<1>3. ASSUME NEW n \in 0 .. Len(stack) PROVE PathIn(n) \in Seq(Names)
  <2>1. CASE n < Len(stack)
    <3>1. n + 1 \in 1 .. Len(stack)
      BY <1>1, <2>1
    <3> QED
      BY <1>2, <2>1, <3>1 DEF PathIn
  <2>2. CASE ~(n < Len(stack))
    BY <2>2 DEF PathIn, WalkTypes
  <2> QED
    BY <2>1, <2>2
<1> QED
  BY <1>1, <1>2, <1>3

LEMMA DocumentIsPath ==
  ASSUME WalkTypes, Balanced, Documented, ~refused
  PROVE  DocumentPath = path
<1> DEFINE N == Len(nesting)
      Joined == CHOOSE J : J = [n \in 0 .. N |->
                                  IF n = 0 THEN <<>> ELSE J[n - 1] \o nesting[n]]
      Wrong == {m \in 0 .. N : Joined[m] # PathIn(m)}
<1>1. N \in Nat /\ N = Len(stack)
  BY PathInType DEF WalkTypes
<1>2. DocumentPath = Joined[N]
  BY DEF DocumentPath
<1>3. Joined = [n \in 0 .. N |-> IF n = 0 THEN <<>> ELSE Joined[n - 1] \o nesting[n]]
  BY <1>1, JoinedExists
<1>4. PathIn(N) = path
  BY <1>1 DEF PathIn
<1> HIDE DEF Joined
<1>5. SUFFICES ASSUME Wrong # {} PROVE FALSE
  BY <1>1, <1>2, <1>4
<1> HIDE DEF N
<1>6. PICK m \in Wrong : \A k \in Wrong : m <= k
  <2>1. 0 .. N \subseteq Nat
    BY <1>1
  <2>2. Wrong \in SUBSET Nat
    BY <2>1
  <2> QED
    BY <1>5, <2>2, SmallestExists
<1>7. m \in 0 .. N /\ Joined[m] # PathIn(m)
  BY <1>6
<1>8. CASE m = 0
  BY <1>1, <1>3, <1>7, <1>8 DEF Balanced
<1>9. CASE m # 0
  <2>1. m - 1 \in 0 .. N /\ ~(m <= m - 1) /\ m \in 1 .. Len(stack)
    BY <1>1, <1>7, <1>9
  <2>2. Joined[m - 1] = PathIn(m - 1)
    BY <1>6, <2>1
  <2>3. PathIn(m - 1) = stack[m].caller
    BY <1>1, <2>1 DEF PathIn
  <2>4. Joined[m] = stack[m].caller \o nesting[m]
    BY <1>3, <1>7, <1>9, <2>2, <2>3
  <2>5. /\ PathIn(m) \in Seq(Names) /\ stack[m].caller \in Seq(Names)
        /\ nesting[m] \in Seq(Names) /\ stack[m].opened \in Nat
        /\ Len(stack[m].caller) \in Nat
    BY <1>1, <1>7, <2>1, PathInType
  <2>6. /\ Len(PathIn(m)) = Len(stack[m].caller) + stack[m].opened
        /\ \A k \in 1 .. Len(stack[m].caller) : PathIn(m)[k] = stack[m].caller[k]
        /\ Len(nesting[m]) = stack[m].opened
        /\ \A k \in 1 .. stack[m].opened :
             PathIn(m)[Len(stack[m].caller) + k] = nesting[m][k]
    BY <2>1 DEF Balanced, Documented
  <2>7. PathIn(m) = stack[m].caller \o nesting[m]
    <3> DEFINE p == PathIn(m)  c == stack[m].caller  e == nesting[m]
    <3>1. /\ p \in Seq(Names) /\ c \in Seq(Names) /\ e \in Seq(Names)
          /\ Len(c) \in Nat /\ Len(e) \in Nat /\ Len(p) = Len(c) + Len(e)
          /\ \A k \in 1 .. Len(c) : p[k] = c[k]
          /\ \A k \in 1 .. Len(e) : p[Len(c) + k] = e[k]
      BY <2>5, <2>6
    <3> HIDE DEF p, c, e
    <3>2. /\ c \o e \in Seq(Names) /\ Len(c \o e) = Len(c) + Len(e)
          /\ \A k \in 1 .. Len(c) + Len(e) :
               (c \o e)[k] = IF k <= Len(c) THEN c[k] ELSE e[k - Len(c)]
      BY <3>1
    <3>3. ASSUME NEW k \in 1 .. Len(p) PROVE p[k] = (c \o e)[k]
      <4>1. CASE k <= Len(c)
        BY <3>1, <3>2, <4>1
      <4>2. CASE ~(k <= Len(c))
        <5>1. k - Len(c) \in 1 .. Len(e) /\ Len(c) + (k - Len(c)) = k
          BY <3>1, <4>2
        <5> QED
          BY <3>1, <3>2, <4>2, <5>1
      <4> QED
        BY <4>1, <4>2
    <3>4. p = c \o e
      BY <3>1, <3>2, <3>3, SeqEqual
    <3> QED
      BY <3>4 DEF p, c, e
  <2> QED
    BY <1>7, <2>4, <2>7
<1> QED
  BY <1>8, <1>9

----------------------------------------------------------------------------
(* What a step does to the fields.                                         *)
FieldStep ==
  \/ fields' = fields
  \/ \E e : /\ fields' = Append(fields, e)
            /\ e.name = path /\ e.under = DocumentPath /\ e.sound = ~refused

LEMMA AddFieldSteps ==
  ASSUME NEW attr, NEW value, AddField(attr, value)
  PROVE  FieldStep
<1>1. CASE Len(fields) >= MaxFields
  BY <1>1 DEF AddField, FieldStep
<1>2. CASE ~(Len(fields) >= MaxFields)
  <2>1. PICK e : e = [name |-> path, attr |-> attr, value |-> value,
                      under |-> DocumentPath, sound |-> ~refused]
    OBVIOUS
  <2>2. fields' = Append(fields, e)
    BY <1>2, <2>1 DEF AddField
  <2>3. e.name = path /\ e.under = DocumentPath /\ e.sound = ~refused
    BY <2>1
  <2> QED
    BY <2>2, <2>3 DEF FieldStep
<1> QED
  BY <1>1, <1>2

LEMMA FieldsKept ==
  ASSUME WalkInv, FieldStep
  PROVE  (\E S : fields' \in Seq(S)) /\ NestingKept'
<1>1. PICK S : fields \in Seq(S)
  BY DEF WalkInv
<1>2. \A n \in DOMAIN fields : fields[n].sound => fields[n].name = fields[n].under
  BY DEF WalkInv, NestingKept
<1>3. CASE fields' = fields
  BY <1>1, <1>2, <1>3 DEF NestingKept
<1>4. CASE fields' # fields
  <2>1. PICK e : /\ fields' = Append(fields, e)
                 /\ e.name = path /\ e.under = DocumentPath /\ e.sound = ~refused
    BY <1>4 DEF FieldStep
  <2>2. e.sound => e.name = e.under
    BY <2>1, DocumentIsPath DEF WalkInv
  <2>3. fields \in Seq(S \cup {e})
    BY <1>1
  <2>4. fields' \in Seq(S \cup {e})
    BY <2>1, <2>3
  <2>5. /\ DOMAIN fields = 1 .. Len(fields)
        /\ DOMAIN fields' = (1 .. Len(fields)) \cup {Len(fields) + 1}
        /\ fields'[Len(fields) + 1] = e
        /\ \A n \in 1 .. Len(fields) : fields'[n] = fields[n]
    BY <2>1, <2>3
  <2>6. NestingKept'
    BY <1>2, <2>2, <2>5 DEF NestingKept
  <2> QED
    BY <2>4, <2>6
<1> QED
  BY <1>3, <1>4

LEMMA TopMoves ==
  ASSUME WalkTypes, stack # <<>>, NEW f \in Frames, SetTop(f)
  PROVE  /\ stack' \in Seq(Frames) /\ Len(stack') = Len(stack)
         /\ Len(stack) \in Nat \ {0} /\ Len(stack) \in 1 .. Len(stack)
         /\ \A n \in 1 .. Len(stack) - 1 : stack'[n] = stack[n]
         /\ stack'[Len(stack)] = f
         /\ Top \in Frames /\ Top = stack[Len(stack)]
<1>1. stack \in Seq(Frames)
  BY DEF WalkTypes
<1>2. Len(stack) \in Nat \ {0}
  BY <1>1, EmptySeq
<1>3. stack' = [stack EXCEPT ![Len(stack)] = f]
  BY DEF SetTop
<1> QED
  BY <1>1, <1>2, <1>3 DEF Top

LEMMA FrameMoves ==
  ASSUME NEW f \in Frames, NEW token
  PROVE  /\ Behind(token, f) \in Frames
         /\ Behind(token, f).opened = f.opened
         /\ Behind(token, f).caller = f.caller
         /\ Behind(token, f).template = f.template
<1>1. f = [body |-> f.body, pos |-> f.pos, subs |-> f.subs,
           template |-> f.template, opened |-> f.opened,
           aligned |-> f.aligned, caller |-> f.caller]
  BY DEF Frames
<1>2. f.pos + 1 \in Nat
  BY DEF Frames
<1> QED
  BY <1>1, <1>2 DEF Behind, Frames

LEMMA OpenedFrame ==
  ASSUME NEW f \in Frames, NEW n \in Nat
  PROVE  LET g == [f EXCEPT !.opened = n]
         IN  g \in Frames /\ g.opened = n /\ g.caller = f.caller
             /\ g.template = f.template
BY DEF Frames

(* A step of the fragment on top keeps the rest of the document as it is;  *)
(* what it does to the path, it does to the elements it has open.          *)
LEMMA StepKeepsWalk ==
  ASSUME WalkInv, stack # <<>>, NEW f \in Frames, SetTop(f),
         f.caller = Top.caller, f.template = Top.template,
         chunk' = chunk, active' = active, FieldStep,
         path' \in Seq(Names), nesting' \in Seq(Seq(Names)),
         Len(nesting') = Len(nesting), refused' \in BOOLEAN,
         Len(path') = Len(Top.caller) + f.opened,
         \A k \in 1 .. Len(Top.caller) : path'[k] = path[k],
         ~refused' =>
           /\ ~refused
           /\ \A n \in 1 .. Len(stack) - 1 : nesting'[n] = nesting[n]
           /\ Len(nesting'[Len(stack)]) = f.opened
           /\ \A k \in 1 .. f.opened :
                path'[Len(Top.caller) + k] = nesting'[Len(stack)][k]
  PROVE  WalkInv'
<1> DEFINE N == Len(stack)
<1>1. /\ stack' \in Seq(Frames) /\ Len(stack') = N /\ N \in Nat \ {0}
      /\ \A n \in 1 .. N - 1 : stack'[n] = stack[n]
      /\ stack'[N] = f /\ Top \in Frames /\ Top = stack[N]
  BY TopMoves DEF WalkInv
<1>2. WalkTypes'
  BY <1>1 DEF WalkInv, WalkTypes
<1>3. (\E S : fields' \in Seq(S)) /\ NestingKept'
  BY FieldsKept
<1>4. \A n \in 1 .. N : /\ stack'[n].caller = stack[n].caller
                        /\ stack'[n].template = stack[n].template
  <2> TAKE n \in 1 .. N
  <2>1. n = N \/ n \in 1 .. N - 1
    BY <1>1
  <2> QED
    BY <1>1, <2>1
<1>5. NoTemplateReentered'
  <2>1. \A n \in 2 .. N : n \in 1 .. N
    BY <1>1
  <2>2. \A n \in 2 .. N : stack'[n].template = stack[n].template
    BY <1>4, <2>1
  <2>3. {stack'[n].template : n \in 2 .. N} = {stack[n].template : n \in 2 .. N}
    <3>1. ASSUME NEW t
          PROVE  (\E n \in 2 .. N : t = stack'[n].template) <=>
                 (\E n \in 2 .. N : t = stack[n].template)
      BY <2>2
    <3> QED
      BY <3>1, ZenonT(30)
  <2>4. /\ active = {stack[n].template : n \in 2 .. N}
        /\ \A m, n \in 2 .. N : stack[m].template = stack[n].template => m = n
    BY DEF WalkInv, NoTemplateReentered
  <2>5. \A m, n \in 2 .. N : stack'[m].template = stack'[n].template => m = n
    BY <2>2, <2>4
  <2>6. Len(stack') = N
    BY <1>1
  <2> QED
    BY <2>3, <2>4, <2>5, <2>6 DEF NoTemplateReentered
<1>6. \A n \in 0 .. N - 1 : PathIn(n)' = PathIn(n)
  <2> TAKE n \in 0 .. N - 1
  <2>1. n < N /\ n + 1 \in 1 .. N
    BY <1>1
  <2> QED
    BY <1>1, <1>4, <2>1 DEF PathIn
<1>7. PathIn(N)' = path' /\ PathIn(N) = path
  BY <1>1 DEF PathIn
<1>8. ASSUME NEW n \in 1 .. N - 1
      PROVE  /\ PathIn(n)' = PathIn(n) /\ stack'[n] = stack[n] /\ n \in 1 .. N
  BY <1>1, <1>6
<1>9. Balanced'
  <2>1. PathIn(0)' = <<>>
    BY <1>1, <1>6 DEF WalkInv, Balanced
  <2>2. ASSUME NEW n \in 1 .. N
        PROVE  /\ Len(PathIn(n)') = Len(stack'[n].caller) + stack'[n].opened
               /\ \A k \in 1 .. Len(stack'[n].caller) :
                    PathIn(n)'[k] = stack'[n].caller[k]
    <3>1. CASE n = N
      <4>1. \A k \in 1 .. Len(Top.caller) : path[k] = Top.caller[k]
        BY <1>1, <1>7 DEF WalkInv, Balanced
      <4>2. stack'[n] = f /\ f.caller = Top.caller /\ PathIn(n)' = path'
        BY <1>1, <1>7, <3>1
      <4>3. \A k \in 1 .. Len(Top.caller) : path'[k] = Top.caller[k]
        BY <4>1
      <4> QED
        BY <4>2, <4>3
    <3>2. CASE n # N
      <4>1. n \in 1 .. N - 1
        BY <1>1, <3>2
      <4> QED
        BY <1>8, <4>1, SMTT(20) DEF WalkInv, Balanced
    <3> QED
      BY <3>1, <3>2
  <2> QED
    BY <1>1, <2>1, <2>2 DEF Balanced
<1>10. Documented'
  <2> SUFFICES ASSUME ~refused', NEW n \in 1 .. N
               PROVE  /\ Len(nesting'[n]) = stack'[n].opened
                      /\ \A k \in 1 .. stack'[n].opened :
                           PathIn(n)'[Len(stack'[n].caller) + k] = nesting'[n][k]
    BY <1>1 DEF Documented
  <2>1. CASE n = N
    BY <1>1, <1>7, <2>1
  <2>2. CASE n # N
    <3>1. n \in 1 .. N - 1
      BY <1>1, <2>2
    <3> QED
      BY <1>8, <3>1, ZenonT(30) DEF WalkInv, Documented
  <2> QED
    BY <2>1, <2>2
<1> QED
  BY <1>2, <1>3, <1>5, <1>9, <1>10 DEF WalkInv

(* What holds of the running fragment.                                     *)
LEMMA TopHolds ==
  ASSUME WalkInv, stack # <<>>
  PROVE  /\ Top \in Frames /\ Top.opened \in Nat
         /\ Top.caller \in Seq(Names) /\ Len(Top.caller) \in Nat
         /\ Len(stack) \in Nat \ {0} /\ path \in Seq(Names) /\ Len(path) \in Nat
         /\ Len(path) = Len(Top.caller) + Top.opened
         /\ \A k \in 1 .. Len(Top.caller) : path[k] = Top.caller[k]
         /\ nesting \in Seq(Seq(Names)) /\ Len(nesting) = Len(stack)
         /\ nesting[Len(stack)] \in Seq(Names)
         /\ ~refused =>
              /\ Len(nesting[Len(stack)]) = Top.opened
              /\ \A k \in 1 .. Top.opened :
                   path[Len(Top.caller) + k] = nesting[Len(stack)][k]
<1>1. stack \in Seq(Frames) /\ path \in Seq(Names) /\ Len(path) \in Nat
      /\ nesting \in Seq(Seq(Names)) /\ Len(nesting) = Len(stack)
  BY DEF WalkInv, WalkTypes
<1>2. Len(stack) \in Nat \ {0}
  BY <1>1, EmptySeq
<1>3. Top \in Frames /\ Top = stack[Len(stack)] /\ nesting[Len(stack)] \in Seq(Names)
  BY <1>1, <1>2 DEF Top
<1>4. Top.opened \in Nat /\ Top.caller \in Seq(Names) /\ Len(Top.caller) \in Nat
  <2>1. Top.opened \in Nat /\ Top.caller \in Seq(Names)
    BY <1>3 DEF Frames
  <2> QED
    BY <2>1
<1>5. PathIn(Len(stack)) = path /\ Len(stack) \in 1 .. Len(stack)
  BY <1>2 DEF PathIn
<1> QED
  BY <1>1, <1>2, <1>3, <1>4, <1>5 DEF WalkInv, Balanced, Documented

(* A step that opens and closes nothing.                                   *)
LEMMA SteadyKeepsWalk ==
  ASSUME WalkInv, stack # <<>>, NEW f \in Frames, SetTop(f),
         f.caller = Top.caller, f.template = Top.template, f.opened = Top.opened,
         UNCHANGED <<chunk, path, nesting, active, refused>>, FieldStep
  PROVE  WalkInv'
<1>1. refused \in BOOLEAN
  BY DEF WalkInv, WalkTypes
<1>2. /\ path' = path /\ nesting' = nesting /\ refused' = refused
      /\ chunk' = chunk /\ active' = active
  OBVIOUS
<1> QED
  BY <1>1, <1>2, TopHolds, StepKeepsWalk

LEMMA AdvancedMoves ==
  ASSUME Top \in Frames
  PROVE  /\ Advanced \in Frames /\ Advanced.opened = Top.opened
         /\ Advanced.caller = Top.caller /\ Advanced.template = Top.template
<1>1. Top = [body |-> Top.body, pos |-> Top.pos, subs |-> Top.subs,
             template |-> Top.template, opened |-> Top.opened,
             aligned |-> Top.aligned, caller |-> Top.caller]
  BY DEF Frames
<1>2. Top.pos + 1 \in Nat
  BY DEF Frames
<1> QED
  BY <1>1, <1>2 DEF Advanced, Frames

LEMMA LeafKeepsWalk ==
  ASSUME WalkInv, Leaf \/ Attribute \/ Skip \/ RefuseInstance \/ SkipInstance
  PROVE  WalkInv'
<1>1. CASE Leaf
  <2>1. PICK token \in Tokens :
          /\ Read(token)
          /\ AddField("", TextOf(token))
          /\ SetTop(Behind(token, Top))
          /\ UNCHANGED <<chunk, path, active, instances, nesting, refused>>
    BY <1>1 DEF Leaf
  <2>2. stack # <<>> /\ Top \in Frames
    BY <2>1, TopHolds DEF Read, Walking
  <2>3. PICK f : f = Behind(token, Top)
    OBVIOUS
  <2> QED
    BY <2>1, <2>2, <2>3, FrameMoves, AddFieldSteps, SteadyKeepsWalk
<1>2. CASE Attribute
  <2>1. PICK token \in Tokens, next \in Peeked :
          /\ Read(token)
          /\ \/ /\ AddField(token.name, TextOf(next))
                /\ SetTop(Behind(next, Behind(token, Top)))
             \/ /\ AddField(token.name, "")
                /\ SetTop(Behind(token, Top))
          /\ UNCHANGED <<chunk, path, active, instances, nesting, refused>>
    BY <1>2 DEF Attribute
  <2>2. stack # <<>> /\ Top \in Frames
    BY <2>1, TopHolds DEF Read, Walking
  <2>3. FieldStep
    BY <2>1, AddFieldSteps
  <2>4. PICK f : f = Behind(token, Top)
    OBVIOUS
  <2>5. /\ f \in Frames /\ f.opened = Top.opened /\ f.caller = Top.caller
        /\ f.template = Top.template
    BY <2>2, <2>4, FrameMoves
  <2>6. PICK g : g = Behind(next, f)
    OBVIOUS
  <2>7. /\ g \in Frames /\ g.opened = Top.opened /\ g.caller = Top.caller
        /\ g.template = Top.template
    BY <2>5, <2>6, FrameMoves
  <2>8. SetTop(f) \/ SetTop(g)
    BY <2>1, <2>4, <2>6
  <2> QED
    BY <2>1, <2>2, <2>3, <2>5, <2>7, <2>8, SteadyKeepsWalk
<1>3. CASE Skip \/ RefuseInstance \/ SkipInstance
  <2>1. PICK token \in Tokens :
          /\ Read(token)
          /\ \/ SetTop(Advanced) \/ SetTop([Advanced EXCEPT !.aligned = FALSE])
             \/ SetTop(Behind(token, Top))
          /\ UNCHANGED <<chunk, path, fields, active, nesting, refused>>
    BY <1>3 DEF Skip, RefuseInstance, SkipInstance, Instance
  <2>2. stack # <<>> /\ Top \in Frames
    BY <2>1, TopHolds DEF Read, Walking
  <2>3. FieldStep
    BY <2>1 DEF FieldStep
  <2>4. /\ Advanced \in Frames /\ Advanced.opened = Top.opened
        /\ Advanced.caller = Top.caller /\ Advanced.template = Top.template
    BY <2>2, AdvancedMoves
  <2>5. PICK f : f = [Advanced EXCEPT !.aligned = FALSE]
    OBVIOUS
  <2>6. /\ f \in Frames /\ f.opened = Top.opened /\ f.caller = Top.caller
        /\ f.template = Top.template
    BY <2>4, <2>5 DEF Frames
  <2>7. PICK g : g = Behind(token, Top)
    OBVIOUS
  <2>8. /\ g \in Frames /\ g.opened = Top.opened /\ g.caller = Top.caller
        /\ g.template = Top.template
    BY <2>2, <2>7, FrameMoves
  <2>9. PICK h : h = Advanced
    OBVIOUS
  <2>10. SetTop(f) \/ SetTop(g) \/ SetTop(h)
    BY <2>1, <2>5, <2>7, <2>9
  <2> QED
    BY <2>1, <2>2, <2>3, <2>4, <2>6, <2>8, <2>9, <2>10, SteadyKeepsWalk
<1> QED
  BY <1>1, <1>2, <1>3

LEMMA OpenKeepsWalk ==
  ASSUME WalkInv, OpenElement
  PROVE  WalkInv'
<1> DEFINE N == Len(stack)
<1>1. PICK token \in Tokens :
        /\ Read(token)
        /\ IF Len(path) < MaxDepth
           THEN /\ path' = Append(path, token.name)
                /\ SetTop([Behind(token, Top) EXCEPT !.opened = @ + 1])
                /\ refused' = refused
           ELSE /\ SetTop(Behind(token, Top))
                /\ refused' = TRUE
                /\ path' = path
        /\ nesting' = [nesting EXCEPT ![Len(nesting)] = Append(@, token.name)]
        /\ UNCHANGED <<chunk, fields, active, instances, full>>
  BY DEF OpenElement
<1>2. stack # <<>>
  BY <1>1 DEF Read, Walking
<1>3. /\ Top \in Frames /\ Top.opened \in Nat
      /\ Top.caller \in Seq(Names) /\ Len(Top.caller) \in Nat
      /\ N \in Nat \ {0} /\ path \in Seq(Names) /\ Len(path) \in Nat
      /\ Len(path) = Len(Top.caller) + Top.opened
      /\ nesting \in Seq(Seq(Names)) /\ Len(nesting) = N
      /\ nesting[N] \in Seq(Names)
      /\ ~refused =>
           /\ Len(nesting[N]) = Top.opened
           /\ \A k \in 1 .. Top.opened :
                path[Len(Top.caller) + k] = nesting[N][k]
  BY <1>2, TopHolds
<1>4. token.name \in Names /\ refused \in BOOLEAN
  BY DEF Names, WalkInv, WalkTypes
<1>5. /\ nesting' \in Seq(Seq(Names)) /\ Len(nesting') = Len(nesting)
      /\ nesting'[N] = Append(nesting[N], token.name)
      /\ \A n \in 1 .. N - 1 : nesting'[n] = nesting[n]
  <2>1. nesting' = [nesting EXCEPT ![N] = Append(nesting[N], token.name)]
    BY <1>1, <1>3
  <2>2. Append(nesting[N], token.name) \in Seq(Names)
    BY <1>3, <1>4
  <2> QED
    BY <1>3, <2>1, <2>2
<1>6. FieldStep /\ chunk' = chunk /\ active' = active
  BY <1>1 DEF FieldStep
<1>7. PICK f : f = Behind(token, Top)
  OBVIOUS
<1>8. /\ f \in Frames /\ f.opened = Top.opened /\ f.caller = Top.caller
      /\ f.template = Top.template
  BY <1>3, <1>7, FrameMoves
<1>9. CASE Len(path) < MaxDepth
  <2>1. PICK g : g = [f EXCEPT !.opened = @ + 1]
    OBVIOUS
  <2>2. /\ g \in Frames /\ g.opened = Top.opened + 1 /\ g.caller = Top.caller
        /\ g.template = Top.template
    <3>1. g = [f EXCEPT !.opened = Top.opened + 1] /\ Top.opened + 1 \in Nat
      BY <1>3, <1>8, <2>1
    <3> QED
      BY <1>8, <3>1, OpenedFrame
  <2>3. SetTop(g) /\ path' = Append(path, token.name) /\ refused' = refused
    BY <1>1, <1>7, <1>9, <2>1
  <2>4. /\ path' \in Seq(Names) /\ Len(path') = Len(path) + 1
        /\ \A k \in 1 .. Len(path) : path'[k] = path[k]
        /\ path'[Len(path) + 1] = token.name
    BY <1>3, <1>4, <2>3
  <2>5. \A k \in 1 .. Len(Top.caller) : path'[k] = path[k]
    BY <1>3, <2>4
  <2>6. ASSUME ~refused'
        PROVE  /\ Len(nesting'[N]) = g.opened
               /\ \A k \in 1 .. g.opened :
                    path'[Len(Top.caller) + k] = nesting'[N][k]
    <3>1. /\ Len(nesting[N]) = Top.opened
          /\ \A k \in 1 .. Top.opened :
               path[Len(Top.caller) + k] = nesting[N][k]
      BY <1>3, <2>3, <2>6
    <3>2. /\ Len(nesting'[N]) = Top.opened + 1
          /\ \A k \in 1 .. Top.opened : nesting'[N][k] = nesting[N][k]
          /\ nesting'[N][Top.opened + 1] = token.name
      BY <1>3, <1>4, <1>5, <3>1
    <3>3. \A k \in 1 .. Top.opened : Len(Top.caller) + k \in 1 .. Len(path)
      BY <1>3
    <3>4. \A k \in 1 .. Top.opened + 1 :
            path'[Len(Top.caller) + k] = nesting'[N][k]
      <4> TAKE k \in 1 .. Top.opened + 1
      <4>1. CASE k = Top.opened + 1
        <5>1. \A a, b, c \in Nat : c = a + b => a + (b + 1) = c + 1
          OBVIOUS
        <5>2. Len(Top.caller) + k = Len(path) + 1
          BY <1>3, <4>1, <5>1
        <5> QED
          BY <2>4, <3>2, <4>1, <5>2
      <4>2. CASE k \in 1 .. Top.opened
        BY <2>4, <3>1, <3>2, <3>3, <4>2
      <4>3. k = Top.opened + 1 \/ k \in 1 .. Top.opened
        <5>1. \A b \in Nat : \A i \in 1 .. b + 1 : i = b + 1 \/ i \in 1 .. b
          OBVIOUS
        <5> QED
          BY <1>3, <5>1
      <4> QED
        BY <4>1, <4>2, <4>3
    <3> QED
      BY <2>2, <3>2, <3>4
  <2>7. Len(path') = Len(Top.caller) + g.opened
    BY <1>3, <2>2, <2>4
  <2> QED
    BY <1>2, <1>4, <1>5, <1>6, <2>2, <2>3, <2>4, <2>5, <2>6, <2>7, StepKeepsWalk
<1>10. CASE ~(Len(path) < MaxDepth)
  <2>1. SetTop(f) /\ path' = path /\ refused' = TRUE
    BY <1>1, <1>7, <1>10
  <2> QED
    BY <1>2, <1>3, <1>5, <1>6, <1>8, <2>1, StepKeepsWalk
<1> QED
  BY <1>9, <1>10

LEMMA ShorterSeq ==
  ASSUME NEW S, NEW s \in Seq(S), s # <<>>
  PROVE  /\ Shorter(s) \in Seq(S) /\ Len(Shorter(s)) = Len(s) - 1
         /\ Len(s) \in Nat \ {0}
         /\ \A k \in 1 .. Len(s) - 1 : Shorter(s)[k] = s[k]
<1>1. Len(s) \in Nat \ {0}
  BY EmptySeq
<1>2. \A k \in 1 .. Len(s) - 1 : s[k] \in S
  BY <1>1
<1>3. Len(s) - 1 \in Int /\ 1 \in Int
  BY <1>1
<1>4. /\ Shorter(s) \in Seq(S)
      /\ Len(Shorter(s)) = IF 1 <= Len(s) - 1 THEN Len(s) - 1 - 1 + 1 ELSE 0
      /\ \A k \in 1 .. Len(s) - 1 - 1 + 1 : Shorter(s)[k] = s[1 + k - 1]
  BY <1>2, <1>3, SubSeqProperties DEF Shorter
<1>5. Len(s) - 1 - 1 + 1 = Len(s) - 1
  BY <1>1
<1>6. Len(Shorter(s)) = Len(s) - 1
  <2>1. \A l \in Nat \ {0} : (IF 1 <= l - 1 THEN l - 1 - 1 + 1 ELSE 0) = l - 1
    OBVIOUS
  <2> QED
    BY <1>1, <1>4, <2>1
<1>7. \A k \in 1 .. Len(s) - 1 : Shorter(s)[k] = s[k]
  <2> TAKE k \in 1 .. Len(s) - 1
  <2>1. 1 + k - 1 = k /\ k \in 1 .. Len(s) - 1 - 1 + 1
    BY <1>1, <1>5
  <2>2. Shorter(s)[k] = s[1 + k - 1]
    BY <1>4, <2>1
  <2> QED
    BY <2>1, <2>2
<1> QED
  BY <1>1, <1>4, <1>6, <1>7

LEMMA CloseKeepsWalk ==
  ASSUME WalkInv, EndElement
  PROVE  WalkInv'
<1> DEFINE N == Len(stack)
<1>1. PICK token \in Tokens :
        /\ Read(token)
        /\ IF Closable
           THEN /\ path' = Shorter(path)
                /\ SetTop([Advanced EXCEPT !.opened = @ - 1])
           ELSE SetTop(Advanced) /\ path' = path
        /\ nesting' = IF nesting[Len(nesting)] = <<>> THEN nesting
                      ELSE [nesting EXCEPT ![Len(nesting)] = Shorter(@)]
        /\ UNCHANGED <<chunk, fields, active, instances, full, refused>>
  BY DEF EndElement
<1>2. stack # <<>>
  BY <1>1 DEF Read, Walking
<1>3. /\ Top \in Frames /\ Top.opened \in Nat
      /\ Top.caller \in Seq(Names) /\ Len(Top.caller) \in Nat
      /\ N \in Nat \ {0} /\ path \in Seq(Names) /\ Len(path) \in Nat
      /\ Len(path) = Len(Top.caller) + Top.opened
      /\ nesting \in Seq(Seq(Names)) /\ Len(nesting) = N
      /\ nesting[N] \in Seq(Names)
      /\ ~refused =>
           /\ Len(nesting[N]) = Top.opened
           /\ \A k \in 1 .. Top.opened :
                path[Len(Top.caller) + k] = nesting[N][k]
  BY <1>2, TopHolds
<1>4. refused \in BOOLEAN /\ refused' = refused
  BY <1>1 DEF WalkInv, WalkTypes
<1>5. FieldStep /\ chunk' = chunk /\ active' = active
  BY <1>1 DEF FieldStep
<1>6. /\ Advanced \in Frames /\ Advanced.opened = Top.opened
      /\ Advanced.caller = Top.caller /\ Advanced.template = Top.template
  BY <1>3, AdvancedMoves
<1>7. /\ nesting' \in Seq(Seq(Names)) /\ Len(nesting') = Len(nesting)
      /\ nesting'[N] = IF nesting[N] = <<>> THEN <<>> ELSE Shorter(nesting[N])
      /\ \A n \in 1 .. N - 1 : nesting'[n] = nesting[n]
  <2>1. CASE nesting[N] = <<>>
    BY <1>1, <1>3, <2>1
  <2>2. CASE nesting[N] # <<>>
    <3>1. nesting' = [nesting EXCEPT ![N] = Shorter(nesting[N])]
      BY <1>1, <1>3, <2>2
    <3>2. Shorter(nesting[N]) \in Seq(Names)
      BY <1>3, <2>2, ShorterSeq
    <3> QED
      BY <1>3, <2>2, <3>1, <3>2
  <2> QED
    BY <2>1, <2>2
<1>8. CASE Top.opened > 0
  <2>1. path # <<>>
    BY <1>3, <1>8
  <2>2. PICK g : g = [Advanced EXCEPT !.opened = @ - 1]
    OBVIOUS
  <2>3. Top.opened - 1 \in Nat
    BY <1>3, <1>8
  <2>4. /\ g \in Frames /\ g.opened = Top.opened - 1 /\ g.caller = Top.caller
        /\ g.template = Top.template
    <3>1. g = [Advanced EXCEPT !.opened = Top.opened - 1]
      BY <1>6, <2>2
    <3> QED
      BY <1>6, <2>3, <3>1, OpenedFrame
  <2>5. SetTop(g) /\ path' = Shorter(path)
    BY <1>1, <1>8, <2>1, <2>2 DEF Closable
  <2>6. /\ path' \in Seq(Names) /\ Len(path') = Len(path) - 1
        /\ \A k \in 1 .. Len(path) - 1 : path'[k] = path[k]
    BY <1>3, <2>1, <2>5, ShorterSeq
  <2>7. /\ Len(path') = Len(Top.caller) + g.opened
        /\ \A k \in 1 .. Len(Top.caller) : k \in 1 .. Len(path) - 1
    BY <1>3, <1>8, <2>4, <2>6, SMTT(20)
  <2>8. ASSUME ~refused'
        PROVE  /\ Len(nesting'[N]) = g.opened
               /\ \A k \in 1 .. g.opened :
                    path'[Len(Top.caller) + k] = nesting'[N][k]
    <3>1. /\ Len(nesting[N]) = Top.opened
          /\ \A k \in 1 .. Top.opened :
               path[Len(Top.caller) + k] = nesting[N][k]
      BY <1>3, <1>4, <2>8
    <3>2. nesting[N] # <<>>
      BY <1>8, <3>1
    <3>3. /\ Len(nesting'[N]) = Top.opened - 1
          /\ \A k \in 1 .. Top.opened - 1 : nesting'[N][k] = nesting[N][k]
      <4>1. nesting'[N] = Shorter(nesting[N])
        BY <1>7, <3>2
      <4>2. /\ Len(Shorter(nesting[N])) = Len(nesting[N]) - 1
            /\ \A k \in 1 .. Len(nesting[N]) - 1 :
                 Shorter(nesting[N])[k] = nesting[N][k]
        BY <1>3, <3>2, ShorterSeq
      <4> QED
        BY <3>1, <4>1, <4>2
    <3>4. \A k \in 1 .. Top.opened - 1 :
            k \in 1 .. Top.opened /\ Len(Top.caller) + k \in 1 .. Len(path) - 1
      BY <1>3, SMTT(20)
    <3> QED
      BY <2>4, <2>6, <3>1, <3>3, <3>4
  <2> QED
    BY <1>2, <1>4, <1>5, <1>7, <2>4, <2>5, <2>6, <2>7, <2>8, StepKeepsWalk
<1>9. CASE ~(Top.opened > 0)
  <2>1. SetTop(Advanced) /\ path' = path
    BY <1>1, <1>9 DEF Closable
  <2>2. Top.opened = 0
    BY <1>3, <1>9
  <2>3. ASSUME ~refused' PROVE Len(nesting'[N]) = 0
    <3>1. Len(nesting[N]) = 0
      BY <1>3, <1>4, <2>2, <2>3
    <3>2. nesting[N] = <<>>
      BY <1>3, <3>1, EmptySeq
    <3> QED
      BY <1>7, <3>2
  <2>4. PICK f : f = Advanced
    OBVIOUS
  <2>5. \A k \in 1 .. 0 : FALSE
    OBVIOUS
  <2> QED
    BY <1>2, <1>3, <1>4, <1>5, <1>6, <1>7, <2>1, <2>2, <2>3, <2>4, <2>5,
       StepKeepsWalk
<1> QED
  BY <1>8, <1>9

LEMMA ExpandKeepsWalk ==
  ASSUME WalkInv, ExpandTemplate
  PROVE  WalkInv'
<1> DEFINE N == Len(stack)
<1>1. PICK token \in Tokens :
        /\ Instance(token)
        /\ Expandable(token.def)
        /\ active' = active \cup {token.def}
        /\ stack' = Append([stack EXCEPT ![N] = Behind(token, Top)],
                           Frame(chunk[token.def], token.subs, token.def))
        /\ nesting' = Append(nesting, <<>>)
        /\ UNCHANGED <<chunk, path, fields, full, refused>>
  BY DEF ExpandTemplate
<1>2. stack # <<>> /\ token.def \in DOMAIN chunk /\ token.def \notin active
  BY <1>1 DEF Instance, Read, Walking, Expandable
<1>3. /\ Top \in Frames /\ Top.opened \in Nat
      /\ Top.caller \in Seq(Names) /\ Len(Top.caller) \in Nat
      /\ N \in Nat \ {0} /\ path \in Seq(Names) /\ Len(path) \in Nat
      /\ nesting \in Seq(Seq(Names)) /\ Len(nesting) = N
  BY <1>2, TopHolds
<1>4. PICK f : f = Behind(token, Top)
  OBVIOUS
<1>5. /\ f \in Frames /\ f.opened = Top.opened /\ f.caller = Top.caller
      /\ f.template = Top.template
  BY <1>3, <1>4, FrameMoves
<1>6. PICK g : g = Frame(chunk[token.def], token.subs, token.def)
  OBVIOUS
<1>7. /\ g \in Frames /\ g.opened = 0 /\ g.caller = path
      /\ g.template = token.def
  <2>1. chunk[token.def] \in Bodies
    BY <1>2 DEF Bodies, WalkInv, WalkTypes
  <2>2. /\ token.subs \in {t.subs : t \in Tokens} \cup {<<>>}
        /\ token.def \in {t.def : t \in Tokens} \cup {-1}
    OBVIOUS
  <2> QED
    BY <1>3, <1>6, <2>1, <2>2 DEF Frame, Frames
<1>8. /\ stack' \in Seq(Frames) /\ Len(stack') = N + 1
      /\ \A n \in 1 .. N - 1 : stack'[n] = stack[n]
      /\ stack'[N] = f /\ stack'[N + 1] = g /\ Top = stack[N]
  <2>1. stack \in Seq(Frames) /\ Top = stack[N]
    BY DEF Top, WalkInv, WalkTypes
  <2>2. PICK s : s = [stack EXCEPT ![N] = f]
    OBVIOUS
  <2>3. /\ s \in Seq(Frames) /\ Len(s) = N /\ s[N] = f
        /\ \A n \in 1 .. N - 1 : s[n] = stack[n]
    BY <1>3, <1>5, <2>1, <2>2
  <2>4. stack' = Append(s, g)
    BY <1>1, <1>4, <1>6, <2>2
  <2>5. /\ stack' \in Seq(Frames) /\ Len(stack') = N + 1
        /\ \A n \in 1 .. N : stack'[n] = s[n]
        /\ stack'[N + 1] = g
    BY <1>3, <1>7, <2>3, <2>4
  <2>6. \A n \in 1 .. N - 1 : n \in 1 .. N
    BY <1>3
  <2>7. N \in 1 .. N
    BY <1>3
  <2> QED
    BY <2>1, <2>3, <2>5, <2>6, <2>7
<1>9. /\ nesting' \in Seq(Seq(Names)) /\ Len(nesting') = N + 1
      /\ \A n \in 1 .. N : nesting'[n] = nesting[n]
      /\ nesting'[N + 1] = <<>>
  <2>1. <<>> \in Seq(Names)
    BY EmptySeq
  <2> QED
    BY <1>1, <1>3, <2>1
<1>10. WalkTypes'
  BY <1>1, <1>8, <1>9 DEF WalkInv, WalkTypes
<1>11. \A n \in 1 .. N : /\ stack'[n].caller = stack[n].caller
                         /\ stack'[n].opened = stack[n].opened
                         /\ stack'[n].template = stack[n].template
  <2> TAKE n \in 1 .. N
  <2>1. n = N \/ n \in 1 .. N - 1
    BY <1>3
  <2> QED
    BY <1>5, <1>8, <2>1
<1>12. \A n \in 0 .. N : PathIn(n)' = PathIn(n)
  <2> TAKE n \in 0 .. N
  <2>1. CASE n = N
    <3>1. n < Len(stack') /\ n + 1 = N + 1 /\ ~(n < N)
      BY <1>3, <1>8, <2>1
    <3> QED
      BY <1>7, <1>8, <3>1 DEF PathIn
  <2>2. CASE n # N
    <3>1. n < Len(stack') /\ n < N /\ n + 1 \in 1 .. N
      BY <1>3, <1>8, <2>2
    <3> QED
      BY <1>11, <3>1 DEF PathIn
  <2> QED
    BY <2>1, <2>2
<1>13. ASSUME NEW n \in Nat, n = N + 1 PROVE PathIn(n)' = path
  <2>1. ~(n < Len(stack')) /\ path' = path
    BY <1>1, <1>3, <1>8, <1>13
  <2> QED
    BY <2>1 DEF PathIn
<1>14. \A n \in 1 .. N + 1 : n \in 1 .. N \/ n = N + 1
  BY <1>3
<1>15. Balanced'
  <2>1. PathIn(0)' = <<>>
    BY <1>3, <1>12 DEF WalkInv, Balanced
  <2>2. ASSUME NEW n \in 1 .. N + 1
        PROVE  /\ Len(PathIn(n)') = Len(stack'[n].caller) + stack'[n].opened
               /\ \A k \in 1 .. Len(stack'[n].caller) :
                    PathIn(n)'[k] = stack'[n].caller[k]
    <3>1. CASE n \in 1 .. N
      <4>1. n \in 0 .. N
        BY <1>3, <3>1
      <4>2. PathIn(n)' = PathIn(n)
        BY <1>12, <4>1
      <4> QED
        BY <1>11, <3>1, <4>2 DEF WalkInv, Balanced
    <3>2. CASE n = N + 1
      <4>1. stack'[n] = g /\ PathIn(n)' = path
        BY <1>3, <1>8, <1>13, <3>2
      <4>2. Len(path) = Len(path) + 0
        BY <1>3
      <4> QED
        BY <1>7, <4>1, <4>2
    <3> QED
      BY <1>14, <3>1, <3>2
  <2> QED
    BY <1>8, <2>1, <2>2 DEF Balanced
<1>16. Documented'
  <2> SUFFICES ASSUME ~refused', NEW n \in 1 .. N + 1
               PROVE  /\ Len(nesting'[n]) = stack'[n].opened
                      /\ \A k \in 1 .. stack'[n].opened :
                           PathIn(n)'[Len(stack'[n].caller) + k] = nesting'[n][k]
    BY <1>8 DEF Documented
  <2>1. ~refused
    BY <1>1
  <2>2. CASE n \in 1 .. N
    <3>1. n \in 0 .. N
      BY <1>3, <2>2
    <3>2. PathIn(n)' = PathIn(n)
      BY <1>12, <3>1
    <3> QED
      <4>1. /\ Len(nesting[n]) = stack[n].opened
            /\ \A k \in 1 .. stack[n].opened :
                 PathIn(n)[Len(stack[n].caller) + k] = nesting[n][k]
        BY <2>1, <2>2 DEF WalkInv, Documented
      <4>2. /\ nesting'[n] = nesting[n] /\ stack'[n].opened = stack[n].opened
            /\ stack'[n].caller = stack[n].caller
        BY <1>9, <1>11, <2>2
      <4> QED
        BY <3>2, <4>1, <4>2
  <2>3. CASE n = N + 1
    BY <1>7, <1>8, <1>9, <2>3
  <2> QED
    BY <1>14, <2>2, <2>3
<1>17. NoTemplateReentered'
  <2>1. /\ active = {stack[n].template : n \in 2 .. N}
        /\ \A m, n \in 2 .. N : stack[m].template = stack[n].template => m = n
    BY DEF WalkInv, NoTemplateReentered
  <2>2. /\ \A n \in 2 .. N : stack'[n].template = stack[n].template
        /\ stack'[N + 1].template = token.def
    <3>1. \A n \in 2 .. N : n \in 1 .. N
      BY <1>3
    <3> QED
      BY <1>7, <1>8, <1>11, <3>1
  <2>3. 2 .. N + 1 = (2 .. N) \cup {N + 1}
    BY <1>3
  <2>4. \A n \in 2 .. N : stack[n].template # token.def
    BY <1>2, <2>1
  <2>5. \A m, n \in 2 .. N + 1 : stack'[m].template = stack'[n].template => m = n
    BY <2>1, <2>2, <2>3, <2>4
  <2>6. active' = {stack'[n].template : n \in 2 .. N + 1}
    <3>1. active' = active \cup {token.def}
      BY <1>1
    <3>2. ASSUME NEW t
          PROVE  t \in active' <=> \E n \in 2 .. N + 1 : t = stack'[n].template
      BY <2>1, <2>2, <2>3, <3>1
    <3> QED
      BY <3>2, Zenon
  <2> QED
    BY <1>8, <2>5, <2>6 DEF NoTemplateReentered
<1>18. FieldStep
  BY <1>1 DEF FieldStep
<1> QED
  BY <1>10, <1>15, <1>16, <1>17, <1>18, FieldsKept DEF WalkInv

(* The fragment on top gives the path back that its caller had.            *)
LEMMA PoppedIsCaller ==
  ASSUME WalkInv, stack # <<>>
  PROVE  Popped = Top.caller
<1>1. /\ Top.opened \in Nat
      /\ Top.caller \in Seq(Names) /\ Len(Top.caller) \in Nat
      /\ path \in Seq(Names) /\ Len(path) \in Nat
      /\ Len(path) = Len(Top.caller) + Top.opened
      /\ \A k \in 1 .. Len(Top.caller) : path[k] = Top.caller[k]
  BY TopHolds
<1>2. PICK m \in Nat : m = Len(Top.caller)
  BY <1>1
<1>3. Popped = SubSeq(path, 1, m)
  <2>1. \A a, b, c \in Nat : c = a + b => c - b = a
    OBVIOUS
  <2>2. Len(path) - Top.opened = m
    BY <1>1, <1>2, <2>1
  <2> QED
    BY <2>2 DEF Popped
<1>4. \A k \in 1 .. m : path[k] \in Names
  BY <1>1, <1>2
<1>5. /\ Popped \in Seq(Names)
      /\ Len(Popped) = IF 1 <= m THEN m - 1 + 1 ELSE 0
      /\ \A k \in 1 .. m - 1 + 1 : Popped[k] = path[1 + k - 1]
  BY <1>2, <1>3, <1>4, SubSeqProperties
<1>6. Len(Popped) = m
  BY <1>2, <1>5
<1>7. \A k \in 1 .. m : Popped[k] = Top.caller[k]
  <2> TAKE k \in 1 .. m
  <2>1. 1 + k - 1 = k /\ k \in 1 .. m - 1 + 1
    BY <1>2
  <2>2. Popped[k] = path[1 + k - 1]
    BY <1>5, <2>1
  <2> QED
    BY <1>1, <1>2, <2>1, <2>2
<1> QED
  BY <1>1, <1>2, <1>5, <1>6, <1>7, SeqEqual

LEMMA ReturnKeepsWalk ==
  ASSUME WalkInv, EndFragment
  PROVE  WalkInv'
<1> DEFINE N == Len(stack)
<1>1. /\ stack # <<>> /\ path' = Popped /\ active' = active \ {Top.template}
      /\ stack' = Shorter(stack) /\ nesting' = Shorter(nesting)
      /\ UNCHANGED <<chunk, fields, instances, full, refused>>
  BY DEF EndFragment, Return
<1>2. /\ N \in Nat \ {0} /\ Top.caller \in Seq(Names)
      /\ nesting \in Seq(Seq(Names)) /\ Len(nesting) = N
  BY <1>1, TopHolds
<1>3. path' = Top.caller
  BY <1>1, PoppedIsCaller
<1>4. /\ stack' \in Seq(Frames) /\ Len(stack') = N - 1
      /\ \A n \in 1 .. N - 1 : stack'[n] = stack[n]
      /\ Top = stack[N]
  BY <1>1, ShorterSeq DEF Top, WalkInv, WalkTypes
<1>5. /\ nesting' \in Seq(Seq(Names)) /\ Len(nesting') = N - 1
      /\ \A n \in 1 .. N - 1 : nesting'[n] = nesting[n]
  <2>1. nesting # <<>>
    BY <1>2, EmptySeq
  <2> QED
    BY <1>1, <1>2, <2>1, ShorterSeq
<1>6. WalkTypes'
  BY <1>1, <1>2, <1>3, <1>4, <1>5 DEF WalkInv, WalkTypes
<1>7. \A n \in 0 .. N - 1 : PathIn(n)' = PathIn(n)
  <2> TAKE n \in 0 .. N - 1
  <2>1. CASE n = N - 1
    <3>1. ~(n < Len(stack')) /\ n < N /\ n + 1 = N
      BY <1>2, <1>4, <2>1
    <3> QED
      BY <1>3, <1>4, <3>1 DEF PathIn
  <2>2. CASE n # N - 1
    <3>1. n < Len(stack') /\ n < N /\ n + 1 \in 1 .. N - 1
      BY <1>2, <1>4, <2>2
    <3> QED
      BY <1>4, <3>1 DEF PathIn
  <2> QED
    BY <2>1, <2>2
<1>8. ASSUME NEW n \in 1 .. N - 1
      PROVE  /\ n \in 1 .. N /\ PathIn(n)' = PathIn(n)
             /\ stack'[n] = stack[n] /\ nesting'[n] = nesting[n]
  <2>1. n \in 1 .. N /\ n \in 0 .. N - 1
    BY <1>2
  <2> QED
    BY <1>4, <1>5, <1>7, <2>1
<1>9. Balanced'
  <2>1. PathIn(0)' = <<>>
    BY <1>2, <1>7 DEF WalkInv, Balanced
  <2> QED
    <3>1. Len(stack') = N - 1
      BY <1>4
    <3>2. \A n \in 1 .. N :
            /\ Len(PathIn(n)) = Len(stack[n].caller) + stack[n].opened
            /\ \A k \in 1 .. Len(stack[n].caller) : PathIn(n)[k] = stack[n].caller[k]
      BY Zenon DEF WalkInv, Balanced
    <3>3. \A n \in 1 .. N - 1 :
            /\ Len(PathIn(n)') = Len(stack'[n].caller) + stack'[n].opened
            /\ \A k \in 1 .. Len(stack'[n].caller) : PathIn(n)'[k] = stack'[n].caller[k]
      BY <1>8, <3>2, Zenon
    <3> QED
      BY <2>1, <3>1, <3>3, Zenon DEF Balanced
<1>10. Documented'
  <2> SUFFICES ASSUME ~refused', NEW n \in 1 .. N - 1
               PROVE  /\ Len(nesting'[n]) = stack'[n].opened
                      /\ \A k \in 1 .. stack'[n].opened :
                           PathIn(n)'[Len(stack'[n].caller) + k] = nesting'[n][k]
    BY <1>4 DEF Documented
  <2>1. ~refused
    BY <1>1
  <2> QED
    BY <1>8, <2>1, ZenonT(30) DEF WalkInv, Documented
<1>11. NoTemplateReentered'
  <2>1. /\ active = {stack[n].template : n \in 2 .. N}
        /\ \A m, n \in 2 .. N : stack[m].template = stack[n].template => m = n
    BY DEF WalkInv, NoTemplateReentered
  <2>2. \A n \in 2 .. N - 1 : n \in 2 .. N /\ n # N /\ stack'[n] = stack[n]
    BY <1>2, <1>4
  <2>3. \A m, n \in 2 .. N - 1 : stack'[m].template = stack'[n].template => m = n
    BY <2>1, <2>2
  <2>4. ASSUME NEW t
        PROVE  t \in active' <=> \E n \in 2 .. N - 1 : t = stack'[n].template
    <3>1. t \in active' <=> t \in active /\ t # stack[N].template
      BY <1>1, <1>4
    <3>2. t \in active <=> \E n \in 2 .. N : t = stack[n].template
      BY <2>1
    <3>3. \A n \in 2 .. N : n \in 2 .. N - 1 \/ n = N
      BY <1>2
    <3>4. \A n \in 2 .. N - 1 : N \in 2 .. N
      BY <1>2
    <3>5. \A n \in 2 .. N - 1 : stack[n].template # stack[N].template
      BY <2>1, <2>2, <3>4
    <3> QED
      BY <2>2, <3>1, <3>2, <3>3, <3>5
  <2>5. active' = {stack'[n].template : n \in 2 .. N - 1}
    BY <2>4, Zenon
  <2> QED
    BY <1>4, <2>3, <2>5 DEF NoTemplateReentered
<1>12. FieldStep
  BY <1>1 DEF FieldStep
<1> QED
  BY <1>6, <1>9, <1>10, <1>11, <1>12, FieldsKept DEF WalkInv

LEMMA WalkInit == Init => WalkInv
<1> SUFFICES ASSUME Init PROVE WalkInv
  OBVIOUS
<1>1. PICK r \in Records :
        stack = <<[body |-> r, pos |-> 1, subs |-> <<>>, template |-> -1,
                   opened |-> 0, aligned |-> TRUE, caller |-> <<>>]>>
  BY DEF Init
<1>2. PICK f : f = [body |-> r, pos |-> 1, subs |-> <<>>, template |-> -1,
                    opened |-> 0, aligned |-> TRUE, caller |-> <<>>]
  OBVIOUS
<1>3. <<>> \in Seq(Names)
  BY EmptySeq
<1>4. f \in Frames /\ f.opened = 0 /\ f.caller = <<>>
  BY <1>2, <1>3 DEF Frames, Bodies
<1>5. /\ stack = <<f>> /\ path = <<>> /\ nesting = <<<<>>>>
      /\ fields = <<>> /\ active = {} /\ refused = FALSE /\ chunk \in Chunks
  BY <1>1, <1>2 DEF Init
<1>6. /\ stack \in Seq(Frames) /\ Len(stack) = 1 /\ stack[1] = f
      /\ nesting \in Seq(Seq(Names)) /\ Len(nesting) = 1 /\ nesting[1] = <<>>
  BY <1>3, <1>4, <1>5
<1>7. WalkTypes
  BY <1>3, <1>5, <1>6 DEF WalkTypes
<1>8. PathIn(0) = <<>> /\ PathIn(1) = <<>>
  BY <1>4, <1>5, <1>6 DEF PathIn
<1>9. Balanced /\ Documented
  <2>1. \A n \in 1 .. 1 : n = 1
    OBVIOUS
  <2>2. Len(<<>>) = 0 + 0 /\ Len(<<>>) = 0 /\ \A k \in 1 .. 0 : FALSE
    BY EmptySeq
  <2>3. Len(f.caller) = 0 /\ f.opened = 0
    BY <1>4, <2>2
  <2> QED
    BY <1>4, <1>6, <1>8, <2>1, <2>2, <2>3 DEF Balanced, Documented
<1>10. NoTemplateReentered
  <2>1. 2 .. Len(stack) = {}
    BY <1>6
  <2> QED
    BY <1>5, <2>1 DEF NoTemplateReentered
<1>11. fields \in Seq({}) /\ NestingKept
  BY <1>5 DEF NestingKept
<1> QED
  BY <1>7, <1>9, <1>10, <1>11 DEF WalkInv

LEMMA WalkNext == WalkInv /\ [Next]_vars => WalkInv'
<1> SUFFICES ASSUME WalkInv, [Next]_vars PROVE WalkInv'
  OBVIOUS
<1>1. CASE OpenElement
  BY <1>1, OpenKeepsWalk
<1>2. CASE EndElement
  BY <1>2, CloseKeepsWalk
<1>3. CASE Leaf \/ Attribute \/ Skip \/ RefuseInstance \/ SkipInstance
  BY <1>3, LeafKeepsWalk
<1>4. CASE ExpandTemplate
  BY <1>4, ExpandKeepsWalk
<1>5. CASE EndFragment
  BY <1>5, ReturnKeepsWalk
<1>6. CASE UNCHANGED vars
  <2>1. UNCHANGED <<chunk, stack, path, fields, active, nesting, refused>>
    BY <1>6 DEF vars
  <2>2. UNCHANGED <<WalkTypes, Balanced, Documented, NoTemplateReentered, NestingKept>>
    BY <2>1 DEF WalkTypes, Balanced, Documented, PathIn, NoTemplateReentered,
       NestingKept
  <2> QED
    BY <2>1, <2>2 DEF WalkInv
<1> QED
  BY <1>1, <1>2, <1>3, <1>4, <1>5, <1>6 DEF Next

----------------------------------------------------------------------------
(* A template definition that refers to itself, directly or through        *)
(* others, is never entered while it is being expanded.                    *)
THEOREM TemplatesNotReentered == Spec => []NoTemplateReentered
<1>1. WalkInv => NoTemplateReentered
  BY DEF WalkInv
<1> QED
  BY <1>1, WalkInit, WalkNext, PTL DEF Spec

(* Every field added while no element was refused for its depth has the    *)
(* name of its place in the document, however the tags are garbled.        *)
THEOREM NestingIsKept == Spec => []NestingKept
<1>1. WalkInv => NestingKept
  BY DEF WalkInv
<1> QED
  BY <1>1, WalkInit, WalkNext, PTL DEF Spec

(* Whatever a fragment opened and left open or closed too often, its       *)
(* caller goes on with the path it had.                                    *)
THEOREM PathIsRestored == Spec => PathRestored
<1>1. WalkInv /\ [Next]_vars => [Len(stack') < Len(stack) => path' = Top.caller]_vars
  <2> SUFFICES ASSUME WalkInv, Next, Len(stack') < Len(stack)
               PROVE  path' = Top.caller
    BY DEF vars
  <2>1. CASE EndFragment
    BY <2>1, PoppedIsCaller DEF EndFragment, Return
  <2>2. CASE ~EndFragment
    <3>1. ~(Len(stack) < Len(stack))
      BY DEF WalkInv, WalkTypes
    <3>2. stack \in Seq(Frames)
      BY DEF WalkInv, WalkTypes
    <3>3. CASE ExpandTemplate
      <4>1. Len(stack') = Len(stack) + 1
        BY <3>2, <3>3 DEF ExpandTemplate
      <4> QED
        BY <3>2, <4>1
    <3>4. CASE ~ExpandTemplate
      <4>1. \E f : stack' = [stack EXCEPT ![Len(stack)] = f]
        BY <2>2, <3>4 DEF Next, SetTop, OpenElement, EndElement, Leaf, Attribute,
           Skip, RefuseInstance, SkipInstance
      <4>2. Len(stack') = Len(stack)
        BY <3>2, <4>1
      <4> QED
        BY <3>1, <4>2
    <3> QED
      BY <3>3, <3>4
  <2> QED
    BY <2>1, <2>2
<1> QED
  BY <1>1, WalkInit, WalkNext, PTL DEF Spec, PathRestored

=============================================================================
