------------------------- MODULE StreamToolsProofs --------------------------
(***************************************************************************)
(* Proofs about the sessions, the histogram and the statistics of a        *)
(* stream, for streams of any length in any order, any integer width and   *)
(* any caps.                                                               *)
(***************************************************************************)
EXTENDS StreamTools, TimeWindowProofs, SequenceTheorems

----------------------------------------------------------------------------
(* What the loop over a group g in time order makes: a piece a .. b of it, *)
(* begun where it was idle, and whole if it is idle behind it, too.        *)
Idle(g, i) ==
  LET delta == Wrap(g[i].micros - g[i - 1].micros)
  IN  (IF delta < 0 THEN 0 ELSE delta) > GapMicros

IsPiece(g, a, b) ==
  /\ a \in 1 .. Len(g) /\ b \in a .. Len(g)
  /\ a = 1 \/ Idle(g, a)
  /\ \A i \in a + 1 .. b : ~Idle(g, i)

Whole(g, a, b) == IsPiece(g, a, b) /\ (b = Len(g) \/ Idle(g, b + 1))

Piece(key, g, a, b) ==
  [key |-> key, start |-> g[a].micros, end |-> g[b].micros,
   events |-> [i \in 1 .. b - a + 1 |-> g[a + i - 1].index]]

Members(key) == {k \in DOMAIN events : TakesPart(k) /\ events[k].key = key}

Sample1 == [micros : Micros, index : Nat]

(* A group in time order.                                                  *)
GroupOf(g, members) ==
  /\ g \in Seq(Sample1)
  /\ \A n \in 1 .. Len(g) : g[n].index \in members /\ g[n].micros = Micro(g[n].index)
  /\ \A k \in members : \E n \in 1 .. Len(g) : g[n].index = k
  /\ \A m, n \in 1 .. Len(g) : m <= n => g[m].micros <= g[n].micros
  /\ \A m, n \in 1 .. Len(g) : g[m].index = g[n].index => m = n

(* What the members of a key are.                                          *)
LEMMA MembersType ==
  ASSUME events \in Seq(Events), NEW key
  PROVE  /\ Members(key) \in SUBSET (1 .. Len(events)) /\ IsFiniteSet(Members(key))
         /\ Len(events) \in Nat /\ Cardinality(Members(key)) \in Nat
         /\ Cardinality(Members(key)) <= Len(events)
         /\ \A k \in Members(key) : k \in Nat /\ Micro(k) \in Micros /\ Micro(k) \in Int
<1>1. Members(key) \in SUBSET (1 .. Len(events)) /\ Len(events) \in Nat
  BY DEF Members
<1>2. IsFiniteSet(1 .. Len(events)) /\ Cardinality(1 .. Len(events)) = Len(events)
  <2>1. PICK n \in Nat : n = Len(events)
    BY <1>1
  <2>2. 1 \in Int /\ n \in Int /\ (IF 1 > n THEN 0 ELSE n - 1 + 1) = n
    OBVIOUS
  <2>3. IsFiniteSet(1 .. n) /\ Cardinality(1 .. n) = n
    BY <2>2, FS_Interval
  <2> QED
    BY <2>1, <2>3
<1>3. /\ IsFiniteSet(Members(key)) /\ Cardinality(Members(key)) \in Nat
      /\ Cardinality(Members(key)) <= Len(events)
  <2> DEFINE P == Members(key)
  <2>1. P \in SUBSET (1 .. Len(events))
    BY <1>1
  <2> HIDE DEF P
  <2>2. IsFiniteSet(P) /\ Cardinality(P) <= Cardinality(1 .. Len(events))
    BY <1>2, <2>1, FS_Subset
  <2> QED
    BY <1>2, <2>2, FS_CardinalityType DEF P
<1>4. \A k \in Members(key) : k \in Nat /\ Micro(k) \in Micros /\ Micro(k) \in Int
  <2> TAKE k \in Members(key)
  <2>1. k \in 1 .. Len(events) /\ events[k] \in Events
    BY <1>1
  <2>2. events[k].timestamp.micros \in Micros
    BY <2>1, EventsAssumption
  <2> QED
    BY <2>1, <2>2 DEF Micro, Micros
<1> QED
  BY <1>1, <1>3, <1>4

(* std::stable_sort by time, of any places that have a time.               *)
TimeOrder(P) ==
  {q \in P \X P : \/ Micro(q[1]) < Micro(q[2])
                  \/ q[1] < q[2] /\ ~(Micro(q[2]) < Micro(q[1]))}

LEMMA TimeOrderStrict ==
  ASSUME NEW P, \A k \in P : k \in Int /\ Micro(k) \in Int
  PROVE  /\ StrictOrder(P, TimeOrder(P))
         /\ \A i \in P : Ahead(P, TimeOrder(P), i) =
              {j \in P : Micro(j) < Micro(i) \/ (j < i /\ ~(Micro(i) < Micro(j)))}
<1>1. \A i, j \in P : <<i, j>> \in TimeOrder(P) <=>
                        Micro(i) < Micro(j) \/ (i < j /\ ~(Micro(j) < Micro(i)))
  BY DEF TimeOrder
<1>2. StrictOrder(P, TimeOrder(P))
  BY <1>1 DEF StrictOrder
<1> QED
  BY <1>1, <1>2 DEF Ahead

LEMMA SortedByTime ==
  ASSUME NEW P, IsFiniteSet(P), \A k \in P : k \in Int /\ Micro(k) \in Int
  PROVE  LET o == StableOrder(P, LAMBDA j, k : Micro(j) < Micro(k))
         IN  /\ Cardinality(P) \in Nat
             /\ DOMAIN o = 1 .. Cardinality(P)
             /\ \A k \in 1 .. Cardinality(P) : o[k] \in P
             /\ \A i \in P : \E k \in 1 .. Cardinality(P) : o[k] = i
             /\ \A k, l \in 1 .. Cardinality(P) :
                  /\ k <= l => Micro(o[k]) <= Micro(o[l])
                  /\ o[k] = o[l] => k = l
<1> DEFINE o == StableOrder(P, LAMBDA j, k : Micro(j) < Micro(k))
      R == TimeOrder(P)
      n == Cardinality(P)
<1>1. StrictOrder(P, R)
  BY TimeOrderStrict
<1>2. o = [k \in 1 .. n |-> CHOOSE i \in P :
               Cardinality({j \in P : Micro(j) < Micro(i) \/ (j < i /\ ~(Micro(i) < Micro(j)))}) = k - 1]
  BY DEF StableOrder
<1>3. Sorts(o, P, R)
  <2> SUFFICES ASSUME NEW k \in 1 .. n
               PROVE  o[k] \in P /\ Cardinality(Ahead(P, R, o[k])) = k - 1
    BY DEF Sorts
  <2> DEFINE Behind(i) == {j \in P : Micro(j) < Micro(i) \/ (j < i /\ ~(Micro(i) < Micro(j)))}
  <2>1. \A i \in P : Ahead(P, R, i) = Behind(i)
    BY TimeOrderStrict
  <2>2. o[k] = CHOOSE i \in P : Cardinality(Behind(i)) = k - 1
    BY <1>2
  <2> HIDE DEF R, Behind, o
  <2>3. \E i \in P : Cardinality(Ahead(P, R, i)) = k - 1
    BY <1>1, RankTaken
  <2>4. \E i \in P : Cardinality(Behind(i)) = k - 1
    BY <2>1, <2>3
  <2>5. o[k] \in P /\ Cardinality(Behind(o[k])) = k - 1
    BY <2>2, <2>4
  <2> QED
    BY <2>1, <2>5
<1>4. DOMAIN o = 1 .. n
  BY <1>2
<1> HIDE DEF o, R
<1>5. /\ n \in Nat /\ \A i \in P : \E k \in 1 .. n : o[k] = i
      /\ \A k, l \in 1 .. n : (k < l <=> <<o[k], o[l]>> \in R) /\ (o[k] = o[l] => k = l)
  BY <1>1, <1>3, Sorted
<1>6. \A k \in 1 .. n : o[k] \in P
  BY <1>3 DEF Sorts
<1>7. ASSUME NEW k \in 1 .. n, NEW l \in 1 .. n, k <= l
      PROVE  Micro(o[k]) <= Micro(o[l])
  <2>1. Micro(o[k]) \in Int /\ Micro(o[l]) \in Int
    BY <1>6
  <2>2. CASE k = l
    BY <2>1, <2>2
  <2>3. CASE k < l
    <3>1. <<o[k], o[l]>> \in R
      BY <1>5, <2>3
    <3> QED
      BY <2>1, <3>1 DEF R, TimeOrder
  <2> QED
    BY <1>5, <1>7, <2>2, <2>3
<1> QED
  BY <1>4, <1>5, <1>6, <1>7 DEF o

LEMMA GroupSorted ==
  ASSUME events \in Seq(Events), NEW key
  PROVE  /\ GroupOf(Group(key), Members(key))
         /\ Len(Group(key)) = Cardinality(Members(key))
         /\ Len(Group(key)) \in Nat /\ Len(Group(key)) <= Len(events)
<1> DEFINE P == Members(key)
      o == StableOrder(P, LAMBDA j, k : Micro(j) < Micro(k))
      n == Cardinality(P)
      g == Group(key)
<1>1. /\ IsFiniteSet(P) /\ n \in Nat /\ n <= Len(events)
      /\ \A k \in P : k \in Nat /\ Micro(k) \in Micros /\ Micro(k) \in Int
  BY MembersType
<1>2. /\ DOMAIN o = 1 .. n
      /\ \A k \in 1 .. n : o[k] \in P
      /\ \A i \in P : \E k \in 1 .. n : o[k] = i
      /\ \A k, l \in 1 .. n : /\ k <= l => Micro(o[k]) <= Micro(o[l])
                              /\ o[k] = o[l] => k = l
  <2>1. \A k \in P : k \in Int /\ Micro(k) \in Int
    BY <1>1
  <2> HIDE DEF P
  <2> QED
    BY <1>1, <2>1, SortedByTime
<1>3. g = [k \in DOMAIN o |-> [micros |-> Micro(o[k]), index |-> o[k]]]
  BY DEF Group, Members
<1> HIDE DEF o, P, g
<1>4. /\ g \in Seq(Sample1) /\ Len(g) = n
      /\ \A k \in 1 .. n : g[k].index = o[k] /\ g[k].micros = Micro(o[k])
  <2>1. \A k \in 1 .. n : [micros |-> Micro(o[k]), index |-> o[k]] \in Sample1
    BY <1>1, <1>2 DEF Sample1
  <2>2. g = [k \in 1 .. n |-> [micros |-> Micro(o[k]), index |-> o[k]]]
    BY <1>2, <1>3
  <2> HIDE DEF n
  <2> QED
    BY <1>1, <2>1, <2>2
<1>5. GroupOf(g, P)
  <2>1. \A k \in 1 .. Len(g) : g[k].index \in P /\ g[k].micros = Micro(g[k].index)
    BY <1>2, <1>4
  <2>2. \A k \in P : \E m \in 1 .. Len(g) : g[m].index = k
    BY <1>2, <1>4
  <2>3. \A k, l \in 1 .. Len(g) : /\ k <= l => g[k].micros <= g[l].micros
                                  /\ g[k].index = g[l].index => k = l
    BY <1>2, <1>4
  <2> QED
    BY <1>4, <2>1, <2>2, <2>3 DEF GroupOf
<1> QED
  BY <1>1, <1>4, <1>5 DEF g, P

----------------------------------------------------------------------------
(* What a 64-bit number holds is left as it is.                            *)
LEMMA WrapFits ==
  ASSUME NEW x \in 0 .. MaxMicros
  PROVE  Wrap(x) = x
<1> DEFINE b == 2 * (MaxMicros + 1)
      y == x + MaxMicros + 1
<1>1. y \in Nat /\ b \in Nat \ {0} /\ y < b
  BY MicrosAssumption
<1> HIDE DEF b, y
<1>2. y % b = y
  BY <1>1
<1> QED
  BY <1>2, MicrosAssumption DEF Wrap, b, y

LEMMA GapType == GapMicros \in Nat
BY WindowMicrosType, CorrelateAssumption DEF GapMicros

(* Idle time passes: a sample that comes after an idle gap is later than   *)
(* the one before it.                                                      *)
LEMMA IdleIsLater ==
  ASSUME NEW g \in Seq(Sample1), \A m, n \in 1 .. Len(g) : m <= n => g[m].micros <= g[n].micros,
         NEW i \in 2 .. Len(g), Idle(g, i)
  PROVE  g[i - 1].micros < g[i].micros
<1>1. g[i] \in Sample1 /\ g[i - 1] \in Sample1 /\ i - 1 \in 1 .. Len(g) /\ i \in 1 .. Len(g)
  OBVIOUS
<1>2. g[i].micros \in Int /\ g[i - 1].micros \in Int /\ g[i - 1].micros <= g[i].micros
  <2>1. g[i].micros \in Micros /\ g[i - 1].micros \in Micros
    BY <1>1 DEF Sample1
  <2>2. i - 1 <= i
    OBVIOUS
  <2> QED
    BY <1>1, <2>1, <2>2, MicrosAssumption DEF Micros
<1>3. g[i].micros = g[i - 1].micros => ~Idle(g, i)
  <2> SUFFICES ASSUME g[i].micros = g[i - 1].micros PROVE ~Idle(g, i)
    OBVIOUS
  <2>1. g[i].micros - g[i - 1].micros = 0 /\ 0 \in 0 .. MaxMicros
    BY <1>2, MicrosAssumption
  <2>2. Wrap(g[i].micros - g[i - 1].micros) = 0
    BY <2>1, WrapFits
  <2> QED
    BY <2>2, GapType DEF Idle
<1> QED
  BY <1>2, <1>3

(* Two whole pieces of one group are one and the same or apart.            *)
LEMMA PieceEnds ==
  ASSUME NEW g, Len(g) \in Nat, NEW a, NEW b, NEW d, Whole(g, a, b), Whole(g, a, d)
  PROVE  b = d
<1>1. a \in Int /\ b \in Int /\ d \in Int
  BY DEF Whole, IsPiece
<1>2. ASSUME NEW x \in Int, NEW y \in Int, x < y, Whole(g, a, x), Whole(g, a, y)
      PROVE  FALSE
  <2>1. x + 1 \in a + 1 .. y /\ x # Len(g)
    BY <1>1, <1>2 DEF Whole, IsPiece
  <2> QED
    BY <1>2, <2>1 DEF Whole, IsPiece
<1>3. ~(b < d) /\ ~(d < b)
  BY <1>1, <1>2
<1> QED
  BY <1>1, <1>3

LEMMA PiecesApart ==
  ASSUME NEW g, Len(g) \in Nat, NEW a, NEW b, NEW c, NEW d, Whole(g, a, b), Whole(g, c, d),
         a < c
  PROVE  b < c
<1>1. a \in Int /\ b \in Int /\ c \in Int /\ 1 <= a
  BY DEF Whole, IsPiece
<1>2. ASSUME c <= b
      PROVE  FALSE
  <2>1. c \in a + 1 .. b /\ c # 1
    BY <1>1, <1>2
  <2> QED
    BY <2>1 DEF Whole, IsPiece
<1> QED
  BY <1>1, <1>2

----------------------------------------------------------------------------
Session == [key : Nat, start : Micros, end : Micros, events : Seq(Nat)]

Found(s) ==
  \E a, b \in 1 .. Len(Group(s.key)) :
    Whole(Group(s.key), a, b) /\ s = Piece(s.key, Group(s.key), a, b)

(* The sessions kept, ss, are each a whole piece of the group of one of    *)
(* the keys, and none is kept twice.                                       *)
AllFound(ss, keys) ==
  /\ ss \in Seq(Session) /\ Len(ss) <= MaxSessions
  /\ \A m \in 1 .. Len(ss) : ss[m].key \in keys /\ Found(ss[m])
  /\ \A m, n \in 1 .. Len(ss) : ss[m] = ss[n] => m = n

HeldIn(ss, k) ==
  \E m \in 1 .. Len(ss) : \E n \in DOMAIN ss[m].events : ss[m].events[n] = k

Full(ss) == Len(ss) = MaxSessions

(* The groups of the keys are all in ss, unless there was no room.         *)
NoneMissing(ss, keys) ==
  Full(ss) \/ \A key \in keys : \A k \in Members(key) : HeldIn(ss, k)

(* What has been kept of the first b samples of a group.                   *)
KeptUpTo(ss, key, b) ==
  /\ \A m \in 1 .. Len(ss) : ss[m].key = key =>
       \E i, j \in 1 .. b : ss[m] = Piece(key, Group(key), i, j)
  /\ Full(ss) \/ \A n \in 1 .. b : HeldIn(ss, Group(key)[n].index)

(* The open session c is the piece a .. at of a group, and the samples     *)
(* that are left are the rest of it.                                       *)
OpenFrom(c, rest, key, a, at) ==
  /\ rest \in Seq(Sample1) /\ Len(rest) = Len(Group(key)) - at
  /\ \A i \in 1 .. Len(rest) : rest[i] = Group(key)[at + i]
  /\ IsPiece(Group(key), a, at) /\ c = Piece(key, Group(key), a, at)

(* The loop over the groups, at any of its steps.                          *)
LoopInv(ss, w, rest, c) ==
  /\ w \subseteq TrackedKeys
  /\ AllFound(ss, TrackedKeys \ w)
  /\ NoneMissing(ss, TrackedKeys \ (w \cup {c.key}))
  /\ IF c = NoSession THEN rest = <<>>
     ELSE \E key \in TrackedKeys \ w, a \in Nat, at \in Nat :
            OpenFrom(c, rest, key, a, at) /\ KeptUpTo(ss, key, a - 1)

SessionInv ==
  /\ events \in Seq(Events)
  /\ pc \in {"ingest", "timeline", "sessions", "statistics", "done"}
  /\ pc \notin {"sessions", "done"} =>
       sessions = <<>> /\ cur = NoSession /\ waiting = {} /\ samples = <<>>
  /\ pc \in {"sessions", "done"} => LoopInv(sessions, waiting, samples, cur)
  /\ pc = "done" => waiting = {} /\ cur = NoSession
  /\ SessionsOrdered

(* What a key with a group is, and what its group is.                      *)
LEMMA TrackedType ==
  ASSUME events \in Seq(Events), NEW key \in TrackedKeys
  PROVE  /\ key \in Nat /\ key # 0
         /\ GroupOf(Group(key), Members(key))
         /\ Group(key) \in Seq(Sample1) /\ Len(Group(key)) \in Nat \ {0}
         /\ Len(Group(key)) <= Len(events)
<1>1. PICK k \in DOMAIN events : TakesPart(k) /\ events[k].key = key
  BY DEF TrackedKeys
<1>2. events[k] \in Events
  BY <1>1
<1>3. key \in Nat /\ key # 0 /\ k \in Members(key)
  BY <1>1, <1>2, EventsAssumption DEF TakesPart, Members
<1>4. GroupOf(Group(key), Members(key)) /\ Len(Group(key)) <= Len(events) /\ Len(Group(key)) \in Nat
  BY GroupSorted
<1>5. \E n \in 1 .. Len(Group(key)) : Group(key)[n].index = k
  BY <1>3, <1>4 DEF GroupOf
<1>6. Len(Group(key)) # 0
  BY <1>5
<1>7. Group(key) \in Seq(Sample1)
  BY <1>4 DEF GroupOf, Sample1
<1> QED
  BY <1>3, <1>4, <1>6, <1>7

(* A piece is a session.                                                   *)
LEMMA PieceType ==
  ASSUME NEW g \in Seq(Sample1), NEW key \in Nat, NEW a, NEW b, IsPiece(g, a, b)
  PROVE  /\ Piece(key, g, a, b) \in Session
         /\ Piece(key, g, a, b) # NoSession
         /\ Len(Piece(key, g, a, b).events) = b - a + 1
<1>1. /\ a \in 1 .. Len(g) /\ b \in 1 .. Len(g) /\ Len(g) \in Nat
      /\ b - a + 1 \in Nat /\ 1 <= b - a + 1
  BY DEF IsPiece
<1>2. ASSUME NEW i \in 1 .. b - a + 1
      PROVE  g[a + i - 1].index \in Nat
  <2>1. a + i - 1 \in 1 .. Len(g)
    BY <1>1
  <2>2. g[a + i - 1] \in Sample1
    BY <2>1
  <2> QED
    BY <2>2 DEF Sample1
<1> DEFINE es == [i \in 1 .. b - a + 1 |-> g[a + i - 1].index]
<1>3. es \in Seq(Nat) /\ Len(es) = b - a + 1 /\ es # <<>>
  <2>1. PICK n \in Nat : n = b - a + 1 /\ 1 <= n
    BY <1>1
  <2>2. es = [i \in 1 .. n |-> g[a + i - 1].index]
    BY <2>1
  <2> HIDE DEF es
  <2>3. es \in Seq(Nat) /\ Len(es) = n
    BY <1>2, <2>1, <2>2
  <2> QED
    BY <2>1, <2>3
<1>4. g[a].micros \in Micros /\ g[b].micros \in Micros
  <2>1. g[a] \in Sample1 /\ g[b] \in Sample1
    BY <1>1
  <2> QED
    BY <2>1 DEF Sample1
<1>5. Piece(key, g, a, b) = [key |-> key, start |-> g[a].micros, end |-> g[b].micros, events |-> es]
  BY DEF Piece
<1> HIDE DEF es
<1> QED
  BY <1>3, <1>4, <1>5 DEF Session, NoSession

----------------------------------------------------------------------------
(* The open session is whole when the samples end or the next one comes    *)
(* after an idle gap. What keeping it does.                                *)
Keeping(ss, c) == IF Len(ss) < MaxSessions THEN Append(ss, c) ELSE ss

LEMMA KeepingIsSound ==
  ASSUME events \in Seq(Events), NEW ss, NEW keys, NEW key \in keys, keys \subseteq TrackedKeys,
         NEW a, NEW b, NEW c,
         AllFound(ss, keys), KeptUpTo(ss, key, a - 1),
         Whole(Group(key), a, b), c = Piece(key, Group(key), a, b)
  PROVE  /\ AllFound(Keeping(ss, c), keys)
         /\ KeptUpTo(Keeping(ss, c), key, b)
         /\ \A k : HeldIn(ss, k) => HeldIn(Keeping(ss, c), k)
         /\ Full(ss) => Full(Keeping(ss, c))
<1> DEFINE g == Group(key)
      kept == Keeping(ss, c)
<1>1. /\ g \in Seq(Sample1) /\ Len(g) \in Nat /\ GroupOf(g, Members(key)) /\ key \in Nat
  BY TrackedType
<1>0. Whole(g, a, b) /\ c = Piece(key, g, a, b)
  OBVIOUS
<1> HIDE DEF g
<1>2. /\ a \in 1 .. Len(g) /\ b \in 1 .. Len(g) /\ a <= b
      /\ a \in Int /\ b \in Int /\ 1 <= a /\ b <= Len(g) /\ IsPiece(g, a, b)
  <2>1. IsPiece(g, a, b)
    BY <1>0 DEF Whole
  <2> QED
    BY <1>1, <2>1 DEF IsPiece
<1>3. c \in Session
  <2>1. Piece(key, g, a, b) \in Session
    BY <1>1, <1>2, PieceType
  <2> QED
    BY <1>0, <2>1
<1>4. /\ c.events = [i \in 1 .. b - a + 1 |-> g[a + i - 1].index]
      /\ c.key = key
  BY <1>0 DEF Piece
<1>5. Found(c)
  BY <1>0, <1>2, <1>4 DEF Found, g
<1>6. ss \in Seq(Session) /\ Len(ss) \in Nat /\ Len(ss) <= MaxSessions /\ MaxSessions \in Nat
  BY CorrelateAssumption DEF AllFound
<1>7. ASSUME NEW m \in 1 .. Len(ss), ss[m].key = key
      PROVE  /\ \E i, j \in 1 .. b : ss[m] = Piece(key, g, i, j)
             /\ ss[m] # c
  <2>1. PICK i \in 1 .. a - 1, j \in 1 .. a - 1 : ss[m] = Piece(key, g, i, j)
    BY <1>7 DEF KeptUpTo, g
  <2>2. i \in 1 .. b /\ j \in 1 .. b /\ i \in 1 .. Len(g) /\ i # a
    BY <1>2, <2>1
  <2>3. ASSUME ss[m] = c
        PROVE  FALSE
    <3> DEFINE es == [n \in 1 .. b - a + 1 |-> g[a + n - 1].index]
          fs == [n \in 1 .. j - i + 1 |-> g[i + n - 1].index]
    <3>1. ss[m].events = fs
      BY <2>1 DEF Piece
    <3>2. fs = es
      BY <1>4, <2>3, <3>1
    <3>3. 1 \in 1 .. b - a + 1 /\ i + 1 - 1 = i /\ a + 1 - 1 = a
      BY <1>2, <2>1
    <3>4. es[1] = g[a].index /\ 1 \in DOMAIN es
      BY <3>3
    <3>5. 1 \in DOMAIN fs => fs[1] = g[i].index
      BY <3>3
    <3> HIDE DEF es, fs
    <3>6. g[i].index = g[a].index
      BY <3>2, <3>4, <3>5
    <3> QED
      BY <1>1, <1>2, <2>2, <3>6 DEF GroupOf
  <2> QED
    BY <2>1, <2>2, <2>3
<1>8. ASSUME NEW n \in 1 .. b, n >= a
      PROVE  c.events[n - a + 1] = g[n].index /\ n - a + 1 \in DOMAIN c.events
  <2>1. n - a + 1 \in 1 .. b - a + 1 /\ a + (n - a + 1) - 1 = n
    BY <1>2, <1>8
  <2> QED
    BY <1>4, <2>1
<1>9. Full(ss) \/ \A n \in 1 .. a - 1 : HeldIn(ss, g[n].index)
  BY DEF KeptUpTo, g
<1>10. CASE Len(ss) < MaxSessions
  <2>1. kept = Append(ss, c)
    BY <1>10 DEF Keeping
  <2> HIDE DEF kept
  <2>2. /\ kept \in Seq(Session) /\ Len(kept) = Len(ss) + 1
        /\ \A m \in 1 .. Len(ss) : kept[m] = ss[m]
        /\ kept[Len(ss) + 1] = c
    BY <1>3, <1>6, <2>1
  <2>3. \A m \in 1 .. Len(kept) : m \in 1 .. Len(ss) \/ m = Len(ss) + 1
    BY <1>6, <2>2
  <2>4. \A m \in 1 .. Len(ss) : m \in 1 .. Len(kept) /\ m # Len(ss) + 1
    BY <1>6, <2>2
  <2>5. AllFound(kept, keys)
    <3>1. \A m \in 1 .. Len(kept) : kept[m].key \in keys /\ Found(kept[m])
      BY <1>4, <1>5, <2>2, <2>3 DEF AllFound
    <3>2. \A m \in 1 .. Len(ss) : ss[m] # c
      BY <1>4, <1>7
    <3>3. \A m, n \in 1 .. Len(ss) : ss[m] = ss[n] => m = n
      BY DEF AllFound
    <3>4. \A m, n \in 1 .. Len(kept) : kept[m] = kept[n] => m = n
      BY <2>2, <2>3, <3>2, <3>3
    <3>5. Len(kept) <= MaxSessions
      BY <1>6, <1>10, <2>2
    <3> QED
      BY <2>2, <3>1, <3>4, <3>5 DEF AllFound
  <2>6. \A k : HeldIn(ss, k) => HeldIn(kept, k)
    BY <2>2, <2>4 DEF HeldIn
  <2>7. Len(ss) + 1 \in 1 .. Len(kept)
    BY <1>6, <2>2
  <2>8. \A n \in DOMAIN c.events : HeldIn(kept, c.events[n])
    BY <2>2, <2>7 DEF HeldIn
  <2>9. ~Full(ss)
    BY <1>6, <1>10 DEF Full
  <2>10. \A n \in 1 .. b : HeldIn(kept, g[n].index)
    <3> TAKE n \in 1 .. b
    <3>1. CASE n >= a
      BY <1>8, <2>8, <3>1
    <3>2. CASE n < a
      <4>1. n \in 1 .. a - 1
        BY <1>2, <3>2
      <4> QED
        BY <1>9, <2>6, <2>9, <4>1
    <3> QED
      BY <1>2, <3>1, <3>2
  <2>11. ASSUME NEW m \in 1 .. Len(kept), kept[m].key = key
         PROVE  \E i, j \in 1 .. b : kept[m] = Piece(key, g, i, j)
    <3>1. CASE m \in 1 .. Len(ss)
      BY <1>7, <2>2, <2>11, <3>1
    <3>2. CASE m = Len(ss) + 1
      <4>1. kept[m] = Piece(key, g, a, b) /\ a \in 1 .. b /\ b \in 1 .. b
        BY <1>0, <1>2, <2>2, <3>2
      <4> QED
        BY <4>1
    <3> QED
      BY <2>3, <3>1, <3>2
  <2>12. KeptUpTo(kept, key, b)
    BY <2>10, <2>11 DEF KeptUpTo, g
  <2> QED
    BY <2>5, <2>6, <2>9, <2>12 DEF kept
<1>11. CASE ~(Len(ss) < MaxSessions)
  <2>1. kept = ss /\ Full(ss)
    BY <1>6, <1>11 DEF Full, Keeping
  <2> HIDE DEF kept
  <2>2. KeptUpTo(ss, key, b)
    BY <1>7, <2>1 DEF KeptUpTo, g
  <2> QED
    BY <2>1, <2>2 DEF kept
<1> QED
  BY <1>10, <1>11

----------------------------------------------------------------------------
(* The steps of the loop. The samples of an open session: where the next   *)
(* one stands and whether it comes after an idle gap.                      *)
IdleBefore(c, s) ==
  LET delta == Wrap(s.micros - c.end)
  IN  (IF delta < 0 THEN 0 ELSE delta) > GapMicros

LEMMA OpenType ==
  ASSUME events \in Seq(Events), NEW c, NEW rest, NEW a, NEW at,
         NEW key \in TrackedKeys, OpenFrom(c, rest, key, a, at),
         NEW g, g = Group(key)
  PROVE  /\ g \in Seq(Sample1) /\ Len(g) \in Nat /\ key \in Nat
         /\ a \in 1 .. Len(g) /\ at \in 1 .. Len(g) /\ a <= at /\ a \in Int /\ at \in Int
         /\ IsPiece(g, a, at) /\ c = Piece(key, g, a, at) /\ c.key = key
         /\ rest = <<>> => at = Len(g)
<1>1. g \in Seq(Sample1) /\ Len(g) \in Nat /\ key \in Nat
  BY TrackedType
<1>2. /\ rest \in Seq(Sample1) /\ Len(rest) = Len(g) - at
      /\ IsPiece(g, a, at) /\ c = Piece(key, g, a, at)
  BY DEF OpenFrom
<1>3. a \in 1 .. Len(g) /\ at \in 1 .. Len(g) /\ a <= at /\ a \in Int /\ at \in Int
  BY <1>1, <1>2 DEF IsPiece
<1>4. c.key = key
  BY <1>2 DEF Piece
<1>5. rest = <<>> => at = Len(g)
  BY <1>1, <1>2, <1>3
<1> QED
  BY <1>1, <1>2, <1>3, <1>4, <1>5

LEMMA NextSample ==
  ASSUME events \in Seq(Events), NEW c, NEW rest, NEW a, NEW at,
         NEW key \in TrackedKeys, OpenFrom(c, rest, key, a, at),
         NEW g, g = Group(key), rest # <<>>
  PROVE  /\ at + 1 \in 2 .. Len(g) /\ at + 1 \in 1 .. Len(g) /\ Head(rest) = g[at + 1]
         /\ Tail(rest) \in Seq(Sample1) /\ Len(Tail(rest)) = Len(g) - (at + 1)
         /\ \A i \in 1 .. Len(Tail(rest)) : Tail(rest)[i] = g[at + 1 + i]
         /\ IdleBefore(c, Head(rest)) <=> Idle(g, at + 1)
<1>1. /\ Len(g) \in Nat /\ at \in 1 .. Len(g) /\ at \in Int
  BY OpenType
<1>2. /\ rest \in Seq(Sample1) /\ Len(rest) = Len(g) - at
      /\ \A i \in 1 .. Len(rest) : rest[i] = g[at + i]
      /\ c = Piece(key, g, a, at)
  BY DEF OpenFrom
<1>3. c.end = g[at].micros
  BY <1>2 DEF Piece
<1>4. /\ Len(rest) >= 1 /\ Tail(rest) \in Seq(Sample1) /\ Len(Tail(rest)) = Len(rest) - 1
      /\ Head(rest) = rest[1] /\ \A i \in 1 .. Len(rest) - 1 : Tail(rest)[i] = rest[i + 1]
  BY <1>2
<1>5. /\ at + 1 \in 2 .. Len(g) /\ at + 1 \in 1 .. Len(g) /\ Head(rest) = g[at + 1]
      /\ Len(rest) \in Nat
  BY <1>1, <1>2, <1>4
<1>6. \A i \in 1 .. Len(rest) - 1 : i + 1 \in 1 .. Len(rest) /\ at + (i + 1) = at + 1 + i
  BY <1>1, <1>5
<1>7. Len(Tail(rest)) = Len(g) - (at + 1)
  BY <1>1, <1>2, <1>4
<1>8. \A i \in 1 .. Len(Tail(rest)) : Tail(rest)[i] = g[at + 1 + i]
  BY <1>2, <1>4, <1>6
<1>9. IdleBefore(c, Head(rest)) <=> Idle(g, at + 1)
  <2> DEFINE x == Head(rest).micros - c.end
        y == g[at + 1].micros - g[(at + 1) - 1].micros
  <2>1. (at + 1) - 1 = at
    BY <1>1
  <2>2. x = y
    BY <1>3, <1>5, <2>1
  <2>3. IdleBefore(c, Head(rest)) <=> (IF Wrap(x) < 0 THEN 0 ELSE Wrap(x)) > GapMicros
    BY DEF IdleBefore
  <2>4. Idle(g, at + 1) <=> (IF Wrap(y) < 0 THEN 0 ELSE Wrap(y)) > GapMicros
    BY DEF Idle
  <2> HIDE DEF x, y
  <2> QED
    BY <2>2, <2>3, <2>4
<1> QED
  BY <1>4, <1>5, <1>7, <1>8, <1>9

(* A piece of one sample, and a piece that is given one more.              *)
LEMMA OneSample ==
  ASSUME NEW g \in Seq(Sample1), NEW key, NEW a \in 1 .. Len(g)
  PROVE  Opened(key, g[a]) = Piece(key, g, a, a)
<1>1. a - a + 1 = 1 /\ a + 1 - 1 = a
  OBVIOUS
<1>2. [i \in 1 .. a - a + 1 |-> g[a + i - 1].index] = <<g[a].index>>
  <2>1. \A i \in 1 .. 1 : a + i - 1 = a
    OBVIOUS
  <2>2. [i \in 1 .. a - a + 1 |-> g[a + i - 1].index] = [i \in 1 .. 1 |-> g[a].index]
    BY <1>1, <2>1
  <2> QED
    BY <2>2
<1> QED
  BY <1>2 DEF Opened, Piece

LEMMA OneMoreSample ==
  ASSUME NEW g \in Seq(Sample1), NEW key, NEW a, NEW b, IsPiece(g, a, b),
         b + 1 \in 1 .. Len(g), NEW c, c = Piece(key, g, a, b)
  PROVE  Extended(c, g[b + 1]) = Piece(key, g, a, b + 1)
<1> DEFINE es == [i \in 1 .. b - a + 1 |-> g[a + i - 1].index]
      fs == [i \in 1 .. (b + 1) - a + 1 |-> g[a + i - 1].index]
      x == g[b + 1].index
<1>1. a \in 1 .. Len(g) /\ b \in 1 .. Len(g) /\ a <= b /\ a \in Int /\ b \in Int
  BY DEF IsPiece
<1>2. PICK n \in Nat : n = b - a + 1 /\ n + 1 = (b + 1) - a + 1 /\ a + (n + 1) - 1 = b + 1
  <2>1. b - a + 1 \in Nat /\ (b - a + 1) + 1 = (b + 1) - a + 1 /\ a + ((b - a + 1) + 1) - 1 = b + 1
    BY <1>1
  <2> QED
    BY <2>1
<1>3. \A i \in 1 .. n : g[a + i - 1].index \in Nat
  <2> TAKE i \in 1 .. n
  <2>1. a + i - 1 \in 1 .. Len(g)
    BY <1>1, <1>2
  <2>2. g[a + i - 1] \in Sample1
    BY <2>1
  <2> QED
    BY <2>2 DEF Sample1
<1>4. es = [i \in 1 .. n |-> g[a + i - 1].index] /\ fs = [i \in 1 .. n + 1 |-> g[a + i - 1].index]
  BY <1>2
<1>5. fs[n + 1] = x
  BY <1>2, <1>4
<1>6. c = [key |-> key, start |-> g[a].micros, end |-> g[b].micros, events |-> es]
  BY DEF Piece
<1>7. Piece(key, g, a, b + 1) = [key |-> key, start |-> g[a].micros, end |-> g[b + 1].micros, events |-> fs]
  BY DEF Piece
<1> HIDE DEF es, fs, x
<1>8. es \in Seq(Nat) /\ Len(es) = n
  BY <1>3, <1>4, SMTT(15)
<1>9. x \in Nat
  <2>1. g[b + 1] \in Sample1
    OBVIOUS
  <2> QED
    BY <2>1 DEF Sample1, x
<1>10. Append(es, x) = fs
  <2>1. \A i \in 1 .. n + 1 : i \in 1 .. n \/ i = n + 1
    OBVIOUS
  <2>2. \A i \in 1 .. n : es[i] = fs[i]
    BY <1>4
  <2>3. /\ Append(es, x) \in Seq(Nat) /\ Len(Append(es, x)) = n + 1
        /\ \A i \in 1 .. n : Append(es, x)[i] = es[i]
        /\ Append(es, x)[n + 1] = x
    BY <1>8, <1>9
  <2>4. \A i \in 1 .. n + 1 : Append(es, x)[i] = fs[i]
    BY <1>5, <2>1, <2>2, <2>3
  <2>5. fs \in Seq(Nat) /\ Len(fs) = n + 1
    <3>1. \A i \in 1 .. n + 1 : fs[i] \in Nat
      BY <1>5, <1>8, <1>9, <2>1, <2>2, SMTT(20)
    <3>2. fs = [i \in 1 .. n + 1 |-> fs[i]]
      BY <1>4
    <3> QED
      BY <3>1, <3>2, SMTT(20)
  <2> QED
    BY <2>3, <2>4, <2>5, SeqEqual
<1>11. Extended(c, g[b + 1]) = [key |-> c.key, start |-> c.start, end |-> g[b + 1].micros,
                               events |-> Append(c.events, x)]
  BY DEF Extended, x
<1>12. c.key = key /\ c.start = g[a].micros /\ c.events = es
  BY <1>6
<1> QED
  BY <1>7, <1>10, <1>11, <1>12

(* Opening a group starts its first session.                               *)
LEMMA OpeningSteps ==
  ASSUME events \in Seq(Events), NEW ss, NEW w, LoopInv(ss, w, <<>>, NoSession),
         NEW key \in w
  PROVE  LoopInv(ss, w \ {key}, Tail(Group(key)), Opened(key, Group(key)[1]))
<1> DEFINE c == Opened(key, Group(key)[1])
      rest == Tail(Group(key))
<1>1. PICK g : g = Group(key)
  OBVIOUS
<1>2. key \in TrackedKeys /\ w \subseteq TrackedKeys
  BY DEF LoopInv
<1>3. g \in Seq(Sample1) /\ Len(g) \in Nat \ {0} /\ key \in Nat /\ key # 0
  BY <1>1, <1>2, TrackedType
<1>4. /\ rest \in Seq(Sample1) /\ Len(rest) = Len(g) - 1
      /\ \A i \in 1 .. Len(rest) : rest[i] = g[1 + i]
  <2>1. g # <<>> /\ rest = Tail(g)
    BY <1>1, <1>3
  <2> HIDE DEF rest
  <2> QED
    BY <1>3, <2>1
<1>5. IsPiece(g, 1, 1) /\ 1 \in 1 .. Len(g)
  BY <1>3 DEF IsPiece
<1>6. c = Piece(key, g, 1, 1)
  BY <1>1, <1>3, <1>5, OneSample
<1> HIDE DEF c, rest
<1>7. c # NoSession /\ c.key = key
  <2>1. c.key = key
    BY <1>6 DEF Piece
  <2> QED
    BY <1>3, <1>5, <1>6, <2>1, PieceType
<1>8. OpenFrom(c, rest, key, 1, 1)
  BY <1>1, <1>4, <1>5, <1>6 DEF OpenFrom
<1>9. KeptUpTo(ss, key, 1 - 1)
  <2>1. 1 .. 1 - 1 = {}
    OBVIOUS
  <2>2. \A m \in 1 .. Len(ss) : ss[m].key # key
    BY DEF LoopInv, AllFound
  <2> QED
    BY <2>1, <2>2 DEF KeptUpTo
<1>10. AllFound(ss, TrackedKeys \ (w \ {key}))
  BY DEF LoopInv, AllFound
<1>11. NoneMissing(ss, TrackedKeys \ ((w \ {key}) \cup {key}))
  <2>1. \A k \in TrackedKeys \ ((w \ {key}) \cup {key}) : k \in TrackedKeys \ (w \cup {NoSession.key})
    <3> TAKE k \in TrackedKeys \ ((w \ {key}) \cup {key})
    <3>1. k # 0
      BY TrackedType
    <3>2. NoSession.key = 0
      BY DEF NoSession
    <3> QED
      BY <3>1, <3>2
  <2>2. NoneMissing(ss, TrackedKeys \ (w \cup {NoSession.key}))
    BY DEF LoopInv
  <2> QED
    BY <2>1, <2>2 DEF NoneMissing
<1>12. key \in TrackedKeys \ (w \ {key}) /\ w \ {key} \subseteq TrackedKeys
  BY <1>2
<1>13. LoopInv(ss, w \ {key}, rest, c)
  BY <1>1, <1>5, <1>7, <1>8, <1>9, <1>10, <1>11, <1>12 DEF LoopInv
<1> QED
  BY <1>13 DEF c, rest

(* A sample that comes soon enough belongs to the open session.            *)
LEMMA ExtendingSteps ==
  ASSUME events \in Seq(Events), NEW ss, NEW w, NEW rest, NEW c, LoopInv(ss, w, rest, c),
         rest # <<>>, ~IdleBefore(c, Head(rest))
  PROVE  LoopInv(ss, w, Tail(rest), Extended(c, Head(rest)))
<1> DEFINE d == Extended(c, Head(rest))
<1>1. /\ c # NoSession /\ AllFound(ss, TrackedKeys \ w) /\ w \subseteq TrackedKeys
      /\ NoneMissing(ss, TrackedKeys \ (w \cup {c.key}))
  BY DEF LoopInv
<1>2. PICK key \in TrackedKeys \ w, a \in Nat, at \in Nat :
        OpenFrom(c, rest, key, a, at) /\ KeptUpTo(ss, key, a - 1)
  BY <1>1 DEF LoopInv
<1>3. PICK g : g = Group(key)
  OBVIOUS
<1>4. /\ g \in Seq(Sample1) /\ Len(g) \in Nat /\ key \in Nat
      /\ a \in 1 .. Len(g) /\ at \in 1 .. Len(g) /\ a <= at /\ a \in Int /\ at \in Int
      /\ IsPiece(g, a, at) /\ c = Piece(key, g, a, at) /\ c.key = key
      /\ at + 1 \in 2 .. Len(g) /\ at + 1 \in 1 .. Len(g) /\ Head(rest) = g[at + 1]
      /\ Tail(rest) \in Seq(Sample1) /\ Len(Tail(rest)) = Len(g) - (at + 1)
      /\ \A i \in 1 .. Len(Tail(rest)) : Tail(rest)[i] = g[at + 1 + i]
      /\ ~Idle(g, at + 1)
  <2>1. key \in TrackedKeys /\ OpenFrom(c, rest, key, a, at)
    BY <1>2
  <2>2. /\ g \in Seq(Sample1) /\ Len(g) \in Nat /\ key \in Nat
        /\ a \in 1 .. Len(g) /\ at \in 1 .. Len(g) /\ a <= at /\ a \in Int /\ at \in Int
        /\ IsPiece(g, a, at) /\ c = Piece(key, g, a, at) /\ c.key = key
    BY <1>3, <2>1, OpenType
  <2>3. /\ at + 1 \in 2 .. Len(g) /\ at + 1 \in 1 .. Len(g) /\ Head(rest) = g[at + 1]
        /\ Tail(rest) \in Seq(Sample1) /\ Len(Tail(rest)) = Len(g) - (at + 1)
        /\ \A i \in 1 .. Len(Tail(rest)) : Tail(rest)[i] = g[at + 1 + i]
        /\ IdleBefore(c, Head(rest)) <=> Idle(g, at + 1)
    BY <1>3, <2>1, NextSample
  <2> QED
    BY <1>3, <2>1, <2>2, <2>3
<1>5. IsPiece(g, a, at + 1)
  BY <1>4, SMTT(20) DEF IsPiece
<1>6. d = Piece(key, g, a, at + 1)
  <2>1. g \in Seq(Sample1) /\ IsPiece(g, a, at) /\ at + 1 \in 1 .. Len(g) /\ c = Piece(key, g, a, at)
    BY <1>4
  <2>2. Extended(c, g[at + 1]) = Piece(key, g, a, at + 1)
    BY <2>1, OneMoreSample, ZenonT(30)
  <2> QED
    BY <1>4, <2>2
<1> HIDE DEF d
<1>7. d # NoSession /\ d.key = key
  <2>1. d.key = key
    BY <1>6 DEF Piece
  <2> QED
    BY <1>4, <1>5, <1>6, <2>1, PieceType
<1>8. OpenFrom(d, Tail(rest), key, a, at + 1)
  BY <1>3, <1>4, <1>5, <1>6 DEF OpenFrom
<1>9. LoopInv(ss, w, Tail(rest), d)
  BY <1>1, <1>2, <1>3, <1>4, <1>7, <1>8 DEF LoopInv
<1> QED
  BY <1>9 DEF d

(* A sample that comes after an idle gap begins a session of its own, and  *)
(* the open one is kept while there is room.                               *)
LEMMA SplittingSteps ==
  ASSUME events \in Seq(Events), NEW ss, NEW w, NEW rest, NEW c, LoopInv(ss, w, rest, c),
         rest # <<>>, IdleBefore(c, Head(rest))
  PROVE  LoopInv(Keeping(ss, c), w, Tail(rest), Opened(c.key, Head(rest)))
<1> DEFINE d == Opened(c.key, Head(rest))
      kept == Keeping(ss, c)
<1>1. /\ c # NoSession /\ AllFound(ss, TrackedKeys \ w) /\ w \subseteq TrackedKeys
      /\ NoneMissing(ss, TrackedKeys \ (w \cup {c.key}))
  BY DEF LoopInv
<1>2. PICK key \in TrackedKeys \ w, a \in Nat, at \in Nat :
        OpenFrom(c, rest, key, a, at) /\ KeptUpTo(ss, key, a - 1)
  BY <1>1 DEF LoopInv
<1>3. PICK g : g = Group(key)
  OBVIOUS
<1>4. /\ g \in Seq(Sample1) /\ Len(g) \in Nat /\ key \in Nat
      /\ at \in 1 .. Len(g) /\ at \in Int
      /\ IsPiece(g, a, at) /\ c = Piece(key, g, a, at) /\ c.key = key
      /\ at + 1 \in 2 .. Len(g) /\ at + 1 \in 1 .. Len(g) /\ Head(rest) = g[at + 1]
      /\ Tail(rest) \in Seq(Sample1) /\ Len(Tail(rest)) = Len(g) - (at + 1)
      /\ \A i \in 1 .. Len(Tail(rest)) : Tail(rest)[i] = g[at + 1 + i]
      /\ Idle(g, at + 1)
  <2>1. key \in TrackedKeys /\ OpenFrom(c, rest, key, a, at)
    BY <1>2
  <2>2. /\ g \in Seq(Sample1) /\ Len(g) \in Nat /\ key \in Nat
        /\ a \in 1 .. Len(g) /\ at \in 1 .. Len(g) /\ a <= at /\ a \in Int /\ at \in Int
        /\ IsPiece(g, a, at) /\ c = Piece(key, g, a, at) /\ c.key = key
    BY <1>3, <2>1, OpenType
  <2>3. /\ at + 1 \in 2 .. Len(g) /\ at + 1 \in 1 .. Len(g) /\ Head(rest) = g[at + 1]
        /\ Tail(rest) \in Seq(Sample1) /\ Len(Tail(rest)) = Len(g) - (at + 1)
        /\ \A i \in 1 .. Len(Tail(rest)) : Tail(rest)[i] = g[at + 1 + i]
        /\ IdleBefore(c, Head(rest)) <=> Idle(g, at + 1)
    BY <1>3, <2>1, NextSample
  <2> QED
    BY <1>3, <2>1, <2>2, <2>3
<1>5. Whole(g, a, at)
  BY <1>4 DEF Whole
<1>6. /\ AllFound(kept, TrackedKeys \ w) /\ KeptUpTo(kept, key, at)
      /\ \A k : HeldIn(ss, k) => HeldIn(kept, k)
      /\ Full(ss) => Full(kept)
  <2> DEFINE keys == TrackedKeys \ w
  <2>1. keys \subseteq TrackedKeys /\ key \in keys /\ AllFound(ss, keys)
    BY <1>1
  <2> HIDE DEF keys
  <2>2. /\ AllFound(kept, keys) /\ KeptUpTo(kept, key, at)
        /\ \A k : HeldIn(ss, k) => HeldIn(kept, k)
        /\ Full(ss) => Full(kept)
    <3>1. Whole(Group(key), a, at) /\ c = Piece(key, Group(key), a, at) /\ KeptUpTo(ss, key, a - 1)
      BY <1>2, <1>3, <1>4, <1>5
    <3> QED
      BY <2>1, <3>1, KeepingIsSound
  <2> QED
    BY <2>2 DEF keys
<1>7. IsPiece(g, at + 1, at + 1)
  BY <1>4, SMTT(30) DEF IsPiece
<1>8. d = Piece(key, g, at + 1, at + 1)
  BY <1>4, OneSample
<1> HIDE DEF d, kept
<1>9. d # NoSession /\ d.key = key
  <2>1. d.key = key
    BY <1>8 DEF Piece
  <2> QED
    BY <1>4, <1>7, <1>8, <2>1, PieceType
<1>10. OpenFrom(d, Tail(rest), key, at + 1, at + 1)
  BY <1>3, <1>4, <1>7, <1>8 DEF OpenFrom
<1>11. NoneMissing(kept, TrackedKeys \ (w \cup {key}))
  BY <1>1, <1>4, <1>6 DEF NoneMissing
<1>12. KeptUpTo(kept, key, (at + 1) - 1)
  <2>1. (at + 1) - 1 = at
    BY <1>4
  <2> QED
    BY <1>6, <2>1
<1>13. LoopInv(kept, w, Tail(rest), d)
  <2>1. at + 1 \in Nat /\ w \subseteq TrackedKeys
    BY <1>1
  <2>2. AllFound(kept, TrackedKeys \ w) /\ NoneMissing(kept, TrackedKeys \ (w \cup {d.key}))
    BY <1>6, <1>9, <1>11
  <2> QED
    BY <1>9, <1>10, <1>12, <2>1, <2>2 DEF LoopInv
<1> QED
  BY <1>13 DEF d, kept

(* At the end of its samples, a group is closed.                           *)
LEMMA ClosingSteps ==
  ASSUME events \in Seq(Events), NEW ss, NEW w, NEW c, LoopInv(ss, w, <<>>, c),
         c # NoSession
  PROVE  LoopInv(Keeping(ss, c), w, <<>>, NoSession)
<1> DEFINE kept == Keeping(ss, c)
<1>1. /\ AllFound(ss, TrackedKeys \ w) /\ w \subseteq TrackedKeys
      /\ NoneMissing(ss, TrackedKeys \ (w \cup {c.key}))
  BY DEF LoopInv
<1>2. PICK key \in TrackedKeys \ w, a \in Nat, at \in Nat :
        OpenFrom(c, <<>>, key, a, at) /\ KeptUpTo(ss, key, a - 1)
  BY DEF LoopInv
<1>3. PICK g : g = Group(key)
  OBVIOUS
<1>4. /\ g \in Seq(Sample1) /\ Len(g) \in Nat /\ at = Len(g)
      /\ IsPiece(g, a, at) /\ c = Piece(key, g, a, at) /\ c.key = key
  <2>1. key \in TrackedKeys /\ OpenFrom(c, <<>>, key, a, at)
    BY <1>2
  <2> QED
    BY <1>3, <2>1, OpenType
<1>5. Whole(g, a, at)
  BY <1>4 DEF Whole
<1>6. /\ AllFound(kept, TrackedKeys \ w) /\ KeptUpTo(kept, key, at)
      /\ \A k : HeldIn(ss, k) => HeldIn(kept, k)
      /\ Full(ss) => Full(kept)
  <2> DEFINE keys == TrackedKeys \ w
  <2>1. keys \subseteq TrackedKeys /\ key \in keys /\ AllFound(ss, keys)
    BY <1>1
  <2> HIDE DEF keys
  <2>2. /\ AllFound(kept, keys) /\ KeptUpTo(kept, key, at)
        /\ \A k : HeldIn(ss, k) => HeldIn(kept, k)
        /\ Full(ss) => Full(kept)
    <3>1. Whole(Group(key), a, at) /\ c = Piece(key, Group(key), a, at) /\ KeptUpTo(ss, key, a - 1)
      BY <1>2, <1>3, <1>4, <1>5
    <3> QED
      BY <2>1, <3>1, KeepingIsSound
  <2> QED
    BY <2>2 DEF keys
<1> HIDE DEF kept
<1>7. ASSUME NEW k \in Members(key), ~Full(kept)
      PROVE  HeldIn(kept, k)
  <2>1. GroupOf(g, Members(key))
    BY <1>3, TrackedType
  <2>2. PICK n \in 1 .. Len(g) : g[n].index = k
    BY <1>7, <2>1 DEF GroupOf
  <2>3. HeldIn(kept, g[n].index)
    BY <1>3, <1>4, <1>6, <1>7, <2>2 DEF KeptUpTo
  <2> QED
    BY <2>2, <2>3
<1>8. NoneMissing(kept, TrackedKeys \ (w \cup {NoSession.key}))
  <2> SUFFICES ASSUME ~Full(kept), NEW k \in TrackedKeys \ w, NEW e \in Members(k)
               PROVE  HeldIn(kept, e)
    BY DEF NoneMissing
  <2>1. CASE k = key
    BY <1>7, <2>1
  <2>2. CASE k # key
    BY <1>1, <1>4, <1>6, <2>2 DEF NoneMissing
  <2> QED
    BY <2>1, <2>2
<1> QED
  BY <1>1, <1>6, <1>8 DEF LoopInv, kept

----------------------------------------------------------------------------
(* The final sort. No two sessions have the same start and key: of two     *)
(* pieces of a group, the one that begins later begins after idle time.    *)
LEMMA LaterPiece ==
  ASSUME NEW g \in Seq(Sample1), \A m, n \in 1 .. Len(g) : m <= n => g[m].micros <= g[n].micros,
         NEW a, NEW b, NEW c, NEW d, Whole(g, a, b), Whole(g, c, d), a < c
  PROVE  g[a].micros < g[c].micros
<1>1. /\ a \in 1 .. Len(g) /\ c \in 1 .. Len(g) /\ Len(g) \in Nat
      /\ c = 1 \/ Idle(g, c)
  BY DEF Whole, IsPiece
<1>2. c \in 2 .. Len(g) /\ c - 1 \in 1 .. Len(g) /\ a <= c - 1 /\ c # 1
  BY <1>1
<1>3. g[c - 1].micros < g[c].micros
  BY <1>1, <1>2, IdleIsLater
<1>4. g[a].micros <= g[c - 1].micros
  BY <1>1, <1>2
<1>5. g[a].micros \in Int /\ g[c - 1].micros \in Int /\ g[c].micros \in Int
  <2>1. g[a] \in Sample1 /\ g[c - 1] \in Sample1 /\ g[c] \in Sample1
    BY <1>1, <1>2
  <2>2. \A s \in Sample1 : s.micros \in Int
    BY MicrosAssumption DEF Sample1, Micros
  <2> QED
    BY <2>1, <2>2
<1> QED
  BY <1>3, <1>4, <1>5

LEMMA NoTies ==
  ASSUME events \in Seq(Events), NEW ss, NEW keys, keys \subseteq TrackedKeys, AllFound(ss, keys),
         NEW i \in 1 .. Len(ss), NEW j \in 1 .. Len(ss), i # j
  PROVE  ListedFirst(ss[i], ss[j]) \/ ListedFirst(ss[j], ss[i])
<1>1. /\ ss[i].key \in TrackedKeys /\ ss[j].key \in TrackedKeys
      /\ Found(ss[i]) /\ Found(ss[j]) /\ ss[i] # ss[j]
      /\ ss[i] \in Session /\ ss[j] \in Session
  BY DEF AllFound
<1>2. /\ ss[i].start \in Int /\ ss[j].start \in Int
      /\ ss[i].key \in Int /\ ss[j].key \in Int
  BY <1>1, MicrosAssumption DEF Session, Micros
<1>3. ASSUME ss[i].start = ss[j].start, ss[i].key = ss[j].key
      PROVE  FALSE
  <2>1. PICK key, g : key = ss[i].key /\ g = Group(key)
    OBVIOUS
  <2>2. PICK a \in 1 .. Len(g), b \in 1 .. Len(g) : Whole(g, a, b) /\ ss[i] = Piece(key, g, a, b)
    BY <1>1, <2>1 DEF Found
  <2>3. PICK c \in 1 .. Len(g), d \in 1 .. Len(g) : Whole(g, c, d) /\ ss[j] = Piece(key, g, c, d)
    BY <1>1, <1>3, <2>1 DEF Found
  <2>4. g[a].micros = g[c].micros
    BY <1>3, <2>2, <2>3 DEF Piece
  <2>5. /\ g \in Seq(Sample1) /\ Len(g) \in Nat
        /\ \A m, n \in 1 .. Len(g) : m <= n => g[m].micros <= g[n].micros
    <3>1. GroupOf(g, Members(key)) /\ g \in Seq(Sample1) /\ Len(g) \in Nat
      BY <1>1, <2>1, TrackedType
    <3> QED
      BY <3>1 DEF GroupOf
  <2>6. g[a].micros \in Int
    <3>1. \A s \in Sample1 : s.micros \in Int
      BY MicrosAssumption DEF Sample1, Micros
    <3> QED
      BY <2>5, <3>1
  <2>7. ~(a < c)
    <3> SUFFICES ASSUME a < c PROVE FALSE
      OBVIOUS
    <3>1. g[a].micros < g[c].micros
      BY <2>2, <2>3, <2>5, LaterPiece
    <3> QED
      BY <2>4, <2>6, <3>1
  <2>8. ~(c < a)
    <3> SUFFICES ASSUME c < a PROVE FALSE
      OBVIOUS
    <3>1. g[c].micros < g[a].micros
      BY <2>2, <2>3, <2>5, LaterPiece
    <3> QED
      BY <2>4, <2>6, <3>1
  <2>9. a = c
    BY <2>7, <2>8
  <2>10. b = d
    <3>1. Whole(g, a, b) /\ Whole(g, a, d) /\ Len(g) \in Nat
      BY <2>2, <2>3, <2>5, <2>9
    <3> QED
      BY <3>1, PieceEnds
  <2> QED
    BY <1>1, <2>2, <2>3, <2>9, <2>10
<1> QED
  BY <1>2, <1>3 DEF ListedFirst

LEMMA SessionsSorted ==
  ASSUME events \in Seq(Events), NEW ss, NEW keys, keys \subseteq TrackedKeys, AllFound(ss, keys)
  PROVE  LET t == StableSort(ss, ListedFirst)
         IN  /\ AllFound(t, keys)
             /\ \A k : HeldIn(ss, k) => HeldIn(t, k)
             /\ Full(ss) => Full(t)
             /\ \A j, k \in DOMAIN t : j < k => ListedFirst(t[j], t[k])
<1> DEFINE n == Len(ss)
      P == 1 .. n
      R == {q \in P \X P : ListedFirst(ss[q[1]], ss[q[2]])}
      o == StableOrder(DOMAIN ss, LAMBDA i, j : ListedFirst(ss[i], ss[j]))
      t == StableSort(ss, ListedFirst)
      Behind(i) == {j \in P : \/ ListedFirst(ss[j], ss[i])
                              \/ j < i /\ ~ListedFirst(ss[i], ss[j])}
<1>1. ss \in Seq(Session) /\ n \in Nat /\ DOMAIN ss = P
  BY DEF AllFound
<1>2. \A i \in P : ss[i].start \in Int /\ ss[i].key \in Int
  <2>1. \A s \in Session : s.start \in Int /\ s.key \in Int
    BY MicrosAssumption DEF Session, Micros
  <2> QED
    BY <1>1, <2>1
<1>3. \A i, j \in P : <<i, j>> \in R <=> ListedFirst(ss[i], ss[j])
  OBVIOUS
<1>4. \A i, j \in P : i # j => ListedFirst(ss[i], ss[j]) \/ ListedFirst(ss[j], ss[i])
  BY NoTies
<1>5. \A i, j \in P : ListedFirst(ss[i], ss[j]) => ~ListedFirst(ss[j], ss[i])
  BY <1>2 DEF ListedFirst
<1>6. \A i, j, k \in P : ListedFirst(ss[i], ss[j]) /\ ListedFirst(ss[j], ss[k]) =>
                           ListedFirst(ss[i], ss[k])
  BY <1>2, SMTT(30) DEF ListedFirst
<1>7. o = [k \in 1 .. Cardinality(DOMAIN ss) |->
             CHOOSE i \in DOMAIN ss :
               Cardinality({j \in DOMAIN ss : \/ ListedFirst(ss[j], ss[i])
                                              \/ j < i /\ ~ListedFirst(ss[i], ss[j])}) = k - 1]
  BY DEF StableOrder
<1>8. t = [k \in DOMAIN ss |-> ss[o[k]]]
  BY DEF StableSort
<1>9. IsFiniteSet(P) /\ Cardinality(P) = n
  <2>1. 1 \in Int /\ n \in Int /\ (IF 1 > n THEN 0 ELSE n - 1 + 1) = n
    BY <1>1
  <2> HIDE DEF n
  <2> QED
    BY <2>1, FS_Interval
<1>10. o = [k \in P |-> CHOOSE i \in P : Cardinality(Behind(i)) = k - 1]
  BY <1>1, <1>7, <1>9
<1>11. t = [k \in P |-> ss[o[k]]]
  BY <1>1, <1>8
<1> HIDE DEF R, o, t
<1>12. StrictOrder(P, R)
  BY <1>3, <1>4, <1>5, <1>6 DEF StrictOrder
<1>13. \A i \in P : Ahead(P, R, i) = Behind(i)
  BY <1>3, <1>4, <1>5 DEF Ahead
<1> HIDE DEF n, P, Behind
<1>14. Sorts(o, P, R)
  <2> SUFFICES ASSUME NEW k \in 1 .. Cardinality(P)
               PROVE  o[k] \in P /\ Cardinality(Ahead(P, R, o[k])) = k - 1
    BY DEF Sorts
  <2>1. \E i \in P : Cardinality(Ahead(P, R, i)) = k - 1
    BY <1>9, <1>12, RankTaken
  <2>2. \E i \in P : Cardinality(Behind(i)) = k - 1
    BY <1>13, <2>1
  <2>3. k \in P
    BY <1>9 DEF P
  <2>4. o[k] = CHOOSE i \in P : Cardinality(Behind(i)) = k - 1
    BY <1>10, <2>3
  <2>5. o[k] \in P /\ Cardinality(Behind(o[k])) = k - 1
    BY <2>2, <2>4
  <2> QED
    BY <1>13, <2>5
<1>15. /\ \A k \in P : o[k] \in P
       /\ \A i \in P : \E k \in P : o[k] = i
       /\ \A k, l \in P : (k < l <=> <<o[k], o[l]>> \in R) /\ (o[k] = o[l] => k = l)
  <2>1. /\ \A i \in P : \E k \in 1 .. n : o[k] = i
        /\ \A k, l \in 1 .. n : (k < l <=> <<o[k], o[l]>> \in R) /\ (o[k] = o[l] => k = l)
    BY <1>9, <1>12, <1>14, Sorted
  <2>2. \A k \in 1 .. n : o[k] \in P
    BY <1>9, <1>14 DEF Sorts
  <2> QED
    BY <2>1, <2>2 DEF P
<1>16. t \in Seq(Session) /\ Len(t) = n /\ DOMAIN t = P
  <2>1. \A k \in P : ss[o[k]] \in Session
    BY <1>1, <1>15
  <2>2. t = [k \in 1 .. n |-> ss[o[k]]]
    BY <1>11 DEF P
  <2>3. \A k \in 1 .. n : ss[o[k]] \in Session
    BY <2>1 DEF P
  <2> QED
    BY <1>1, <2>2, <2>3 DEF P
<1>17. \A k \in P : t[k] = ss[o[k]]
  BY <1>11
<1>18. \A j, k \in DOMAIN t : j < k => ListedFirst(t[j], t[k])
  <2> TAKE j, k \in DOMAIN t
  <2> HAVE j < k
  <2>1. j \in P /\ k \in P /\ t[j] = ss[o[j]] /\ t[k] = ss[o[k]]
    BY <1>16, <1>17
  <2>2. o[j] \in P /\ o[k] \in P /\ <<o[j], o[k]>> \in R
    BY <1>15, <2>1
  <2> QED
    BY <1>3, <2>1, <2>2
<1>19. AllFound(t, keys)
  <2>1. \A k \in P : ss[k].key \in keys /\ Found(ss[k])
    BY <1>1 DEF AllFound, P, n
  <2>2. \A k, l \in P : ss[k] = ss[l] => k = l
    BY DEF AllFound, P, n
  <2>3. \A k \in P : t[k].key \in keys /\ Found(t[k])
    BY <1>15, <1>17, <2>1
  <2>4. \A k, l \in P : t[k] = t[l] => k = l
    <3> TAKE k, l \in P
    <3>1. o[k] \in P /\ o[l] \in P /\ t[k] = ss[o[k]] /\ t[l] = ss[o[l]]
      BY <1>15, <1>17
    <3>2. t[k] = t[l] => o[k] = o[l]
      BY <2>2, <3>1
    <3> QED
      BY <1>15, <3>2
  <2>5. Len(t) <= MaxSessions /\ P = 1 .. Len(t)
    BY <1>16 DEF AllFound, n, P
  <2> QED
    BY <1>16, <2>3, <2>4, <2>5 DEF AllFound
<1>20. ASSUME NEW k, HeldIn(ss, k)
       PROVE  HeldIn(t, k)
  <2>1. PICK m \in P : \E e \in DOMAIN ss[m].events : ss[m].events[e] = k
    BY <1>20 DEF HeldIn, P, n
  <2>2. PICK l \in P : o[l] = m
    BY <1>15
  <2>3. t[l] = ss[m] /\ l \in 1 .. Len(t)
    BY <1>16, <1>17, <2>2 DEF P
  <2> QED
    BY <2>1, <2>3 DEF HeldIn
<1>21. Full(ss) => Full(t)
  BY <1>16 DEF Full, n
<1> QED
  BY <1>18, <1>19, <1>20, <1>21 DEF t

----------------------------------------------------------------------------
(* Once the tool has read its stream, the groups are what they are.        *)
LEMMA GroupsStay ==
  ASSUME events' = events
  PROVE  /\ TrackedKeys' = TrackedKeys
         /\ \A key : Group(key)' = Group(key) /\ Members(key)' = Members(key)
<1>1. TrackedKeys' = TrackedKeys
  BY DEF TrackedKeys, KeysUpTo, TakesPart
<1>2. \A key : Members(key)' = Members(key)
  BY DEF Members, TakesPart
<1>3. \A key : Group(key)' = Group(key)
  BY DEF Group, StableOrder, TakesPart, Micro
<1> QED
  BY <1>1, <1>2, <1>3

LEMMA LoopStays ==
  ASSUME events' = events
  PROVE  LoopInv(sessions, waiting, samples, cur)' <=> LoopInv(sessions', waiting', samples', cur')
<1>1. TrackedKeys' = TrackedKeys /\ \A key : Group(key)' = Group(key) /\ Members(key)' = Members(key)
  BY GroupsStay
<1>2. \A s : Found(s)' <=> Found(s)
  BY <1>1 DEF Found
<1>3. \A ss, keys : AllFound(ss, keys)' <=> AllFound(ss, keys)
  BY <1>2 DEF AllFound
<1>4. \A ss, keys : NoneMissing(ss, keys)' <=> NoneMissing(ss, keys)
  BY <1>1 DEF NoneMissing
<1>5. \A ss, key, b : KeptUpTo(ss, key, b)' <=> KeptUpTo(ss, key, b)
  BY <1>1 DEF KeptUpTo
<1>6. \A c, rest, key, a, at : OpenFrom(c, rest, key, a, at)' <=> OpenFrom(c, rest, key, a, at)
  BY <1>1 DEF OpenFrom
<1>7. \A ss, w, rest, c : LoopInv(ss, w, rest, c)' <=> LoopInv(ss, w, rest, c)
  BY <1>1, <1>3, <1>4, <1>5, <1>6 DEF LoopInv
<1> QED
  BY <1>7

----------------------------------------------------------------------------
(* At every step of the loop, what has been kept are whole pieces of their *)
(* groups, each kept once, and the open session is the start of a piece.   *)
LEMMA SessionInvHolds == Spec => []SessionInv
<1>1. Init => SessionInv
  BY DEF Init, InitStream, InitSessions, SessionInv, SessionsOrdered
<1>2. SessionInv /\ [Next]_vars => SessionInv'
  <2> SUFFICES ASSUME SessionInv, [Next]_vars
               PROVE  SessionInv'
    OBVIOUS
  <2>1. /\ events \in Seq(Events)
        /\ pc \in {"ingest", "timeline", "sessions", "statistics", "done"}
        /\ pc \notin {"sessions", "done"} =>
             sessions = <<>> /\ cur = NoSession /\ waiting = {} /\ samples = <<>>
        /\ pc \in {"sessions", "done"} => LoopInv(sessions, waiting, samples, cur)
    BY DEF SessionInv
  <2>2. ASSUME UNCHANGED <<events, sessionVars, pc>>
        PROVE  SessionInv'
    <3>1. LoopInv(sessions, waiting, samples, cur) => LoopInv(sessions, waiting, samples, cur)'
      BY <2>2, LoopStays DEF sessionVars
    <3> QED
      BY <2>2, <3>1 DEF SessionInv, sessionVars, SessionsOrdered
  <2>3. ASSUME events' \in Seq(Events), UNCHANGED sessionVars,
               pc \notin {"sessions", "done"}, pc' \in {"ingest", "timeline", "statistics"}
        PROVE  SessionInv'
    BY <2>1, <2>3 DEF SessionInv, sessionVars, SessionsOrdered
  <2>4. ASSUME events' = events, pc' = "sessions", LoopInv(sessions', waiting', samples', cur')
        PROVE  SessionInv'
    <3>1. LoopInv(sessions, waiting, samples, cur)'
      BY <2>4, LoopStays
    <3> QED
      BY <2>1, <2>4, <3>1 DEF SessionInv, SessionsOrdered
  <2>5. CASE Ingest
    <3>1. PICK e \in Events : events' = Append(events, e)
      BY <2>5 DEF Ingest, Add
    <3>2. events' \in Seq(Events)
      BY <2>1, <3>1
    <3> QED
      BY <2>1, <2>3, <2>5, <3>2 DEF Ingest
  <2>6. CASE BuildTimeline
    BY <2>1, <2>3, <2>6 DEF BuildTimeline, streamVars
  <2>7. CASE TimelineSample
    BY <2>2, <2>7 DEF TimelineSample, streamVars
  <2>8. CASE BuildSessions
    <3>1. /\ pc = "timeline" /\ events' = events /\ pc' = "sessions"
          /\ waiting' = TrackedKeys /\ UNCHANGED <<sessions, samples, cur>>
      BY <2>8 DEF BuildSessions, CollectGroups, streamVars
    <3>2. sessions = <<>> /\ cur = NoSession /\ samples = <<>>
      BY <2>1, <3>1
    <3>3. LoopInv(<<>>, TrackedKeys, <<>>, NoSession)
      <4>1. AllFound(<<>>, TrackedKeys \ TrackedKeys)
        BY CorrelateAssumption DEF AllFound
      <4>2. TrackedKeys \ (TrackedKeys \cup {NoSession.key}) = {}
        OBVIOUS
      <4>3. NoneMissing(<<>>, TrackedKeys \ (TrackedKeys \cup {NoSession.key}))
        BY <4>2 DEF NoneMissing
      <4> QED
        BY <4>1, <4>3 DEF LoopInv
    <3> QED
      BY <2>4, <3>1, <3>2, <3>3
  <2>9. CASE SessionStep
    <3>1. /\ pc = "sessions" /\ pc' = "sessions" /\ events' = events
          /\ LoopInv(sessions, waiting, samples, cur)
      BY <2>1, <2>9 DEF SessionStep, streamVars
    <3>2. samples # <<>> => cur # NoSession
      BY <3>1 DEF LoopInv
    <3>3. ASSUME NEW key \in waiting, OpenGroup(key)
          PROVE  LoopInv(sessions', waiting', samples', cur')
      <4>1. samples = <<>> /\ cur = NoSession
        BY <3>2, <3>3 DEF OpenGroup
      <4>2. LoopInv(sessions, waiting, <<>>, NoSession)
        BY <3>1, <4>1
      <4>3. LoopInv(sessions, waiting \ {key}, Tail(Group(key)), Opened(key, Group(key)[1]))
        BY <2>1, <4>2, OpeningSteps
      <4> QED
        BY <3>3, <4>3 DEF OpenGroup
    <3>4. ASSUME ExtendSession
          PROVE  LoopInv(sessions', waiting', samples', cur')
      <4>1. samples # <<>> /\ ~IdleBefore(cur, Head(samples))
        BY <3>4 DEF ExtendSession, TooIdle, IdleBefore
      <4>2. LoopInv(sessions, waiting, Tail(samples), Extended(cur, Head(samples)))
        BY <2>1, <3>1, <4>1, ExtendingSteps
      <4> QED
        BY <3>4, <4>2 DEF ExtendSession
    <3>5. ASSUME SplitSession
          PROVE  LoopInv(sessions', waiting', samples', cur')
      <4>1. samples # <<>> /\ IdleBefore(cur, Head(samples))
        BY <3>5 DEF SplitSession, TooIdle, IdleBefore
      <4>2. LoopInv(Keeping(sessions, cur), waiting, Tail(samples), Opened(cur.key, Head(samples)))
        BY <2>1, <3>1, <4>1, SplittingSteps
      <4>3. sessions' = Keeping(sessions, cur)
        BY <3>5 DEF SplitSession, Kept, Keeping
      <4> QED
        BY <3>5, <4>2, <4>3 DEF SplitSession
    <3>6. ASSUME CloseGroup
          PROVE  LoopInv(sessions', waiting', samples', cur')
      <4>1. samples = <<>> /\ cur # NoSession
        BY <3>6 DEF CloseGroup
      <4>2. LoopInv(sessions, waiting, <<>>, cur)
        BY <3>1, <4>1
      <4>3. LoopInv(Keeping(sessions, cur), waiting, <<>>, NoSession)
        BY <2>1, <4>1, <4>2, ClosingSteps
      <4>4. sessions' = Keeping(sessions, cur)
        BY <3>6 DEF CloseGroup, Kept, Keeping
      <4> QED
        BY <3>6, <4>1, <4>3, <4>4 DEF CloseGroup
    <3>7. LoopInv(sessions', waiting', samples', cur')
      BY <2>9, <3>3, <3>4, <3>5, <3>6 DEF SessionStep
    <3> QED
      BY <2>4, <3>1, <3>7
  <2>10. CASE Finish
    <3>1. /\ pc = "sessions" /\ pc' = "done" /\ events' = events
          /\ cur = NoSession /\ waiting = {} /\ cur' = cur /\ waiting' = waiting /\ samples' = samples
          /\ sessions' = StableSort(sessions, ListedFirst)
          /\ LoopInv(sessions, waiting, samples, cur)
      BY <2>1, <2>10 DEF Finish, OrderSessions, streamVars
    <3>2. /\ AllFound(sessions, TrackedKeys \ waiting)
          /\ NoneMissing(sessions, TrackedKeys \ (waiting \cup {cur.key}))
          /\ samples = <<>>
      BY <3>1 DEF LoopInv
    <3>3. /\ AllFound(sessions', TrackedKeys \ waiting)
          /\ \A k : HeldIn(sessions, k) => HeldIn(sessions', k)
          /\ Full(sessions) => Full(sessions')
          /\ \A j, k \in DOMAIN sessions' : j < k => ListedFirst(sessions'[j], sessions'[k])
      <4> DEFINE t == StableSort(sessions, ListedFirst)
            keys == TrackedKeys \ waiting
      <4>1. keys \subseteq TrackedKeys /\ AllFound(sessions, keys)
        BY <3>2
      <4>2. /\ AllFound(t, keys)
            /\ \A k : HeldIn(sessions, k) => HeldIn(t, k)
            /\ Full(sessions) => Full(t)
            /\ \A j, k \in DOMAIN t : j < k => ListedFirst(t[j], t[k])
        <5> HIDE DEF keys
        <5> QED
          BY <2>1, <4>1, SessionsSorted
      <4>3. sessions' = t
        BY <3>1
      <4> HIDE DEF t
      <4> QED
        BY <4>2, <4>3
    <3>4. LoopInv(sessions', waiting', samples', cur')
      <4>1. NoneMissing(sessions', TrackedKeys \ (waiting \cup {cur.key}))
        BY <3>2, <3>3 DEF NoneMissing
      <4> QED
        BY <3>1, <3>2, <3>3, <4>1 DEF LoopInv
    <3>5. LoopInv(sessions, waiting, samples, cur)'
      BY <3>1, <3>4, LoopStays
    <3>6. SessionsOrdered'
      BY <3>3 DEF SessionsOrdered, ListedFirst
    <3> QED
      BY <2>1, <3>1, <3>5, <3>6 DEF SessionInv
  <2>11. CASE ComputeStatistics
    BY <2>1, <2>3, <2>11 DEF ComputeStatistics, streamVars
  <2>12. CASE StatisticsEvent
    BY <2>2, <2>12 DEF StatisticsEvent, streamVars
  <2>13. CASE UNCHANGED vars
    BY <2>2, <2>13 DEF vars, streamVars
  <2> QED
    BY <2>5, <2>6, <2>7, <2>8, <2>9, <2>10, <2>11, <2>12, <2>13 DEF Next
<1> QED
  BY <1>1, <1>2, PTL DEF Spec

----------------------------------------------------------------------------
(* What SessionInv says of a session that has been kept.                   *)
LEMMA KeptIsPiece ==
  ASSUME SessionInv, NEW m \in DOMAIN sessions
  PROVE  /\ events \in Seq(Events) /\ sessions \in Seq(Session) /\ m \in 1 .. Len(sessions)
         /\ sessions[m].key \in TrackedKeys
         /\ Found(sessions[m])
         /\ \A n \in DOMAIN sessions : sessions[m] = sessions[n] => m = n
<1>1. CASE pc \in {"sessions", "done"}
  <2>1. LoopInv(sessions, waiting, samples, cur) /\ events \in Seq(Events)
    BY <1>1 DEF SessionInv
  <2>2. sessions \in Seq(Session)
    BY <2>1 DEF LoopInv, AllFound
  <2>3. DOMAIN sessions = 1 .. Len(sessions)
    BY <2>2
  <2> QED
    BY <2>1, <2>2, <2>3 DEF LoopInv, AllFound
<1>2. CASE pc \notin {"sessions", "done"}
  BY <1>2 DEF SessionInv
<1> QED
  BY <1>1, <1>2

(* A session is a maximal run of its key, at every step of the loop and    *)
(* whichever key comes next.                                               *)
LEMMA PieceIsRun ==
  ASSUME events \in Seq(Events), DeltasFit, NEW key \in TrackedKeys, NEW a, NEW b,
         NEW g, g = Group(key), Whole(g, a, b), NEW s, s = Piece(key, g, a, b)
  PROVE  IsRun(s)
<1> DEFINE n == b - a + 1
      es == [i \in 1 .. n |-> g[a + i - 1].index]
      inside == {es[k] : k \in DOMAIN es}
<1>1. /\ g \in Seq(Sample1) /\ Len(g) \in Nat /\ key \in Nat /\ GroupOf(g, Members(key))
  BY TrackedType
<1>2. /\ a \in 1 .. Len(g) /\ b \in 1 .. Len(g) /\ a <= b /\ a \in Int /\ b \in Int
      /\ n \in Nat \ {0} /\ IsPiece(g, a, b)
  <2>1. IsPiece(g, a, b)
    BY DEF Whole
  <2> QED
    BY <1>1, <2>1 DEF IsPiece
<1>3. s = [key |-> key, start |-> g[a].micros, end |-> g[b].micros, events |-> es]
  BY DEF Piece
<1>4. \A k \in Members(key) : TakesPart(k) /\ events[k].key = key /\ k \in DOMAIN events
  BY DEF Members
<1>5. \A i \in 1 .. Len(g) : /\ g[i].index \in Members(key) /\ g[i].micros = Micro(g[i].index)
                             /\ g[i].micros \in Int
  <2>1. \A x \in Sample1 : x.micros \in Int
    BY MicrosAssumption DEF Sample1, Micros
  <2> QED
    BY <1>1, <2>1 DEF GroupOf
<1>6. \A i \in 1 .. n : a + i - 1 \in 1 .. Len(g) /\ es[i] = g[a + i - 1].index
  BY <1>2
<1>7. DOMAIN es = 1 .. n
  OBVIOUS
<1> HIDE DEF n, es
<1>8. s.events = es /\ s.key = key /\ s.start = g[a].micros /\ s.end = g[b].micros
  BY <1>3
<1>9. \A k \in 1 .. n : events[es[k]].key = key
  BY <1>4, <1>5, <1>6
<1>10. es \in Seq(Nat) /\ Len(es) = n
  <2>1. \A x \in Sample1 : x.index \in Nat
    BY DEF Sample1
  <2>2. \A i \in 1 .. n : es[i] \in Nat
    BY <1>1, <1>6, <2>1
  <2>3. es = [i \in 1 .. n |-> es[i]]
    BY <1>7 DEF es
  <2> QED
    BY <1>2, <2>2, <2>3
<1>11. Cardinality(inside) = n
  <2>1. \A i, j \in 1 .. n : es[i] = es[j] => i = j
    <3> TAKE i, j \in 1 .. n
    <3> HAVE es[i] = es[j]
    <3>1. a + i - 1 = a + j - 1
      BY <1>1, <1>6, SMTT(20) DEF GroupOf
    <3> QED
      BY <1>2, <3>1
  <2>2. es \in Bijection(1 .. n, inside)
    BY <1>7, <2>1, <1>10 DEF Bijection, Injection, Surjection, IsInjective
  <2>3. IsFiniteSet(1 .. n) /\ Cardinality(1 .. n) = n
    <3>1. 1 \in Int /\ n \in Int /\ (IF 1 > n THEN 0 ELSE n - 1 + 1) = n
      BY <1>2
    <3> QED
      BY <3>1, FS_Interval
  <2> HIDE DEF inside
  <2>4. ExistsBijection(1 .. n, inside)
    BY <2>2 DEF ExistsBijection
  <2> QED
    BY <2>3, <2>4, FS_Bijection
<1>12. 1 \in 1 .. n /\ n \in 1 .. n /\ es[1] = g[a].index /\ es[n] = g[b].index
  <2>1. 1 \in 1 .. n /\ n \in 1 .. n /\ a + 1 - 1 = a /\ a + n - 1 = b
    BY <1>2 DEF n
  <2> QED
    BY <1>6, <2>1
<1>13. s.start = Micro(es[1]) /\ s.end = Micro(es[n])
  BY <1>2, <1>5, <1>8, <1>12
<1>14. ASSUME NEW i \in 2 .. Len(g)
       PROVE  /\ g[i].micros - g[i - 1].micros \in 0 .. MaxMicros
              /\ Idle(g, i) <=> g[i].micros - g[i - 1].micros > GapMicros
  <2>1. i \in 1 .. Len(g) /\ i - 1 \in 1 .. Len(g) /\ i - 1 <= i
    OBVIOUS
  <2>2. g[i - 1].micros <= g[i].micros
    BY <1>1, <2>1 DEF GroupOf
  <2>3. g[i].micros - g[i - 1].micros <= MaxMicros
    BY <1>4, <1>5, <2>1 DEF DeltasFit
  <2> DEFINE x == g[i].micros - g[i - 1].micros
  <2>4. x \in 0 .. MaxMicros
    BY <1>5, <2>1, <2>2, <2>3, MicrosAssumption
  <2>5. Idle(g, i) <=> (IF Wrap(x) < 0 THEN 0 ELSE Wrap(x)) > GapMicros
    BY DEF Idle
  <2> HIDE DEF x
  <2>6. Wrap(x) = x
    BY <2>4, WrapFits
  <2>7. Idle(g, i) <=> x > GapMicros
    BY <2>4, <2>5, <2>6, MicrosAssumption
  <2> QED
    BY <2>4, <2>7 DEF x
<1>15. \A k \in 2 .. n : Micro(es[k]) - Micro(es[k - 1]) \in 0 .. GapMicros
  <2> TAKE k \in 2 .. n
  <2>1. /\ k \in 1 .. n /\ k - 1 \in 1 .. n /\ a + (k - 1) - 1 = (a + k - 1) - 1
        /\ a + k - 1 \in 2 .. Len(g) /\ a + k - 1 \in a + 1 .. b
    BY <1>2 DEF n
  <2>2. PICK i \in 2 .. Len(g) : i = a + k - 1
    BY <2>1
  <2>3. es[k] = g[i].index /\ es[k - 1] = g[i - 1].index /\ i \in a + 1 .. b
    BY <1>6, <2>1, <2>2
  <2>4. ~Idle(g, i)
    BY <1>2, <2>3 DEF IsPiece
  <2>5. i \in 1 .. Len(g) /\ i - 1 \in 1 .. Len(g)
    OBVIOUS
  <2>6. Micro(es[k]) = g[i].micros /\ Micro(es[k - 1]) = g[i - 1].micros
    BY <1>5, <2>3, <2>5
  <2>7. g[i].micros - g[i - 1].micros \in 0 .. GapMicros
    BY <1>14, <2>4, GapType, MicrosAssumption
  <2> QED
    BY <2>6, <2>7
<1>16. \A k \in Peers(es[1]) \ inside : s.start - Micro(k) > GapMicros \/ Micro(k) - s.end > GapMicros
  <2> TAKE k \in Peers(es[1]) \ inside
  <2>1. k \in Members(key)
    BY <1>9, <1>12 DEF Peers, Members
  <2>2. PICK i \in 1 .. Len(g) : g[i].index = k
    BY <1>1, <2>1 DEF GroupOf
  <2>3. i \notin a .. b
    <3> SUFFICES ASSUME i \in a .. b PROVE FALSE
      OBVIOUS
    <3>1. i - a + 1 \in 1 .. n /\ a + (i - a + 1) - 1 = i
      BY <1>2 DEF n
    <3>2. es[i - a + 1] = k
      BY <1>6, <2>2, <3>1
    <3> QED
      BY <1>7, <3>1, <3>2
  <2>4. Micro(k) = g[i].micros /\ g[i].micros \in Int /\ g[a].micros \in Int /\ g[b].micros \in Int
    BY <1>2, <1>5, <2>2
  <2>5. CASE i < a
    <3>1. a \in 2 .. Len(g) /\ a # 1 /\ a - 1 \in 1 .. Len(g) /\ i <= a - 1
      BY <1>2, <2>5
    <3>2. g[a].micros - g[a - 1].micros > GapMicros
      BY <1>2, <1>14, <3>1 DEF IsPiece
    <3>3. g[i].micros <= g[a - 1].micros /\ g[a - 1].micros \in Int
      BY <1>1, <1>5, <3>1 DEF GroupOf
    <3> QED
      BY <1>8, <2>4, <3>2, <3>3, GapType, SMTT(30)
  <2>6. CASE b < i
    <3>1. b + 1 \in 2 .. Len(g) /\ b # Len(g) /\ b + 1 \in 1 .. Len(g) /\ b + 1 <= i /\ (b + 1) - 1 = b
      BY <1>1, <1>2, <2>6
    <3>2. Idle(g, b + 1)
      BY <3>1 DEF Whole
    <3>3. g[b + 1].micros - g[b].micros > GapMicros
      BY <1>14, <3>1, <3>2
    <3>4. g[b + 1].micros <= g[i].micros /\ g[b + 1].micros \in Int
      BY <1>1, <1>5, <3>1 DEF GroupOf
    <3> QED
      BY <1>8, <2>4, <3>3, <3>4, GapType
  <2> QED
    BY <1>2, <2>3, <2>5, <2>6
<1> QED
  BY <1>7, <1>8, <1>9, <1>10, <1>11, <1>13, <1>15, <1>16 DEF IsRun

(* Theorem. The sessions kept are maximal runs at every step of the loop,  *)
(* whichever key is visited next, as long as no delta of the stream        *)
(* overflows.                                                              *)
THEOREM SessionsRun == Spec => []SessionsAreRuns
<1>1. SessionInv => SessionsAreRuns
  <2> SUFFICES ASSUME SessionInv, DeltasFit, NEW m \in DOMAIN sessions
               PROVE  IsRun(sessions[m])
    BY DEF SessionsAreRuns
  <2>1. events \in Seq(Events) /\ sessions[m].key \in TrackedKeys /\ Found(sessions[m])
    BY KeptIsPiece
  <2>2. PICK s, key, g : s = sessions[m] /\ key = s.key /\ g = Group(key)
    OBVIOUS
  <2>3. PICK a \in 1 .. Len(g), b \in 1 .. Len(g) : Whole(g, a, b) /\ s = Piece(key, g, a, b)
    BY <2>1, <2>2 DEF Found
  <2>4. key \in TrackedKeys
    BY <2>1, <2>2
  <2>5. IsRun(s)
    BY <2>1, <2>2, <2>3, <2>4, PieceIsRun
  <2> QED
    BY <2>2, <2>5
<1> QED
  BY <1>1, SessionInvHolds, PTL

(* An event of a session is a sample of its piece.                         *)
LEMMA PieceMember ==
  ASSUME NEW g, Len(g) \in Nat, NEW a, NEW b, Whole(g, a, b), NEW key,
         NEW s, s = Piece(key, g, a, b), NEW n \in DOMAIN s.events
  PROVE  \E u \in 1 .. Len(g) : /\ u \in a .. b /\ n = u - a + 1
                               /\ s.events[n] = g[u].index
<1>1. a \in 1 .. Len(g) /\ b \in 1 .. Len(g) /\ a \in Int /\ b \in Int
  BY DEF Whole, IsPiece
<1>2. s.events = [e \in 1 .. b - a + 1 |-> g[a + e - 1].index]
  BY DEF Piece
<1>3. PICK k \in 1 .. b - a + 1 : k = n
  BY <1>2
<1>4. s.events[k] = g[a + k - 1].index
  BY <1>2
<1>5. a + k - 1 \in 1 .. Len(g) /\ a + k - 1 \in a .. b /\ k = (a + k - 1) - a + 1
  BY <1>1
<1> QED
  BY <1>3, <1>4, <1>5

(* An event is in at most one session, and in one at most once.            *)
LEMMA HeldOnce ==
  ASSUME SessionInv, NEW m \in DOMAIN sessions, NEW n \in DOMAIN sessions[m].events,
         NEW i \in DOMAIN sessions, NEW j \in DOMAIN sessions[i].events,
         sessions[m].events[n] = sessions[i].events[j]
  PROVE  m = i /\ n = j
<1>1. /\ events \in Seq(Events)
      /\ sessions[m].key \in TrackedKeys /\ Found(sessions[m])
      /\ sessions[i].key \in TrackedKeys /\ Found(sessions[i])
      /\ sessions[m] = sessions[i] => m = i
  BY KeptIsPiece
<1>2. PICK s, t, x : s = sessions[m] /\ t = sessions[i] /\ x = s.events[n]
  OBVIOUS
<1>3. PICK key, g : key = s.key /\ g = Group(key)
  OBVIOUS
<1>4. PICK a \in 1 .. Len(g), b \in 1 .. Len(g) : Whole(g, a, b) /\ s = Piece(key, g, a, b)
  BY <1>1, <1>2, <1>3 DEF Found
<1>5. PICK otherKey, h : otherKey = t.key /\ h = Group(otherKey)
  OBVIOUS
<1>6. PICK c \in 1 .. Len(h), d \in 1 .. Len(h) : Whole(h, c, d) /\ t = Piece(otherKey, h, c, d)
  BY <1>1, <1>2, <1>5 DEF Found
<1>7. /\ GroupOf(g, Members(key)) /\ Len(g) \in Nat
      /\ GroupOf(h, Members(otherKey)) /\ Len(h) \in Nat
  BY <1>1, <1>2, <1>3, <1>5, TrackedType
<1>8. PICK u \in 1 .. Len(g) : u \in a .. b /\ n = u - a + 1 /\ x = g[u].index
  <2>1. n \in DOMAIN s.events /\ x = s.events[n]
    BY <1>2
  <2> QED
    BY <1>4, <1>7, <2>1, PieceMember
<1>9. PICK v \in 1 .. Len(h) : v \in c .. d /\ j = v - c + 1 /\ x = h[v].index
  <2>1. j \in DOMAIN t.events /\ x = t.events[j]
    BY <1>2
  <2> QED
    BY <1>6, <1>7, <2>1, PieceMember
<1>10. x \in Members(key) /\ x \in Members(otherKey)
  <2>1. /\ \A e \in 1 .. Len(g) : g[e].index \in Members(key)
        /\ \A e \in 1 .. Len(h) : h[e].index \in Members(otherKey)
    BY <1>7 DEF GroupOf
  <2> QED
    BY <1>8, <1>9, <2>1
<1>11. key = otherKey /\ g = h
  BY <1>3, <1>5, <1>10 DEF Members
<1>12. u = v
  <2>1. g[u].index = g[v].index /\ v \in 1 .. Len(g)
    BY <1>8, <1>9, <1>11
  <2> QED
    BY <1>7, <2>1 DEF GroupOf
<1>13. Whole(g, c, d)
  BY <1>6, <1>11
<1>14. ~(a < c)
  <2> SUFFICES ASSUME a < c PROVE FALSE
    OBVIOUS
  <2>1. b < c
    BY <1>4, <1>7, <1>13, PiecesApart
  <2> QED
    BY <1>8, <1>9, <1>12, <2>1
<1>15. ~(c < a)
  <2> SUFFICES ASSUME c < a PROVE FALSE
    OBVIOUS
  <2>1. d < a
    BY <1>4, <1>7, <1>13, PiecesApart
  <2> QED
    BY <1>8, <1>9, <1>12, <2>1
<1>16. a = c
  BY <1>14, <1>15
<1>17. b = d
  <2>1. Whole(g, a, b) /\ Whole(g, a, d)
    BY <1>4, <1>13, <1>16
  <2> QED
    BY <1>7, <2>1, PieceEnds
<1>18. s = t
  BY <1>4, <1>6, <1>11, <1>16, <1>17
<1>19. m = i
  BY <1>1, <1>2, <1>18
<1>20. n = j
  BY <1>8, <1>9, <1>12, <1>16
<1> QED
  BY <1>19, <1>20

(* Theorem. No event is in two sessions or twice in one, none of a closed  *)
(* group is in none while there is room, and the finished listing is in    *)
(* strict order, so that it does not depend on the order of the hash map.  *)
THEOREM GroupingIsSound == Spec => []GroupingSound
<1>1. SessionInv => GroupingSound
  <2> SUFFICES ASSUME SessionInv
               PROVE  EveryEventInASession /\ SessionsOrdered
    BY DEF GroupingSound
  <2>1. SessionsOrdered /\ events \in Seq(Events)
    BY DEF SessionInv
  <2> DEFINE Holding(k) == {h \in (DOMAIN sessions) \X (DOMAIN events) :
                              /\ h[2] \in DOMAIN sessions[h[1]].events
                              /\ sessions[h[1]].events[h[2]] = k}
        closed == IF pc \in {"sessions", "done"}
                  THEN TrackedKeys \ (waiting \cup {cur.key}) ELSE {}
  <2>2. ASSUME NEW k
        PROVE  Cardinality(Holding(k)) <= 1
    <3>1. \A g, h \in Holding(k) : g = h
      <4> TAKE g, h \in Holding(k)
      <4>1. /\ g = <<g[1], g[2]>> /\ h = <<h[1], h[2]>>
            /\ g[1] \in DOMAIN sessions /\ g[2] \in DOMAIN sessions[g[1]].events
            /\ h[1] \in DOMAIN sessions /\ h[2] \in DOMAIN sessions[h[1]].events
            /\ sessions[g[1]].events[g[2]] = sessions[h[1]].events[h[2]]
        OBVIOUS
      <4>2. g[1] = h[1] /\ g[2] = h[2]
        BY <4>1, HeldOnce
      <4> QED
        BY <4>1, <4>2
    <3> HIDE DEF Holding
    <3>2. CASE Holding(k) = {}
      BY <3>2, FS_EmptySet
    <3>3. CASE Holding(k) # {}
      <4>1. PICK h : h \in Holding(k)
        BY <3>3
      <4>2. Holding(k) = {h}
        BY <3>1, <4>1
      <4>3. Cardinality({h}) = 1
        BY FS_Singleton
      <4> QED
        BY <4>2, <4>3
    <3> QED
      BY <3>2, <3>3
  <2>3. ASSUME NEW k \in DOMAIN events, TakesPart(k), events[k].key \in closed,
               Len(sessions) # MaxSessions
        PROVE  Holding(k) # {}
    <3>1. /\ pc \in {"sessions", "done"} /\ LoopInv(sessions, waiting, samples, cur)
          /\ events[k].key \in TrackedKeys \ (waiting \cup {cur.key})
      BY <2>3 DEF SessionInv
    <3>2. k \in Members(events[k].key)
      BY <2>3 DEF Members
    <3>3. HeldIn(sessions, k)
      BY <2>3, <3>1, <3>2 DEF LoopInv, NoneMissing, Full
    <3>4. PICK m \in 1 .. Len(sessions) : \E n \in DOMAIN sessions[m].events : sessions[m].events[n] = k
      BY <3>3 DEF HeldIn
    <3>5. PICK n \in DOMAIN sessions[m].events : sessions[m].events[n] = k
      BY <3>4
    <3>6. m \in DOMAIN sessions
      BY <3>1, <3>4 DEF LoopInv, AllFound
    <3>7. sessions[m].key \in TrackedKeys /\ Found(sessions[m])
      BY <3>6, KeptIsPiece
    <3>8. PICK s, key, g : s = sessions[m] /\ key = s.key /\ g = Group(key)
      OBVIOUS
    <3>9. PICK a \in 1 .. Len(g), b \in 1 .. Len(g) : Whole(g, a, b) /\ s = Piece(key, g, a, b)
      BY <3>7, <3>8 DEF Found
    <3>10. Len(g) \in Nat /\ Len(g) <= Len(events)
      BY <2>1, <3>7, <3>8, TrackedType
    <3>11. PICK u \in 1 .. Len(g) : u \in a .. b /\ n = u - a + 1
      BY <3>5, <3>8, <3>9, <3>10, PieceMember
    <3>12. n \in DOMAIN events
      <4>1. Len(events) \in Nat /\ DOMAIN events = 1 .. Len(events)
        BY <2>1
      <4>2. n \in 1 .. Len(events)
        BY <3>10, <3>11, <4>1
      <4> QED
        BY <4>1, <4>2
    <3>13. <<m, n>> \in Holding(k)
      BY <3>5, <3>6, <3>12
    <3> QED
      BY <3>13
  <2>4. \A k \in DOMAIN events :
          /\ Cardinality(Holding(k)) <= 1
          /\ TakesPart(k) /\ events[k].key \in closed =>
               Len(sessions) = MaxSessions \/ Holding(k) # {}
    <3> HIDE DEF Holding, closed
    <3> QED
      BY <2>2, <2>3
  <2>5. EveryEventInASession
    BY <2>4 DEF EveryEventInASession
  <2> QED
    BY <2>1, <2>5
<1> QED
  BY <1>1, SessionInvHolds, PTL

----------------------------------------------------------------------------
(* A sum over a sequence, by the sums of its beginnings.                   *)
SumsTo(f, c, n) ==
  /\ f \in [0 .. n -> Nat] /\ f[0] = 0
  /\ \A k \in 1 .. n : f[k] = f[k - 1] + c[k]

IsSum(c, n, total) == \E f : SumsTo(f, c, n) /\ f[n] = total

LEMMA SumsAgree ==
  ASSUME NEW n \in Nat, NEW c, NEW f, SumsTo(f, c, n),
         NEW g, g = [k \in 0 .. n |-> IF k = 0 THEN 0 ELSE g[k - 1] + c[k]]
  PROVE  g[n] = f[n]
<1> DEFINE Wrong == {k \in 0 .. n : g[k] # f[k]}
<1>1. /\ f[0] = 0 /\ \A k \in 1 .. n : f[k] = f[k - 1] + c[k]
      /\ g[0] = 0 /\ \A k \in 1 .. n : g[k] = g[k - 1] + c[k]
  <2>1. \A k \in 0 .. n : g[k] = IF k = 0 THEN 0 ELSE g[k - 1] + c[k]
    OBVIOUS
  <2>2. 0 \in 0 .. n /\ \A k \in 1 .. n : k \in 0 .. n /\ k # 0
    OBVIOUS
  <2> QED
    BY <2>1, <2>2 DEF SumsTo
<1>2. SUFFICES ASSUME Wrong # {} PROVE FALSE
  <2>1. n \in 0 .. n
    OBVIOUS
  <2> QED
    BY <2>1
<1>3. PICK k \in Wrong : \A j \in Wrong : k <= j
  <2>1. 0 .. n \subseteq Nat
    OBVIOUS
  <2>2. Wrong \in SUBSET Nat
    BY <2>1
  <2> QED
    BY <1>2, <2>2, SmallestExists
<1>4. k \in 0 .. n /\ g[k] # f[k] /\ (k # 0 => k - 1 \in 0 .. n /\ k \in 1 .. n /\ ~(k <= k - 1))
  BY <1>3
<1>5. k # 0 => g[k - 1] = f[k - 1]
  BY <1>3, <1>4
<1> QED
  BY <1>1, <1>4, <1>5

LEMMA SumTaken ==
  ASSUME NEW n \in Nat, NEW c, NEW total, IsSum(c, n, total)
  PROVE  (CHOOSE g : g = [k \in 0 .. n |-> IF k = 0 THEN 0 ELSE g[k - 1] + c[k]])[n] = total
<1> DEFINE Def(g) == g = [k \in 0 .. n |-> IF k = 0 THEN 0 ELSE g[k - 1] + c[k]]
      sum == CHOOSE g : Def(g)
<1>1. PICK f : SumsTo(f, c, n) /\ f[n] = total
  BY DEF IsSum
<1>2. Def(f)
  <2>1. f = [k \in 0 .. n |-> f[k]]
    BY <1>1 DEF SumsTo
  <2>2. \A k \in 0 .. n : f[k] = IF k = 0 THEN 0 ELSE f[k - 1] + c[k]
    <3> TAKE k \in 0 .. n
    <3>1. k # 0 => k \in 1 .. n
      OBVIOUS
    <3> QED
      BY <1>1, <3>1 DEF SumsTo
  <2>3. [k \in 0 .. n |-> f[k]] = [k \in 0 .. n |-> IF k = 0 THEN 0 ELSE f[k - 1] + c[k]]
    BY <2>2, Zenon
  <2> QED
    BY <2>1, <2>3
<1>3. Def(sum)
  <2> HIDE DEF Def
  <2> QED
    BY <1>2
<1>4. sum[n] = f[n]
  <2> HIDE DEF sum
  <2> QED
    BY <1>1, <1>3, SumsAgree
<1> QED
  BY <1>1, <1>4

(* Behind the n numbers zeros are added, and then x to one of them all.    *)
LEMMA SumGrows ==
  ASSUME NEW n \in Nat, NEW m \in Nat, n <= m, NEW t \in 1 .. m, NEW x \in Nat,
         NEW c, NEW d, NEW total, IsSum(c, n, total),
         \A k \in 1 .. m : d[k] = (IF k <= n THEN c[k] ELSE 0) + (IF k = t THEN x ELSE 0),
         \A k \in 1 .. n : c[k] \in Nat
  PROVE  IsSum(d, m, total + x)
<1>1. PICK f : SumsTo(f, c, n) /\ f[n] = total
  BY DEF IsSum
<1> DEFINE Old(k) == IF k <= n THEN f[k] ELSE f[n]
      h == [k \in 0 .. m |-> Old(k) + (IF k >= t THEN x ELSE 0)]
<1>2. /\ \A k \in 0 .. n : f[k] \in Nat
      /\ f[0] = 0 /\ \A k \in 1 .. n : f[k] = f[k - 1] + c[k]
  BY <1>1 DEF SumsTo
<1>3. \A k \in 0 .. m : Old(k) \in Nat
  BY <1>2
<1>4. h \in [0 .. m -> Nat]
  BY <1>3
<1>5. h[0] = 0 /\ h[m] = total + x
  <2>1. /\ 0 \in 0 .. m /\ m \in 0 .. m /\ 0 <= n /\ ~(0 >= t) /\ m >= t
        /\ m <= n => m = n
    OBVIOUS
  <2>2. h[0] = Old(0) + 0 /\ h[m] = Old(m) + x
    BY <2>1
  <2>3. Old(0) = 0 /\ Old(m) = total
    BY <1>1, <1>2, <2>1
  <2> HIDE DEF Old, h
  <2> QED
    BY <2>2, <2>3
<1>6. ASSUME NEW k \in 1 .. m
      PROVE  h[k] = h[k - 1] + d[k]
  <2>1. k \in 0 .. m /\ k - 1 \in 0 .. m
    OBVIOUS
  <2>2. Old(k) = Old(k - 1) + (IF k <= n THEN c[k] ELSE 0)
    <3>1. CASE k <= n
      BY <1>2, <3>1
    <3>2. CASE ~(k <= n)
      <4>1. k - 1 <= n => k - 1 = n
        BY <3>2
      <4>2. n \in 0 .. n
        OBVIOUS
      <4>3. f[n] \in Nat
        BY <1>2, <4>2
      <4>4. Old(k) = f[n] /\ Old(k - 1) = f[n]
        BY <3>2, <4>1
      <4> QED
        BY <3>2, <4>3, <4>4
    <3> QED
      BY <3>1, <3>2
  <2>3. h[k] = Old(k) + (IF k >= t THEN x ELSE 0) /\ h[k - 1] = Old(k - 1) + (IF k - 1 >= t THEN x ELSE 0)
    BY <2>1
  <2>4. Old(k) \in Nat /\ Old(k - 1) \in Nat
    BY <1>3, <2>1
  <2>5. (IF k >= t THEN x ELSE 0) = (IF k - 1 >= t THEN x ELSE 0) + (IF k = t THEN x ELSE 0)
    OBVIOUS
  <2>6. d[k] = (IF k <= n THEN c[k] ELSE 0) + (IF k = t THEN x ELSE 0)
    OBVIOUS
  <2>7. (IF k <= n THEN c[k] ELSE 0) \in Nat
    OBVIOUS
  <2> HIDE DEF Old, h
  <2> QED
    BY <2>2, <2>3, <2>4, <2>5, <2>6, <2>7
<1> HIDE DEF h
<1>7. SumsTo(h, d, m)
  BY <1>4, <1>5, <1>6 DEF SumsTo
<1> QED
  BY <1>5, <1>7 DEF IsSum

----------------------------------------------------------------------------
(* The samples of the histogram, in time order.                            *)
TimedSample == [micros : Micros, error : BOOLEAN]

InOrder(s) ==
  /\ s \in Seq(TimedSample)
  /\ \A m, n \in 1 .. Len(s) : m <= n => s[m].micros <= s[n].micros

LEMMA SamplesInOrder ==
  ASSUME events \in Seq(Events)
  PROVE  InOrder(Samples) /\ Len(Samples) \in Nat
<1> DEFINE P == {k \in DOMAIN events : events[k].timestamp.valid}
      o == StableOrder(P, LAMBDA j, k : Micro(j) < Micro(k))
      n == Cardinality(P)
      s == Samples
<1>1. IsFiniteSet(P) /\ n \in Nat
  <2>1. PICK e \in Nat : e = Len(events)
    OBVIOUS
  <2>2. 1 \in Int /\ e \in Int /\ (IF 1 > e THEN 0 ELSE e - 1 + 1) = e
    OBVIOUS
  <2>3. IsFiniteSet(1 .. e)
    BY <2>2, FS_Interval
  <2>4. P \subseteq 1 .. e
    BY <2>1
  <2> HIDE DEF P
  <2> QED
    BY <2>3, <2>4, FS_Subset, FS_CardinalityType
<1>2. \A k \in P : /\ k \in Nat /\ k \in Int /\ Micro(k) \in Micros /\ Micro(k) \in Int
                   /\ events[k].severity \in Severities
  <2> TAKE k \in P
  <2>1. k \in 1 .. Len(events) /\ events[k] \in Events
    OBVIOUS
  <2>2. events[k].timestamp.micros \in Micros /\ events[k].severity \in Severities
    BY <2>1, EventsAssumption
  <2> QED
    BY <2>1, <2>2, MicrosAssumption DEF Micro, Micros
<1>3. /\ DOMAIN o = 1 .. n
      /\ \A k \in 1 .. n : o[k] \in P
      /\ \A k, l \in 1 .. n : k <= l => Micro(o[k]) <= Micro(o[l])
  <2> HIDE DEF P
  <2> QED
    BY <1>1, <1>2, SortedByTime
<1>4. s = [k \in DOMAIN o |-> Sample(events[o[k]])]
  BY DEF Samples, Micro
<1> HIDE DEF o, P, s
<1>5. \A k \in 1 .. n : /\ Sample(events[o[k]]) \in TimedSample
                        /\ Sample(events[o[k]]).micros = Micro(o[k])
  <2> TAKE k \in 1 .. n
  <2>1. Micro(o[k]) \in Micros
    BY <1>2, <1>3
  <2>2. AtLeastAsSevere(events[o[k]].severity, 3) \in BOOLEAN
    BY DEF AtLeastAsSevere
  <2> QED
    BY <2>1, <2>2 DEF Sample, TimedSample, Micro
<1>6. s = [k \in 1 .. n |-> Sample(events[o[k]])]
  BY <1>3, <1>4
<1>7. s \in Seq(TimedSample) /\ Len(s) = n /\ \A k \in 1 .. n : s[k].micros = Micro(o[k])
  <2> HIDE DEF n
  <2> QED
    BY <1>1, <1>5, <1>6
<1> QED
  BY <1>1, <1>3, <1>7 DEF InOrder, s

----------------------------------------------------------------------------
Bucket == [start : Int, count : Nat, error_or_worse : Nat]

Counts(bs) == [k \in 1 .. Len(bs) |-> bs[k].count]

Errors(bs) == [k \in 1 .. Len(bs) |-> bs[k].error_or_worse]

ErrorsIn(s, n) == {k \in 1 .. n : s[k].error}

(* Each of the first n samples is in one of the buckets bs.                *)
TotalsInv(s, n, bs) ==
  /\ bs \in Seq(Bucket) /\ Len(bs) <= MaxBuckets
  /\ IsSum(Counts(bs), Len(bs), n)
  /\ IsSum(Errors(bs), Len(bs), Cardinality(ErrorsIn(s, n)))

LEMMA WidthType == Width \in Nat \ {0}
<1>1. (IF bucket_width_seconds < 1 THEN 1 ELSE bucket_width_seconds) \in Int
  BY TimelineAssumption
<1>2. WidthMicros \in Nat
  BY <1>1, WindowMicrosType DEF WidthMicros
<1> QED
  BY <1>2 DEF Width

LEMMA DivideExact ==
  ASSUME NEW d \in Nat, NEW w \in Nat \ {0}
  PROVE  /\ d \div w \in Nat /\ (d \div w) * w <= d /\ d < (d \div w) * w + w
         /\ \A j \in Nat : j <= d \div w <=> j * w <= d
<1>1. /\ d \div w \in Nat /\ (d \div w) * w <= d /\ d < (d \div w) * w + w
  OBVIOUS
<1>2. ASSUME NEW j \in Nat
      PROVE  j <= d \div w <=> j * w <= d
  <2> DEFINE q == d \div w
  <2>1. q \in Nat /\ q * w <= d /\ d < q * w + w
    BY <1>1
  <2> HIDE DEF q
  <2>2. q * w \in Nat /\ j * w \in Nat
    BY <2>1
  <2>3. j <= q => j * w <= q * w
    BY <2>1
  <2>4. q < j => q * w + w <= j * w
    <3>1. SUFFICES ASSUME q < j PROVE q * w + w <= j * w
      OBVIOUS
    <3>2. PICK i \in Nat : j = q + 1 + i
      <4>1. j - q - 1 \in Nat /\ j = q + 1 + (j - q - 1)
        BY <2>1, <3>1
      <4> QED
        BY <4>1
    <3>3. j * w = q * w + w + i * w /\ i * w \in Nat
      BY <2>1, <3>2
    <3> QED
      BY <2>2, <3>3
  <2>5. j <= q <=> j * w <= d
    BY <2>1, <2>2, <2>3, <2>4
  <2> QED
    BY <2>5 DEF q
<1> QED
  BY <1>1, <1>2

LEMMA Quotient ==
  ASSUME NEW d \in Nat, NEW w \in Nat \ {0}
  PROVE  \E q \in Nat : /\ q = d \div w /\ q * w \in Nat /\ q * w <= d /\ d < q * w + w
                        /\ \A j \in Nat : j <= q <=> j * w <= d
<1>1. PICK q \in Nat : q = d \div w
  BY DivideExact
<1>2. q * w <= d /\ d < q * w + w /\ \A j \in Nat : j <= q <=> j * w <= d
  BY <1>1, DivideExact
<1>3. q * w \in Nat
  OBVIOUS
<1> QED
  BY <1>1, <1>2, <1>3

LEMMA WrapType ==
  ASSUME NEW x \in Int
  PROVE  Wrap(x) \in Int
BY MicrosAssumption DEF Wrap

(* Which bucket a sample is counted in, of how many.                       *)
LEMMA BucketChosen ==
  ASSUME NEW micros \in Int, Samples[1].micros \in Int, NEW b \in BucketIndices(micros)
  PROVE  b \in 0 .. MaxBuckets
<1> DEFINE delta == Wrap(micros - Samples[1].micros)
<1>1. delta \in Int
  BY WrapType
<1> HIDE DEF delta
<1>2. delta >= 0 => delta \div Width \in Nat
  BY <1>1, WidthType, DivideExact
<1>3. b \in IF delta >= 0 THEN {Smaller(delta \div Width, MaxBuckets)} ELSE {0, MaxBuckets}
  BY DEF BucketIndices, delta
<1> QED
  BY <1>1, <1>2, <1>3, TimelineAssumption DEF Smaller

LEMMA StartType ==
  ASSUME Samples[1].micros \in Int, NEW offset \in Nat
  PROVE  BucketStart(offset) \in Int
<1>1. offset * Width \in Int
  BY WidthType
<1> QED
  BY <1>1, MicrosAssumption DEF BucketStart, SatAdd

(* What a step makes of the buckets.                                       *)
LEMMA PlacedBuckets ==
  ASSUME buckets \in Seq(Bucket), Len(buckets) <= MaxBuckets,
         Samples[1].micros \in Int, NEW b \in 0 .. MaxBuckets, NEW s \in TimedSample
  PROVE  LET needed == Smaller(b + 1, MaxBuckets)
             size == IF Len(buckets) < needed THEN needed ELSE Len(buckets)
             t == Smaller(b + 1, size)
             new == Counting(Grown(b), b, s)
         IN  /\ needed \in 1 .. MaxBuckets /\ size \in 1 .. MaxBuckets
             /\ Len(buckets) <= size /\ t \in 1 .. size
             /\ new \in Seq(Bucket) /\ Len(new) = size
             /\ \A k \in 1 .. size :
                  /\ new[k].start = IF k <= Len(buckets) THEN buckets[k].start
                                    ELSE BucketStart(k - 1)
                  /\ new[k].count = (IF k <= Len(buckets) THEN buckets[k].count ELSE 0)
                                    + (IF k = t THEN 1 ELSE 0)
                  /\ new[k].error_or_worse =
                       (IF k <= Len(buckets) THEN buckets[k].error_or_worse ELSE 0)
                       + (IF k = t THEN (IF s.error THEN 1 ELSE 0) ELSE 0)
<1> DEFINE needed == Smaller(b + 1, MaxBuckets)
      size == IF Len(buckets) < needed THEN needed ELSE Len(buckets)
      t == Smaller(b + 1, size)
      grown == Grown(b)
      new == Counting(grown, b, s)
<1>1. /\ needed \in 1 .. MaxBuckets /\ size \in 1 .. MaxBuckets
      /\ Len(buckets) <= size /\ t \in 1 .. size
  BY TimelineAssumption DEF Smaller
<1>2. grown = [k \in 1 .. size |->
         IF k <= Len(buckets) THEN buckets[k]
         ELSE [start |-> BucketStart(k - 1), count |-> 0, error_or_worse |-> 0]]
  BY DEF Grown
<1> HIDE DEF needed, size, grown
<1>3. \A k \in 1 .. size : grown[k] \in Bucket
  <2> TAKE k \in 1 .. size
  <2>1. k <= Len(buckets) => buckets[k] \in Bucket
    BY <1>1
  <2>2. ~(k <= Len(buckets)) =>
          [start |-> BucketStart(k - 1), count |-> 0, error_or_worse |-> 0] \in Bucket
    BY <1>1, StartType DEF Bucket
  <2> QED
    BY <1>2, <2>1, <2>2
<1>4. grown \in Seq(Bucket) /\ Len(grown) = size
  BY <1>1, <1>2, <1>3
<1>5. new = [k \in 1 .. size |->
               IF k = t THEN [start |-> grown[k].start, count |-> grown[k].count + 1,
                              error_or_worse |-> IF s.error THEN grown[k].error_or_worse + 1
                                                 ELSE grown[k].error_or_worse]
               ELSE grown[k]]
  BY <1>1, <1>2, <1>3, <1>4, ZenonT(30) DEF Counting, WithOneMore, Bucket
<1> HIDE DEF new, t
<1>6. \A k \in 1 .. size : new[k] \in Bucket
  BY <1>3, <1>5 DEF Bucket
<1>7. new \in Seq(Bucket) /\ Len(new) = size
  BY <1>1, <1>5, <1>6
<1>8. ASSUME NEW k \in 1 .. size
      PROVE  /\ new[k].start = IF k <= Len(buckets) THEN buckets[k].start
                               ELSE BucketStart(k - 1)
             /\ new[k].count = (IF k <= Len(buckets) THEN buckets[k].count ELSE 0)
                               + (IF k = t THEN 1 ELSE 0)
             /\ new[k].error_or_worse =
                  (IF k <= Len(buckets) THEN buckets[k].error_or_worse ELSE 0)
                  + (IF k = t THEN (IF s.error THEN 1 ELSE 0) ELSE 0)
  <2>1. /\ grown[k] \in Bucket
        /\ grown[k].start = IF k <= Len(buckets) THEN buckets[k].start ELSE BucketStart(k - 1)
        /\ grown[k].count = IF k <= Len(buckets) THEN buckets[k].count ELSE 0
        /\ grown[k].error_or_worse = IF k <= Len(buckets) THEN buckets[k].error_or_worse ELSE 0
    BY <1>2, <1>3
  <2>2. grown[k].count \in Nat /\ grown[k].error_or_worse \in Nat /\ s.error \in BOOLEAN
    BY <2>1 DEF Bucket, TimedSample
  <2>3. CASE k = t
    BY <1>5, <2>1, <2>2, <2>3
  <2>4. CASE k # t
    BY <1>5, <2>1, <2>2, <2>4
  <2> QED
    BY <2>3, <2>4
<1> QED
  BY <1>1, <1>7, <1>8 DEF needed, size, t, new, grown

LEMMA ErrorsGrow ==
  ASSUME NEW s, InOrder(s), NEW n \in Nat, n < Len(s)
  PROVE  /\ Cardinality(ErrorsIn(s, n)) \in Nat
         /\ Cardinality(ErrorsIn(s, n + 1)) =
              Cardinality(ErrorsIn(s, n)) + (IF s[n + 1].error THEN 1 ELSE 0)
<1>1. IsFiniteSet(ErrorsIn(s, n)) /\ Cardinality(ErrorsIn(s, n)) \in Nat
  <2>1. 1 \in Int /\ n \in Int /\ (IF 1 > n THEN 0 ELSE n - 1 + 1) = n
    OBVIOUS
  <2>2. IsFiniteSet(1 .. n)
    BY <2>1, FS_Interval
  <2>3. ErrorsIn(s, n) \in SUBSET (1 .. n)
    BY DEF ErrorsIn
  <2> QED
    BY <2>2, <2>3, FS_Subset, FS_CardinalityType
<1>2. n + 1 \notin ErrorsIn(s, n)
  BY DEF ErrorsIn
<1>3. CASE s[n + 1].error
  <2>1. ErrorsIn(s, n + 1) = ErrorsIn(s, n) \cup {n + 1}
    BY <1>3 DEF ErrorsIn
  <2> QED
    BY <1>1, <1>2, <1>3, <2>1, FS_AddElement
<1>4. CASE ~s[n + 1].error
  <2>1. ErrorsIn(s, n + 1) = ErrorsIn(s, n)
    BY <1>4 DEF ErrorsIn
  <2> QED
    BY <1>1, <1>4, <2>1
<1> QED
  BY <1>3, <1>4

LEMMA TotalsStep ==
  ASSUME events \in Seq(Events), NEW n \in Nat, n < Len(Samples),
         TotalsInv(Samples, n, buckets),
         NEW b \in BucketIndices(Samples[n + 1].micros)
  PROVE  TotalsInv(Samples, n + 1, Counting(Grown(b), b, Samples[n + 1]))
<1> DEFINE s == Samples[n + 1]
      new == Counting(Grown(b), b, s)
<1>1. PICK L \in Nat : L = Len(buckets)
  BY DEF TotalsInv
<1>2. /\ InOrder(Samples) /\ s \in TimedSample
      /\ s.micros \in Int /\ Samples[1].micros \in Int
  <2>1. InOrder(Samples) /\ n + 1 \in 1 .. Len(Samples) /\ 1 \in 1 .. Len(Samples)
    BY SamplesInOrder
  <2>2. s \in TimedSample /\ Samples[1] \in TimedSample
    BY <2>1 DEF InOrder
  <2> QED
    BY <2>1, <2>2, MicrosAssumption DEF TimedSample, Micros
<1>3. b \in 0 .. MaxBuckets
  BY <1>2, BucketChosen
<1>4. PICK size \in 1 .. MaxBuckets, t \in Nat :
        /\ t \in 1 .. size /\ L <= size /\ new \in Seq(Bucket) /\ Len(new) = size
        /\ \A k \in 1 .. size :
             /\ new[k].count = (IF k <= L THEN buckets[k].count ELSE 0)
                               + (IF k = t THEN 1 ELSE 0)
             /\ new[k].error_or_worse =
                  (IF k <= L THEN buckets[k].error_or_worse ELSE 0)
                  + (IF k = t THEN (IF s.error THEN 1 ELSE 0) ELSE 0)
  <2> DEFINE needed == Smaller(b + 1, MaxBuckets)
        size == IF Len(buckets) < needed THEN needed ELSE Len(buckets)
        t == Smaller(b + 1, size)
  <2>1. /\ size \in 1 .. MaxBuckets /\ Len(buckets) <= size /\ t \in 1 .. size
        /\ new \in Seq(Bucket) /\ Len(new) = size
        /\ \A k \in 1 .. size :
             /\ new[k].count = (IF k <= Len(buckets) THEN buckets[k].count ELSE 0)
                               + (IF k = t THEN 1 ELSE 0)
             /\ new[k].error_or_worse =
                  (IF k <= Len(buckets) THEN buckets[k].error_or_worse ELSE 0)
                  + (IF k = t THEN (IF s.error THEN 1 ELSE 0) ELSE 0)
    <3>1. buckets \in Seq(Bucket) /\ Len(buckets) <= MaxBuckets
      BY DEF TotalsInv
    <3> HIDE DEF s
    <3> QED
      BY <1>2, <1>3, <3>1, PlacedBuckets
  <2> HIDE DEF size, t
  <2>2. t \in Nat
    BY <2>1
  <2> QED
    BY <1>1, <2>1, <2>2, ZenonT(30)
<1> HIDE DEF new
<1>5. /\ size \in Nat /\ size <= MaxBuckets
      /\ \A k \in 1 .. L : buckets[k].count \in Nat /\ buckets[k].error_or_worse \in Nat
  <2>1. \A k \in 1 .. L : buckets[k] \in Bucket
    BY <1>1 DEF TotalsInv
  <2> QED
    BY <2>1, TimelineAssumption DEF Bucket
<1>6. IsSum(Counts(new), size, n + 1)
  <2> DEFINE c == Counts(buckets)
        d == Counts(new)
  <2>1. /\ \A k \in 1 .. L : c[k] = buckets[k].count
        /\ \A k \in 1 .. size : d[k] = new[k].count
    BY <1>1, <1>4 DEF Counts
  <2>2. IsSum(c, L, n)
    BY <1>1 DEF TotalsInv
  <2> HIDE DEF c, d
  <2>3. \A k \in 1 .. size : k <= L => k \in 1 .. L
    BY <1>1
  <2>4. /\ \A k \in 1 .. size : d[k] = (IF k <= L THEN c[k] ELSE 0) + (IF k = t THEN 1 ELSE 0)
        /\ \A k \in 1 .. L : c[k] \in Nat
    BY <1>4, <1>5, <2>1, <2>3
  <2>5. IsSum(d, size, n + 1)
    BY <1>4, <1>5, <2>2, <2>4, SumGrows
  <2> QED
    BY <2>5 DEF d
<1>7. IsSum(Errors(new), size, Cardinality(ErrorsIn(Samples, n + 1)))
  <2> DEFINE c == Errors(buckets)
        d == Errors(new)
        total == Cardinality(ErrorsIn(Samples, n))
        x == IF s.error THEN 1 ELSE 0
  <2>1. /\ \A k \in 1 .. L : c[k] = buckets[k].error_or_worse
        /\ \A k \in 1 .. size : d[k] = new[k].error_or_worse
    BY <1>1, <1>4 DEF Errors
  <2>2. IsSum(c, L, total)
    BY <1>1 DEF TotalsInv
  <2>3. Cardinality(ErrorsIn(Samples, n + 1)) = total + x
    BY <1>2, ErrorsGrow
  <2>4. x \in Nat
    OBVIOUS
  <2>5. \A k \in 1 .. size :
          new[k].error_or_worse = (IF k <= L THEN buckets[k].error_or_worse ELSE 0) + (IF k = t THEN x ELSE 0)
    BY <1>4
  <2> HIDE DEF c, d, total, x
  <2>6. \A k \in 1 .. size : k <= L => k \in 1 .. L
    BY <1>1
  <2>7. /\ \A k \in 1 .. size : d[k] = (IF k <= L THEN c[k] ELSE 0) + (IF k = t THEN x ELSE 0)
        /\ \A k \in 1 .. L : c[k] \in Nat
    BY <1>5, <2>1, <2>5, <2>6
  <2>8. IsSum(d, size, total + x)
    BY <1>4, <1>5, <2>2, <2>4, <2>7, SumGrows
  <2> QED
    BY <2>3, <2>8 DEF d
<1>8. TotalsInv(Samples, n + 1, new)
  BY <1>4, <1>5, <1>6, <1>7 DEF TotalsInv
<1> QED
  BY <1>8 DEF new

LEMMA TotalsExact ==
  ASSUME TotalsInv(Samples, placed, buckets)
  PROVE  TotalsAccurate
<1>1. PICK L \in Nat : L = Len(buckets)
  BY DEF TotalsInv
<1>2. Total(LAMBDA b : b.count) = placed
  <2> DEFINE c == Counts(buckets)
        Def(g) == g = [k \in 0 .. L |-> IF k = 0 THEN 0 ELSE g[k - 1] + buckets[k].count]
  <2>1. \A g : Def(g) <=> g = [k \in 0 .. L |-> IF k = 0 THEN 0 ELSE g[k - 1] + c[k]]
    <3>1. \A k \in 0 .. L : k # 0 => c[k] = buckets[k].count
      BY <1>1 DEF Counts
    <3> HIDE DEF c
    <3> QED
      BY <3>1
  <2>2. (CHOOSE g : Def(g))[L] = placed
    <3>1. (CHOOSE g : g = [k \in 0 .. L |-> IF k = 0 THEN 0 ELSE g[k - 1] + c[k]])[L] = placed
      BY <1>1, SumTaken DEF TotalsInv
    <3> HIDE DEF c, Def
    <3> QED
      BY <2>1, <3>1
  <2> QED
    BY <1>1, <2>2 DEF Total
<1>3. Total(LAMBDA b : b.error_or_worse) = Cardinality(ErrorsIn(Samples, placed))
  <2> DEFINE c == Errors(buckets)
        total == Cardinality(ErrorsIn(Samples, placed))
        Def(g) == g = [k \in 0 .. L |-> IF k = 0 THEN 0 ELSE g[k - 1] + buckets[k].error_or_worse]
  <2>1. \A g : Def(g) <=> g = [k \in 0 .. L |-> IF k = 0 THEN 0 ELSE g[k - 1] + c[k]]
    <3>1. \A k \in 0 .. L : k # 0 => c[k] = buckets[k].error_or_worse
      BY <1>1 DEF Errors
    <3> HIDE DEF c
    <3> QED
      BY <3>1
  <2>2. (CHOOSE g : Def(g))[L] = total
    <3>1. (CHOOSE g : g = [k \in 0 .. L |-> IF k = 0 THEN 0 ELSE g[k - 1] + c[k]])[L] = total
      BY <1>1, SumTaken DEF TotalsInv
    <3> HIDE DEF c, Def
    <3> QED
      BY <2>1, <3>1
  <2> QED
    BY <1>1, <2>2 DEF Total
<1> QED
  BY <1>2, <1>3 DEF TotalsAccurate, ErrorsIn

----------------------------------------------------------------------------
(* The samples up to n span what a 64-bit number holds.                    *)
SpanUpTo(s, n) == n > 0 => s[n].micros - s[1].micros <= MaxMicros

Between(s, n, from, to) == {k \in 1 .. n : s[k].micros \in from .. to}

WindowEnd(b, k) == IF k = MaxBuckets THEN MaxMicros ELSE b.start + Width - 1

(* Then the buckets reach just up to the last sample, and each counts the  *)
(* samples of its window.                                                  *)
WindowsInv(s, n, bs) ==
  /\ Len(bs) = IF n = 0 THEN 0
               ELSE Smaller((s[n].micros - s[1].micros) \div Width + 1, MaxBuckets)
  /\ \A k \in 1 .. Len(bs) :
       /\ bs[k].start = s[1].micros + (k - 1) * Width
       /\ bs[k].count = Cardinality(Between(s, n, bs[k].start, WindowEnd(bs[k], k)))

LEMMA OrderedTypes ==
  ASSUME NEW s, InOrder(s)
  PROVE  /\ Len(s) \in Nat
         /\ \A k \in 1 .. Len(s) :
              /\ s[k] \in TimedSample /\ s[k].micros \in Int /\ s[k].micros <= MaxMicros
              /\ s[1].micros \in Int /\ s[1].micros <= s[k].micros
         /\ \A j, k \in 1 .. Len(s) : j <= k => s[j].micros <= s[k].micros
<1>1. Len(s) \in Nat /\ \A k \in 1 .. Len(s) : s[k] \in TimedSample
  BY DEF InOrder
<1>2. \A k \in 1 .. Len(s) : s[k].micros \in Int /\ s[k].micros <= MaxMicros
  BY <1>1, MicrosAssumption DEF TimedSample, Micros
<1>3. \A k \in 1 .. Len(s) : 1 \in 1 .. Len(s) /\ 1 <= k
  BY <1>1
<1> QED
  BY <1>1, <1>2, <1>3 DEF InOrder

LEMMA EarlierSpan ==
  ASSUME NEW s, InOrder(s), NEW n \in Nat, n < Len(s), SpanUpTo(s, n + 1)
  PROVE  /\ SpanUpTo(s, n)
         /\ s[n + 1].micros - s[1].micros \in 0 .. MaxMicros
         /\ n > 0 => /\ s[n].micros - s[1].micros \in 0 .. MaxMicros
                     /\ s[n + 1].micros - s[n].micros \in 0 .. MaxMicros
<1>1. n + 1 \in 1 .. Len(s) /\ (n > 0 => n \in 1 .. Len(s) /\ n <= n + 1)
  BY OrderedTypes
<1>2. /\ s[n + 1].micros \in Int /\ s[1].micros \in Int /\ s[1].micros <= s[n + 1].micros
      /\ n > 0 => s[n].micros \in Int /\ s[1].micros <= s[n].micros /\ s[n].micros <= s[n + 1].micros
  BY <1>1, OrderedTypes
<1>3. s[n + 1].micros - s[1].micros <= MaxMicros
  BY DEF SpanUpTo
<1> QED
  BY <1>2, <1>3, MicrosAssumption DEF SpanUpTo

(* One sample more counts in the windows it lies in.                       *)
LEMMA BetweenGrows ==
  ASSUME NEW s, NEW n \in Nat, NEW from, NEW to
  PROVE  /\ Cardinality(Between(s, n, from, to)) \in Nat
         /\ Cardinality(Between(s, n + 1, from, to)) =
              Cardinality(Between(s, n, from, to))
              + (IF s[n + 1].micros \in from .. to THEN 1 ELSE 0)
<1> DEFINE P == Between(s, n, from, to)
      Q == Between(s, n + 1, from, to)
<1>1. IsFiniteSet(P) /\ Cardinality(P) \in Nat
  <2>1. 1 \in Int /\ n \in Int /\ (IF 1 > n THEN 0 ELSE n - 1 + 1) = n
    OBVIOUS
  <2>2. IsFiniteSet(1 .. n)
    BY <2>1, FS_Interval
  <2>3. P \in SUBSET (1 .. n)
    BY DEF Between
  <2> HIDE DEF P
  <2> QED
    BY <2>2, <2>3, FS_Subset, FS_CardinalityType
<1>2. n + 1 \notin P
  BY DEF Between
<1>3. Q = IF s[n + 1].micros \in from .. to THEN P \cup {n + 1} ELSE P
  <2>1. \A k : k \in 1 .. n + 1 <=> k \in 1 .. n \/ k = n + 1
    OBVIOUS
  <2> QED
    BY <2>1 DEF Between
<1> HIDE DEF P, Q
<1>4. CASE s[n + 1].micros \in from .. to
  <2>1. Q = P \cup {n + 1}
    BY <1>3, <1>4
  <2>2. Cardinality(P \cup {n + 1}) = Cardinality(P) + 1
    BY <1>1, <1>2, FS_AddElement
  <2> QED
    BY <1>1, <1>4, <2>1, <2>2 DEF P, Q
<1>5. CASE s[n + 1].micros \notin from .. to
  <2>1. Q = P
    BY <1>3, <1>5
  <2> QED
    BY <1>1, <1>5, <2>1 DEF P, Q
<1> QED
  BY <1>4, <1>5

LEMMA NoneBetween ==
  ASSUME NEW s, NEW n \in Nat, NEW from \in Int, NEW to,
         \A k \in 1 .. n : s[k].micros \in Int /\ s[k].micros < from
  PROVE  Cardinality(Between(s, n, from, to)) = 0
<1>1. Between(s, n, from, to) = {}
  BY DEF Between
<1> QED
  BY <1>1, FS_EmptySet

(* A bucket that the next sample creates or goes past starts where it      *)
(* should, without saturation.                                             *)
LEMMA StartExact ==
  ASSUME NEW d \in 0 .. MaxMicros, NEW first \in Int, first + d <= MaxMicros,
         Samples[1].micros = first, NEW j \in Nat, j <= d \div Width
  PROVE  BucketStart(j) = first + j * Width /\ j * Width \in Nat /\ j * Width <= d
<1>1. PICK w \in Nat \ {0} : w = Width
  BY WidthType
<1>2. j * w <= d /\ j * w \in Nat
  BY <1>1, DivideExact
<1>3. j <= MaxMicros \div w
  <2>1. j * w <= MaxMicros
    BY <1>2, MicrosAssumption
  <2> QED
    BY <1>1, <2>1, DivideExact, MicrosAssumption
<1>4. ~(j > MaxMicros \div w)
  <2>1. MaxMicros \div w \in Nat
    BY DivideExact, MicrosAssumption
  <2> QED
    BY <1>3, <2>1
<1>5. BucketStart(j) = SatAdd(first, j * w)
  BY <1>1, <1>4 DEF BucketStart
<1>6. SatAdd(first, j * w) = first + j * w
  BY <1>2, MicrosAssumption DEF SatAdd
<1> QED
  BY <1>1, <1>2, <1>5, <1>6

LEMMA NextMultiple ==
  ASSUME NEW w \in Nat \ {0}, NEW i \in Nat, NEW j \in Nat
  PROVE  /\ i * w \in Nat /\ j * w \in Nat
         /\ i < j => i * w + w <= j * w
         /\ i <= j => i * w <= j * w
<1>1. i * w \in Nat /\ j * w \in Nat
  OBVIOUS
<1>2. ASSUME i < j PROVE i * w + w <= j * w
  <2>1. PICK m \in Nat : j = i + 1 + m
    <3>1. j - i - 1 \in Nat /\ j = i + 1 + (j - i - 1)
      BY <1>2
    <3> QED
      BY <3>1
  <2>2. j * w = i * w + w + m * w /\ m * w \in Nat
    BY <2>1
  <2> QED
    BY <1>1, <2>2
<1> QED
  BY <1>1, <1>2

LEMMA WindowEndType ==
  ASSUME NEW b, b.start \in Int, NEW k
  PROVE  WindowEnd(b, k) \in Int
<1>1. PICK w \in Nat : w = Width
  BY WidthType
<1>2. PICK from \in Int : from = b.start
  OBVIOUS
<1>3. from + w - 1 \in Int /\ MaxMicros \in Int
  BY MicrosAssumption
<1> QED
  BY <1>1, <1>2, <1>3 DEF WindowEnd

(* The next sample is in the last bucket then, and in no other's window;   *)
(* the buckets created between are of times without a sample.              *)
LEMMA WindowsStep ==
  ASSUME events \in Seq(Events), NEW n \in Nat, n < Len(Samples),
         SpanUpTo(Samples, n + 1),
         TotalsInv(Samples, n, buckets), WindowsInv(Samples, n, buckets),
         NEW b \in BucketIndices(Samples[n + 1].micros)
  PROVE  WindowsInv(Samples, n + 1, Counting(Grown(b), b, Samples[n + 1]))
<1>1. PICK s : s = Samples
  OBVIOUS
<1>2. /\ InOrder(s) /\ n + 1 \in 1 .. Len(s) /\ s[n + 1] \in TimedSample
      /\ s[1].micros \in Int /\ s[n + 1].micros \in Int
      /\ \A k \in 1 .. n : /\ s[k].micros \in Int
                           /\ s[1].micros <= s[k].micros /\ s[k].micros <= s[n].micros
      /\ s[n + 1].micros <= MaxMicros
  <2>1. InOrder(s) /\ Len(s) \in Nat
    BY <1>1, SamplesInOrder
  <2>2. n + 1 \in 1 .. Len(s) /\ \A k \in 1 .. n : k \in 1 .. Len(s) /\ n \in 1 .. Len(s) /\ k <= n
    BY <1>1, <2>1
  <2> QED
    BY <2>1, <2>2, OrderedTypes
<1>3. PICK w \in Nat \ {0}, first \in Int, d \in 0 .. MaxMicros, L \in Nat :
        /\ w = Width /\ first = s[1].micros /\ d = s[n + 1].micros - first
        /\ L = Len(buckets)
  <2>1. s[n + 1].micros - s[1].micros \in 0 .. MaxMicros
    BY <1>1, <1>2, EarlierSpan
  <2>2. Len(buckets) \in Nat
    BY DEF TotalsInv
  <2> QED
    BY <1>2, <2>1, <2>2, WidthType
<1>0. d \in Nat /\ d <= MaxMicros /\ MaxMicros \in Nat /\ s[n + 1].micros = first + d
  BY <1>2, <1>3, MicrosAssumption, SMTT(20)
<1>4. PICK q \in Nat : /\ q = d \div w /\ q * w \in Nat /\ q * w <= d /\ d < q * w + w
                       /\ \A j \in Nat : j <= q <=> j * w <= d
  BY <1>0, Quotient
<1>5. b = Smaller(q, MaxBuckets) /\ b \in 0 .. MaxBuckets
  <2>1. Wrap(s[n + 1].micros - s[1].micros) = d
    BY <1>3, WrapFits
  <2>2. d >= 0
    BY <1>3, MicrosAssumption
  <2> QED
    <3>1. BucketIndices(s[n + 1].micros) = {Smaller(q, MaxBuckets)}
      BY <1>1, <1>3, <1>4, <2>1, <2>2 DEF BucketIndices
    <3> QED
      BY <1>1, <3>1, TimelineAssumption DEF Smaller
<1>6. PICK size \in 1 .. MaxBuckets : size = Smaller(q + 1, MaxBuckets)
  BY <1>4, TimelineAssumption DEF Smaller
<1>7. /\ L <= size
      /\ n = 0 => L = 0
      /\ n > 0 /\ L < MaxBuckets => s[n].micros < first + L * w
  <2>1. CASE n = 0
    BY <1>1, <1>3, <1>6, <2>1 DEF WindowsInv
  <2>2. CASE n > 0
    <3>1. PICK e \in Nat : /\ e = s[n].micros - first /\ e <= d /\ s[n].micros \in Int
      <4>1. /\ s[n].micros - s[1].micros \in 0 .. MaxMicros
            /\ s[n + 1].micros - s[n].micros \in 0 .. MaxMicros
        BY <1>1, <1>2, <2>2, EarlierSpan
      <4>2. n \in 1 .. n
        BY <2>2
      <4>3. s[n].micros \in Int
        BY <1>2, <4>2
      <4>4. s[n].micros - first <= d
        <5>1. s[n + 1].micros - s[n].micros >= 0
          BY <1>0, <4>1
        <5> QED
          BY <1>0, <4>3, <5>1
      <4>5. s[n].micros - first \in Nat
        BY <1>0, <1>3, <4>1
      <4> QED
        BY <4>3, <4>4, <4>5
    <3>2. PICK r \in Nat : /\ r = e \div w /\ r * w \in Nat /\ r * w <= e /\ e < r * w + w
      BY Quotient
    <3>9. PICK p \in Nat : p = r * w /\ p <= e /\ e < p + w
      BY <3>2
    <3>3. r <= q
      <4>1. p <= d
        BY <1>0, <3>1, <3>9
      <4> QED
        BY <1>4, <3>9, <4>1
    <3>4. L = Smaller(r + 1, MaxBuckets)
      BY <1>1, <1>3, <2>2, <3>1, <3>2 DEF WindowsInv
    <3>5. L <= size
      BY <1>6, <3>3, <3>4, TimelineAssumption DEF Smaller
    <3>6. L < MaxBuckets => s[n].micros < first + L * w
      <4>1. SUFFICES ASSUME L < MaxBuckets PROVE s[n].micros < first + L * w
        OBVIOUS
      <4>2. L = r + 1
        BY <3>4, <4>1, TimelineAssumption DEF Smaller
      <4>3. L * w = p + w
        BY <3>9, <4>2
      <4>4. s[n].micros = first + e
        BY <3>1, SMTT(20)
      <4>5. s[n].micros < first + (p + w)
        BY <3>9, <4>4
      <4> QED
        BY <4>3, <4>5
    <3> QED
      BY <2>2, <3>5, <3>6
  <2> QED
    BY <2>1, <2>2
<1>8. PICK new : /\ new = Counting(Grown(b), b, Samples[n + 1])
                 /\ Len(new) = size
                 /\ \A k \in 1 .. size :
                      /\ new[k].start = IF k <= L THEN buckets[k].start ELSE BucketStart(k - 1)
                      /\ new[k].count = (IF k <= L THEN buckets[k].count ELSE 0)
                                        + (IF k = size THEN 1 ELSE 0)
  <2>1. buckets \in Seq(Bucket) /\ Len(buckets) <= MaxBuckets /\ s[1].micros \in Int
    BY <1>2 DEF TotalsInv
  <2> DEFINE needed == Smaller(b + 1, MaxBuckets)
        sz == IF Len(buckets) < needed THEN needed ELSE Len(buckets)
        t == Smaller(b + 1, sz)
        nw == Counting(Grown(b), b, Samples[n + 1])
  <2>2. /\ Len(nw) = sz
        /\ \A k \in 1 .. sz :
             /\ nw[k].start = IF k <= Len(buckets) THEN buckets[k].start ELSE BucketStart(k - 1)
             /\ nw[k].count = (IF k <= Len(buckets) THEN buckets[k].count ELSE 0)
                              + (IF k = t THEN 1 ELSE 0)
    <3>1. PICK u \in TimedSample : u = Samples[n + 1]
      BY <1>1, <1>2
    <3>2. Samples[1].micros \in Int
      BY <1>1, <1>2
    <3> DEFINE nu == Counting(Grown(b), b, u)
    <3>3. /\ Len(nu) = sz
          /\ \A k \in 1 .. sz :
               /\ nu[k].start = IF k <= Len(buckets) THEN buckets[k].start ELSE BucketStart(k - 1)
               /\ nu[k].count = (IF k <= Len(buckets) THEN buckets[k].count ELSE 0)
                                + (IF k = t THEN 1 ELSE 0)
               /\ nu[k].error_or_worse =
                    (IF k <= Len(buckets) THEN buckets[k].error_or_worse ELSE 0)
                    + (IF k = t THEN (IF u.error THEN 1 ELSE 0) ELSE 0)
      BY <1>5, <2>1, <3>2, PlacedBuckets, Zenon
    <3> QED
      BY <3>1, <3>3
  <2>3. needed = size
    BY <1>4, <1>5, <1>6, TimelineAssumption DEF Smaller
  <2>4. sz = size
    BY <1>3, <1>7, <2>3
  <2>5. t = size
    BY <1>4, <1>5, <1>6, <2>4, TimelineAssumption DEF Smaller
  <2> HIDE DEF sz, t, nw
  <2>6. PICK new : new = nw
    OBVIOUS
  <2> QED
    BY <1>3, <2>2, <2>4, <2>5, <2>6 DEF nw
<1>9. ASSUME NEW k \in 1 .. size
      PROVE  /\ new[k].start = first + (k - 1) * w
             /\ (k - 1) * w \in Nat /\ (k - 1) * w <= d
  <2>1. k - 1 \in Nat /\ k - 1 <= q
    BY <1>4, <1>6, TimelineAssumption DEF Smaller
  <2>2. (k - 1) * w \in Nat /\ (k - 1) * w <= d
    BY <1>3, <1>4, <2>1, NextMultiple
  <2>3. CASE k <= L
    <3>1. k \in 1 .. Len(buckets)
      BY <1>3, <2>3
    <3>2. buckets[k].start = first + (k - 1) * w
      BY <1>1, <1>3, <3>1 DEF WindowsInv
    <3> QED
      BY <1>8, <2>2, <2>3, <3>2
  <2>4. CASE ~(k <= L)
    <3>1. first + d <= MaxMicros
      <4>1. s[n + 1].micros <= MaxMicros
        BY <1>2
      <4> QED
        BY <1>0, <4>1
    <3>2. BucketStart(k - 1) = first + (k - 1) * w
      BY <1>1, <1>3, <1>4, <2>1, <3>1, StartExact, ZenonT(30)
    <3> QED
      BY <1>8, <2>2, <2>4, <3>2
  <2> QED
    BY <2>3, <2>4
<1>10. ASSUME NEW k \in 1 .. size
       PROVE  new[k].count = Cardinality(Between(s, n + 1, new[k].start, WindowEnd(new[k], k)))
  <2>1. PICK from \in Int, to \in Int : from = new[k].start /\ to = WindowEnd(new[k], k)
    <3>1. new[k].start \in Int
      <4>1. first + (k - 1) * w \in Int
        BY <1>9
      <4> QED
        BY <1>9, <4>1
    <3> QED
      BY <3>1, WindowEndType
  <2>2. PICK before \in Nat : before = (k - 1) * w /\ before <= d /\ from = first + before
    BY <1>9, <2>1
  <2>0. before <= d /\ from = first + before
    BY <2>2
  <2>3. s[n + 1].micros \in from .. to <=> k = size
    <3>1. s[n + 1].micros = first + d /\ d \in Nat
      BY <1>2, <1>3, SMTT(15)
    <3>2. CASE k = size
      <4>1. from <= s[n + 1].micros
        BY <1>0, <2>2
      <4>2. CASE k = MaxBuckets
        BY <1>2, <2>1, <3>2, <4>1, <4>2 DEF WindowEnd
      <4>3. CASE k # MaxBuckets
        <5>1. k = q + 1 /\ to = from + w - 1
          BY <1>3, <1>4, <1>6, <2>1, <3>2, <4>3, TimelineAssumption DEF Smaller, WindowEnd
        <5>2. (k - 1) * w = q * w
          BY <5>1, <1>4
        <5>3. d < before + w
          BY <1>4, <2>2, <5>2
        <5> QED
          <6>1. PICK x \in Int : x = s[n + 1].micros /\ x = first + d
            BY <1>0
          <6>2. from <= x /\ x <= to
            BY <1>0, <2>0, <4>1, <5>1, <5>3, <6>1
          <6> QED
            BY <3>2, <6>1, <6>2
      <4> QED
        BY <4>2, <4>3
    <3>3. CASE k # size
      <4>1. k < size /\ k # MaxBuckets /\ k - 1 \in Nat /\ size - 1 \in Nat
        BY <3>3, TimelineAssumption
      <4>2. to = from + w - 1
        BY <1>3, <2>1, <4>1 DEF WindowEnd
      <4>3. (k - 1) * w + w <= (size - 1) * w /\ (k - 1) * w \in Nat /\ (size - 1) * w \in Nat
        <5>1. k - 1 < size - 1
          BY <4>1
        <5> QED
          BY <4>1, <5>1, NextMultiple
      <4>4. (size - 1) * w <= d
        <5>1. size \in 1 .. size
          BY <4>1
        <5> QED
          BY <1>9, <5>1
      <4>5. before + w <= d
        BY <2>2, <4>3, <4>4, <1>0
      <4> QED
        <5>1. PICK x \in Int : x = s[n + 1].micros /\ x = first + d
          BY <1>0
        <5>2. ~(x <= to)
          BY <1>0, <2>0, <4>2, <4>5, <5>1
        <5> QED
          BY <3>3, <5>1, <5>2
    <3> QED
      BY <3>2, <3>3
  <2>4. /\ Cardinality(Between(s, n, from, to)) \in Nat
        /\ Cardinality(Between(s, n + 1, from, to)) =
             Cardinality(Between(s, n, from, to)) + (IF k = size THEN 1 ELSE 0)
    BY <2>3, BetweenGrows
  <2>5. CASE k <= L
    <3>1. k \in 1 .. Len(buckets)
      BY <1>3, <2>5
    <3>2. buckets[k].start = new[k].start
      BY <1>8, <2>5
    <3>3. buckets[k].count = Cardinality(Between(s, n, from, to))
      BY <1>1, <2>1, <3>1, <3>2 DEF WindowsInv, WindowEnd
    <3> QED
      BY <1>8, <2>1, <2>4, <2>5, <3>3
  <2>6. CASE ~(k <= L)
    <3>1. \A j \in 1 .. n : s[j].micros \in Int /\ s[j].micros < from
      <4> TAKE j \in 1 .. n
      <4>1. n > 0 /\ L < MaxBuckets /\ n \in 1 .. n
        BY <2>6, TimelineAssumption
      <4>2. s[n].micros < first + L * w
        BY <1>7, <4>1
      <4>3. L * w <= (k - 1) * w /\ L * w \in Nat /\ (k - 1) * w \in Nat
        <5>1. k - 1 \in Nat /\ L <= k - 1
          BY <1>3, <2>6
        <5> QED
          BY <1>3, <5>1, NextMultiple
      <4>4. s[j].micros \in Int /\ s[n].micros \in Int /\ s[j].micros <= s[n].micros
        BY <1>2, <4>1
      <4>5. PICK upto \in Nat : upto = L * w /\ upto <= before
        BY <2>2, <4>3
      <4>6. s[n].micros < first + upto
        BY <4>2, <4>5
      <4> QED
        BY <2>2, <4>4, <4>5, <4>6, SMTT(20)
    <3>2. Cardinality(Between(s, n, from, to)) = 0
      BY <3>1, NoneBetween
    <3> QED
      BY <1>8, <2>1, <2>4, <2>6, <3>2
  <2> QED
    BY <2>5, <2>6
<1>11. WindowsInv(s, n + 1, new)
  <2>1. n + 1 # 0
    OBVIOUS
  <2>2. Len(new) = Smaller((s[n + 1].micros - s[1].micros) \div Width + 1, MaxBuckets)
    BY <1>3, <1>4, <1>6, <1>8
  <2> QED
    BY <1>3, <1>8, <1>9, <1>10, <2>1, <2>2 DEF WindowsInv
<1> QED
  BY <1>1, <1>8, <1>11

----------------------------------------------------------------------------
Gap == [before : Int, after : Int, seconds : Int]

GapThreshold == WindowMicros(gap_threshold_seconds)

Wide(s, n) == {k \in 2 .. n : s[k].micros - s[k - 1].micros > GapThreshold}

(* The gaps are intervals between neighbours, one behind the other, and as *)
(* many as there are or room for.                                          *)
GapsInv(s, n, gs) ==
  /\ gs \in Seq(Gap)
  /\ Len(gs) = IF GapsEnabled THEN Smaller(Cardinality(Wide(s, n)), MaxGaps) ELSE 0
  /\ \A g \in 1 .. Len(gs) :
       /\ gs[g].before < gs[g].after
       /\ \E k \in 2 .. n : gs[g].before = s[k - 1].micros /\ gs[g].after = s[k].micros
       /\ g > 1 => gs[g - 1].after <= gs[g].before

LEMMA ThresholdType == GapThreshold \in Nat
BY WindowMicrosType, TimelineAssumption DEF GapThreshold

LEMMA WideGrows ==
  ASSUME NEW s, NEW n \in Nat
  PROVE  /\ Cardinality(Wide(s, n)) \in Nat
         /\ Cardinality(Wide(s, n + 1)) =
              Cardinality(Wide(s, n))
              + (IF n > 0 /\ s[n + 1].micros - s[n].micros > GapThreshold THEN 1 ELSE 0)
<1> DEFINE P == Wide(s, n)
      Q == Wide(s, n + 1)
      new == n > 0 /\ s[n + 1].micros - s[n].micros > GapThreshold
<1>1. IsFiniteSet(P) /\ Cardinality(P) \in Nat
  <2>1. 1 \in Int /\ n \in Int /\ (IF 1 > n THEN 0 ELSE n - 1 + 1) = n
    OBVIOUS
  <2>2. IsFiniteSet(1 .. n)
    BY <2>1, FS_Interval
  <2>3. P \in SUBSET (1 .. n)
    BY DEF Wide
  <2> HIDE DEF P
  <2> QED
    BY <2>2, <2>3, FS_Subset, FS_CardinalityType
<1>2. n + 1 \notin P
  BY DEF Wide
<1>3. Q = IF new THEN P \cup {n + 1} ELSE P
  <2>1. \A k : k \in 2 .. n + 1 <=> k \in 2 .. n \/ (k = n + 1 /\ n > 0)
    OBVIOUS
  <2>2. (n + 1) - 1 = n
    OBVIOUS
  <2> QED
    BY <2>1, <2>2 DEF Wide
<1> HIDE DEF P, Q, new
<1>4. CASE new
  <2>1. Q = P \cup {n + 1}
    BY <1>3, <1>4
  <2>2. Cardinality(P \cup {n + 1}) = Cardinality(P) + 1
    BY <1>1, <1>2, FS_AddElement
  <2> QED
    BY <1>1, <1>4, <2>1, <2>2 DEF P, Q, new
<1>5. CASE ~new
  <2>1. Q = P
    BY <1>3, <1>5
  <2> QED
    BY <1>1, <1>5, <2>1 DEF P, Q, new
<1> QED
  BY <1>4, <1>5

LEMMA GapsStep ==
  ASSUME events \in Seq(Events), NEW n \in Nat, n < Len(Samples),
         SpanUpTo(Samples, n + 1), GapsInv(Samples, n, gaps)
  PROVE  GapsInv(Samples, n + 1, gaps \o GapBefore(n + 1))
<1>1. PICK s : s = Samples
  OBVIOUS
<1>2. /\ InOrder(s) /\ gaps \in Seq(Gap)
      /\ n > 0 => /\ s[n].micros \in Int /\ s[n + 1].micros \in Int
                  /\ s[n + 1].micros - s[n].micros \in 0 .. MaxMicros
  <2>1. InOrder(s) /\ Len(s) \in Nat
    BY <1>1, SamplesInOrder
  <2>2. n > 0 => n \in 1 .. Len(s) /\ n + 1 \in 1 .. Len(s)
    BY <1>1, <2>1
  <2>3. n > 0 => s[n + 1].micros - s[n].micros \in 0 .. MaxMicros
    BY <1>1, <2>1, EarlierSpan
  <2> QED
    BY <2>1, <2>2, <2>3, OrderedTypes DEF GapsInv
<1>3. PICK L \in Nat, W \in Nat, V \in Nat :
        /\ L = Len(gaps) /\ W = Cardinality(Wide(s, n)) /\ V = Cardinality(Wide(s, n + 1))
        /\ V = W + (IF n > 0 /\ s[n + 1].micros - s[n].micros > GapThreshold THEN 1 ELSE 0)
        /\ L = IF GapsEnabled THEN Smaller(W, MaxGaps) ELSE 0
  <2>1. /\ Cardinality(Wide(s, n)) \in Nat
        /\ Cardinality(Wide(s, n + 1)) =
             Cardinality(Wide(s, n))
             + (IF n > 0 /\ s[n + 1].micros - s[n].micros > GapThreshold THEN 1 ELSE 0)
    BY WideGrows
  <2>2. Cardinality(Wide(s, n + 1)) \in Nat
    BY <2>1
  <2>3. Len(gaps) \in Nat /\ Len(gaps) = IF GapsEnabled THEN Smaller(Cardinality(Wide(s, n)), MaxGaps) ELSE 0
    BY <1>1, <1>2 DEF GapsInv
  <2> QED
    BY <2>1, <2>2, <2>3
<1>4. \A g \in 1 .. L :
        /\ gaps[g] \in Gap
        /\ gaps[g].before < gaps[g].after
        /\ \E k \in 2 .. n : gaps[g].before = s[k - 1].micros /\ gaps[g].after = s[k].micros
        /\ g > 1 => gaps[g - 1].after <= gaps[g].before
  BY <1>1, <1>2, <1>3, SMTT(20) DEF GapsInv
<1>5. \A k \in 2 .. n : k \in 2 .. n + 1
  OBVIOUS
<1> DEFINE wide == n > 0 /\ s[n + 1].micros - s[n].micros > GapThreshold
      gap == [before |-> s[n].micros, after |-> s[n + 1].micros,
              seconds |-> (s[n + 1].micros - s[n].micros) \div MicrosPerSecond]
<1>6. GapBefore(n + 1) = IF GapsEnabled /\ wide /\ L < MaxGaps THEN <<gap>> ELSE <<>>
  <2>1. CASE n = 0
    BY <2>1 DEF GapBefore
  <2>2. CASE n > 0
    <3>1. (n + 1) - 1 = n /\ n + 1 > 1
      BY <2>2
    <3>2. Wrap(s[n + 1].micros - s[n].micros) = s[n + 1].micros - s[n].micros
      BY <1>2, <2>2, WrapFits
    <3>3. s[n + 1].micros - s[n].micros >= 0
      BY <1>2, <2>2, MicrosAssumption
    <3> QED
      BY <1>1, <1>3, <2>2, <3>1, <3>2, <3>3, Zenon DEF GapBefore, GapThreshold
  <2> QED
    BY <2>1, <2>2
<1>7. CASE GapsEnabled /\ wide /\ L < MaxGaps
  <2>1. gap \in Gap /\ gap.before < gap.after /\ n > 0
    <3>1. (s[n + 1].micros - s[n].micros) \div MicrosPerSecond \in Int
      BY <1>2, <1>7, MicrosAssumption
    <3>2. s[n].micros < s[n + 1].micros
      BY <1>2, <1>7, ThresholdType
    <3> QED
      BY <1>2, <1>7, <3>1, <3>2 DEF Gap
  <2> DEFINE new == Append(gaps, gap)
  <2>2. gaps \o GapBefore(n + 1) = new
    <3>1. gaps \o <<gap>> = Append(gaps, gap)
      <4> HIDE DEF gap
      <4> QED
        BY <1>2, <2>1
    <3> QED
      BY <1>6, <1>7, <3>1
  <2>3. /\ new \in Seq(Gap) /\ Len(new) = L + 1
        /\ \A g \in 1 .. L : new[g] = gaps[g]
        /\ new[L + 1] = gap
    <3>1. gaps \in Seq(Gap) /\ L = Len(gaps) /\ gap \in Gap
      BY <1>2, <1>3, <2>1
    <3> HIDE DEF gap
    <3> QED
      BY <3>1, AppendProperties
  <2>4. L + 1 = IF GapsEnabled THEN Smaller(V, MaxGaps) ELSE 0
    BY <1>3, <1>7, TimelineAssumption DEF Smaller
  <2>5. ASSUME NEW g \in 1 .. L + 1
        PROVE  /\ new[g].before < new[g].after
               /\ \E k \in 2 .. n + 1 : new[g].before = s[k - 1].micros /\ new[g].after = s[k].micros
               /\ g > 1 => new[g - 1].after <= new[g].before
    <3>1. CASE g \in 1 .. L
      <4>1. new[g] = gaps[g] /\ (g > 1 => g - 1 \in 1 .. L /\ new[g - 1] = gaps[g - 1])
        BY <2>3, <3>1
      <4> HIDE DEF new
      <4> QED
        BY <1>4, <1>5, <3>1, <4>1
    <3>2. CASE g = L + 1
      <4>1. new[g] = gap
        BY <2>3, <3>2
      <4>2. n + 1 \in 2 .. n + 1 /\ (n + 1) - 1 = n
        BY <2>1
      <4>3. \E k \in 2 .. n + 1 : gap.before = s[k - 1].micros /\ gap.after = s[k].micros
        BY <4>2
      <4>4. g > 1 => new[g - 1].after <= gap.before
        <5> SUFFICES ASSUME g > 1 PROVE new[g - 1].after <= gap.before
          OBVIOUS
        <5>1. L \in 1 .. L /\ g - 1 = L
          BY <3>2
        <5>2. new[g - 1] = gaps[L]
          BY <2>3, <5>1
        <5>3. PICK k \in 2 .. n : gaps[L].after = s[k].micros
          BY <1>4, <5>1
        <5>4. k \in 1 .. Len(s) /\ n \in 1 .. Len(s) /\ k <= n
          BY <1>1, <1>2 DEF InOrder
        <5>5. s[k].micros <= s[n].micros
          BY <1>2, <5>4 DEF InOrder
        <5> HIDE DEF new
        <5> QED
          BY <5>2, <5>3, <5>5
      <4> HIDE DEF gap, new
      <4> QED
        BY <2>1, <4>1, <4>3, <4>4
    <3>3. g \in 1 .. L \/ g = L + 1
      OBVIOUS
    <3> HIDE DEF new
    <3> QED
      BY <3>1, <3>2, <3>3
  <2> HIDE DEF new
  <2>6. GapsInv(s, n + 1, new)
    BY <1>3, <2>3, <2>4, <2>5 DEF GapsInv
  <2> QED
    BY <1>1, <2>2, <2>6
<1>8. CASE ~(GapsEnabled /\ wide /\ L < MaxGaps)
  <2>1. gaps \o GapBefore(n + 1) = gaps
    BY <1>2, <1>6, <1>8
  <2>2. L = IF GapsEnabled THEN Smaller(V, MaxGaps) ELSE 0
    BY <1>3, <1>8, TimelineAssumption DEF Smaller
  <2>3. GapsInv(s, n + 1, gaps)
    <3>1. \A g \in 1 .. L :
        /\ gaps[g].before < gaps[g].after
        /\ \E k \in 2 .. n + 1 : gaps[g].before = s[k - 1].micros /\ gaps[g].after = s[k].micros
        /\ g > 1 => gaps[g - 1].after <= gaps[g].before
      BY <1>4, <1>5
    <3> QED
      BY <1>2, <1>3, <2>2, <3>1 DEF GapsInv
  <2> QED
    BY <1>1, <2>1, <2>3
<1> QED
  BY <1>7, <1>8

----------------------------------------------------------------------------
(* At every step of the loop over the samples.                             *)
HistogramInv ==
  /\ placed \in Nat /\ placed <= Len(Samples)
  /\ pc = "ingest" => placed = 0 /\ buckets = <<>> /\ gaps = <<>>
  /\ TotalsInv(Samples, placed, buckets)
  /\ SpanUpTo(Samples, placed) => /\ WindowsInv(Samples, placed, buckets)
                                  /\ GapsInv(Samples, placed, gaps)

LEMMA NothingPlaced ==
  ASSUME NEW s
  PROVE  TotalsInv(s, 0, <<>>) /\ WindowsInv(s, 0, <<>>) /\ GapsInv(s, 0, <<>>)
<1>1. ErrorsIn(s, 0) = {} /\ Wide(s, 0) = {}
  BY DEF ErrorsIn, Wide
<1>2. Cardinality({}) = 0
  BY FS_EmptySet
<1>3. IsSum(Counts(<<>>), 0, 0) /\ IsSum(Errors(<<>>), 0, 0)
  <2> DEFINE f == [k \in 0 .. 0 |-> 0]
  <2>1. f \in [0 .. 0 -> Nat] /\ f[0] = 0 /\ \A k : k \notin 1 .. 0
    OBVIOUS
  <2> HIDE DEF f
  <2>2. \A c : SumsTo(f, c, 0)
    BY <2>1 DEF SumsTo
  <2> QED
    BY <2>1, <2>2 DEF IsSum
<1>4. TotalsInv(s, 0, <<>>)
  <2>1. <<>> \in Seq(Bucket) /\ Len(<<>>) = 0
    OBVIOUS
  <2>2. MaxBuckets \in Nat /\ 0 <= MaxBuckets
    BY TimelineAssumption
  <2> QED
    BY <1>1, <1>2, <1>3, <2>1, <2>2, Zenon DEF TotalsInv
<1>5. WindowsInv(s, 0, <<>>)
  BY DEF WindowsInv
<1>6. GapsInv(s, 0, <<>>)
  BY <1>1, <1>2, TimelineAssumption DEF GapsInv, Smaller
<1> QED
  BY <1>4, <1>5, <1>6

LEMMA SamplesStay ==
  ASSUME events' = events
  PROVE  Samples' = Samples
BY DEF Samples, StableOrder, Sample, AtLeastAsSevere

LEMMA HistogramStep ==
  ASSUME events \in Seq(Events), HistogramInv, PlaceSample, events' = events, pc = "timeline", pc' = pc
  PROVE  HistogramInv'
<1>0. placed \in Nat
  BY DEF HistogramInv
<1>1. PICK s : s = Samples
  OBVIOUS
<1> DEFINE n == placed
<1>2. /\ n < Len(s) /\ placed' = n + 1 /\ gaps' = gaps \o GapBefore(n + 1)
      /\ \E b \in BucketIndices(s[n + 1].micros) : buckets' = Counting(Grown(b), b, s[n + 1])
  BY <1>1 DEF PlaceSample
<1>3. PICK b \in BucketIndices(s[n + 1].micros) : buckets' = Counting(Grown(b), b, s[n + 1])
  BY <1>2
<1>4. TotalsInv(s, n, buckets)
  BY <1>1 DEF HistogramInv
<1>5. TotalsInv(s, n + 1, buckets')
  BY <1>0, <1>1, <1>2, <1>3, <1>4, TotalsStep
<1>6. ASSUME SpanUpTo(s, n + 1)
      PROVE  WindowsInv(s, n + 1, buckets') /\ GapsInv(s, n + 1, gaps')
  <2>1. SpanUpTo(s, n)
    BY <1>0, <1>1, <1>2, <1>6, SamplesInOrder, EarlierSpan
  <2>2. WindowsInv(s, n, buckets) /\ GapsInv(s, n, gaps)
    BY <1>1, <2>1 DEF HistogramInv
  <2>3. WindowsInv(s, n + 1, buckets')
    BY <1>0, <1>1, <1>2, <1>3, <1>4, <1>6, <2>2, WindowsStep
  <2>4. GapsInv(s, n + 1, gaps')
    BY <1>0, <1>1, <1>2, <1>6, <2>2, GapsStep
  <2> QED
    BY <2>3, <2>4
<1>7. Len(s) \in Nat /\ n + 1 \in Nat /\ n + 1 <= Len(s)
  BY <1>0, <1>1, <1>2, SamplesInOrder
<1>8. Samples' = s
  BY <1>1, SamplesStay
<1>9. /\ TotalsInv(Samples', placed', buckets')
      /\ SpanUpTo(Samples', placed') => /\ WindowsInv(Samples', placed', buckets')
                                        /\ GapsInv(Samples', placed', gaps')
  BY <1>2, <1>5, <1>6, <1>8
<1> HIDE DEF n
<1> QED
  BY <1>0, <1>2, <1>7, <1>8, <1>9 DEF HistogramInv, n

(* The samples of the stream at the next step are samples, too.           *)
LEMMA SamplesLength ==
  ASSUME (events \in Seq(Events))'
  PROVE  (Len(Samples) \in Nat)'
BY SamplesInOrder

LEMMA HistogramInvHolds == Spec => []HistogramInv
<1>1. Init => HistogramInv
  <2> SUFFICES ASSUME Init PROVE HistogramInv
    OBVIOUS
  <2>1. pc = "ingest" /\ placed = 0 /\ buckets = <<>> /\ gaps = <<>> /\ events = <<>>
    BY DEF Init, InitStream, InitTimeline
  <2>2. Len(Samples) \in Nat
    <3>1. events \in Seq(Events)
      BY <2>1
    <3> QED
      BY <3>1, SamplesInOrder
  <2> QED
    BY <2>1, <2>2, NothingPlaced DEF HistogramInv
<1>2. SessionInv /\ HistogramInv /\ [Next]_vars => HistogramInv'
  <2> SUFFICES ASSUME SessionInv, HistogramInv, [Next]_vars
               PROVE  HistogramInv'
    OBVIOUS
  <2>1. events \in Seq(Events)
    BY DEF SessionInv
  <2>2. ASSUME events' = events, UNCHANGED timelineVars, pc' # "ingest" \/ pc' = pc
        PROVE  HistogramInv'
    <3>1. Samples' = Samples
      BY <2>2, SamplesStay
    <3>2. placed' = placed /\ buckets' = buckets /\ gaps' = gaps
      BY <2>2 DEF timelineVars
    <3>3. /\ TotalsInv(Samples', placed', buckets')
          /\ SpanUpTo(Samples', placed') => /\ WindowsInv(Samples', placed', buckets')
                                            /\ GapsInv(Samples', placed', gaps')
      BY <3>1, <3>2 DEF HistogramInv
    <3> QED
      BY <2>2, <3>1, <3>2, <3>3 DEF HistogramInv
  <2>3. CASE Ingest
    <3>1. /\ pc = "ingest" /\ pc' = "ingest"
          /\ placed' = placed /\ buckets' = buckets /\ gaps' = gaps
      BY <2>3 DEF Ingest, timelineVars
    <3>2. placed' = 0 /\ buckets' = <<>> /\ gaps' = <<>>
      BY <3>1 DEF HistogramInv
    <3>3. PICK e \in Events : events' = Append(events, e)
      BY <2>3 DEF Ingest, Add
    <3>4. events' \in Seq(Events)
      BY <2>1, <3>3
    <3>5. (Len(Samples) \in Nat)'
      BY <3>4, SamplesLength
    <3> QED
      BY <3>1, <3>2, <3>5, NothingPlaced DEF HistogramInv
  <2>4. CASE BuildTimeline
    BY <2>2, <2>4 DEF BuildTimeline, streamVars
  <2>5. CASE TimelineSample
    BY <2>1, <2>5, HistogramStep DEF TimelineSample, streamVars
  <2>6. CASE BuildSessions
    BY <2>2, <2>6 DEF BuildSessions, streamVars
  <2>7. CASE SessionStep
    BY <2>2, <2>7 DEF SessionStep, streamVars
  <2>8. CASE Finish
    BY <2>2, <2>8 DEF Finish, streamVars
  <2>9. CASE ComputeStatistics
    BY <2>2, <2>9 DEF ComputeStatistics, streamVars
  <2>10. CASE StatisticsEvent
    BY <2>2, <2>10 DEF StatisticsEvent, streamVars
  <2>11. CASE UNCHANGED vars
    BY <2>2, <2>11 DEF vars, streamVars
  <2> QED
    BY <2>3, <2>4, <2>5, <2>6, <2>7, <2>8, <2>9, <2>10, <2>11 DEF Next
<1> QED
  BY <1>1, <1>2, SessionInvHolds, PTL DEF Spec

LEMMA WindowsExact ==
  ASSUME events \in Seq(Events), HistogramInv
  PROVE  BucketsExact
<1>1. SUFFICES ASSUME SpanFits, NEW k \in DOMAIN buckets
               PROVE  LET to == IF k = MaxBuckets THEN MaxMicros ELSE buckets[k].start + Width - 1
                      IN  /\ k > 1 => buckets[k].start \in {buckets[k - 1].start + Width, MaxMicros}
                          /\ buckets[k].count = Cardinality(PlacedIn(buckets[k].start, to))
  BY DEF BucketsExact
<1>2. SpanUpTo(Samples, placed)
  BY <1>1 DEF SpanFits, SpanUpTo
<1>3. /\ WindowsInv(Samples, placed, buckets) /\ k \in 1 .. Len(buckets) /\ Len(buckets) \in Nat
      /\ placed \in Nat /\ placed <= Len(Samples)
  BY <1>1, <1>2 DEF HistogramInv, TotalsInv
<1>4. buckets[k].count = Cardinality(Between(Samples, placed, buckets[k].start, WindowEnd(buckets[k], k)))
  BY <1>3 DEF WindowsInv
<1>5. k > 1 => buckets[k].start = buckets[k - 1].start + Width
  <2> SUFFICES ASSUME k > 1 PROVE buckets[k].start = buckets[k - 1].start + Width
    OBVIOUS
  <2>1. PICK w \in Nat \ {0} : w = Width
    BY WidthType
  <2>2. placed # 0
    BY <1>3 DEF WindowsInv
  <2>3. PICK first \in Int : first = Samples[1].micros
    <3>1. 1 \in 1 .. Len(Samples) /\ InOrder(Samples)
      BY <1>3, <2>2, SamplesInOrder
    <3> QED
      BY <3>1, OrderedTypes
  <2>4. PICK j \in Nat : j = k - 1 /\ j \in 1 .. Len(buckets)
    BY <1>3
  <2>5. buckets[k].start = first + (k - 1) * w /\ buckets[j].start = first + (j - 1) * w
    BY <1>3, <2>1, <2>3, <2>4 DEF WindowsInv
  <2>6. (k - 1) * w = (j - 1) * w + w
    <3>1. k - 1 = (j - 1) + 1 /\ j - 1 \in Int
      BY <2>4
    <3>2. \A i \in Int : (i + 1) * w = i * w + w
      OBVIOUS
    <3> QED
      BY <3>1, <3>2
  <2>7. PICK a \in Int : a = (j - 1) * w
    BY <2>4
  <2> QED
    BY <2>1, <2>4, <2>5, <2>6, <2>7
<1> QED
  BY <1>4, <1>5 DEF WindowEnd, Between, PlacedIn

LEMMA GapsAreExact ==
  ASSUME events \in Seq(Events), HistogramInv
  PROVE  GapsExact
<1>1. SUFFICES ASSUME SpanFits
               PROVE  /\ Len(gaps) = IF GapsEnabled
                                      THEN Smaller(Cardinality(Wide(Samples, placed)), MaxGaps) ELSE 0
                      /\ \A g \in DOMAIN gaps :
                           /\ gaps[g].before < gaps[g].after
                           /\ PlacedIn(gaps[g].before + 1, gaps[g].after - 1) = {}
                           /\ g > 1 => gaps[g - 1].after <= gaps[g].before
  BY DEF GapsExact, Wide, GapThreshold
<1>2. SpanUpTo(Samples, placed)
  BY <1>1 DEF SpanFits, SpanUpTo
<1>3. /\ GapsInv(Samples, placed, gaps) /\ placed \in Nat /\ placed <= Len(Samples)
      /\ InOrder(Samples) /\ Len(Samples) \in Nat
  BY <1>2, SamplesInOrder DEF HistogramInv
<1>0. /\ DOMAIN gaps = 1 .. Len(gaps)
      /\ Len(gaps) = IF GapsEnabled THEN Smaller(Cardinality(Wide(Samples, placed)), MaxGaps) ELSE 0
      /\ \A g \in 1 .. Len(gaps) :
           /\ gaps[g].before < gaps[g].after
           /\ \E k \in 2 .. placed :
                gaps[g].before = Samples[k - 1].micros /\ gaps[g].after = Samples[k].micros
           /\ g > 1 => gaps[g - 1].after <= gaps[g].before
  <2>1. gaps \in Seq(Gap)
    BY <1>3 DEF GapsInv
  <2>2. DOMAIN gaps = 1 .. Len(gaps)
    BY <2>1
  <2> QED
    BY <1>3, <2>2 DEF GapsInv
<1>4. ASSUME NEW g \in DOMAIN gaps
      PROVE  PlacedIn(gaps[g].before + 1, gaps[g].after - 1) = {}
  <2>1. PICK s : s = Samples
    OBVIOUS
  <2>2. PICK k \in 2 .. placed : gaps[g].before = s[k - 1].micros /\ gaps[g].after = s[k].micros
    BY <1>0, <2>1
  <2>3. PICK a \in Int, z \in Int : a = s[k - 1].micros /\ z = s[k].micros
    <3>1. k \in 1 .. Len(s) /\ k - 1 \in 1 .. Len(s)
      BY <1>3, <2>1
    <3> QED
      BY <1>3, <2>1, <3>1, OrderedTypes
  <2>4. ASSUME NEW j \in 1 .. placed
        PROVE  s[j].micros \notin a + 1 .. z - 1
    <3>1. /\ j \in 1 .. Len(s) /\ k \in 1 .. Len(s) /\ k - 1 \in 1 .. Len(s)
          /\ j <= k - 1 \/ k <= j
      BY <1>3, <2>1
    <3>2. s[j].micros \in Int /\ (s[j].micros <= a \/ z <= s[j].micros)
      BY <1>3, <2>1, <2>3, <3>1, OrderedTypes
    <3> QED
      BY <3>2
  <2> QED
    BY <2>1, <2>2, <2>3, <2>4 DEF PlacedIn
<1> QED
  BY <1>0, <1>4, Zenon

(* For any stream, width, threshold and caps the histogram counts every    *)
(* event once; and as long as the span fits in 64 bits, each bucket its    *)
(* own window, and the gaps are the wide intervals between neighbours, in  *)
(* order, as many as there is room for.                                    *)
THEOREM HistogramIsExact == Spec => []HistogramExact
<1>1. SessionInv /\ HistogramInv => HistogramExact
  <2> SUFFICES ASSUME SessionInv, HistogramInv PROVE HistogramExact
    OBVIOUS
  <2>1. events \in Seq(Events)
    BY DEF SessionInv
  <2>2. TotalsInv(Samples, placed, buckets)
    BY DEF HistogramInv
  <2> QED
    BY <2>1, <2>2, TotalsExact, WindowsExact, GapsAreExact DEF HistogramExact
<1> QED
  BY <1>1, SessionInvHolds, HistogramInvHolds, PTL

----------------------------------------------------------------------------
(* The statistics. K gives each place of the stream the keys, one or none, *)
(* that a counter counts its event under.                                  *)
AllKeys == {KeyOrder[k] : k \in DOMAIN KeyOrder}

Entry == [key : AllKeys, count : Nat]

OneKey(K, m) == \A k \in 1 .. m : K[k] = {} \/ \E key \in AllKeys : K[k] = {key}

Keyed(K, n) == {k \in 1 .. n : K[k] # {}}

With(K, key, n) == {k \in 1 .. n : key \in K[k]}

Starts(K, key, p) == key \in K[p] /\ \A q \in 1 .. p - 1 : key \notin K[q]

(* The entries s after n events: every key starts somewhere, the entries   *)
(* are in the order their keys start, and a key without an entry came when *)
(* the counter was full.                                                   *)
FirstKeys(K, s, n) ==
  /\ \A k \in 1 .. n : \A key \in K[k] : \E p \in 1 .. n : Starts(K, key, p)
  /\ \A k \in 1 .. Len(s) : \E p \in 1 .. n : Starts(K, s[k].key, p)
  /\ \A j, k \in 1 .. Len(s) : j < k =>
       \A p, q \in 1 .. n : Starts(K, s[j].key, p) /\ Starts(K, s[k].key, q) => p < q
  /\ \A k \in 1 .. n : \A key \in K[k] :
       \/ \E j \in 1 .. Len(s) : s[j].key = key
       \/ /\ Len(s) = MaxDistinctKeys
          /\ \A j \in 1 .. Len(s), p \in 1 .. n : Starts(K, s[j].key, p) => p < k

CounterInv(K, c, n) ==
  /\ c.entries \in Seq(Entry) /\ Len(c.entries) <= MaxDistinctKeys
  /\ FirstKeys(K, c.entries, n)
  /\ c.total = Capped(Cardinality(Keyed(K, n)))
  /\ \A k \in 1 .. Len(c.entries) :
       c.entries[k].count = Capped(Cardinality(With(K, c.entries[k].key, n)))

LEMMA Places ==
  ASSUME NEW n \in Nat, NEW S, S \subseteq 1 .. n
  PROVE  IsFiniteSet(S) /\ Cardinality(S) \in Nat /\ Cardinality(S) <= n
<1>1. 1 \in Int /\ n \in Int /\ (IF 1 > n THEN 0 ELSE n - 1 + 1) = n
  OBVIOUS
<1>2. IsFiniteSet(1 .. n) /\ Cardinality(1 .. n) = n
  BY <1>1, FS_Interval
<1>3. IsFiniteSet(S) /\ Cardinality(S) <= Cardinality(1 .. n)
  BY <1>2, FS_Subset
<1> QED
  BY <1>2, <1>3, FS_CardinalityType

LEMMA OneMorePlace ==
  ASSUME NEW n \in Nat, NEW S, S \subseteq 1 .. n, NEW T, T = S \/ T = S \cup {n + 1}
  PROVE  /\ Cardinality(S) \in Nat
         /\ T = S => Cardinality(T) = Cardinality(S)
         /\ T = S \cup {n + 1} => Cardinality(T) = Cardinality(S) + 1
<1>1. IsFiniteSet(S) /\ Cardinality(S) \in Nat
  BY Places
<1>2. n + 1 \notin S
  OBVIOUS
<1>3. Cardinality(S \cup {n + 1}) = Cardinality(S) + 1
  BY <1>1, <1>2, FS_AddElement
<1> QED
  BY <1>1, <1>3

LEMMA CappedGrows ==
  ASSUME NEW m \in Nat
  PROVE  Increment(Capped(m)) = Capped(m + 1) /\ Capped(m) \in Nat
<1>1. MaxCount \in Nat \ {0}
  BY StatisticsAssumption
<1> QED
  BY <1>1 DEF Increment, Capped

LEMMA KeyedGrows ==
  ASSUME NEW K, NEW n \in Nat
  PROVE  /\ Keyed(K, n) \subseteq 1 .. n
         /\ Keyed(K, n + 1) = IF K[n + 1] # {} THEN Keyed(K, n) \cup {n + 1} ELSE Keyed(K, n)
<1>1. 1 .. n + 1 = (1 .. n) \cup {n + 1}
  OBVIOUS
<1> QED
  BY <1>1 DEF Keyed

LEMMA WithGrows ==
  ASSUME NEW K, NEW n \in Nat, NEW key
  PROVE  /\ With(K, key, n) \subseteq 1 .. n
         /\ With(K, key, n + 1) = IF key \in K[n + 1] THEN With(K, key, n) \cup {n + 1}
                                  ELSE With(K, key, n)
<1>1. 1 .. n + 1 = (1 .. n) \cup {n + 1}
  OBVIOUS
<1> QED
  BY <1>1 DEF With

(* The cardinalities a step changes.                                       *)
LEMMA KeyedCount ==
  ASSUME NEW K, NEW n \in Nat
  PROVE  Capped(Cardinality(Keyed(K, n + 1))) =
           IF K[n + 1] # {} THEN Increment(Capped(Cardinality(Keyed(K, n))))
           ELSE Capped(Cardinality(Keyed(K, n)))
<1>1. PICK S, T : S = Keyed(K, n) /\ T = Keyed(K, n + 1)
  OBVIOUS
<1>2. S \subseteq 1 .. n /\ T = IF K[n + 1] # {} THEN S \cup {n + 1} ELSE S
  BY <1>1, KeyedGrows
<1>3. /\ Cardinality(S) \in Nat /\ (K[n + 1] = {} => Cardinality(T) = Cardinality(S))
      /\ K[n + 1] # {} => Cardinality(T) = Cardinality(S) + 1
  <2>1. T = S \/ T = S \cup {n + 1}
    BY <1>2
  <2>2. /\ Cardinality(S) \in Nat /\ (T = S => Cardinality(T) = Cardinality(S))
        /\ T = S \cup {n + 1} => Cardinality(T) = Cardinality(S) + 1
    BY <1>2, <2>1, OneMorePlace, ZenonT(30)
  <2> QED
    BY <1>2, <2>2
<1> QED
  <2> PICK m \in Nat : m = Cardinality(S)
    BY <1>3
  <2>1. Increment(Capped(m)) = Capped(m + 1)
    BY CappedGrows
  <2> QED
    BY <1>1, <1>3, <2>1

LEMMA WithCount ==
  ASSUME NEW K, NEW n \in Nat, NEW key
  PROVE  Capped(Cardinality(With(K, key, n + 1))) =
           IF key \in K[n + 1] THEN Increment(Capped(Cardinality(With(K, key, n))))
           ELSE Capped(Cardinality(With(K, key, n)))
<1>1. PICK S, T : S = With(K, key, n) /\ T = With(K, key, n + 1)
  OBVIOUS
<1>2. S \subseteq 1 .. n /\ T = IF key \in K[n + 1] THEN S \cup {n + 1} ELSE S
  BY <1>1, WithGrows
<1>3. /\ Cardinality(S) \in Nat /\ (key \notin K[n + 1] => Cardinality(T) = Cardinality(S))
      /\ key \in K[n + 1] => Cardinality(T) = Cardinality(S) + 1
  <2>1. T = S \/ T = S \cup {n + 1}
    BY <1>2
  <2>2. /\ Cardinality(S) \in Nat /\ (T = S => Cardinality(T) = Cardinality(S))
        /\ T = S \cup {n + 1} => Cardinality(T) = Cardinality(S) + 1
    BY <1>2, <2>1, OneMorePlace, ZenonT(30)
  <2> QED
    BY <1>2, <2>2
<1> QED
  BY <1>1, <1>3, CappedGrows

LEMMA StartsOnce ==
  ASSUME NEW K, NEW key, NEW p \in Nat \ {0}, NEW q \in Nat \ {0}, Starts(K, key, p), Starts(K, key, q)
  PROVE  p = q
BY DEF Starts

(* Every key that has an event by now has a first one by now.              *)
LEMMA StartsGrow ==
  ASSUME NEW K, NEW n \in Nat,
         \A k \in 1 .. n : \A key \in K[k] : \E p \in 1 .. n : Starts(K, key, p)
  PROVE  /\ \A k \in 1 .. n + 1 : \A key \in K[k] : \E p \in 1 .. n + 1 : Starts(K, key, p)
         /\ \A key : Starts(K, key, n + 1) <=> key \in K[n + 1] /\ \A k \in 1 .. n : key \notin K[k]
<1>1. 1 .. n + 1 = (1 .. n) \cup {n + 1} /\ (n + 1) - 1 = n
  OBVIOUS
<1>2. \A key : Starts(K, key, n + 1) <=> key \in K[n + 1] /\ \A k \in 1 .. n : key \notin K[k]
  BY <1>1 DEF Starts
<1>3. ASSUME NEW k \in 1 .. n + 1, NEW key \in K[k]
      PROVE  \E p \in 1 .. n + 1 : Starts(K, key, p)
  <2>1. CASE \E j \in 1 .. n : key \in K[j]
    BY <1>1, <2>1
  <2>2. CASE ~\E j \in 1 .. n : key \in K[j]
    <3>1. k = n + 1
      BY <1>1, <2>2
    <3> QED
      BY <1>1, <1>2, <2>2, <3>1
  <2> QED
    BY <2>1, <2>2
<1> QED
  BY <1>2, <1>3

(* No key starts that has an entry or finds the counter full.              *)
LEMMA KeysStay ==
  ASSUME NEW K, NEW n \in Nat, NEW s \in Seq(Entry), FirstKeys(K, s, n),
         \A key \in K[n + 1] :
           (\E j \in 1 .. Len(s) : s[j].key = key) \/ Len(s) = MaxDistinctKeys
  PROVE  FirstKeys(K, s, n + 1)
<1>1. 1 .. n + 1 = (1 .. n) \cup {n + 1}
  OBVIOUS
<1>2. PICK len \in Nat : len = Len(s)
  OBVIOUS
<1>3. \A j \in 1 .. len : ~Starts(K, s[j].key, n + 1)
  <2> SUFFICES ASSUME NEW j \in 1 .. len, Starts(K, s[j].key, n + 1) PROVE FALSE
    OBVIOUS
  <2>1. PICK p \in 1 .. n : Starts(K, s[j].key, p)
    BY <1>2 DEF FirstKeys
  <2>2. p = n + 1
    BY <2>1, StartsOnce
  <2> QED
    BY <2>2
<1>4. \A k \in 1 .. n + 1 : \A key \in K[k] : \E p \in 1 .. n + 1 : Starts(K, key, p)
  BY StartsGrow DEF FirstKeys
<1>5. \A k \in 1 .. len : \E p \in 1 .. n + 1 : Starts(K, s[k].key, p)
  BY <1>1, <1>2 DEF FirstKeys
<1>6. \A j, k \in 1 .. len : j < k =>
        \A p, q \in 1 .. n + 1 : Starts(K, s[j].key, p) /\ Starts(K, s[k].key, q) => p < q
  <2> SUFFICES ASSUME NEW j \in 1 .. len, NEW k \in 1 .. len, j < k,
                      NEW p \in 1 .. n + 1, NEW q \in 1 .. n + 1,
                      Starts(K, s[j].key, p), Starts(K, s[k].key, q)
               PROVE  p < q
    OBVIOUS
  <2>1. p \in 1 .. n /\ q \in 1 .. n
    BY <1>1, <1>3
  <2> QED
    BY <1>2, <2>1 DEF FirstKeys
<1>7. ASSUME NEW k \in 1 .. n + 1, NEW key \in K[k], ~\E j \in 1 .. len : s[j].key = key
      PROVE  /\ len = MaxDistinctKeys
             /\ \A j \in 1 .. len, p \in 1 .. n + 1 : Starts(K, s[j].key, p) => p < k
  <2>1. len = MaxDistinctKeys
    BY <1>1, <1>2, <1>7 DEF FirstKeys
  <2>2. ASSUME NEW j \in 1 .. len, NEW p \in 1 .. n + 1, Starts(K, s[j].key, p)
        PROVE  p < k
    <3>1. p \in 1 .. n
      BY <1>1, <1>3, <2>2
    <3>2. CASE k = n + 1
      BY <3>1, <3>2
    <3>3. CASE k \in 1 .. n
      BY <1>2, <1>7, <2>2, <3>1, <3>3 DEF FirstKeys
    <3> QED
      BY <1>1, <3>2, <3>3
  <2> QED
    BY <2>1, <2>2
<1> QED
  BY <1>2, <1>4, <1>5, <1>6, <1>7, Zenon DEF FirstKeys

(* A key that finds room starts here, behind all the others.               *)
LEMMA KeysMore ==
  ASSUME NEW K, NEW n \in Nat, NEW s \in Seq(Entry), FirstKeys(K, s, n),
         NEW e \in Entry, K[n + 1] = {e.key}, Len(s) # MaxDistinctKeys,
         \A j \in 1 .. Len(s) : s[j].key # e.key
  PROVE  FirstKeys(K, Append(s, e), n + 1)
<1>1. 1 .. n + 1 = (1 .. n) \cup {n + 1}
  OBVIOUS
<1>2. PICK len \in Nat : len = Len(s)
  OBVIOUS
<1>3. PICK t : t = Append(s, e)
  OBVIOUS
<1>4. Len(t) = len + 1 /\ t[len + 1] = e /\ \A j \in 1 .. len : t[j] = s[j]
  BY <1>2, <1>3, AppendProperties
<1>5. 1 .. len + 1 = (1 .. len) \cup {len + 1}
  OBVIOUS
<1>6. \A k \in 1 .. n : \A key \in K[k] : \E j \in 1 .. len : s[j].key = key
  BY <1>2 DEF FirstKeys
<1>7. \A key : Starts(K, key, n + 1) <=> key = e.key
  <2>1. \A key : Starts(K, key, n + 1) <=> key \in K[n + 1] /\ \A k \in 1 .. n : key \notin K[k]
    BY StartsGrow DEF FirstKeys
  <2>2. \A k \in 1 .. n : e.key \notin K[k]
    BY <1>2, <1>6
  <2> QED
    BY <2>1, <2>2
<1>8. \A p \in 1 .. n : ~Starts(K, e.key, p)
  BY <1>2, <1>6 DEF Starts
<1>9. \A k \in 1 .. n + 1 : \A key \in K[k] : \E p \in 1 .. n + 1 : Starts(K, key, p)
  BY StartsGrow DEF FirstKeys
<1>10. \A k \in 1 .. len + 1 : \E p \in 1 .. n + 1 : Starts(K, t[k].key, p)
  <2>1. \A k \in 1 .. len : \E p \in 1 .. n : Starts(K, t[k].key, p)
    BY <1>2, <1>4 DEF FirstKeys
  <2>2. Starts(K, t[len + 1].key, n + 1)
    BY <1>4, <1>7
  <2> QED
    BY <1>1, <1>5, <2>1, <2>2
<1>11. \A j, k \in 1 .. len + 1 : j < k =>
        \A p, q \in 1 .. n + 1 : Starts(K, t[j].key, p) /\ Starts(K, t[k].key, q) => p < q
  <2> SUFFICES ASSUME NEW j \in 1 .. len + 1, NEW k \in 1 .. len + 1, j < k,
                      NEW p \in 1 .. n + 1, NEW q \in 1 .. n + 1,
                      Starts(K, t[j].key, p), Starts(K, t[k].key, q)
               PROVE  p < q
    OBVIOUS
  <2>1. j \in 1 .. len /\ t[j] = s[j]
    BY <1>4
  <2>2. p \in 1 .. n
    BY <1>1, <1>2, <1>7, <2>1
  <2>3. CASE k = len + 1
    <3>1. q = n + 1
      BY <1>1, <1>4, <1>8, <2>3
    <3> QED
      BY <2>2, <3>1
  <2>4. CASE k \in 1 .. len
    <3>1. t[k] = s[k] /\ q \in 1 .. n
      BY <1>1, <1>2, <1>4, <1>7, <2>4
    <3> QED
      BY <1>2, <2>1, <2>2, <2>4, <3>1 DEF FirstKeys
  <2> QED
    BY <1>5, <2>3, <2>4
<1>12. \A k \in 1 .. n + 1 : \A key \in K[k] : \E j \in 1 .. len + 1 : t[j].key = key
  <2> SUFFICES ASSUME NEW k \in 1 .. n + 1, NEW key \in K[k]
               PROVE  \E j \in 1 .. len + 1 : t[j].key = key
    OBVIOUS
  <2>1. CASE k = n + 1
    BY <1>4, <1>5, <2>1
  <2>2. CASE k \in 1 .. n
    BY <1>4, <1>5, <1>6, <2>2
  <2> QED
    BY <1>1, <2>1, <2>2
<1> QED
  BY <1>3, <1>4, <1>9, <1>10, <1>11, <1>12, Zenon DEF FirstKeys

(* Counter::add keeps the entries typed, few and in order.                 *)
LEMMA CounterStep ==
  ASSUME NEW K, NEW n \in Nat, NEW c, CounterInv(K, c, n),
         NEW key \in AllKeys, K[n + 1] = {key}
  PROVE  CounterInv(K, CounterAdd(c, key), n + 1)
<1>1. PICK s : s = c.entries
  OBVIOUS
<1>2. PICK len \in Nat : /\ len = Len(s) /\ DOMAIN s = 1 .. len
                        /\ s \in Seq(Entry) /\ len <= MaxDistinctKeys
  BY <1>1 DEF CounterInv
<1>3. PICK d : d = CounterAdd(c, key)
  OBVIOUS
<1>4. /\ d.total = Increment(c.total)
      /\ d.entries = IF PlaceIn(s, key) # {}
                     THEN [k \in DOMAIN s |->
                             IF s[k].key = key
                             THEN [s[k] EXCEPT !.count = Increment(@)] ELSE s[k]]
                     ELSE IF Len(s) >= MaxDistinctKeys THEN s
                     ELSE Append(s, [key |-> key, count |-> 1])
  BY <1>1, <1>3 DEF CounterAdd
<1>5. d.total = Capped(Cardinality(Keyed(K, n + 1)))
  BY <1>4, KeyedCount DEF CounterInv
<1>6. PlaceIn(s, key) = {k \in 1 .. len : s[k].key = key}
  BY <1>2 DEF PlaceIn
<1>7. /\ MaxDistinctKeys \in Nat /\ FirstKeys(K, s, n)
      /\ \A k \in 1 .. len : s[k].count = Capped(Cardinality(With(K, s[k].key, n)))
  BY <1>1, <1>2, StatisticsAssumption DEF CounterInv
<1>8. \A k \in 1 .. len : s[k] \in Entry
  BY <1>2
<1>9. \A other : Capped(Cardinality(With(K, other, n))) \in Nat
  <2> TAKE other
  <2>1. PICK S : S = With(K, other, n) /\ S \subseteq 1 .. n
    BY WithGrows
  <2>2. PICK m \in Nat : m = Cardinality(S)
    BY <2>1, Places
  <2> QED
    BY <2>1, <2>2, CappedGrows
<1>10. CASE PlaceIn(s, key) # {}
  <2>1. PICK t : t = d.entries
    OBVIOUS
  <2>2. t = [k \in 1 .. len |-> IF s[k].key = key
                               THEN [s[k] EXCEPT !.count = Increment(@)] ELSE s[k]]
    BY <1>2, <1>4, <1>10, <2>1
  <2>3. ASSUME NEW k \in 1 .. len
        PROVE  /\ t[k] \in Entry /\ t[k].key = s[k].key
               /\ t[k].count = Capped(Cardinality(With(K, s[k].key, n + 1)))
    <3>1. s[k] = [key |-> s[k].key, count |-> s[k].count] /\ s[k].key \in AllKeys
      BY <1>8 DEF Entry
    <3>2. PICK m : m = IF s[k].key = key THEN Increment(s[k].count) ELSE s[k].count
      OBVIOUS
    <3>3. t[k] = [key |-> s[k].key, count |-> m]
      BY <2>2, <3>1, <3>2
    <3>4. m = Capped(Cardinality(With(K, s[k].key, n + 1)))
      BY <1>7, <3>2, WithCount
    <3>5. m \in Nat
      <4>1. m = Increment(Capped(Cardinality(With(K, s[k].key, n)))) \/ m = s[k].count
        BY <1>7, <3>2
      <4>2. \A i \in Nat : Increment(i) \in Nat
        BY StatisticsAssumption DEF Increment
      <4>3. s[k].count \in Nat
        BY <1>8 DEF Entry
      <4> QED
        BY <1>9, <4>1, <4>2, <4>3
    <3> QED
      BY <3>1, <3>3, <3>4, <3>5 DEF Entry
  <2>4. t \in Seq(Entry) /\ Len(t) = len
    <3>1. t = [k \in 1 .. len |-> t[k]]
      BY <2>2
    <3>2. \A k \in 1 .. len : t[k] \in Entry
      BY <2>3
    <3> QED
      BY <3>1, <3>2
  <2>5. FirstKeys(K, s, n + 1)
    <3>1. \E j \in 1 .. Len(s) : s[j].key = key
      BY <1>2, <1>6, <1>10
    <3> QED
      BY <1>2, <1>7, <3>1, KeysStay
  <2>6. FirstKeys(K, t, n + 1)
    BY <1>2, <2>3, <2>4, <2>5 DEF FirstKeys
  <2> QED
    BY <1>2, <1>3, <1>5, <2>1, <2>3, <2>4, <2>6 DEF CounterInv
<1>11. CASE PlaceIn(s, key) = {} /\ Len(s) >= MaxDistinctKeys
  <2>1. d.entries = s /\ Len(s) = MaxDistinctKeys
    BY <1>2, <1>4, <1>7, <1>11
  <2>2. FirstKeys(K, s, n + 1)
    BY <1>2, <1>7, <2>1, KeysStay
  <2>3. ASSUME NEW k \in 1 .. len
        PROVE  s[k].count = Capped(Cardinality(With(K, s[k].key, n + 1)))
    <3>1. s[k].key \notin K[n + 1]
      BY <1>6, <1>11
    <3> QED
      BY <1>7, <3>1, WithCount
  <2> QED
    BY <1>2, <1>3, <1>5, <2>1, <2>2, <2>3 DEF CounterInv
<1>12. CASE PlaceIn(s, key) = {} /\ ~(Len(s) >= MaxDistinctKeys)
  <2>1. PICK e : e = [key |-> key, count |-> 1]
    OBVIOUS
  <2>2. e \in Entry /\ e.key = key /\ e.count = 1
    BY <2>1 DEF Entry
  <2>3. PICK t : t = Append(s, e) /\ t = d.entries
    BY <1>4, <1>12, <2>1
  <2>4. /\ t \in Seq(Entry) /\ Len(t) = len + 1 /\ t[len + 1] = e
        /\ \A j \in 1 .. len : t[j] = s[j]
    <3>1. /\ Append(s, e) \in Seq(Entry) /\ Len(Append(s, e)) = Len(s) + 1
          /\ \A j \in 1 .. Len(s) : Append(s, e)[j] = s[j]
          /\ Append(s, e)[Len(s) + 1] = e
      BY <1>2, <2>2, AppendProperties
    <3> QED
      BY <1>2, <2>3, <3>1
  <2>5. \A j \in 1 .. len : s[j].key # key
    BY <1>6, <1>12
  <2>6. FirstKeys(K, t, n + 1)
    <3>1. Len(s) # MaxDistinctKeys
      BY <1>2, <1>7, <1>12
    <3>2. /\ K[n + 1] = {e.key} /\ s \in Seq(Entry) /\ FirstKeys(K, s, n)
          /\ \A j \in 1 .. Len(s) : s[j].key # e.key
      BY <1>2, <1>7, <2>2, <2>5
    <3>3. FirstKeys(K, Append(s, e), n + 1)
      BY <2>2, <3>1, <3>2, KeysMore
    <3> QED
      BY <2>3, <3>3
  <2>7. ASSUME NEW k \in 1 .. len
        PROVE  t[k].count = Capped(Cardinality(With(K, t[k].key, n + 1)))
    <3>1. s[k].key \notin K[n + 1] /\ t[k] = s[k]
      BY <2>4, <2>5
    <3>2. s[k].count = Capped(Cardinality(With(K, s[k].key, n)))
      BY <1>7
    <3>3. Capped(Cardinality(With(K, s[k].key, n + 1))) = Capped(Cardinality(With(K, s[k].key, n)))
      BY <3>1, WithCount
    <3> QED
      BY <3>1, <3>2, <3>3
  <2>8. 1 = Capped(Cardinality(With(K, key, n + 1)))
    <3>1. With(K, key, n) = {}
      <4> SUFFICES ASSUME NEW k \in 1 .. n, key \in K[k] PROVE FALSE
        BY DEF With
      <4>1. \E j \in 1 .. Len(s) : s[j].key = key
        BY <1>2, <1>7, <1>12 DEF FirstKeys
      <4> QED
        BY <1>2, <2>5, <4>1
    <3>2. Cardinality(With(K, key, n)) = 0
      BY <3>1, FS_EmptySet
    <3>3. Capped(Cardinality(With(K, key, n + 1))) = Increment(Capped(0))
      BY <3>2, WithCount
    <3> QED
      BY <3>3, StatisticsAssumption DEF Increment, Capped
  <2>9. \A k \in 1 .. len + 1 : t[k].count = Capped(Cardinality(With(K, t[k].key, n + 1)))
    <3>1. 1 .. len + 1 = (1 .. len) \cup {len + 1}
      OBVIOUS
    <3> QED
      BY <2>2, <2>4, <2>7, <2>8, <3>1
  <2>10. len + 1 <= MaxDistinctKeys
    BY <1>2, <1>7, <1>12
  <2> QED
    BY <1>3, <1>5, <2>3, <2>4, <2>6, <2>9, <2>10 DEF CounterInv
<1> QED
  BY <1>3, <1>10, <1>11, <1>12

LEMMA CounterSame ==
  ASSUME NEW K, NEW n \in Nat, NEW c, CounterInv(K, c, n), K[n + 1] = {}
  PROVE  CounterInv(K, c, n + 1)
<1>1. FirstKeys(K, c.entries, n + 1)
  BY KeysStay DEF CounterInv
<1>2. c.total = Capped(Cardinality(Keyed(K, n + 1)))
  BY KeyedCount DEF CounterInv
<1>3. \A k \in 1 .. Len(c.entries) :
        c.entries[k].count = Capped(Cardinality(With(K, c.entries[k].key, n + 1)))
  BY WithCount DEF CounterInv
<1> QED
  BY <1>1, <1>2, <1>3, Zenon DEF CounterInv

----------------------------------------------------------------------------
(* The keys of the events that stand in the stream.                        *)
KeysOf(name) == [k \in 1 .. Len(events) |-> KeyIn(name, events[k])]

Blank == [entries |-> <<>>, total |-> 0]

TimedUpTo(n) == {k \in 1 .. n : events[k].timestamp.valid}

SevereUpTo(n) == {k \in 1 .. n : events[k].severity <= 3}

IsTime(t) == t.valid \in BOOLEAN /\ t.micros \in Micros

(* The span the stream keeps reaches from its first time to its last.      *)
SpanInv ==
  /\ IsTime(earliest) /\ IsTime(latest)
  /\ \A k \in TimedUpTo(Len(events)) :
       /\ earliest.valid /\ earliest.micros <= events[k].timestamp.micros
       /\ latest.valid /\ events[k].timestamp.micros <= latest.micros
  /\ earliest.valid => \E k \in TimedUpTo(Len(events)) : events[k].timestamp.micros = earliest.micros
  /\ latest.valid => \E k \in TimedUpTo(Len(events)) : events[k].timestamp.micros = latest.micros

StatisticsInv ==
  /\ SpanInv
  /\ counted \in 0 .. Len(events)
  /\ pc # "statistics" =>
       counted = 0 /\ timed = 0 /\ severe = 0 /\ counters = [name \in CounterNames |-> Blank]
  /\ timed = Cardinality(TimedUpTo(counted)) /\ severe = Cardinality(SevereUpTo(counted))
  /\ \A name \in CounterNames : CounterInv(KeysOf(name), counters[name], counted)

LEMMA NothingCounted ==
  ASSUME NEW K
  PROVE  CounterInv(K, Blank, 0)
<1>1. 1 .. 0 = {} /\ 1 .. Len(<<>>) = {} /\ <<>> \in Seq(Entry) /\ Len(<<>>) = 0
  OBVIOUS
<1>2. Cardinality(Keyed(K, 0)) = 0
  BY <1>1, FS_EmptySet DEF Keyed
<1>3. Blank.entries = <<>> /\ Blank.total = 0
  BY DEF Blank
<1>4. 0 = Capped(0) /\ 0 <= MaxDistinctKeys
  BY StatisticsAssumption DEF Capped
<1>5. FirstKeys(K, <<>>, 0)
  BY <1>1 DEF FirstKeys
<1> QED
  BY <1>1, <1>2, <1>3, <1>4, <1>5 DEF CounterInv

LEMMA KeysAreOne ==
  ASSUME events \in Seq(Events), NEW name \in CounterNames, NEW k \in 1 .. Len(events)
  PROVE  /\ KeysOf(name)[k] = KeyIn(name, events[k])
         /\ KeyIn(name, events[k]) = {} \/ \E key \in AllKeys : KeyIn(name, events[k]) = {key}
<1>1. PICK e \in Events : e = events[k]
  OBVIOUS
<1>2. KeyIn(name, e) \subseteq AllKeys
  BY <1>1, KeysAssumption DEF AllKeys
<1>3. KeyIn(name, e) = {} \/ \E key : KeyIn(name, e) = {key}
  BY DEF KeyIn, CounterNames
<1> QED
  BY <1>1, <1>2, <1>3 DEF KeysOf

LEMMA CountStep ==
  ASSUME events \in Seq(Events), StatisticsInv, pc = "statistics", CountEvent, events' = events,
         earliest' = earliest, latest' = latest, pc' = pc
  PROVE  StatisticsInv'
<1>1. PICK n \in Nat : n = counted /\ n < Len(events) /\ counted' = n + 1
  BY DEF StatisticsInv, CountEvent
<1>2. n + 1 \in 1 .. Len(events) /\ events[n + 1] \in Events
  BY <1>1
<1>3. PICK e \in Events : e = events[n + 1]
  BY <1>2
<1>4. 1 .. n + 1 = (1 .. n) \cup {n + 1}
  OBVIOUS
<1>5. timed' = Cardinality(TimedUpTo(n + 1))
  <2>1. PICK S, T : S = TimedUpTo(n) /\ T = TimedUpTo(n + 1)
    OBVIOUS
  <2>2. S \subseteq 1 .. n /\ T = IF e.timestamp.valid THEN S \cup {n + 1} ELSE S
    BY <1>3, <1>4, <2>1 DEF TimedUpTo
  <2>3. T = S \/ T = S \cup {n + 1}
    BY <2>2
  <2>4. /\ T = S => Cardinality(T) = Cardinality(S)
        /\ T = S \cup {n + 1} => Cardinality(T) = Cardinality(S) + 1
    BY <2>2, <2>3, OneMorePlace, ZenonT(30)
  <2>5. timed = Cardinality(S) /\ timed' = IF e.timestamp.valid THEN timed + 1 ELSE timed
    BY <1>1, <1>3, <2>1 DEF StatisticsInv, CountEvent
  <2> QED
    BY <2>1, <2>2, <2>4, <2>5
<1>6. severe' = Cardinality(SevereUpTo(n + 1))
  <2>1. PICK S, T : S = SevereUpTo(n) /\ T = SevereUpTo(n + 1)
    OBVIOUS
  <2>2. S \subseteq 1 .. n /\ T = IF e.severity <= 3 THEN S \cup {n + 1} ELSE S
    BY <1>3, <1>4, <2>1 DEF SevereUpTo
  <2>3. T = S \/ T = S \cup {n + 1}
    BY <2>2
  <2>4. /\ T = S => Cardinality(T) = Cardinality(S)
        /\ T = S \cup {n + 1} => Cardinality(T) = Cardinality(S) + 1
    BY <2>2, <2>3, OneMorePlace, ZenonT(30)
  <2>5. severe = Cardinality(S) /\ severe' = IF AtLeastAsSevere(e.severity, 3) THEN severe + 1 ELSE severe
    BY <1>1, <1>3, <2>1 DEF StatisticsInv, CountEvent
  <2>6. AtLeastAsSevere(e.severity, 3) <=> e.severity <= 3
    BY EventsAssumption DEF AtLeastAsSevere, Severities, UnknownSeverity
  <2> QED
    BY <2>1, <2>2, <2>4, <2>5, <2>6
<1>7. ASSUME NEW name \in CounterNames
      PROVE  CounterInv(KeysOf(name), counters'[name], n + 1)
  <2>1. PICK K, c : K = KeysOf(name) /\ c = counters[name]
    OBVIOUS
  <2>2. /\ K[n + 1] = KeyIn(name, e)
        /\ KeyIn(name, e) = {} \/ \E key \in AllKeys : KeyIn(name, e) = {key}
    BY <1>2, <1>3, <2>1, KeysAreOne
  <2>3. CounterInv(K, c, n)
    BY <1>1, <2>1 DEF StatisticsInv
  <2>4. counters'[name] = IF KeyIn(name, e) = {} THEN c
                          ELSE CounterAdd(c, CHOOSE key \in KeyIn(name, e) : TRUE)
    BY <1>1, <1>3, <2>1 DEF CountEvent
  <2>5. CASE KeyIn(name, e) = {}
    BY <2>1, <2>2, <2>3, <2>4, <2>5, CounterSame
  <2>6. CASE KeyIn(name, e) # {}
    <3>1. PICK key \in AllKeys : KeyIn(name, e) = {key}
      BY <2>2, <2>6
    <3>2. (CHOOSE other \in KeyIn(name, e) : TRUE) = key
      BY <3>1
    <3>3. CounterInv(K, CounterAdd(c, key), n + 1)
      BY <2>2, <2>3, <3>1, CounterStep
    <3>4. counters'[name] = CounterAdd(c, key)
      BY <2>4, <2>6, <3>2
    <3> QED
      BY <2>1, <3>3, <3>4
  <2> QED
    BY <2>5, <2>6
<1>8. /\ SpanInv' /\ \A name : KeysOf(name)' = KeysOf(name)
      /\ TimedUpTo(n + 1)' = TimedUpTo(n + 1) /\ SevereUpTo(n + 1)' = SevereUpTo(n + 1)
  BY DEF StatisticsInv, SpanInv, KeysOf, TimedUpTo, SevereUpTo
<1>9. counted' \in 0 .. Len(events') /\ counted' = n + 1
  BY <1>1
<1> QED
  BY <1>5, <1>6, <1>7, <1>8, <1>9 DEF StatisticsInv

LEMMA SpanStep ==
  ASSUME events \in Seq(Events), SpanInv, NEW e \in Events, Add(e)
  PROVE  SpanInv'
<1>1. PICK n \in Nat : n = Len(events)
  OBVIOUS
<1>2. PICK s : s = events'
  OBVIOUS
<1>3. Len(s) = n + 1 /\ s[n + 1] = e /\ \A k \in 1 .. n : s[k] = events[k]
  <2>1. s = Append(events, e)
    BY <1>2 DEF Add
  <2> QED
    BY <1>1, <2>1, AppendProperties
<1>4. PICK t : t = e.timestamp /\ t.valid \in BOOLEAN /\ t.micros \in Micros
  BY EventsAssumption
<1>5. \A m \in Micros : m \in Int
  BY MicrosAssumption DEF Micros
<1>6. PICK S : S = TimedUpTo(n)
  OBVIOUS
<1>7. PICK T : T = TimedUpTo(n + 1)'
  OBVIOUS
<1>8. /\ S \subseteq 1 .. n /\ T \subseteq 1 .. n + 1
      /\ \A k \in 1 .. n : k \in T <=> k \in S
      /\ n + 1 \in T <=> t.valid
  BY <1>2, <1>3, <1>4, <1>6, <1>7 DEF TimedUpTo
<1>9. \A k \in S : events[k].timestamp.micros \in Int
  BY <1>1, <1>5, <1>8, EventsAssumption
<1>10. /\ IsTime(earliest) /\ IsTime(latest)
       /\ \A k \in S : /\ earliest.valid /\ earliest.micros <= events[k].timestamp.micros
                       /\ latest.valid /\ events[k].timestamp.micros <= latest.micros
       /\ earliest.valid => \E k \in S : events[k].timestamp.micros = earliest.micros
       /\ latest.valid => \E k \in S : events[k].timestamp.micros = latest.micros
  BY <1>1, <1>6 DEF SpanInv
<1>11. /\ earliest.micros \in Int /\ latest.micros \in Int /\ t.micros \in Int
       /\ earliest.valid \in BOOLEAN /\ latest.valid \in BOOLEAN
  BY <1>4, <1>5, <1>10 DEF IsTime
<1>12. \A k \in T : (k \in S /\ s[k] = events[k]) \/ (k = n + 1 /\ s[k] = e /\ t.valid)
  <2>1. 1 .. n + 1 = (1 .. n) \cup {n + 1}
    OBVIOUS
  <2> TAKE k \in T
  <2>2. k \in 1 .. n \/ k = n + 1
    BY <1>8, <2>1
  <2> QED
    BY <1>3, <1>8, <2>2
<1>13. \A k \in S : k \in T /\ s[k] = events[k]
  BY <1>3, <1>8
<1>14. PICK early, late : early = earliest' /\ late = latest'
  OBVIOUS
<1>15. /\ early = IF t.valid /\ (~earliest.valid \/ t.micros < earliest.micros) THEN t ELSE earliest
       /\ late = IF t.valid /\ (~latest.valid \/ t.micros > latest.micros) THEN t ELSE latest
  BY <1>4, <1>14 DEF Add, Earlier, Later
<1>16. \A k \in T : /\ early.valid /\ early.micros <= s[k].timestamp.micros
                    /\ late.valid /\ s[k].timestamp.micros <= late.micros
  <2> SUFFICES ASSUME NEW k \in T
               PROVE  /\ early.valid /\ early.micros <= s[k].timestamp.micros
                      /\ late.valid /\ s[k].timestamp.micros <= late.micros
    OBVIOUS
  <2>1. CASE k = n + 1 /\ s[k] = e /\ t.valid
    BY <1>4, <1>11, <1>15, <2>1
  <2>2. CASE k \in S /\ s[k] = events[k]
    <3>1. PICK m \in Int : m = events[k].timestamp.micros
      BY <1>9, <2>2
    <3>2. earliest.valid /\ earliest.micros <= m /\ latest.valid /\ m <= latest.micros
      BY <1>10, <2>2, <3>1
    <3> QED
      BY <1>11, <1>15, <2>2, <3>1, <3>2
  <2> QED
    BY <1>12, <2>1, <2>2
<1>17. t.valid => n + 1 \in T /\ s[n + 1].timestamp = t
  BY <1>3, <1>4, <1>8
<1>18. /\ early.valid => \E k \in T : s[k].timestamp.micros = early.micros
       /\ late.valid => \E k \in T : s[k].timestamp.micros = late.micros
  BY <1>10, <1>13, <1>15, <1>17
<1>19. IsTime(early) /\ IsTime(late)
  BY <1>4, <1>10, <1>15 DEF IsTime
<1> QED
  BY <1>2, <1>3, <1>7, <1>14, <1>16, <1>18, <1>19 DEF SpanInv

LEMMA StatisticsStay ==
  ASSUME events' = events, earliest' = earliest, latest' = latest, StatisticsInv,
         UNCHANGED statisticsVars, pc' = pc \/ pc # "statistics"
  PROVE  StatisticsInv'
<1>1. counted' = counted /\ timed' = timed /\ severe' = severe /\ counters' = counters
  BY DEF statisticsVars
<1>2. /\ SpanInv' /\ \A name : KeysOf(name)' = KeysOf(name)
      /\ \A n : TimedUpTo(n)' = TimedUpTo(n) /\ SevereUpTo(n)' = SevereUpTo(n)
  BY DEF StatisticsInv, SpanInv, KeysOf, TimedUpTo, SevereUpTo
<1>3. timed = Cardinality(TimedUpTo(counted))' /\ severe = Cardinality(SevereUpTo(counted))'
  BY <1>1, <1>2 DEF StatisticsInv, TimedUpTo, SevereUpTo
<1>4. \A name \in CounterNames : CounterInv(KeysOf(name)', counters[name], counted)
  BY <1>2 DEF StatisticsInv
<1> QED
  BY <1>1, <1>2, <1>3, <1>4 DEF StatisticsInv

(* Nothing is counted before the stream is complete.                       *)
LEMMA NoneCounted ==
  ASSUME SpanInv, events \in Seq(Events), counted = 0, timed = 0, severe = 0,
         counters = [name \in CounterNames |-> Blank]
  PROVE  StatisticsInv
<1>1. counted \in 0 .. Len(events)
  OBVIOUS
<1>2. TimedUpTo(counted) = {} /\ SevereUpTo(counted) = {}
  BY DEF TimedUpTo, SevereUpTo
<1>3. Cardinality(TimedUpTo(counted)) = 0 /\ Cardinality(SevereUpTo(counted)) = 0
  BY <1>2, FS_EmptySet
<1>4. \A name \in CounterNames : CounterInv(KeysOf(name), counters[name], counted)
  BY NothingCounted
<1> QED
  BY <1>1, <1>3, <1>4 DEF StatisticsInv

LEMMA NoneCountedYet ==
  ASSUME SpanInv', events' \in Seq(Events), counted' = 0, timed' = 0, severe' = 0,
         counters' = [name \in CounterNames |-> Blank]
  PROVE  StatisticsInv'
<1>1. counted' \in 0 .. Len(events')
  OBVIOUS
<1>2. TimedUpTo(counted)' = {} /\ SevereUpTo(counted)' = {}
  BY DEF TimedUpTo, SevereUpTo
<1>3. Cardinality(TimedUpTo(counted)') = 0 /\ Cardinality(SevereUpTo(counted)') = 0
  BY <1>2, FS_EmptySet
<1>4. \A name \in CounterNames : CounterInv(KeysOf(name)', counters'[name], counted')
  BY NothingCounted
<1> QED
  BY <1>1, <1>3, <1>4 DEF StatisticsInv

LEMMA StatisticsInvHolds == Spec => []StatisticsInv
<1>1. Init => StatisticsInv
  <2> SUFFICES ASSUME Init PROVE StatisticsInv
    OBVIOUS
  <2>1. /\ counted = 0 /\ timed = 0 /\ severe = 0
        /\ counters = [name \in CounterNames |-> Blank]
        /\ events = <<>> /\ earliest = Unknown /\ latest = Unknown
    BY DEF Init, InitStream, InitStatistics, Blank
  <2>2. SpanInv
    <3>1. TimedUpTo(Len(events)) = {}
      BY <2>1 DEF TimedUpTo
    <3>2. IsTime(Unknown) /\ ~Unknown.valid
      BY MicrosAssumption DEF IsTime, Unknown, Micros
    <3> QED
      BY <2>1, <3>1, <3>2 DEF SpanInv
  <2> QED
    BY <2>1, <2>2, NoneCounted
<1>2. SessionInv /\ StatisticsInv /\ [Next]_vars => StatisticsInv'
  <2> SUFFICES ASSUME SessionInv, StatisticsInv, [Next]_vars
               PROVE  StatisticsInv'
    OBVIOUS
  <2>1. events \in Seq(Events)
    BY DEF SessionInv
  <2>2. CASE Ingest
    <3>1. PICK e \in Events : Add(e)
      BY <2>2 DEF Ingest
    <3>2. SpanInv' /\ events' \in Seq(Events)
      <4>1. SpanInv
        BY DEF StatisticsInv
      <4>2. SpanInv'
        BY <2>1, <3>1, <4>1, SpanStep
      <4>3. events' \in Seq(Events)
        BY <2>1, <3>1 DEF Add
      <4> QED
        BY <4>2, <4>3
    <3>3. /\ counted' = 0 /\ timed' = 0 /\ severe' = 0
          /\ counters' = [name \in CounterNames |-> Blank]
      BY <2>2 DEF Ingest, StatisticsInv, statisticsVars
    <3> QED
      BY <3>2, <3>3, NoneCountedYet
  <2>3. CASE BuildTimeline
    BY <2>3, StatisticsStay DEF BuildTimeline, streamVars
  <2>4. CASE TimelineSample
    BY <2>4, StatisticsStay DEF TimelineSample, streamVars
  <2>5. CASE BuildSessions
    BY <2>5, StatisticsStay DEF BuildSessions, streamVars
  <2>6. CASE SessionStep
    BY <2>6, StatisticsStay DEF SessionStep, streamVars
  <2>7. CASE Finish
    BY <2>7, StatisticsStay DEF Finish, streamVars
  <2>8. CASE ComputeStatistics
    BY <2>8, StatisticsStay DEF ComputeStatistics, streamVars
  <2>9. CASE StatisticsEvent
    BY <2>1, <2>9, CountStep DEF StatisticsEvent, streamVars
  <2>10. CASE UNCHANGED vars
    BY <2>10, StatisticsStay DEF vars, streamVars
  <2> QED
    BY <2>2, <2>3, <2>4, <2>5, <2>6, <2>7, <2>8, <2>9, <2>10 DEF Next
<1> QED
  BY <1>1, <1>2, SessionInvHolds, PTL DEF Spec

----------------------------------------------------------------------------
(* The parts of CounterExact.                                              *)
KeysSeen(name) == UNION {KeyIn(name, events[k]) : k \in 1 .. counted}

FirstUnder(name, key) ==
  CHOOSE k \in CountedUnder(name, key) : \A n \in CountedUnder(name, key) : k <= n

AheadIn(name, key) ==
  {other \in KeysSeen(name) : FirstUnder(name, other) < FirstUnder(name, key)}

KeysKept(name) == {counters[name].entries[k].key : k \in DOMAIN counters[name].entries}

LEMMA FirstIs ==
  ASSUME NEW n \in Nat, NEW K, NEW key, NEW p \in 1 .. n, Starts(K, key, p),
         NEW W, W = With(K, key, n)
  PROVE  (CHOOSE k \in W : \A m \in W : k <= m) = p
<1>1. p \in W
  BY DEF Starts, With
<1>2. \A m \in W : p <= m
  <2> SUFFICES ASSUME NEW m \in W, m < p PROVE FALSE
    BY DEF With
  <2>1. m \in 1 .. p - 1 /\ key \in K[m]
    BY DEF With
  <2> QED
    BY <2>1 DEF Starts
<1>3. \A k \in W : (\A m \in W : k <= m) => k = p
  BY <1>1, <1>2 DEF With
<1> QED
  BY <1>1, <1>2, <1>3

LEMMA KeptExact ==
  ASSUME events \in Seq(Events), StatisticsInv, NEW name \in CounterNames
  PROVE  /\ Cardinality(KeysKept(name)) = Len(counters[name].entries)
         /\ KeysKept(name) = {key \in KeysSeen(name) : Cardinality(AheadIn(name, key)) < MaxDistinctKeys}
<1>1. PICK n \in Nat : n = counted /\ n <= Len(events)
  BY DEF StatisticsInv
<1>2. PICK K : K = KeysOf(name)
  OBVIOUS
<1>3. PICK s : s = counters[name].entries
  OBVIOUS
<1>4. CounterInv(K, counters[name], n)
  BY <1>1, <1>2 DEF StatisticsInv
<1>5. PICK len \in Nat : /\ len = Len(s) /\ DOMAIN s = 1 .. len /\ s \in Seq(Entry)
                        /\ len <= MaxDistinctKeys /\ FirstKeys(K, s, n)
  BY <1>3, <1>4 DEF CounterInv
<1>6. \A k \in 1 .. n : /\ K[k] = KeyIn(name, events[k])
                        /\ K[k] = {} \/ \E key \in AllKeys : K[k] = {key}
  <2> TAKE k \in 1 .. n
  <2>1. k \in 1 .. Len(events)
    BY <1>1
  <2>2. /\ KeysOf(name)[k] = KeyIn(name, events[k])
        /\ KeyIn(name, events[k]) = {} \/ \E key \in AllKeys : KeyIn(name, events[k]) = {key}
    BY <2>1, KeysAreOne
  <2> QED
    BY <1>2, <2>2
<1>7. \A key : key \in KeysSeen(name) <=> \E k \in 1 .. n : key \in K[k]
  BY <1>1, <1>6 DEF KeysSeen
<1>8. \A key : CountedUnder(name, key) = With(K, key, n)
  BY <1>1, <1>6 DEF CountedUnder, With
<1>9. \A key : \A p \in 1 .. n : Starts(K, key, p) => FirstUnder(name, key) = p
  BY <1>8, FirstIs DEF FirstUnder
<1>10. \A key \in KeysSeen(name) : \E p \in 1 .. n : Starts(K, key, p) /\ FirstUnder(name, key) = p
  BY <1>5, <1>7, <1>9 DEF FirstKeys
<1>11. \A k \in 1 .. len : \E p \in 1 .. n : Starts(K, s[k].key, p) /\ FirstUnder(name, s[k].key) = p
  BY <1>5, <1>9 DEF FirstKeys
<1>12. \A k \in 1 .. len : s[k].key \in KeysSeen(name) /\ FirstUnder(name, s[k].key) \in 1 .. n
  BY <1>7, <1>11 DEF Starts
<1>13. \A j, k \in 1 .. len : j < k => FirstUnder(name, s[j].key) < FirstUnder(name, s[k].key)
  <2> TAKE j, k \in 1 .. len
  <2> HAVE j < k
  <2>1. PICK p \in 1 .. n : Starts(K, s[j].key, p) /\ FirstUnder(name, s[j].key) = p
    BY <1>11
  <2>2. PICK q \in 1 .. n : Starts(K, s[k].key, q) /\ FirstUnder(name, s[k].key) = q
    BY <1>11
  <2>3. p < q
    BY <1>5, <2>1, <2>2 DEF FirstKeys
  <2> QED
    BY <2>1, <2>2, <2>3
<1>14. \A key \in KeysSeen(name) :
         \/ \E j \in 1 .. len : s[j].key = key
         \/ /\ len = MaxDistinctKeys
            /\ \A j \in 1 .. len : FirstUnder(name, s[j].key) < FirstUnder(name, key)
  <2> SUFFICES ASSUME NEW key \in KeysSeen(name), ~\E j \in 1 .. len : s[j].key = key
               PROVE  /\ len = MaxDistinctKeys
                      /\ \A j \in 1 .. len : FirstUnder(name, s[j].key) < FirstUnder(name, key)
    OBVIOUS
  <2>1. PICK p \in 1 .. n : Starts(K, key, p) /\ FirstUnder(name, key) = p
    BY <1>10
  <2>2. key \in K[p]
    BY <2>1 DEF Starts
  <2>3. /\ len = MaxDistinctKeys
        /\ \A j \in 1 .. len, q \in 1 .. n : Starts(K, s[j].key, q) => q < p
    BY <1>5, <2>2 DEF FirstKeys
  <2> QED
    BY <1>11, <2>1, <2>3
<1>15. \A j, k \in 1 .. len : s[j].key = s[k].key => j = k
  <2> TAKE j, k \in 1 .. len
  <2>1. FirstUnder(name, s[j].key) \in Int
    BY <1>12
  <2>2. s[j].key = s[k].key => ~(j < k) /\ ~(k < j)
    BY <1>13, <2>1
  <2> QED
    BY <2>2
<1>16. KeysKept(name) = {s[k].key : k \in 1 .. len}
  BY <1>3, <1>5 DEF KeysKept
<1>17. IsFiniteSet(KeysKept(name)) /\ Cardinality(KeysKept(name)) = len
  <2>1. PICK f : f = [k \in 1 .. len |-> s[k].key]
    OBVIOUS
  <2>2. f \in Bijection(1 .. len, KeysKept(name))
    <3>1. \A k \in 1 .. len : f[k] = s[k].key
      BY <2>1
    <3>2. f \in [1 .. len -> KeysKept(name)]
      BY <1>16, <2>1
    <3>3. \A j, k \in 1 .. len : f[j] = f[k] => j = k
      BY <1>15, <3>1
    <3>4. \A key \in KeysKept(name) : \E k \in 1 .. len : f[k] = key
      BY <1>16, <3>1
    <3> QED
      BY <3>2, <3>3, <3>4 DEF Bijection, Injection, Surjection, IsInjective
  <2>3. IsFiniteSet(1 .. len) /\ Cardinality(1 .. len) = len
    <3>1. 1 \in Int /\ len \in Int /\ (IF 1 > len THEN 0 ELSE len - 1 + 1) = len
      OBVIOUS
    <3> QED
      BY <3>1, FS_Interval
  <2>4. ExistsBijection(1 .. len, KeysKept(name))
    BY <2>2 DEF ExistsBijection
  <2> QED
    BY <2>3, <2>4, FS_Bijection
<1>18. IsFiniteSet(KeysSeen(name))
  <2>1. PICK S : S = Keyed(K, n) /\ S \subseteq 1 .. n
    BY DEF Keyed
  <2>2. PICK f : f = [k \in S |-> CHOOSE key \in K[k] : TRUE]
    OBVIOUS
  <2>3. \A k \in S : f[k] \in K[k] /\ \A key \in K[k] : f[k] = key
    BY <1>6, <2>1, <2>2 DEF Keyed
  <2>4. f \in Surjection(S, KeysSeen(name))
    <3>1. f \in [S -> KeysSeen(name)]
      BY <1>7, <2>1, <2>2, <2>3
    <3>2. \A key \in KeysSeen(name) : \E k \in S : f[k] = key
      BY <1>7, <2>1, <2>3 DEF Keyed
    <3> QED
      BY <3>1, <3>2 DEF Surjection
  <2>5. IsFiniteSet(S)
    BY <2>1, Places
  <2> QED
    BY <2>4, <2>5, FS_Surjection
<1>19. ASSUME NEW i \in 1 .. len
       PROVE  Cardinality(AheadIn(name, s[i].key)) < MaxDistinctKeys
  <2>1. PICK A : A = AheadIn(name, s[i].key)
    OBVIOUS
  <2>2. PICK m \in Nat : m = i - 1 /\ m < MaxDistinctKeys
    BY <1>5, StatisticsAssumption
  <2>3. \A key \in A : \E j \in 1 .. m : s[j].key = key
    <3> TAKE key \in A
    <3>1. key \in KeysSeen(name) /\ FirstUnder(name, key) < FirstUnder(name, s[i].key)
      BY <2>1 DEF AheadIn
    <3>2. PICK p \in Int, q \in Int : p = FirstUnder(name, key) /\ q = FirstUnder(name, s[i].key)
      BY <1>10, <1>12, <3>1
    <3>3. PICK j \in 1 .. len : s[j].key = key
      BY <1>14, <3>1, <3>2
    <3>4. j < i
      <4>1. j = i => p = q
        BY <3>2, <3>3
      <4>2. i < j => q < p
        BY <1>13, <3>2, <3>3
      <4> QED
        BY <3>1, <3>2, <4>1, <4>2
    <3> QED
      BY <2>2, <3>3, <3>4
  <2>4. PICK S : S = {j \in 1 .. m : s[j].key \in A}
    OBVIOUS
  <2>5. PICK f : f = [j \in S |-> s[j].key]
    OBVIOUS
  <2>6. f \in Surjection(S, A)
    BY <2>3, <2>4, <2>5 DEF Surjection
  <2>7. IsFiniteSet(S) /\ Cardinality(S) \in Nat /\ Cardinality(S) <= m
    BY <2>4, Places
  <2>8. IsFiniteSet(A) /\ Cardinality(A) <= Cardinality(S)
    BY <2>6, <2>7, FS_Surjection
  <2>9. Cardinality(A) \in Nat
    BY <2>8, FS_CardinalityType
  <2> QED
    BY <2>1, <2>2, <2>7, <2>8, <2>9, StatisticsAssumption
<1>20. ASSUME NEW key \in KeysSeen(name), key \notin KeysKept(name)
       PROVE  ~(Cardinality(AheadIn(name, key)) < MaxDistinctKeys)
  <2>1. PICK A : A = AheadIn(name, key)
    OBVIOUS
  <2>2. len = MaxDistinctKeys /\ \A j \in 1 .. len : FirstUnder(name, s[j].key) < FirstUnder(name, key)
    BY <1>14, <1>16, <1>20
  <2>3. KeysKept(name) \subseteq A
    BY <1>12, <1>16, <2>1, <2>2 DEF AheadIn
  <2>4. IsFiniteSet(A)
    <3>1. A \subseteq KeysSeen(name)
      BY <2>1 DEF AheadIn
    <3> QED
      BY <1>18, <3>1, FS_Subset
  <2>5. Cardinality(KeysKept(name)) <= Cardinality(A)
    BY <2>3, <2>4, FS_Subset
  <2>6. Cardinality(A) \in Nat
    BY <2>4, FS_CardinalityType
  <2> QED
    BY <1>17, <2>1, <2>2, <2>5, <2>6
<1>21. \A key : key \in KeysKept(name) <=> \E i \in 1 .. len : key = s[i].key
  BY <1>16
<1>22. KeysKept(name) = {key \in KeysSeen(name) : Cardinality(AheadIn(name, key)) < MaxDistinctKeys}
  BY <1>12, <1>19, <1>20, <1>21
<1> QED
  BY <1>3, <1>5, <1>17, <1>22

(* The order of the listing is strict: no two keys share a place.          *)
LEMMA PlaceOfKey ==
  ASSUME NEW key \in AllKeys
  PROVE  KeyPlace(key) \in Nat /\ KeyOrder[KeyPlace(key)] = key
<1>1. \E k \in DOMAIN KeyOrder : KeyOrder[k] = key
  BY DEF AllKeys
<1>2. KeyPlace(key) \in DOMAIN KeyOrder /\ KeyOrder[KeyPlace(key)] = key
  BY <1>1 DEF KeyPlace
<1> QED
  BY <1>2, KeysAssumption

LEMMA ListingOrder ==
  ASSUME NEW a \in Entry, NEW b \in Entry, NEW c \in Entry
  PROVE  /\ a.key # b.key => ListedAbove(a, b) \/ ListedAbove(b, a)
         /\ ListedAbove(a, b) => ~ListedAbove(b, a)
         /\ ListedAbove(a, b) /\ ListedAbove(b, c) => ListedAbove(a, c)
         /\ ListedAbove(a, b) => b.count <= a.count
         /\ ListedAbove(a, b) => a.count > b.count \/ (a.count = b.count /\ KeyPlace(a.key) < KeyPlace(b.key))
<1>1. \A e \in Entry : e.count \in Nat /\ e.key \in AllKeys
  BY DEF Entry
<1>2. \A e \in Entry : KeyPlace(e.key) \in Nat /\ KeyOrder[KeyPlace(e.key)] = e.key
  BY <1>1, PlaceOfKey
<1>3. PICK p \in Nat, q \in Nat, r \in Nat : p = KeyPlace(a.key) /\ q = KeyPlace(b.key) /\ r = KeyPlace(c.key)
  BY <1>2
<1>4. a.key # b.key => p # q
  BY <1>2, <1>3
<1>5. PICK k \in Nat, l \in Nat, m \in Nat : k = a.count /\ l = b.count /\ m = c.count
  BY <1>1
<1>6. /\ ListedAbove(a, b) <=> k > l \/ (k = l /\ p < q)
      /\ ListedAbove(b, a) <=> l > k \/ (k = l /\ q < p)
      /\ ListedAbove(b, c) <=> l > m \/ (l = m /\ q < r)
      /\ ListedAbove(a, c) <=> k > m \/ (k = m /\ p < r)
  BY <1>3, <1>5 DEF ListedAbove
<1>7. /\ a.key # b.key => ListedAbove(a, b) \/ ListedAbove(b, a)
      /\ ListedAbove(a, b) => ~ListedAbove(b, a)
  BY <1>4, <1>6
<1>8. ListedAbove(a, b) /\ ListedAbove(b, c) => ListedAbove(a, c)
  <2>1. k > l /\ l > m => k > m
    OBVIOUS
  <2>2. p < q /\ q < r => p < r
    OBVIOUS
  <2> QED
    BY <1>6, <2>1, <2>2
<1>9. ListedAbove(a, b) => b.count <= a.count
  BY <1>5, <1>6
<1>10. ListedAbove(a, b) => a.count > b.count \/ (a.count = b.count /\ KeyPlace(a.key) < KeyPlace(b.key))
  BY <1>3, <1>5, <1>6
<1> QED
  BY <1>7, <1>8, <1>9, <1>10, Zenon

LEMMA EntriesSorted ==
  ASSUME NEW s \in Seq(Entry), \A j, k \in 1 .. Len(s) : s[j].key = s[k].key => j = k
  PROVE  LET t == StableSort(s, ListedAbove)
         IN  /\ t \in Seq(Entry) /\ Len(t) = Len(s)
             /\ \A i \in 1 .. Len(s) : \E k \in 1 .. Len(s) : t[k] = s[i]
             /\ \A k \in 1 .. Len(s) : \E i \in 1 .. Len(s) : t[k] = s[i]
             /\ \A j, k \in 1 .. Len(s) : j < k => ListedAbove(t[j], t[k])
<1> DEFINE n == Len(s)
      P == 1 .. n
      R == {q \in P \X P : ListedAbove(s[q[1]], s[q[2]])}
      o == StableOrder(DOMAIN s, LAMBDA i, j : ListedAbove(s[i], s[j]))
      t == StableSort(s, ListedAbove)
      Behind(i) == {j \in P : \/ ListedAbove(s[j], s[i])
                              \/ j < i /\ ~ListedAbove(s[i], s[j])}
<1>1. n \in Nat /\ DOMAIN s = P
  OBVIOUS
<1>2. \A i \in P : s[i] \in Entry
  OBVIOUS
<1>3. \A i, j \in P : <<i, j>> \in R <=> ListedAbove(s[i], s[j])
  OBVIOUS
<1>4. \A i, j \in P : i # j => ListedAbove(s[i], s[j]) \/ ListedAbove(s[j], s[i])
  <2> TAKE i, j \in P
  <2> HAVE i # j
  <2>1. s[i] \in Entry /\ s[j] \in Entry /\ s[i].key # s[j].key
    BY <1>2
  <2> QED
    BY <2>1, ListingOrder
<1>5. \A i, j \in P : ListedAbove(s[i], s[j]) => ~ListedAbove(s[j], s[i])
  BY <1>2, ListingOrder
<1>6. \A i, j, k \in P : ListedAbove(s[i], s[j]) /\ ListedAbove(s[j], s[k]) => ListedAbove(s[i], s[k])
  BY <1>2, ListingOrder
<1>7. o = [k \in 1 .. Cardinality(DOMAIN s) |->
             CHOOSE i \in DOMAIN s :
               Cardinality({j \in DOMAIN s : \/ ListedAbove(s[j], s[i])
                                             \/ j < i /\ ~ListedAbove(s[i], s[j])}) = k - 1]
  BY DEF StableOrder
<1>8. t = [k \in DOMAIN s |-> s[o[k]]]
  BY DEF StableSort
<1>9. IsFiniteSet(P) /\ Cardinality(P) = n
  <2>1. 1 \in Int /\ n \in Int /\ (IF 1 > n THEN 0 ELSE n - 1 + 1) = n
    BY <1>1
  <2> HIDE DEF n
  <2> QED
    BY <2>1, FS_Interval
<1>10. o = [k \in P |-> CHOOSE i \in P : Cardinality(Behind(i)) = k - 1]
  BY <1>1, <1>7, <1>9
<1>11. t = [k \in P |-> s[o[k]]]
  BY <1>1, <1>8
<1> HIDE DEF R, o, t
<1>12. StrictOrder(P, R)
  BY <1>3, <1>4, <1>5, <1>6 DEF StrictOrder
<1>13. \A i \in P : Ahead(P, R, i) = Behind(i)
  BY <1>3, <1>4, <1>5 DEF Ahead
<1> HIDE DEF n, P, Behind
<1>14. Sorts(o, P, R)
  <2> SUFFICES ASSUME NEW k \in 1 .. Cardinality(P)
               PROVE  o[k] \in P /\ Cardinality(Ahead(P, R, o[k])) = k - 1
    BY DEF Sorts
  <2>1. \E i \in P : Cardinality(Ahead(P, R, i)) = k - 1
    BY <1>9, <1>12, RankTaken
  <2>2. \E i \in P : Cardinality(Behind(i)) = k - 1
    BY <1>13, <2>1
  <2>3. k \in P
    BY <1>9 DEF P
  <2>4. o[k] = CHOOSE i \in P : Cardinality(Behind(i)) = k - 1
    BY <1>10, <2>3
  <2>5. o[k] \in P /\ Cardinality(Behind(o[k])) = k - 1
    BY <2>2, <2>4
  <2> QED
    BY <1>13, <2>5
<1>15. /\ \A k \in P : o[k] \in P
       /\ \A i \in P : \E k \in P : o[k] = i
       /\ \A k, l \in P : k < l <=> <<o[k], o[l]>> \in R
  <2>1. /\ \A i \in P : \E k \in 1 .. n : o[k] = i
        /\ \A k, l \in 1 .. n : (k < l <=> <<o[k], o[l]>> \in R) /\ (o[k] = o[l] => k = l)
    BY <1>9, <1>12, <1>14, Sorted
  <2>2. \A k \in 1 .. n : o[k] \in P
    BY <1>9, <1>14 DEF Sorts
  <2> QED
    BY <2>1, <2>2 DEF P
<1>16. t \in Seq(Entry) /\ Len(t) = n
  <2>1. t = [k \in 1 .. n |-> s[o[k]]] /\ \A k \in 1 .. n : s[o[k]] \in Entry
    BY <1>2, <1>11, <1>15 DEF P
  <2> QED
    BY <1>1, <2>1
<1>17. \A k \in P : t[k] = s[o[k]]
  BY <1>11
<1>18. \A j, k \in P : j < k => ListedAbove(t[j], t[k])
  <2> TAKE j, k \in P
  <2> HAVE j < k
  <2>1. o[j] \in P /\ o[k] \in P /\ <<o[j], o[k]>> \in R
    BY <1>15
  <2>2. ListedAbove(s[o[j]], s[o[k]])
    BY <1>3, <2>1
  <2> QED
    BY <1>17, <2>2
<1>19. /\ \A i \in P : \E k \in P : t[k] = s[i]
       /\ \A k \in P : \E i \in P : t[k] = s[i]
  BY <1>15, <1>17
<1> QED
  BY <1>16, <1>18, <1>19 DEF t, P, n

(* What a counter lists.                                                   *)
IsTopOf(t, s, len) ==
  /\ DOMAIN t = 1 .. Len(t) /\ Len(t) = IF len > TopN THEN TopN ELSE len
  /\ \A j \in 1 .. Len(t) : \A k \in j + 1 .. Len(t) :
       \/ t[j].count > t[k].count
       \/ t[j].count = t[k].count /\ KeyPlace(t[j].key) < KeyPlace(t[k].key)
  /\ \A i \in 1 .. len :
       \/ \E k \in 1 .. Len(t) : t[k].key = s[i].key
       \/ \A j \in 1 .. Len(t) : s[i].count <= t[j].count

Distinct(s, len) == \A j, k \in 1 .. len : s[j].key = s[k].key => j = k

LEMMA TopExact ==
  ASSUME NEW c, c.entries \in Seq(Entry), NEW len, len = Len(c.entries),
         Distinct(c.entries, len)
  PROVE  IsTopOf(Top(c), c.entries, len)
<1>0. PICK t : t = Top(c)
  OBVIOUS
<1>1. PICK s \in Seq(Entry) : s = c.entries
  OBVIOUS
<1>2. PICK r : r = StableSort(s, ListedAbove)
  OBVIOUS
<1>3. len \in Nat /\ len = Len(s)
  BY <1>1
<1>4. /\ r \in Seq(Entry) /\ Len(r) = len
      /\ \A i \in 1 .. len : \E k \in 1 .. len : r[k] = s[i]
      /\ \A j, k \in 1 .. len : j < k => ListedAbove(r[j], r[k])
  <2>1. \A j, k \in 1 .. Len(s) : s[j].key = s[k].key => j = k
    BY <1>1, <1>3 DEF Distinct
  <2>2. LET u == StableSort(s, ListedAbove)
        IN  /\ u \in Seq(Entry) /\ Len(u) = Len(s)
            /\ \A i \in 1 .. Len(s) : \E k \in 1 .. Len(s) : u[k] = s[i]
            /\ \A k \in 1 .. Len(s) : \E i \in 1 .. Len(s) : u[k] = s[i]
            /\ \A j, k \in 1 .. Len(s) : j < k => ListedAbove(u[j], u[k])
    BY <2>1, EntriesSorted
  <2> QED
    BY <1>2, <1>3, <2>2
<1>5. PICK m \in Nat : m = (IF len > TopN THEN TopN ELSE len) /\ m <= len
  BY <1>3, StatisticsAssumption
<1>6. t = SubSeq(r, 1, m)
  BY <1>0, <1>1, <1>2, <1>4, <1>5 DEF Top
<1>7. Len(t) = m /\ DOMAIN t = 1 .. m /\ \A k \in 1 .. m : t[k] = r[k]
  BY <1>3, <1>4, <1>5, <1>6
<1>8. \A k \in 1 .. len : r[k] \in Entry
  BY <1>4
<1>9. ASSUME NEW j \in 1 .. len, NEW k \in 1 .. len, j < k
      PROVE  /\ r[k].count <= r[j].count
             /\ \/ r[j].count > r[k].count
                \/ r[j].count = r[k].count /\ KeyPlace(r[j].key) < KeyPlace(r[k].key)
  <2>1. PICK a \in Entry, b \in Entry : a = r[j] /\ b = r[k]
    BY <1>8
  <2>2. ListedAbove(a, b)
    BY <1>4, <1>9, <2>1
  <2>3. b.count <= a.count /\ (a.count > b.count \/ (a.count = b.count /\ KeyPlace(a.key) < KeyPlace(b.key)))
    BY <2>2, ListingOrder
  <2> QED
    BY <2>1, <2>3
<1>10. ASSUME NEW j \in 1 .. m, NEW k \in j + 1 .. m
       PROVE  \/ t[j].count > t[k].count
              \/ t[j].count = t[k].count /\ KeyPlace(t[j].key) < KeyPlace(t[k].key)
  <2>1. j \in 1 .. len /\ k \in 1 .. len /\ j < k /\ k \in 1 .. m
    BY <1>3, <1>5
  <2> QED
    BY <1>7, <1>9, <2>1
<1>11. ASSUME NEW i \in 1 .. len, ~\E k \in 1 .. m : t[k].key = s[i].key, NEW j \in 1 .. m
       PROVE  s[i].count <= t[j].count
  <2>1. PICK k \in 1 .. len : r[k] = s[i]
    BY <1>4
  <2>2. k \notin 1 .. m
    BY <1>7, <1>11, <2>1
  <2>3. j \in 1 .. len /\ j < k
    BY <1>3, <1>5, <2>2
  <2> QED
    BY <1>7, <1>9, <2>1, <2>3
<1> QED
  BY <1>0, <1>1, <1>5, <1>7, <1>10, <1>11, Zenon DEF IsTopOf

LEMMA CounterIsExact ==
  ASSUME events \in Seq(Events), StatisticsInv, NEW name \in CounterNames
  PROVE  CounterExact(name)
<1>1. PICK n \in Nat : n = counted /\ n <= Len(events)
  BY DEF StatisticsInv
<1>2. PICK K : K = KeysOf(name)
  OBVIOUS
<1>3. PICK c : c = counters[name]
  OBVIOUS
<1>4. CounterInv(K, c, n)
  BY <1>1, <1>2, <1>3 DEF StatisticsInv
<1>5. PICK len \in Nat : len = Len(c.entries) /\ DOMAIN c.entries = 1 .. len /\ c.entries \in Seq(Entry)
  BY <1>4 DEF CounterInv
<1>6. \A k \in 1 .. n : K[k] = KeyIn(name, events[k])
  BY <1>1, <1>2 DEF KeysOf
<1>7. \A key : CountedUnder(name, key) = With(K, key, n)
  BY <1>1, <1>6 DEF CountedUnder, With
<1>8. c.total = Capped(Cardinality({k \in 1 .. counted : KeyIn(name, events[k]) # {}}))
  <2>1. Keyed(K, n) = {k \in 1 .. counted : KeyIn(name, events[k]) # {}}
    BY <1>1, <1>6 DEF Keyed
  <2> QED
    BY <1>4, <2>1 DEF CounterInv
<1>9. \A k \in 1 .. len :
        c.entries[k].count = Capped(Cardinality(CountedUnder(name, c.entries[k].key)))
  BY <1>4, <1>5, <1>7 DEF CounterInv
<1>10. /\ Cardinality(KeysKept(name)) = len
       /\ KeysKept(name) = {key \in KeysSeen(name) : Cardinality(AheadIn(name, key)) < MaxDistinctKeys}
  BY <1>3, <1>5, KeptExact
<1>11. KeysKept(name) = {c.entries[k].key : k \in 1 .. len}
  BY <1>3, <1>5 DEF KeysKept
<1>12. Distinct(c.entries, len)
  <2>1. PICK f : f = [k \in 1 .. len |-> c.entries[k].key]
    OBVIOUS
  <2>2. f \in Surjection(1 .. len, KeysKept(name))
    BY <1>11, <2>1 DEF Surjection
  <2>3. IsFiniteSet(1 .. len) /\ Cardinality(1 .. len) = len
    <3>1. 1 \in Int /\ len \in Int /\ (IF 1 > len THEN 0 ELSE len - 1 + 1) = len
      OBVIOUS
    <3> QED
      BY <3>1, FS_Interval
  <2>4. f \in Injection(1 .. len, KeysKept(name))
    BY <1>10, <2>2, <2>3, FS_Surjection
  <2> QED
    BY <2>1, <2>4 DEF Injection, IsInjective, Distinct
<1>13. PICK t : t = Top(c)
  OBVIOUS
<1>14. /\ DOMAIN t = 1 .. Len(t) /\ Len(t) = IF len > TopN THEN TopN ELSE len
       /\ \A j \in 1 .. Len(t) : \A k \in j + 1 .. Len(t) :
            \/ t[j].count > t[k].count
            \/ t[j].count = t[k].count /\ KeyPlace(t[j].key) < KeyPlace(t[k].key)
       /\ \A i \in 1 .. len :
            \/ \E k \in 1 .. Len(t) : t[k].key = c.entries[i].key
            \/ \A j \in 1 .. Len(t) : c.entries[i].count <= t[j].count
  <2>1. IsTopOf(Top(c), c.entries, len)
    BY <1>5, <1>12, TopExact
  <2> QED
    BY <1>13, <2>1 DEF IsTopOf
<1>15. ASSUME NEW j \in DOMAIN Top(counters[name]),
              NEW key \in KeysKept(name) \ {Top(counters[name])[k].key : k \in DOMAIN Top(counters[name])}
       PROVE  Capped(Cardinality(CountedUnder(name, key))) <= Top(counters[name])[j].count
  <2>1. PICK i \in 1 .. len : c.entries[i].key = key
    BY <1>11
  <2>2. c.entries[i].count <= t[j].count
    <3>1. t = Top(counters[name])
      BY <1>3, <1>13
    <3>2. j \in DOMAIN t /\ key \notin {t[k].key : k \in DOMAIN t}
      BY <3>1
    <3>3. j \in 1 .. Len(t)
      BY <1>14, <3>2
    <3>4. ~ \E k \in 1 .. Len(t) : t[k].key = c.entries[i].key
      BY <1>14, <2>1, <3>2, Zenon
    <3> QED
      BY <1>14, <3>3, <3>4, Zenon
  <2> QED
    BY <1>3, <1>9, <1>13, <2>1, <2>2
<1>16. \A j \in DOMAIN Top(counters[name]) : \A k \in j + 1 .. Len(Top(counters[name])) :
         \/ Top(counters[name])[j].count > Top(counters[name])[k].count
         \/ /\ Top(counters[name])[j].count = Top(counters[name])[k].count
            /\ KeyPlace(Top(counters[name])[j].key) < KeyPlace(Top(counters[name])[k].key)
  BY <1>3, <1>13, <1>14
<1>17. /\ Cardinality(KeysKept(name)) = Len(counters[name].entries)
       /\ Len(Top(counters[name])) = IF Len(counters[name].entries) > TopN THEN TopN
                                     ELSE Len(counters[name].entries)
       /\ \A k \in DOMAIN counters[name].entries :
            counters[name].entries[k].count =
              Capped(Cardinality(CountedUnder(name, counters[name].entries[k].key)))
       /\ counters[name].total =
            Capped(Cardinality({k \in 1 .. counted : KeyIn(name, events[k]) # {}}))
  BY <1>3, <1>5, <1>8, <1>9, <1>10, <1>13, <1>14
<1> QED
  BY <1>10, <1>15, <1>16, <1>17, Zenon DEF CounterExact, KeysSeen, FirstUnder, AheadIn, KeysKept

LEMMA SpanExact ==
  ASSUME events \in Seq(Events), StatisticsInv, timed > 1,
         NEW j \in TimedUpTo(Len(events)), NEW k \in TimedUpTo(Len(events)),
         NEW d, d = events[k].timestamp.micros - events[j].timestamp.micros,
         \A n \in TimedUpTo(Len(events)) :
           /\ events[n].timestamp.micros - events[j].timestamp.micros >= 0
           /\ events[k].timestamp.micros - events[n].timestamp.micros >= 0,
         d <= MaxMicros
  PROVE  SpanSeconds = {d \div MicrosPerSecond}
<1>1. /\ SpanInv /\ timed \in Int /\ j \in 1 .. Len(events) /\ k \in 1 .. Len(events)
  <2>1. timed = Cardinality(TimedUpTo(counted)) /\ counted \in Nat /\ SpanInv
    BY DEF StatisticsInv
  <2>2. TimedUpTo(counted) \subseteq 1 .. counted
    BY DEF TimedUpTo
  <2>3. timed \in Nat
    BY <2>1, <2>2, Places
  <2> QED
    BY <2>1, <2>3 DEF TimedUpTo
<1>2. \A i \in TimedUpTo(Len(events)) : events[i].timestamp.micros \in Int
  <2> TAKE i \in TimedUpTo(Len(events))
  <2>1. events[i] \in Events
    BY DEF TimedUpTo
  <2> QED
    BY <2>1, EventsAssumption, MicrosAssumption DEF Micros
<1>3. PICK a \in Int, z \in Int : a = events[j].timestamp.micros /\ z = events[k].timestamp.micros
  BY <1>2
<1>4. earliest.micros = a /\ latest.micros = z
  <2>1. PICK early \in Int, late \in Int : early = earliest.micros /\ late = latest.micros
    BY <1>1, MicrosAssumption DEF SpanInv, IsTime, Micros
  <2>2. early <= a /\ z <= late /\ earliest.valid /\ latest.valid
    BY <1>1, <1>3, <2>1 DEF SpanInv
  <2>3. PICK i \in TimedUpTo(Len(events)) : events[i].timestamp.micros = early
    BY <1>1, <2>1, <2>2 DEF SpanInv
  <2>4. PICK l \in TimedUpTo(Len(events)) : events[l].timestamp.micros = late
    BY <1>1, <2>1, <2>2 DEF SpanInv
  <2>5. a <= early /\ late <= z
    <3>1. \A n \in TimedUpTo(Len(events)) :
            events[n].timestamp.micros - a >= 0 /\ z - events[n].timestamp.micros >= 0
      BY <1>3
    <3>2. early - a >= 0 /\ z - late >= 0
      BY <2>3, <2>4, <3>1
    <3> QED
      BY <3>2
  <2> QED
    BY <2>1, <2>2, <2>5
<1>5. d = z - a /\ d >= 0 /\ d <= MaxMicros
  BY <1>3
<1>6. Wrap(z - a) = d
  BY <1>5, WrapFits
<1> QED
  BY <1>1, <1>4, <1>5, <1>6 DEF SpanSeconds

(* For any stream, any caps and keys in any order, every counter holds the *)
(* first keys that fit, each with its own count; the listing is the order  *)
(* of the counts; and the timed and the severe events and the span are     *)
(* those of the stream.                                                    *)
THEOREM CountersAreExact == Spec => []CountersExact
<1>1. SessionInv /\ StatisticsInv => CountersExact
  <2> SUFFICES ASSUME SessionInv, StatisticsInv PROVE CountersExact
    OBVIOUS
  <2>1. events \in Seq(Events)
    BY DEF SessionInv
  <2>2. timed = Cardinality(TimedUpTo(counted)) /\ severe = Cardinality(SevereUpTo(counted))
    BY DEF StatisticsInv
  <2>3. \A name \in CounterNames : CounterExact(name)
    BY <2>1, CounterIsExact
  <2>4. ASSUME timed > 1, NEW j \in TimedUpTo(Len(events)), NEW k \in TimedUpTo(Len(events)),
               \A n \in TimedUpTo(Len(events)) :
                 /\ events[n].timestamp.micros - events[j].timestamp.micros >= 0
                 /\ events[k].timestamp.micros - events[n].timestamp.micros >= 0,
               events[k].timestamp.micros - events[j].timestamp.micros <= MaxMicros
        PROVE  SpanSeconds =
                 {(events[k].timestamp.micros - events[j].timestamp.micros) \div MicrosPerSecond}
    BY <2>1, <2>4, SpanExact
  <2> QED
    BY <2>2, <2>3, <2>4 DEF CountersExact, TimedUpTo, SevereUpTo
<1> QED
  BY <1>1, SessionInvHolds, StatisticsInvHolds, PTL

=============================================================================
