-------------------------- MODULE DetectionsProofs --------------------------
(***************************************************************************)
(* Proofs about run_detections, for streams of any length with events in   *)
(* any order, any configuration, any width of the timestamps and any order *)
(* in which the hash maps are walked.                                      *)
(***************************************************************************)
EXTENDS Detections, TimeWindowProofs, SequenceTheorems

(***************************************************************************)
(* Sorting. std::stable_sort needs an order in which what is not less      *)
(* either way is alike; ties stay in the order they came in.               *)
(***************************************************************************)
WeakOrder(P, L) ==
  /\ \A i \in P : <<i, i>> \notin L
  /\ \A i, j \in P : <<i, j>> \in L => <<j, i>> \notin L
  /\ \A i, j, k \in P : <<i, j>> \in L => <<i, k>> \in L \/ <<k, j>> \in L

Steady(P, L) ==
  {p \in P \X P : p \in L \/ (p[1] < p[2] /\ <<p[2], p[1]>> \notin L)}

LEMMA SteadyIsStrict ==
  ASSUME NEW P \in SUBSET Nat, NEW L, WeakOrder(P, L)
  PROVE  StrictOrder(P, Steady(P, L))
<1>1. \A i, j \in P : <<i, j>> \in Steady(P, L) <=>
        <<i, j>> \in L \/ (i < j /\ <<j, i>> \notin L)
  BY DEF Steady
<1>2. \A i, j \in P : i # j => i < j \/ j < i
  OBVIOUS
<1>3. ASSUME NEW i \in P, NEW j \in P, NEW k \in P,
             <<i, j>> \in Steady(P, L), <<j, k>> \in Steady(P, L)
      PROVE  <<i, k>> \in Steady(P, L)
  <2>1. i < j /\ j < k => i < k
    OBVIOUS
  <2>2. CASE <<i, j>> \in L
    BY <1>1, <1>3, <2>2 DEF WeakOrder
  <2>3. CASE <<j, k>> \in L
    BY <1>1, <1>3, <2>3 DEF WeakOrder
  <2>4. CASE <<i, j>> \notin L /\ <<j, k>> \notin L
    <3>1. i < k /\ <<j, i>> \notin L /\ <<k, j>> \notin L
      BY <1>1, <1>3, <2>1, <2>4
    <3>2. <<k, i>> \notin L
      BY <3>1 DEF WeakOrder
    <3> QED
      BY <1>1, <3>1, <3>2
  <2> QED
    BY <2>2, <2>3, <2>4
<1>4. \A i \in P : <<i, i>> \notin Steady(P, L)
  <2>1. \A i \in P : <<i, i>> \notin L
    BY Zenon DEF WeakOrder
  <2>2. \A i \in P : ~(i < i)
    OBVIOUS
  <2> QED
    BY <1>1, <2>1, <2>2
<1>5. \A i, j \in P : i # j => <<i, j>> \in Steady(P, L) \/ <<j, i>> \in Steady(P, L)
  BY <1>1, <1>2
<1> QED
  BY <1>3, <1>4, <1>5 DEF StrictOrder

(* Places k and l of sequence t hold what places i and j of s hold.        *)
Carried(t, s, L, k, l, i, j) ==
  /\ i # j /\ t[k] = s[i] /\ t[l] = s[j]
  /\ k < l => <<j, i>> \notin L

(* Sequence t holds what s holds, each as often, in the order L.           *)
Rearranged(t, s, n, L) ==
  /\ DOMAIN t = 1 .. n
  /\ \A k \in 1 .. n : \E i \in 1 .. n : t[k] = s[i]
  /\ \A i \in 1 .. n : \E k \in 1 .. n : t[k] = s[i]
  /\ \A k, l \in 1 .. n : k # l => \E i, j \in 1 .. n : Carried(t, s, L, k, l, i, j)

LEMMA StableIs ==
  ASSUME NEW n \in Nat, NEW L, WeakOrder(1 .. n, L), NEW s, NEW o,
         Sorts(o, 1 .. n, Steady(1 .. n, L))
  PROVE  Rearranged([k \in 1 .. n |-> s[o[k]]], s, n, L)
<1> DEFINE P == 1 .. n
           R == Steady(P, L)
<1>1. P \in SUBSET Nat /\ IsFiniteSet(P) /\ Cardinality(P) = n
  <2>1. IsFiniteSet(1 .. n) /\ Cardinality(1 .. n) = IF 1 > n THEN 0 ELSE n - 1 + 1
    BY FS_Interval
  <2> QED
    BY <2>1
<1>2. StrictOrder(P, R)
  BY <1>1, SteadyIsStrict
<1>3. /\ \A k \in P : o[k] \in P
      /\ \A i \in P : \E k \in P : o[k] = i
      /\ \A k, l \in P : (k < l <=> <<o[k], o[l]>> \in R) /\ (o[k] = o[l] => k = l)
  <2>1. 1 .. Cardinality(P) = P
    BY <1>1
  <2>2. Sorts(o, P, R)
    OBVIOUS
  <2> HIDE DEF P, R
  <2>3. /\ \A i \in P : \E k \in 1 .. Cardinality(P) : o[k] = i
        /\ \A k, l \in 1 .. Cardinality(P) :
             (k < l <=> <<o[k], o[l]>> \in R) /\ (o[k] = o[l] => k = l)
    BY <1>1, <1>2, <2>2, Sorted
  <2>4. \A k \in 1 .. Cardinality(P) : o[k] \in P
    BY <2>2 DEF Sorts
  <2> QED
    BY <2>1, <2>3, <2>4
<1>4. \A k, l \in P : k < l => <<o[l], o[k]>> \notin L
  <2> SUFFICES ASSUME NEW k \in P, NEW l \in P, k < l PROVE <<o[l], o[k]>> \notin L
    OBVIOUS
  <2>1. <<o[k], o[l]>> \in R /\ o[k] \in P /\ o[l] \in P
    BY <1>3
  <2>2. <<o[k], o[l]>> \in L \/ <<o[l], o[k]>> \notin L
    BY <2>1 DEF Steady
  <2>3. \A i, j \in P : <<i, j>> \in L => <<j, i>> \notin L
    BY DEF WeakOrder
  <2> HIDE DEF P, R
  <2> QED
    BY <2>1, <2>2, <2>3
<1> DEFINE t == [k \in P |-> s[o[k]]]
<1>5. \A k \in P : t[k] = s[o[k]]
  OBVIOUS
<1>6. \A k, l \in P : k # l => \E i, j \in P : Carried(t, s, L, k, l, i, j)
  <2> TAKE k, l \in P
  <2> HAVE k # l
  <2> HIDE DEF P, t
  <2>1. o[k] \in P /\ o[l] \in P /\ o[k] # o[l]
    BY <1>3
  <2>2. Carried(t, s, L, k, l, o[k], o[l])
    BY <1>4, <1>5, <2>1 DEF Carried
  <2> QED
    BY <2>1, <2>2
<1>7. /\ \A k \in P : \E i \in P : t[k] = s[i]
      /\ \A i \in P : \E k \in P : t[k] = s[i]
  <2> HIDE DEF P, t
  <2> QED
    BY <1>3, <1>5
<1> QED
  BY <1>6, <1>7 DEF Rearranged

(***************************************************************************)
(* The places of a set in stream order.                                    *)
(***************************************************************************)
LEMMA InOrderIs ==
  ASSUME NEW n \in Nat, NEW S \in SUBSET (1 .. n)
  PROVE  /\ IsFiniteSet(S) /\ Cardinality(S) \in Nat
         /\ InOrder(S) \in Seq(Nat) /\ Len(InOrder(S)) = Cardinality(S)
         /\ DOMAIN InOrder(S) = 1 .. Cardinality(S)
         /\ \A k \in 1 .. Cardinality(S) : InOrder(S)[k] \in S
         /\ \A i \in S : \E k \in 1 .. Cardinality(S) : InOrder(S)[k] = i
         /\ \A k, l \in 1 .. Cardinality(S) :
              /\ k < l <=> InOrder(S)[k] < InOrder(S)[l]
              /\ InOrder(S)[k] = InOrder(S)[l] => k = l
<1> DEFINE R == {p \in S \X S : p[1] < p[2]}
           o == InOrder(S)
<1>1. IsFiniteSet(S) /\ S \in SUBSET Nat
  <2>1. IsFiniteSet(1 .. n)
    BY FS_Interval
  <2>2. IsFiniteSet(S)
    BY <2>1, FS_Subset
  <2> QED
    BY <2>2
<1>2. Cardinality(S) \in Nat
  BY <1>1, FS_CardinalityType
<1>3. \A i, j \in S : <<i, j>> \in R <=> i < j
  OBVIOUS
<1>4. StrictOrder(S, R)
  BY <1>1, <1>3 DEF StrictOrder
<1>5. \A i \in S : Ahead(S, R, i) = {j \in S : j < i \/ (j < i /\ ~(i < j))}
  BY <1>1, <1>3 DEF Ahead
<1>6. o = [k \in 1 .. Cardinality(S) |->
             CHOOSE i \in S : Cardinality({j \in S : j < i \/ (j < i /\ ~(i < j))}) = k - 1]
  BY DEF InOrder, StableOrder
<1>7. Sorts(o, S, R)
  <2> SUFFICES ASSUME NEW k \in 1 .. Cardinality(S)
               PROVE  o[k] \in S /\ Cardinality(Ahead(S, R, o[k])) = k - 1
    BY DEF Sorts
  <2> HIDE DEF R, o
  <2>1. \E i \in S : Cardinality(Ahead(S, R, i)) = k - 1
    BY <1>1, <1>4, RankTaken
  <2>2. \E i \in S : Cardinality({j \in S : j < i \/ (j < i /\ ~(i < j))}) = k - 1
    BY <1>5, <2>1
  <2>3. /\ o[k] \in S
        /\ Cardinality({j \in S : j < o[k] \/ (j < o[k] /\ ~(o[k] < j))}) = k - 1
    BY <1>6, <2>2
  <2> QED
    BY <1>5, <2>3
<1>8. /\ \A i \in S : \E k \in 1 .. Cardinality(S) : o[k] = i
      /\ \A k, l \in 1 .. Cardinality(S) :
           /\ k < l <=> <<o[k], o[l]>> \in R
           /\ o[k] = o[l] => k = l
  <2> HIDE DEF R, o
  <2> QED
    BY <1>1, <1>4, <1>7, Sorted
<1>9. \A k \in 1 .. Cardinality(S) : o[k] \in S
  <2> HIDE DEF R, o
  <2> QED
    BY <1>7 DEF Sorts
<1>10. o \in Seq(Nat) /\ Len(o) = Cardinality(S) /\ DOMAIN o = 1 .. Cardinality(S)
  <2>1. DOMAIN o = 1 .. Cardinality(S) /\ o = [k \in 1 .. Cardinality(S) |-> o[k]]
    BY <1>6
  <2> HIDE DEF o
  <2>2. \A k \in 1 .. Cardinality(S) : o[k] \in Nat
    BY <1>1, <1>9
  <2> QED
    BY <1>2, <2>1, <2>2
<1> HIDE DEF o
<1>11. \A k, l \in 1 .. Cardinality(S) : <<o[k], o[l]>> \in R <=> o[k] < o[l]
  BY <1>9, <1>3
<1> HIDE DEF R
<1> QED
  BY <1>1, <1>2, <1>8, <1>9, <1>10, <1>11 DEF o

(***************************************************************************)
(* Time stamps and the stream.                                             *)
(***************************************************************************)
Stamps == [valid : BOOLEAN, micros : Micros]

(* operator< is an order in which only equal times are alike.              *)
LEMMA BeforeOrders ==
  ASSUME NEW t \in Stamps, NEW u \in Stamps
  PROVE  /\ ~Before(t, t)
         /\ Before(t, u) => ~Before(u, t)
         /\ \A v \in Stamps : Before(t, u) => Before(t, v) \/ Before(v, u)
         /\ ~Before(t, u) /\ ~Before(u, t) => t = u
         /\ t.valid /\ u.valid => (Before(t, u) <=> t.micros < u.micros)
<1>1. ASSUME NEW v \in Stamps, Before(t, u) PROVE Before(t, v) \/ Before(v, u)
  BY <1>1 DEF Before, Stamps, Micros
<1>2. ~Before(t, u) /\ ~Before(u, t) => t = u
  <2> SUFFICES ASSUME ~Before(t, u), ~Before(u, t) PROVE t = u
    OBVIOUS
  <2>1. t.valid = u.valid /\ t.micros = u.micros
    BY DEF Before, Stamps, Micros
  <2>2. /\ t = [valid |-> t.valid, micros |-> t.micros]
        /\ u = [valid |-> u.valid, micros |-> u.micros]
    BY DEF Stamps
  <2> QED
    BY <2>1, <2>2
<1>3. ~Before(t, t) /\ (Before(t, u) => ~Before(u, t))
  BY DEF Before, Stamps, Micros
<1>4. t.valid /\ u.valid => (Before(t, u) <=> t.micros < u.micros)
  BY DEF Before, Stamps
<1> QED
  BY <1>1, <1>2, <1>3, <1>4

InTimeOrder(s) ==
  \A j, k \in DOMAIN s : j < k => ~Before(s[k].timestamp, s[j].timestamp)

LEMMA StreamType ==
  ASSUME events \in Seq(Events)
  PROVE  /\ Len(events) \in Nat /\ DOMAIN events = 1 .. Len(events)
         /\ \A k \in DOMAIN events : /\ events[k] \in Events
                                     /\ events[k].timestamp \in Stamps
                                     /\ events[k].timestamp.micros \in Micros
<1>1. Len(events) \in Nat /\ DOMAIN events = 1 .. Len(events)
  OBVIOUS
<1>2. \A k \in DOMAIN events : events[k] \in Events
  OBVIOUS
<1>3. \A e \in Events : e.timestamp \in Stamps
  BY EventStamps DEF Stamps
<1>4. \A t \in Stamps : t.micros \in Micros
  BY DEF Stamps
<1> QED
  BY <1>1, <1>2, <1>3, <1>4

(* run_detections sorts the stream whatever order it was in.               *)
LEMMA SortSorts ==
  ASSUME events \in Seq(Events), SortByTime
  PROVE  events' \in Seq(Events) /\ InTimeOrder(events')
<1> DEFINE n == Len(events)
           P == 1 .. n
           L == {p \in P \X P : Before(events[p[1]].timestamp, events[p[2]].timestamp)}
           o == StableOrder(DOMAIN events,
                  LAMBDA i, j : Before(events[i].timestamp, events[j].timestamp))
<1>1. n \in Nat /\ DOMAIN events = P /\ \A k \in P : events[k].timestamp \in Stamps
  BY StreamType
<1>2. \A i, j \in P : <<i, j>> \in L <=> Before(events[i].timestamp, events[j].timestamp)
  OBVIOUS
<1>3. WeakOrder(P, L)
  <2> HIDE DEF L, P
  <2> QED
    BY <1>1, <1>2, BeforeOrders DEF WeakOrder
<1> DEFINE R == Steady(P, L)
<1>4. P \in SUBSET Nat /\ IsFiniteSet(P) /\ Cardinality(P) = n
  <2>1. IsFiniteSet(1 .. n) /\ Cardinality(1 .. n) = IF 1 > n THEN 0 ELSE n - 1 + 1
    BY <1>1, FS_Interval
  <2> QED
    BY <1>1, <2>1
<1>5. \A i \in P : Ahead(P, R, i) =
        {j \in P : \/ Before(events[j].timestamp, events[i].timestamp)
                   \/ (j < i /\ ~Before(events[i].timestamp, events[j].timestamp))}
  <2>1. \A i, j \in P : <<j, i>> \in R <=>
          <<j, i>> \in L \/ (j < i /\ <<i, j>> \notin L)
    BY DEF Steady
  <2> HIDE DEF R, L, P
  <2> QED
    BY <1>2, <2>1 DEF Ahead
<1>6. o = [k \in 1 .. Cardinality(P) |->
             CHOOSE i \in P : Cardinality(
               {j \in P : \/ Before(events[j].timestamp, events[i].timestamp)
                          \/ (j < i /\ ~Before(events[i].timestamp, events[j].timestamp))})
                 = k - 1]
  BY <1>1 DEF StableOrder
<1>7. Sorts(o, P, R)
  <2> SUFFICES ASSUME NEW k \in 1 .. Cardinality(P)
               PROVE  o[k] \in P /\ Cardinality(Ahead(P, R, o[k])) = k - 1
    BY DEF Sorts
  <2>1. StrictOrder(P, R)
    BY <1>3, <1>4, SteadyIsStrict
  <2> HIDE DEF R, o, L, P
  <2>2. \E i \in P : Cardinality(Ahead(P, R, i)) = k - 1
    BY <1>4, <2>1, RankTaken
  <2>3. \E i \in P : Cardinality(
               {j \in P : \/ Before(events[j].timestamp, events[i].timestamp)
                          \/ (j < i /\ ~Before(events[i].timestamp, events[j].timestamp))})
                 = k - 1
    BY <1>5, <2>2
  <2>4. /\ o[k] \in P
        /\ Cardinality(
               {j \in P : \/ Before(events[j].timestamp, events[o[k]].timestamp)
                          \/ (j < o[k] /\ ~Before(events[o[k]].timestamp, events[j].timestamp))})
             = k - 1
    BY <1>6, <2>3
  <2> QED
    BY <1>5, <2>4
<1>8. events' = [k \in P |-> events[o[k]]]
  BY <1>1 DEF SortByTime, StableSort
<1>9. Rearranged(events', events, n, L)
  <2>1. Rearranged([k \in 1 .. n |-> events[o[k]]], events, n, L)
    <3>1. Sorts(o, 1 .. n, Steady(1 .. n, L)) /\ WeakOrder(1 .. n, L)
      BY <1>3, <1>7
    <3> HIDE DEF o, L, n
    <3> QED
      BY <1>1, <3>1, StableIs
  <2> QED
    BY <1>8, <2>1
<1> HIDE DEF L, o
<1>10. events' \in Seq(Events)
  <2>1. \A k \in P : events'[k] \in Events
    <3> TAKE k \in P
    <3>1. PICK i \in P : events'[k] = events[i]
      BY <1>9 DEF Rearranged
    <3> QED
      BY <1>1, <3>1, StreamType
  <2>2. events' = [k \in 1 .. n |-> events'[k]]
    BY <1>8
  <2> HIDE DEF n
  <2> QED
    BY <1>1, <2>1, <2>2
<1>11. InTimeOrder(events')
  <2> SUFFICES ASSUME NEW j \in P, NEW k \in P, j < k
               PROVE  ~Before(events'[k].timestamp, events'[j].timestamp)
    BY <1>8 DEF InTimeOrder
  <2>1. PICK a \in P, b \in P : /\ events'[j] = events[a] /\ events'[k] = events[b]
                                /\ <<b, a>> \notin L
    <3>1. j # k
      BY <1>1
    <3>2. \E a, b \in P : Carried(events', events, L, j, k, a, b)
      BY <1>9, <3>1 DEF Rearranged
    <3>3. PICK a \in P, b \in P : Carried(events', events, L, j, k, a, b)
      BY <3>2
    <3> QED
      BY <3>3 DEF Carried
  <2> QED
    BY <1>2, <2>1
<1> QED
  BY <1>10, <1>11

(***************************************************************************)
(* The group of observations a detector makes of a set of places.          *)
(***************************************************************************)
Group(S) == ObsAt(InOrder(S))

LEMMA GroupIs ==
  ASSUME events \in Seq(Events), NEW S \in SUBSET DOMAIN events
  PROVE  /\ Cardinality(S) \in Nat /\ IsFiniteSet(S)
         /\ Group(S) \in Seq(Obs) /\ Len(Group(S)) = Cardinality(S)
         /\ \A k \in 1 .. Cardinality(S) :
              /\ InOrder(S)[k] \in S
              /\ Group(S)[k].index = InOrder(S)[k]
              /\ Group(S)[k].micros = events[InOrder(S)[k]].timestamp.micros
         /\ \A i \in S : \E k \in 1 .. Cardinality(S) : InOrder(S)[k] = i
         /\ \A k, l \in 1 .. Cardinality(S) :
              /\ k < l <=> InOrder(S)[k] < InOrder(S)[l]
              /\ InOrder(S)[k] = InOrder(S)[l] => k = l
<1> DEFINE o == InOrder(S)
           c == Cardinality(S)
<1>1. /\ Len(events) \in Nat /\ DOMAIN events = 1 .. Len(events)
      /\ \A k \in DOMAIN events : events[k].timestamp.micros \in Micros
  BY StreamType
<1>2. /\ c \in Nat /\ IsFiniteSet(S) /\ o \in Seq(Nat) /\ DOMAIN o = 1 .. c
      /\ \A k \in 1 .. c : o[k] \in S
      /\ \A i \in S : \E k \in 1 .. c : o[k] = i
      /\ \A k, l \in 1 .. c : (k < l <=> o[k] < o[l]) /\ (o[k] = o[l] => k = l)
  <2>1. S \in SUBSET (1 .. Len(events))
    BY <1>1
  <2> QED
    BY <1>1, <2>1, InOrderIs
<1>3. Group(S) = [k \in 1 .. c |-> [micros |-> events[o[k]].timestamp.micros,
                                    index |-> o[k]]]
  BY <1>2 DEF Group, ObsAt
<1> HIDE DEF o, c
<1>4. \A k \in 1 .. c : [micros |-> events[o[k]].timestamp.micros, index |-> o[k]] \in Obs
  <2> TAKE k \in 1 .. c
  <2>1. o[k] \in DOMAIN events /\ o[k] \in Nat
    BY <1>1, <1>2
  <2> QED
    BY <1>1, <2>1 DEF Obs
<1>5. Group(S) \in Seq(Obs) /\ Len(Group(S)) = c
  BY <1>2, <1>3, <1>4
<1> QED
  BY <1>2, <1>3, <1>5 DEF o, c

(* In a sorted stream the group is in time order.                          *)
LEMMA GroupOrdered ==
  ASSUME events \in Seq(Events), InTimeOrder(events),
         NEW S \in SUBSET DOMAIN events, \A k \in S : events[k].timestamp.valid
  PROVE  TimeOrdered(Group(S))
<1> DEFINE o == InOrder(S)
           c == Cardinality(S)
<1>1. /\ \A k \in DOMAIN events : events[k].timestamp \in Stamps
      /\ \A k \in DOMAIN events : events[k].timestamp.micros \in Int
  BY StreamType DEF Micros
<1>2. /\ c \in Nat /\ DOMAIN Group(S) = 1 .. c
      /\ \A k \in 1 .. c : /\ o[k] \in S
                           /\ Group(S)[k].micros = events[o[k]].timestamp.micros
      /\ \A k, l \in 1 .. c : k < l <=> o[k] < o[l]
  <2>1. DOMAIN Group(S) = 1 .. Len(Group(S))
    BY GroupIs
  <2> QED
    BY <2>1, GroupIs
<1> HIDE DEF o, c
<1>3. ASSUME NEW k \in 1 .. c, NEW l \in 1 .. c, k < l
      PROVE  Group(S)[k].micros <= Group(S)[l].micros
  <2>1. o[k] \in S /\ o[l] \in S /\ o[k] < o[l]
    BY <1>2, <1>3
  <2>2. ~Before(events[o[l]].timestamp, events[o[k]].timestamp)
    BY <2>1 DEF InTimeOrder
  <2>3. ~(events[o[l]].timestamp.micros < events[o[k]].timestamp.micros)
    BY <1>1, <2>1, <2>2, BeforeOrders
  <2> QED
    BY <1>1, <1>2, <2>1, <2>3
<1>4. ASSUME NEW k \in 1 .. c PROVE Group(S)[k].micros <= Group(S)[k].micros
  BY <1>1, <1>2
<1>5. \A k, l \in 1 .. c : k <= l => k < l \/ k = l
  OBVIOUS
<1> QED
  BY <1>2, <1>3, <1>4, <1>5 DEF TimeOrdered

(* The positions in the group of some of its places.                       *)
Positions(S, T) == {k \in 1 .. Cardinality(S) : InOrder(S)[k] \in T}

LEMMA PositionsFit ==
  ASSUME events \in Seq(Events), NEW S \in SUBSET DOMAIN events,
         NEW T \in SUBSET S, NEW seconds, Together(T, seconds)
  PROVE  /\ Positions(S, T) \in SUBSET (1 .. Len(Group(S)))
         /\ {InOrder(S)[k] : k \in Positions(S, T)} = T
         /\ Cardinality(T) <= Cardinality(Positions(S, T))
         /\ Cardinality(T) \in Nat /\ Cardinality(Positions(S, T)) \in Nat
         /\ \A i, j \in Positions(S, T) :
              InWindow(Group(S), WindowMicros(seconds), i, j)
<1> DEFINE P == Positions(S, T)
           o == InOrder(S)
<1>1. P \in SUBSET (1 .. Cardinality(S)) /\ Len(Group(S)) = Cardinality(S)
  BY GroupIs DEF Positions
<1>2. {o[k] : k \in P} = T
  <2>1. \A i \in T : \E k \in 1 .. Cardinality(S) : o[k] = i
    BY GroupIs
  <2> QED
    BY <2>1 DEF Positions
<1>3. IsFiniteSet(P)
  <2>1. IsFiniteSet(1 .. Cardinality(S))
    <3>1. Cardinality(S) \in Int
      BY GroupIs
    <3> QED
      BY <3>1, FS_Interval
  <2> HIDE DEF P
  <2> QED
    BY <1>1, <2>1, FS_Subset
<1>4. Cardinality(T) <= Cardinality(P) /\ Cardinality(T) \in Nat
  <2> HIDE DEF P, o
  <2> QED
    BY <1>2, <1>3, ImageSize
<1>5. Cardinality(P) \in Nat
  BY <1>3, FS_CardinalityType
<1>6. ASSUME NEW i \in P, NEW j \in P
      PROVE  InWindow(Group(S), WindowMicros(seconds), i, j)
  <2>1. o[i] \in T /\ o[j] \in T
    BY DEF Positions
  <2>2. /\ Group(S)[i].micros = events[o[i]].timestamp.micros
        /\ Group(S)[j].micros = events[o[j]].timestamp.micros
    BY <1>1, GroupIs
  <2> QED
    BY <2>1, <2>2 DEF Together, InWindow
<1> QED
  BY <1>1, <1>2, <1>4, <1>5, <1>6

(* Places of the group that fit the window are no more than the detector   *)
(* answers.                                                                *)
LEMMA GroupBurst ==
  ASSUME events \in Seq(Events), NEW S \in SUBSET DOMAIN events,
         NEW T \in SUBSET S, NEW seconds \in Int, Together(T, seconds),
         NEW min \in Nat, min > 0, Cardinality(T) >= min, NEW cap
  PROVE  /\ BurstAnswer(Group(S), WindowMicros(seconds), min, cap) # <<>>
         /\ BurstAnswer(Group(S), WindowMicros(seconds), min, cap)[1].count
              >= Cardinality(T)
<1> DEFINE P == Positions(S, T)
           o == Group(S)
           win == WindowMicros(seconds)
           a == BurstAnswer(o, win, min, cap)
<1>1. /\ P \in SUBSET (1 .. Len(o)) /\ Cardinality(T) <= Cardinality(P)
      /\ Cardinality(T) \in Nat /\ Cardinality(P) \in Nat
      /\ \A i, j \in P : InWindow(o, win, i, j)
  BY PositionsFit
<1>2. o \in Seq(Obs) /\ win \in Nat
  <2>1. win \in Nat
    BY WindowMicrosType
  <2> QED
    BY <2>1, GroupIs
<1>3. Cardinality(P) >= min
  <2> HIDE DEF P
  <2> QED
    BY <1>1
<1>4. a # <<>> /\ a[1].count >= Cardinality(P)
  <2> HIDE DEF P, o, win
  <2> QED
    BY <1>1, <1>2, <1>3, BurstOwed
<1>5. a[1].count \in Int
  <2> HIDE DEF o, win
  <2>1. \E r \in 1 .. Len(o) : \E l \in 1 .. r :
          /\ a = <<FindingOf(o, l, r, r - l + 1, cap)>>
          /\ min > 0 /\ r - l + 1 >= min
    BY <1>2, <1>4, BurstAnswerIs
  <2> HIDE DEF a
  <2>2. PICK r \in 1 .. Len(o) : \E l \in 1 .. r :
          a = <<FindingOf(o, l, r, r - l + 1, cap)>>
    BY <2>1
  <2>3. PICK l \in 1 .. r : a = <<FindingOf(o, l, r, r - l + 1, cap)>>
    BY <2>2
  <2>4. a[1].count = r - l + 1
    BY <2>3 DEF FindingOf
  <2> QED
    BY <2>4
<1> HIDE DEF a, P
<1>6. a[1].count >= Cardinality(T)
  BY <1>1, <1>4, <1>5
<1> QED
  BY <1>4, <1>6 DEF a

LEMMA GroupScan ==
  ASSUME events \in Seq(Events), NEW S \in SUBSET DOMAIN events,
         NEW T \in SUBSET S, T # {}, NEW seconds \in Int, Together(T, seconds),
         NEW hits,
         \A k \in 1 .. Cardinality(S) : hits[k] = Target(events[InOrder(S)[k]]),
         NEW min \in Nat, min > 0, NEW cap,
         Cardinality({Target(events[k]) : k \in T}) >= min
  PROVE  /\ ScanAnswer(Group(S), hits, WindowMicros(seconds), min, cap) # <<>>
         /\ ScanAnswer(Group(S), hits, WindowMicros(seconds), min, cap)[1].count
              >= Cardinality({Target(events[k]) : k \in T})
<1> DEFINE P == Positions(S, T)
           o == Group(S)
           win == WindowMicros(seconds)
           a == ScanAnswer(o, hits, win, min, cap)
<1>1. /\ P \in SUBSET (1 .. Len(o)) /\ {InOrder(S)[k] : k \in P} = T
      /\ \A i, j \in P : InWindow(o, win, i, j)
      /\ Len(o) = Cardinality(S)
  <2>1. Len(o) = Cardinality(S)
    BY GroupIs
  <2> QED
    BY <2>1, PositionsFit
<1>2. o \in Seq(Obs) /\ win \in Nat
  <2>1. win \in Nat
    BY WindowMicrosType
  <2> QED
    BY <2>1, GroupIs
<1>3. P # {}
  BY <1>1
<1>4. {hits[k] : k \in P} = {Target(events[k]) : k \in T}
  <2>1. \A k \in P : hits[k] = Target(events[InOrder(S)[k]])
    BY <1>1
  <2>2. \A k \in P : InOrder(S)[k] \in T
    BY <1>1
  <2>3. \A i \in T : \E k \in P : InOrder(S)[k] = i
    BY <1>1
  <2> HIDE DEF P
  <2>4. \A k \in P : hits[k] \in {Target(events[i]) : i \in T}
    BY <2>1, <2>2
  <2>5. \A i \in T : Target(events[i]) \in {hits[k] : k \in P}
    BY <2>1, <2>3
  <2> QED
    BY <2>4, <2>5
<1>5. a # <<>> /\ a[1].count >= Cardinality({hits[k] : k \in P})
  <2>1. Cardinality({hits[k] : k \in P}) >= min
    BY <1>4
  <2> HIDE DEF P, o, win
  <2> QED
    BY <1>1, <1>2, <1>3, <2>1, ScanOwed
<1> QED
  BY <1>4, <1>5

(***************************************************************************)
(* What a finding shows: events of the set it was made of, each once and   *)
(* in stream order, within its times and the cap.                          *)
(***************************************************************************)
Founded(f, S) ==
  /\ f.first_seen \in Stamps /\ f.last_seen \in Stamps
  /\ f.evidence \in Seq(Nat)
  /\ Len(f.evidence) <= cfg.evidence_cap
  /\ \A k \in DOMAIN f.evidence : f.evidence[k] \in S
  /\ \A k \in 2 .. Len(f.evidence) : f.evidence[k - 1] < f.evidence[k]
  /\ \A k \in DOMAIN f.evidence :
       LET t == events[f.evidence[k]].timestamp
       IN  t.valid => ~Before(t, f.first_seen) /\ ~Before(f.last_seen, t)

Entitled(kind, entity, a) ==
  [kind |-> kind, entity |-> entity, count |-> a.count,
   first_seen |-> At(a.first_seen), last_seen |-> At(a.last_seen),
   evidence |-> a.evidence]

LEMMA GroupFounded ==
  ASSUME events \in Seq(Events), InTimeOrder(events),
         NEW S \in SUBSET DOMAIN events, \A k \in S : events[k].timestamp.valid,
         NEW r \in 1 .. Len(Group(S)), NEW l \in 1 .. r, NEW n, NEW kind, NEW entity
  PROVE  Founded(Entitled(kind, entity, FindingOf(Group(S), l, r, n, cfg.evidence_cap)), S)
<1> DEFINE o == Group(S)
           places == InOrder(S)
           cap == cfg.evidence_cap
           f == Entitled(kind, entity, FindingOf(o, l, r, n, cap))
           size == r - l + 1
           m == IF size < cap THEN size ELSE cap
<1>1. cap \in Nat
  BY ConfigType
<1>2. /\ f.evidence = [k \in 1 .. m |-> o[l + k - 1].index]
      /\ f.first_seen = At(o[l].micros) /\ f.last_seen = At(o[r].micros)
  BY DEF Entitled, FindingOf, Evidence
<1>3. m \in Nat /\ m <= size /\ m <= cap
  BY <1>1
<1>4. /\ o \in Seq(Obs) /\ Len(o) \in Nat /\ TimeOrdered(o)
      /\ \A k \in 1 .. Len(o) : /\ places[k] \in S /\ o[k].index = places[k]
                                /\ o[k].micros = events[places[k]].timestamp.micros
                                /\ o[k].micros \in Micros
      /\ \A j, k \in 1 .. Len(o) : j < k => places[j] < places[k]
      /\ DOMAIN o = 1 .. Len(o)
  <2>1. o \in Seq(Obs) /\ Len(o) = Cardinality(S) /\ Cardinality(S) \in Nat
    BY GroupIs
  <2>2. \A k \in 1 .. Len(o) : o[k].micros \in Micros
    BY <2>1, ObsType
  <2>3. TimeOrdered(o)
    BY GroupOrdered
  <2> QED
    BY <2>1, <2>2, <2>3, GroupIs
<1>5. \A k \in 1 .. m : l + k - 1 \in 1 .. Len(o) /\ l <= l + k - 1 /\ l + k - 1 <= r
  BY <1>3, <1>4
<1> HIDE DEF o, places, m
<1>6. \A k \in 1 .. m : f.evidence[k] = places[l + k - 1] /\ f.evidence[k] \in S
  BY <1>2, <1>4, <1>5
<1>7. /\ f.evidence \in Seq(Nat) /\ Len(f.evidence) = m
      /\ DOMAIN f.evidence = 1 .. m
  <2>1. \A k \in 1 .. m : o[l + k - 1].index \in Nat
    <3>1. \A i \in 1 .. Len(o) : o[i].index \in Nat
      BY <1>4, ObsType
    <3> QED
      BY <1>5, <3>1
  <2> DEFINE ev == [k \in 1 .. m |-> o[l + k - 1].index]
  <2>2. ev \in Seq(Nat) /\ Len(ev) = m /\ DOMAIN ev = 1 .. m
    BY <1>3, <2>1
  <2> HIDE DEF ev, f
  <2> QED
    BY <1>2, <2>2 DEF ev
<1>8. l \in 1 .. Len(o) /\ r \in 1 .. Len(o)
  BY <1>4 DEF o
<1>9. f.first_seen \in Stamps /\ f.last_seen \in Stamps
  BY <1>2, <1>4, <1>8 DEF At, Stamps
<1>10. \A k \in 2 .. m : f.evidence[k - 1] < f.evidence[k]
  <2> TAKE k \in 2 .. m
  <2>1. /\ k \in 1 .. m /\ k - 1 \in 1 .. m
        /\ l + (k - 1) - 1 < l + k - 1
    BY <1>3
  <2> HIDE DEF f
  <2> QED
    BY <1>4, <1>5, <1>6, <2>1
<1>11. ASSUME NEW k \in 1 .. m
       PROVE  LET t == events[f.evidence[k]].timestamp
              IN  ~Before(t, f.first_seen) /\ ~Before(f.last_seen, t)
  <2> DEFINE i == l + k - 1
             t == events[f.evidence[k]].timestamp
  <2>1. i \in 1 .. Len(o) /\ l <= i /\ i <= r
    BY <1>5
  <2>2. t.micros = o[i].micros /\ t.valid /\ t \in Stamps
    <3>1. f.evidence[k] = places[i] /\ f.evidence[k] \in S
      BY <1>6
    <3> QED
      BY <1>4, <2>1, <3>1, StreamType
  <2>3. o[l].micros <= o[i].micros /\ o[i].micros <= o[r].micros
    BY <1>4, <1>8, <2>1 DEF TimeOrdered
  <2>4. /\ o[l].micros \in Int /\ o[i].micros \in Int /\ o[r].micros \in Int
    BY <1>4, <1>8, <2>1 DEF Micros
  <2> HIDE DEF t, i, f
  <2>5. ~Before(t, At(o[l].micros)) /\ ~Before(At(o[r].micros), t)
    BY <2>2, <2>3, <2>4 DEF Before, At, Stamps
  <2> QED
    BY <1>2, <2>5 DEF t
<1> HIDE DEF f
<1>12. Founded(f, S)
  BY <1>3, <1>6, <1>7, <1>9, <1>10, <1>11 DEF Founded
<1> QED
  BY <1>12 DEF f, o

(***************************************************************************)
(* The inductive invariant. While the stream is fixed every detector has   *)
(* one answer for each entity: the findings are such answers, each of an   *)
(* entity its detector has served, no two for the same, and none missing.  *)
(***************************************************************************)
Fails(a) == {k \in DOMAIN events : Failure(events[k]) /\ ActorKey(events[k]) = a}

Oks(a) == {k \in DOMAIN events : Success(events[k]) /\ ActorKey(events[k]) = a}

Errors(a) == {k \in DOMAIN events : HttpError(events[k]) /\ ActorKey(events[k]) = a}

Touching(a) == {k \in DOMAIN events : Touches(events[k]) /\ ActorKey(events[k]) = a}

Severe == {k \in DOMAIN events : ErrorOrWorse(events[k])}

Same(s) == {k \in DOMAIN events : events[k].signature = s}

Hits(S) == [k \in DOMAIN InOrder(S) |-> Target(events[InOrder(S)[k]])]

BruteAnswer(a) ==
  BurstAnswer(Group(Fails(a)), WindowMicros(cfg.bruteforce_window_seconds),
              cfg.bruteforce_min_failures, cfg.evidence_cap)

Sprays(a) ==
  SprayFindings(a, Group(Fails(a)), Group(Oks(a)), BruteAnswer(a)[1].count)

HttpAnswer(a) ==
  BurstAnswer(Group(Errors(a)), WindowMicros(cfg.http_error_window_seconds),
              cfg.http_error_min, cfg.evidence_cap)

ScanAnswerOf(a) ==
  ScanAnswer(Group(Touching(a)), Hits(Touching(a)),
             WindowMicros(cfg.scan_window_seconds), cfg.scan_distinct_min,
             cfg.evidence_cap)

SpikeAnswer ==
  BurstAnswer(Group(Severe), WindowMicros(cfg.severity_spike_window_seconds),
              cfg.severity_spike_min, cfg.evidence_cap)

Keys == {ActorKey(e) : e \in Events} \ {""}

Signatures == {events[k].signature : k \in DOMAIN events}

Brute(a) == Entitled("auth-brute-force", a, BruteAnswer(a)[1])

HttpBurst(a) == Entitled("http-error-burst", a, HttpAnswer(a)[1])

Scan(a) == Entitled("port-or-path-scan", a, ScanAnswerOf(a)[1])

Spike == Entitled("severity-spike", "(global)", SpikeAnswer[1])

IsAnswer(f) ==
  \/ \E a \in Keys : BruteAnswer(a) # <<>> /\ (f = Brute(a) \/ <<f>> \in Sprays(a))
  \/ \E a \in Keys : HttpAnswer(a) # <<>> /\ f = HttpBurst(a)
  \/ \E a \in Keys : ScanAnswerOf(a) # <<>> /\ f = Scan(a)
  \/ SpikeAnswer # <<>> /\ f = Spike
  \/ \E s \in Signatures : IsRare(s) /\ f = RareFinding(s)

(* The phases of run_detections, and the one that makes a kind of finding. *)
Phase ==
  [ingest |-> 0, auth |-> 1, http |-> 2, scan |-> 3, spike |-> 4, rare |-> 5,
   order |-> 6, done |-> 7]

MadeIn(kind) ==
  IF kind \in {"auth-brute-force", "auth-spray-then-hit"} THEN 1
  ELSE IF kind = "http-error-burst" THEN 2
  ELSE IF kind = "port-or-path-scan" THEN 3
  ELSE IF kind = "severity-spike" THEN 4
  ELSE 5

(* The detector of the n-th phase is done with the entity.                 *)
Served(n, entity) ==
  \/ n < Phase[pc]
  \/ n = Phase[pc] /\ n <= 3 /\ entity \notin pending

Listed == {all[n] : n \in DOMAIN all}

Report ==
  [kind : {"auth-brute-force", "auth-spray-then-hit", "http-error-burst",
           "port-or-path-scan", "rare-signature", "severity-spike"},
   entity : {Names[k] : k \in DOMAIN Names}, count : Nat,
   first_seen : Stamps, last_seen : Stamps, evidence : Seq(Nat)]

TypeInv ==
  /\ events \in Seq(Events)
  /\ pc \in DOMAIN Phase
  /\ pending \in SUBSET Keys
  /\ pc \notin {"auth", "http", "scan"} => pending = {}
  /\ all \in Seq(Report)

Sound ==
  \A f \in Listed : IsAnswer(f) /\ Served(MadeIn(f.kind), f.entity)

Unique ==
  \A m, n \in DOMAIN all :
    all[m].kind = all[n].kind /\ all[m].entity = all[n].entity => m = n

Complete ==
  /\ \A a \in Keys : Served(1, a) /\ BruteAnswer(a) # <<>> => Brute(a) \in Listed
  /\ \A a \in Keys : Served(2, a) /\ HttpAnswer(a) # <<>> => HttpBurst(a) \in Listed
  /\ \A a \in Keys : Served(3, a) /\ ScanAnswerOf(a) # <<>> => Scan(a) \in Listed
  /\ Phase[pc] > 4 /\ SpikeAnswer # <<>> => Spike \in Listed
  /\ Phase[pc] > 5 =>
       \A s \in Signatures : IsRare(s) => RareFinding(s) \in Listed

Ordered ==
  /\ pc # "ingest" => InTimeOrder(events)
  /\ pc = "done" =>
       \A m, n \in DOMAIN all : m < n => ~ListedBefore(all[n], all[m])

FindInv == TypeInv /\ Sound /\ Unique /\ Complete /\ Ordered

(* What the detectors group.                                               *)
LEMMA Grouped ==
  ASSUME events \in Seq(Events), NEW a
  PROVE  /\ ObsAt(Of(a, Failure)) = Group(Fails(a))
         /\ ObsAt(Of(a, Success)) = Group(Oks(a))
         /\ ObsAt(Of(a, HttpError)) = Group(Errors(a))
         /\ ObsAt(Of(a, Touches)) = Group(Touching(a))
         /\ [k \in DOMAIN Of(a, Touches) |-> Target(events[Of(a, Touches)[k]])]
              = Hits(Touching(a))
         /\ ObsAt(Where(ErrorOrWorse)) = Group(Severe)
BY DEF Of, Where, Group, Fails, Oks, Errors, Touching, Severe, Hits

LEMMA GroupedPlaces ==
  ASSUME events \in Seq(Events), NEW a
  PROVE  /\ Fails(a) \in SUBSET DOMAIN events /\ Oks(a) \in SUBSET DOMAIN events
         /\ Errors(a) \in SUBSET DOMAIN events /\ Touching(a) \in SUBSET DOMAIN events
         /\ Severe \in SUBSET DOMAIN events /\ Same(a) \in SUBSET DOMAIN events
         /\ \A k \in Fails(a) \cup Oks(a) \cup Errors(a) \cup Touching(a) \cup Severe :
              events[k].timestamp.valid
BY DEF Fails, Oks, Errors, Touching, Severe, Same, Failure, Success, HttpError, Touches,
       ErrorOrWorse

(* A detector's answer is one finding, founded on the group, or none.      *)
LEMMA NamedIs ==
  ASSUME NEW kind, NEW entity, NEW a, a = <<>> \/ a = <<a[1]>>
  PROVE  Named(kind, entity, a) = IF a = <<>> THEN <<>> ELSE <<Entitled(kind, entity, a[1])>>
<1>1. CASE a = <<>>
  BY <1>1 DEF Named
<1>2. CASE a # <<>>
  <2>1. DOMAIN a = {1}
    <3>1. \A x : DOMAIN <<x>> = {1}
      OBVIOUS
    <3> QED
      BY <1>2, <3>1
  <2>2. Named(kind, entity, a) = [k \in {1} |-> Entitled(kind, entity, a[k])]
    BY <2>1 DEF Named, Entitled
  <2>3. \A x : <<x>> = [k \in {1} |-> x]
    OBVIOUS
  <2>4. [k \in {1} |-> Entitled(kind, entity, a[k])]
          = [k \in {1} |-> Entitled(kind, entity, a[1])]
    OBVIOUS
  <2> QED
    BY <1>2, <2>2, <2>3, <2>4
<1> QED
  BY <1>1, <1>2

LEMMA BurstFounded ==
  ASSUME events \in Seq(Events), InTimeOrder(events),
         NEW S \in SUBSET DOMAIN events, \A k \in S : events[k].timestamp.valid,
         NEW seconds \in Int, NEW min \in Nat, NEW kind, NEW entity
  PROVE  LET a == BurstAnswer(Group(S), WindowMicros(seconds), min, cfg.evidence_cap)
         IN  /\ a = <<>> \/ a = <<a[1]>>
             /\ a # <<>> => /\ Founded(Entitled(kind, entity, a[1]), S)
                            /\ a[1].count \in Nat /\ a[1].count >= min /\ min > 0
                            /\ a[1].count <= Cardinality(S)
                            /\ Cardinality(S) \in Nat /\ S # {}
<1> DEFINE o == Group(S)
           win == WindowMicros(seconds)
           a == BurstAnswer(o, win, min, cfg.evidence_cap)
<1>1. o \in Seq(Obs) /\ win \in Nat /\ Len(o) = Cardinality(S) /\ Len(o) \in Nat
  <2>1. win \in Nat
    BY WindowMicrosType
  <2> QED
    BY <2>1, GroupIs
<1>2. CASE a = <<>>
  BY <1>2
<1>3. CASE a # <<>>
  <2>1. \E r \in 1 .. Len(o) : \E l \in 1 .. r :
          /\ a = <<FindingOf(o, l, r, r - l + 1, cfg.evidence_cap)>>
          /\ min > 0 /\ r - l + 1 >= min
    <3> HIDE DEF o, win
    <3> QED
      BY <1>1, <1>3, BurstAnswerIs
  <2> HIDE DEF a
  <2>2. PICK r \in 1 .. Len(o) : \E l \in 1 .. r :
          /\ a = <<FindingOf(o, l, r, r - l + 1, cfg.evidence_cap)>>
          /\ min > 0 /\ r - l + 1 >= min
    BY <2>1
  <2>3. PICK l \in 1 .. r :
          /\ a = <<FindingOf(o, l, r, r - l + 1, cfg.evidence_cap)>>
          /\ min > 0 /\ r - l + 1 >= min
    BY <2>2
  <2> DEFINE f == FindingOf(o, l, r, r - l + 1, cfg.evidence_cap)
  <2>4. Founded(Entitled(kind, entity, f), S)
    BY GroupFounded
  <2>5. f.count = r - l + 1
    BY DEF FindingOf
  <2> HIDE DEF f, o
  <2>6. a[1] = f /\ a = <<f>>
    BY <2>3 DEF f
  <2>7. f.count \in Nat /\ f.count >= min /\ min > 0 /\ f.count <= Len(o)
    BY <1>1, <2>3, <2>5
  <2>8. Len(o) = Cardinality(S) /\ Len(o) \in Nat /\ S # {}
    <3>1. S = {} => Cardinality(S) = 0
      BY FS_EmptySet
    <3> QED
      BY <1>1, <2>7, <3>1
  <2> QED
    BY <1>1, <2>4, <2>6, <2>7, <2>8 DEF a, o
<1> QED
  BY <1>2, <1>3

LEMMA ScanFounded ==
  ASSUME events \in Seq(Events), InTimeOrder(events),
         NEW S \in SUBSET DOMAIN events, \A k \in S : events[k].timestamp.valid,
         NEW hits, NEW seconds \in Int, NEW min \in Nat, NEW kind, NEW entity
  PROVE  LET a == ScanAnswer(Group(S), hits, WindowMicros(seconds), min, cfg.evidence_cap)
         IN  /\ a = <<>> \/ a = <<a[1]>>
             /\ a # <<>> => /\ Founded(Entitled(kind, entity, a[1]), S)
                            /\ a[1].count \in Nat /\ S # {}
<1> DEFINE o == Group(S)
           win == WindowMicros(seconds)
           a == ScanAnswer(o, hits, win, min, cfg.evidence_cap)
<1>1. o \in Seq(Obs) /\ win \in Nat
  <2>1. win \in Nat
    BY WindowMicrosType
  <2> QED
    BY <2>1, GroupIs
<1>2. CASE a = <<>>
  BY <1>2
<1>3. CASE a # <<>>
  <2>1. \E r \in 1 .. Len(o) : \E l \in 1 .. r : \E n \in Nat :
          a = <<FindingOf(o, l, r, n, cfg.evidence_cap)>>
    <3> HIDE DEF o, win
    <3> QED
      BY <1>1, <1>3, ScanAnswerIs
  <2> HIDE DEF a
  <2>2. PICK r \in 1 .. Len(o) : \E l \in 1 .. r : \E n \in Nat :
          a = <<FindingOf(o, l, r, n, cfg.evidence_cap)>>
    BY <2>1
  <2>3. PICK l \in 1 .. r : \E n \in Nat : a = <<FindingOf(o, l, r, n, cfg.evidence_cap)>>
    BY <2>2
  <2>4. PICK n \in Nat : a = <<FindingOf(o, l, r, n, cfg.evidence_cap)>>
    BY <2>3
  <2> DEFINE f == FindingOf(o, l, r, n, cfg.evidence_cap)
  <2>5. Founded(Entitled(kind, entity, f), S)
    BY GroupFounded
  <2>6. f.count = n
    BY DEF FindingOf
  <2> HIDE DEF f, o
  <2>7. a[1] = f /\ a = <<f>>
    BY <2>4 DEF f
  <2>8. S # {}
    <3>1. Len(o) = Cardinality(S)
      BY GroupIs DEF o
    <3>2. S = {} => Cardinality(S) = 0
      BY FS_EmptySet
    <3> QED
      BY <3>1, <3>2
  <2> QED
    BY <2>5, <2>6, <2>7, <2>8 DEF a, o
<1> QED
  BY <1>2, <1>3

(***************************************************************************)
(* What each detector's answer is founded on.                              *)
(***************************************************************************)
LEMMA Limits ==
  /\ cfg.bruteforce_min_failures \in Nat /\ cfg.bruteforce_window_seconds \in Int
  /\ cfg.http_error_min \in Nat /\ cfg.http_error_window_seconds \in Int
  /\ cfg.scan_distinct_min \in Nat /\ cfg.scan_window_seconds \in Int
  /\ cfg.severity_spike_min \in Nat /\ cfg.severity_spike_window_seconds \in Int
  /\ cfg.rare_signature_max \in Nat /\ cfg.evidence_cap \in Nat
BY ConfigType

LEMMA BruteIs ==
  ASSUME events \in Seq(Events), InTimeOrder(events), NEW a
  PROVE  /\ Named("auth-brute-force", a, BruteAnswer(a))
              = IF BruteAnswer(a) = <<>> THEN <<>> ELSE <<Brute(a)>>
         /\ Brute(a).kind = "auth-brute-force" /\ Brute(a).entity = a
         /\ Brute(a).count = BruteAnswer(a)[1].count
         /\ BruteAnswer(a) # <<>> =>
              /\ Founded(Brute(a), Fails(a)) /\ Fails(a) # {}
              /\ Brute(a).count \in Nat
              /\ Brute(a).count >= cfg.bruteforce_min_failures
              /\ cfg.bruteforce_min_failures > 0
              /\ Cardinality(Fails(a)) >= cfg.bruteforce_min_failures
<1> DEFINE r == BruteAnswer(a)
<1>1. /\ r = <<>> \/ r = <<r[1]>>
      /\ r # <<>> =>
           /\ Founded(Entitled("auth-brute-force", a, r[1]), Fails(a))
           /\ r[1].count \in Nat /\ r[1].count >= cfg.bruteforce_min_failures
           /\ cfg.bruteforce_min_failures > 0
           /\ r[1].count <= Cardinality(Fails(a))
           /\ Cardinality(Fails(a)) \in Nat /\ Fails(a) # {}
  <2>1. /\ Fails(a) \in SUBSET DOMAIN events
        /\ \A k \in Fails(a) : events[k].timestamp.valid
    BY GroupedPlaces
  <2> QED
    BY <2>1, Limits, BurstFounded DEF BruteAnswer
<1>2. Named("auth-brute-force", a, r)
        = IF r = <<>> THEN <<>> ELSE <<Entitled("auth-brute-force", a, r[1])>>
  <2> HIDE DEF r
  <2> QED
    BY <1>1, NamedIs
<1>3. /\ Brute(a) = Entitled("auth-brute-force", a, r[1])
      /\ Brute(a).kind = "auth-brute-force" /\ Brute(a).entity = a
      /\ Brute(a).count = r[1].count
  BY DEF Brute, Entitled
<1>4. r # <<>> => Cardinality(Fails(a)) >= cfg.bruteforce_min_failures
  <2> HIDE DEF r
  <2> QED
    BY <1>1, Limits
<1> QED
  BY <1>1, <1>2, <1>3, <1>4

LEMMA HttpIs ==
  ASSUME events \in Seq(Events), InTimeOrder(events), NEW a
  PROVE  /\ Named("http-error-burst", a, HttpAnswer(a))
              = IF HttpAnswer(a) = <<>> THEN <<>> ELSE <<HttpBurst(a)>>
         /\ HttpBurst(a).kind = "http-error-burst" /\ HttpBurst(a).entity = a
         /\ HttpBurst(a).count = HttpAnswer(a)[1].count
         /\ HttpAnswer(a) # <<>> =>
              /\ Founded(HttpBurst(a), Errors(a)) /\ Errors(a) # {}
              /\ HttpBurst(a).count \in Nat
<1> DEFINE r == HttpAnswer(a)
<1>1. /\ r = <<>> \/ r = <<r[1]>>
      /\ r # <<>> =>
           /\ Founded(Entitled("http-error-burst", a, r[1]), Errors(a))
           /\ r[1].count \in Nat /\ Errors(a) # {}
  <2>1. /\ Errors(a) \in SUBSET DOMAIN events
        /\ \A k \in Errors(a) : events[k].timestamp.valid
    BY GroupedPlaces
  <2> QED
    BY <2>1, Limits, BurstFounded DEF HttpAnswer
<1>2. Named("http-error-burst", a, r)
        = IF r = <<>> THEN <<>> ELSE <<Entitled("http-error-burst", a, r[1])>>
  <2> HIDE DEF r
  <2> QED
    BY <1>1, NamedIs
<1>3. /\ HttpBurst(a) = Entitled("http-error-burst", a, r[1])
      /\ HttpBurst(a).kind = "http-error-burst" /\ HttpBurst(a).entity = a
      /\ HttpBurst(a).count = r[1].count
  BY DEF HttpBurst, Entitled
<1> QED
  BY <1>1, <1>2, <1>3

LEMMA ScanIs ==
  ASSUME events \in Seq(Events), InTimeOrder(events), NEW a
  PROVE  /\ Named("port-or-path-scan", a, ScanAnswerOf(a))
              = IF ScanAnswerOf(a) = <<>> THEN <<>> ELSE <<Scan(a)>>
         /\ Scan(a).kind = "port-or-path-scan" /\ Scan(a).entity = a
         /\ Scan(a).count = ScanAnswerOf(a)[1].count
         /\ ScanAnswerOf(a) # <<>> =>
              /\ Founded(Scan(a), Touching(a)) /\ Touching(a) # {}
              /\ Scan(a).count \in Nat
<1> DEFINE r == ScanAnswerOf(a)
<1>1. /\ r = <<>> \/ r = <<r[1]>>
      /\ r # <<>> =>
           /\ Founded(Entitled("port-or-path-scan", a, r[1]), Touching(a))
           /\ r[1].count \in Nat /\ Touching(a) # {}
  <2>1. /\ Touching(a) \in SUBSET DOMAIN events
        /\ \A k \in Touching(a) : events[k].timestamp.valid
    BY GroupedPlaces
  <2> QED
    BY <2>1, Limits, ScanFounded DEF ScanAnswerOf
<1>2. Named("port-or-path-scan", a, r)
        = IF r = <<>> THEN <<>> ELSE <<Entitled("port-or-path-scan", a, r[1])>>
  <2> HIDE DEF r
  <2> QED
    BY <1>1, NamedIs
<1>3. /\ Scan(a) = Entitled("port-or-path-scan", a, r[1])
      /\ Scan(a).kind = "port-or-path-scan" /\ Scan(a).entity = a
      /\ Scan(a).count = r[1].count
  BY DEF Scan, Entitled
<1> QED
  BY <1>1, <1>2, <1>3

LEMMA SpikeIs ==
  ASSUME events \in Seq(Events), InTimeOrder(events)
  PROVE  /\ Named("severity-spike", "(global)", SpikeAnswer)
              = IF SpikeAnswer = <<>> THEN <<>> ELSE <<Spike>>
         /\ Spike.kind = "severity-spike" /\ Spike.entity = "(global)"
         /\ Spike.count = SpikeAnswer[1].count
         /\ SpikeAnswer # <<>> => Founded(Spike, Severe) /\ Spike.count \in Nat
<1> DEFINE r == SpikeAnswer
<1>1. /\ r = <<>> \/ r = <<r[1]>>
      /\ r # <<>> =>
           /\ Founded(Entitled("severity-spike", "(global)", r[1]), Severe)
           /\ r[1].count \in Nat
  <2>1. /\ Severe \in SUBSET DOMAIN events
        /\ \A k \in Severe : events[k].timestamp.valid
    BY GroupedPlaces
  <2> QED
    BY <2>1, Limits, BurstFounded DEF SpikeAnswer
<1>2. Named("severity-spike", "(global)", r)
        = IF r = <<>> THEN <<>> ELSE <<Entitled("severity-spike", "(global)", r[1])>>
  <2> HIDE DEF r
  <2> QED
    BY <1>1, NamedIs
<1>3. /\ Spike = Entitled("severity-spike", "(global)", r[1])
      /\ Spike.kind = "severity-spike" /\ Spike.entity = "(global)"
      /\ Spike.count = r[1].count
  BY DEF Spike, Entitled
<1> QED
  BY <1>1, <1>2, <1>3

(***************************************************************************)
(* Rare signatures.                                                        *)
(***************************************************************************)
LEMMA FirstExists ==
  ASSUME NEW T, IsFiniteSet(T), T # {}, NEW R, StrictOrder(T, R)
  PROVE  \E i \in T : \A j \in T : <<j, i>> \notin R
<1>1. 1 \in 1 .. Cardinality(T)
  <2>1. Cardinality(T) \in Nat /\ Cardinality(T) # 0
    BY FS_CardinalityType, FS_EmptySet
  <2> QED
    BY <2>1
<1>2. PICK i \in T : Cardinality(Ahead(T, R, i)) = 1 - 1
  BY <1>1, RankTaken
<1>3. Ahead(T, R, i) = {}
  <2>1. Ahead(T, R, i) \in SUBSET T
    BY DEF Ahead
  <2>2. IsFiniteSet(Ahead(T, R, i))
    BY <2>1, FS_Subset
  <2> QED
    BY <1>2, <2>2, FS_EmptySet
<1>4. \A j \in T : <<j, i>> \notin R
  BY <1>3 DEF Ahead
<1> QED
  BY <1>4

LEMMA SpanIs ==
  ASSUME NEW T \in SUBSET Stamps, IsFiniteSet(T)
  PROVE  /\ Earliest(T) \in Stamps /\ Latest(T) \in Stamps
         /\ \A t \in T : ~Before(t, Earliest(T)) /\ ~Before(Latest(T), t)
         /\ T # {} => Earliest(T) \in T /\ Latest(T) \in T
<1>1. CASE T = {}
  <2>1. Unknown \in Stamps
    BY MicrosAssumption DEF Unknown, Stamps, Micros
  <2> QED
    BY <1>1, <2>1 DEF Earliest, Latest
<1>2. CASE T # {}
  <2> DEFINE R == {p \in T \X T : Before(p[1], p[2])}
             Q == {p \in T \X T : Before(p[2], p[1])}
  <2>1. \A t, u \in T : (<<t, u>> \in R <=> Before(t, u)) /\ (<<t, u>> \in Q <=> Before(u, t))
    OBVIOUS
  <2>2. /\ \A t \in T : ~Before(t, t)
        /\ \A t, u \in T : Before(t, u) => ~Before(u, t)
        /\ \A t, u, v \in T : Before(t, u) => Before(t, v) \/ Before(v, u)
        /\ \A t, u \in T : t # u => Before(t, u) \/ Before(u, t)
    BY BeforeOrders
  <2>3. \A t, u, v \in T : Before(t, u) /\ Before(u, v) => Before(t, v)
    BY <2>2
  <2> HIDE DEF R, Q
  <2>4. StrictOrder(T, R) /\ StrictOrder(T, Q)
    BY <2>1, <2>2, <2>3 DEF StrictOrder
  <2>5. \E t \in T : \A u \in T : ~Before(u, t)
    <3>1. \E i \in T : \A j \in T : <<j, i>> \notin R
      BY <1>2, <2>4, FirstExists
    <3> QED
      BY <2>1, <3>1
  <2>6. \E t \in T : \A u \in T : ~Before(t, u)
    <3>1. \E i \in T : \A j \in T : <<j, i>> \notin Q
      BY <1>2, <2>4, FirstExists
    <3> QED
      BY <2>1, <3>1
  <2>7. Earliest(T) \in T /\ \A u \in T : ~Before(u, Earliest(T))
    BY <1>2, <2>5 DEF Earliest
  <2>8. Latest(T) \in T /\ \A u \in T : ~Before(Latest(T), u)
    BY <1>2, <2>6 DEF Latest
  <2> QED
    BY <2>7, <2>8
<1> QED
  BY <1>1, <1>2

LEMMA RareIs ==
  ASSUME events \in Seq(Events), NEW s
  PROVE  /\ RareFinding(s).kind = "rare-signature" /\ RareFinding(s).entity = s
         /\ RareFinding(s).count = Cardinality(Same(s)) /\ Cardinality(Same(s)) \in Nat
         /\ Founded(RareFinding(s), Same(s))
         /\ Times(Same(s)) # {} =>
              /\ RareFinding(s).first_seen \in Times(Same(s))
              /\ RareFinding(s).last_seen \in Times(Same(s))
         /\ \A t \in Times(Same(s)) : /\ ~Before(t, RareFinding(s).first_seen)
                                      /\ ~Before(RareFinding(s).last_seen, t)
<1> DEFINE S == Same(s)
           c == Cardinality(S)
           places == InOrder(S)
           T == Times(S)
           f == RareFinding(s)
           m == IF c < cfg.evidence_cap THEN c ELSE cfg.evidence_cap
<1>1. S \in SUBSET DOMAIN events /\ cfg.evidence_cap \in Nat
  BY GroupedPlaces, Limits
<1>2. /\ Len(events) \in Nat /\ DOMAIN events = 1 .. Len(events)
      /\ \A k \in DOMAIN events : events[k].timestamp \in Stamps
  BY StreamType
<1>3. /\ IsFiniteSet(S) /\ c \in Nat /\ places \in Seq(Nat) /\ Len(places) = c
      /\ DOMAIN places = 1 .. c
      /\ \A k \in 1 .. c : places[k] \in S
      /\ \A i \in S : \E k \in 1 .. c : places[k] = i
      /\ \A k, l \in 1 .. c : k < l <=> places[k] < places[l]
  <2>1. S \in SUBSET (1 .. Len(events))
    BY <1>1, <1>2
  <2> HIDE DEF S
  <2> QED
    BY <1>2, <2>1, InOrderIs
<1>4. Where(LAMBDA e : e.signature = s) = places
  BY DEF Where, Same
<1>5. {places[k] : k \in DOMAIN places} = S
  <2> HIDE DEF places, S, c
  <2> QED
    BY <1>3
<1>6. f = [kind |-> "rare-signature", entity |-> s, count |-> Len(places),
           first_seen |-> Earliest(T), last_seen |-> Latest(T),
           evidence |-> [k \in {j \in DOMAIN places : j <= cfg.evidence_cap} |-> places[k]]]
  BY <1>4, <1>5 DEF RareFinding
<1>7. T \in SUBSET Stamps /\ IsFiniteSet(T)
  <2>1. T = {events[k].timestamp : k \in {j \in S : events[j].timestamp.valid}}
    BY DEF Times
  <2>2. T \in SUBSET Stamps
    BY <1>1, <1>2, <2>1
  <2> DEFINE V == {j \in S : events[j].timestamp.valid}
             g == [k \in V |-> events[k].timestamp]
  <2>3. V \in SUBSET S
    OBVIOUS
  <2>4. T = {g[k] : k \in V}
    BY <2>1
  <2> HIDE DEF V, g, T, S
  <2>5. IsFiniteSet(V)
    BY <1>3, <2>3, FS_Subset
  <2>6. IsFiniteSet({g[k] : k \in V})
    BY <2>5, ImageSize
  <2> QED
    BY <2>2, <2>4, <2>6
<1>8. \A k \in S : events[k].timestamp.valid => events[k].timestamp \in T
  BY DEF Times
<1> HIDE DEF S, T, places, c
<1>9. /\ Earliest(T) \in Stamps /\ Latest(T) \in Stamps
      /\ \A t \in T : ~Before(t, Earliest(T)) /\ ~Before(Latest(T), t)
      /\ T # {} => Earliest(T) \in T /\ Latest(T) \in T
  BY <1>7, SpanIs
<1>10. m \in Nat /\ m <= c /\ m <= cfg.evidence_cap
  BY <1>1, <1>3
<1>11. {j \in DOMAIN places : j <= cfg.evidence_cap} = 1 .. m
  BY <1>1, <1>3
<1>12. /\ f.evidence = [k \in 1 .. m |-> places[k]]
       /\ f.first_seen = Earliest(T) /\ f.last_seen = Latest(T)
       /\ f.kind = "rare-signature" /\ f.entity = s /\ f.count = c
  BY <1>3, <1>6, <1>11
<1> HIDE DEF f, m
<1>13. \A k \in 1 .. m : k \in 1 .. c /\ places[k] \in S /\ places[k] \in Nat
  BY <1>3, <1>10
<1>14. f.evidence \in Seq(Nat) /\ Len(f.evidence) = m /\ DOMAIN f.evidence = 1 .. m
  BY <1>10, <1>12, <1>13
<1>15. \A k \in 1 .. m : f.evidence[k] = places[k]
  BY <1>12
<1>16. \A k \in 2 .. m : f.evidence[k - 1] < f.evidence[k]
  <2> TAKE k \in 2 .. m
  <2>1. k \in 1 .. m /\ k - 1 \in 1 .. m /\ k - 1 < k
    BY <1>10
  <2> QED
    BY <1>3, <1>13, <1>15, <2>1
<1>17. \A k \in 1 .. m :
         LET t == events[f.evidence[k]].timestamp
         IN  t.valid => ~Before(t, f.first_seen) /\ ~Before(f.last_seen, t)
  BY <1>8, <1>9, <1>12, <1>13, <1>15
<1>18. Founded(f, S)
  BY <1>9, <1>10, <1>12, <1>13, <1>14, <1>15, <1>16, <1>17 DEF Founded
<1> QED
  BY <1>3, <1>9, <1>12, <1>18 DEF f, S, T, c

(***************************************************************************)
(* A spray finding: it names the actor, shows events of its logins, the    *)
(* last of them a success at the time last seen, and by then the actor had *)
(* failed as often as the threshold asks.                                  *)
(***************************************************************************)
SprayOf(f, a) ==
  /\ f.kind = "auth-spray-then-hit" /\ f.entity = a /\ f.count \in Nat
  /\ f.first_seen \in Stamps /\ f.last_seen \in Stamps
  /\ f.evidence \in Seq(Nat) /\ Len(f.evidence) > 0
  /\ \A k \in DOMAIN f.evidence : f.evidence[k] \in Fails(a) \cup Oks(a)
  /\ f.evidence[Len(f.evidence)] \in Oks(a)
  /\ events[f.evidence[Len(f.evidence)]].timestamp = f.last_seen
  /\ Cardinality({k \in Fails(a) : ~Before(f.last_seen, events[k].timestamp)})
       >= cfg.bruteforce_min_failures

LEMMA GroupTimes ==
  ASSUME events \in Seq(Events), InTimeOrder(events),
         NEW S \in SUBSET DOMAIN events, \A k \in S : events[k].timestamp.valid
  PROVE  \A k \in 1 .. Len(Group(S)) :
           /\ InOrder(S)[k] \in S /\ Group(S)[k].index = InOrder(S)[k]
           /\ Group(S)[k].index \in Nat
           /\ Group(S)[k].micros \in Micros
           /\ events[InOrder(S)[k]].timestamp = At(Group(S)[k].micros)
           /\ At(Group(S)[k].micros) \in Stamps
<1> DEFINE o == Group(S)
<1> TAKE k \in 1 .. Len(o)
<1> DEFINE i == InOrder(S)[k]
<1>1. o \in Seq(Obs) /\ Len(o) = Cardinality(S)
  BY GroupIs
<1>2. i \in S /\ o[k].index = i /\ o[k].micros = events[i].timestamp.micros
  BY <1>1, GroupIs
<1> HIDE DEF o, i
<1>3. o[k].micros \in Micros /\ o[k].index \in Nat
  BY <1>1, ObsType
<1>4. events[i].timestamp \in Stamps /\ events[i].timestamp.valid
  BY <1>2, StreamType
<1>5. events[i].timestamp = [valid |-> TRUE, micros |-> events[i].timestamp.micros]
  BY <1>4 DEF Stamps
<1>6. events[i].timestamp = At(o[k].micros)
  BY <1>2, <1>5 DEF At
<1> QED
  BY <1>2, <1>3, <1>4, <1>6 DEF o, i

(* The failures up to the one that reached the threshold.                  *)
LEMMA FailedByThen ==
  ASSUME events \in Seq(Events), InTimeOrder(events),
         NEW S \in SUBSET DOMAIN events, \A k \in S : events[k].timestamp.valid,
         NEW n \in 1 .. Len(Group(S)), NEW m \in Micros, m >= Group(S)[n].micros
  PROVE  Cardinality({k \in S : ~Before(At(m), events[k].timestamp)}) >= n
<1> DEFINE o == Group(S)
           places == InOrder(S)
           B == {k \in S : ~Before(At(m), events[k].timestamp)}
           D == {places[j] : j \in 1 .. n}
<1>1. /\ o \in Seq(Obs) /\ Len(o) = Cardinality(S) /\ Len(o) \in Nat /\ IsFiniteSet(S)
      /\ DOMAIN o = 1 .. Len(o)
      /\ \A k, l \in 1 .. Cardinality(S) : places[k] = places[l] => k = l
  BY GroupIs
<1>2. \A k \in 1 .. Len(o) :
        /\ places[k] \in S /\ o[k].micros \in Micros
        /\ events[places[k]].timestamp = At(o[k].micros)
  BY GroupTimes
<1>3. \A j \in 1 .. n : o[j].micros <= o[n].micros
  <2>1. TimeOrdered(o)
    BY GroupOrdered
  <2> HIDE DEF o
  <2>2. \A j \in 1 .. n : j \in DOMAIN o /\ n \in DOMAIN o /\ j <= n
    BY <1>1 DEF o
  <2> QED
    BY <2>1, <2>2 DEF TimeOrdered
<1>4. m >= o[n].micros /\ n \in 1 .. Len(o)
  OBVIOUS
<1> HIDE DEF o, places
<1>5. \A j \in 1 .. n : j \in 1 .. Len(o)
  BY <1>1, <1>4
<1>6. \A j \in 1 .. n : ~Before(At(m), At(o[j].micros))
  <2> TAKE j \in 1 .. n
  <2>1. o[j].micros <= o[n].micros /\ o[j].micros \in Int /\ o[n].micros \in Int /\ m \in Int
    BY <1>2, <1>3, <1>4, <1>5 DEF Micros
  <2> QED
    BY <1>4, <2>1 DEF Before, At
<1>7. \A j \in 1 .. n : places[j] \in B
  BY <1>2, <1>5, <1>6
<1>8. n \in Nat /\ IsFiniteSet(1 .. n) /\ Cardinality(1 .. n) = n
  <2>1. n \in Nat /\ n > 0
    BY <1>1, <1>4
  <2>2. IsFiniteSet(1 .. n) /\ Cardinality(1 .. n) = IF 1 > n THEN 0 ELSE n - 1 + 1
    BY <2>1, FS_Interval
  <2> QED
    BY <2>1, <2>2
<1>9. B \in SUBSET S
  OBVIOUS
<1> HIDE DEF B
<1> DEFINE f == [j \in 1 .. n |-> places[j]]
<1>10. f \in Injection(1 .. n, B)
  <2>1. f \in [1 .. n -> B]
    BY <1>7
  <2>2. \A i, j \in 1 .. n : f[i] = f[j] => i = j
    BY <1>1, <1>5
  <2> HIDE DEF f
  <2> QED
    BY <2>1, <2>2 DEF Injection, IsInjective
<1>11. IsFiniteSet(B)
  BY <1>1, <1>9, FS_Subset
<1> HIDE DEF f
<1>12. Cardinality(1 .. n) <= Cardinality(B) /\ Cardinality(B) \in Nat
  BY <1>10, <1>11, FS_Injection, FS_CardinalityType
<1> QED
  BY <1>8, <1>12 DEF B

LEMMA SprayIs ==
  ASSUME events \in Seq(Events), InTimeOrder(events), NEW a,
         BruteAnswer(a) # <<>>, NEW p \in Sprays(a)
  PROVE  p = <<>> \/ (p = <<p[1]>> /\ SprayOf(p[1], a))
<1> DEFINE fails == Group(Fails(a))
           oks == Group(Oks(a))
           n == cfg.bruteforce_min_failures
           cap == cfg.evidence_cap
           c == BruteAnswer(a)[1].count
           Ev(k) == Append([j \in {i \in DOMAIN fails : i < cap} |-> fails[j].index],
                           oks[k].index)
           Finds(k) == [kind |-> "auth-spray-then-hit", entity |-> a, count |-> c,
                        first_seen |-> At(fails[1].micros),
                        last_seen |-> At(oks[k].micros), evidence |-> Ev(k)]
<1>1. p = <<>> \/ \E k \in DOMAIN oks : oks[k].micros >= fails[n].micros /\ p = <<Finds(k)>>
  BY DEF Sprays, SprayFindings
<1>2. CASE p = <<>>
  BY <1>2
<1>3. CASE p # <<>>
  <2>1. PICK k \in DOMAIN oks : oks[k].micros >= fails[n].micros /\ p = <<Finds(k)>>
    BY <1>1, <1>3
  <2>2. /\ Fails(a) \in SUBSET DOMAIN events /\ Oks(a) \in SUBSET DOMAIN events
        /\ \A i \in Fails(a) : events[i].timestamp.valid
        /\ \A i \in Oks(a) : events[i].timestamp.valid
    BY GroupedPlaces
  <2>3. /\ Len(fails) = Cardinality(Fails(a)) /\ Len(fails) \in Nat
        /\ DOMAIN fails = 1 .. Len(fails) /\ DOMAIN oks = 1 .. Len(oks)
    BY <2>2, GroupIs
  <2>4. c \in Nat /\ n \in 1 .. Len(fails) /\ 1 \in 1 .. Len(fails) /\ n \in Nat /\ cap \in Nat
    <3>1. Cardinality(Fails(a)) >= n /\ n > 0 /\ c \in Nat
      BY BruteIs
    <3> HIDE DEF c, fails
    <3> QED
      BY <2>3, <3>1, Limits
  <2>5. \A j \in 1 .. Len(fails) :
          /\ InOrder(Fails(a))[j] \in Fails(a)
          /\ fails[j].index = InOrder(Fails(a))[j]
          /\ fails[j].index \in Nat /\ At(fails[j].micros) \in Stamps
    BY <2>2, GroupTimes
  <2>6. /\ InOrder(Oks(a))[k] \in Oks(a) /\ oks[k].index = InOrder(Oks(a))[k]
        /\ oks[k].index \in Nat /\ oks[k].micros \in Micros
        /\ events[oks[k].index].timestamp = At(oks[k].micros)
        /\ At(oks[k].micros) \in Stamps
    BY <2>2, <2>3, GroupTimes
  <2>7. Cardinality({i \in Fails(a) : ~Before(At(oks[k].micros), events[i].timestamp)}) >= n
    BY <2>1, <2>2, <2>4, <2>6, FailedByThen
  <2> HIDE DEF fails, oks, c
  <2> DEFINE m == IF cap = 0 THEN 0 ELSE IF cap - 1 < Len(fails) THEN cap - 1 ELSE Len(fails)
             s == [j \in 1 .. m |-> fails[j].index]
  <2>8. m \in Nat /\ m <= Len(fails) /\ {i \in DOMAIN fails : i < cap} = 1 .. m
    BY <2>3, <2>4
  <2> HIDE DEF m
  <2>9. Ev(k) = Append(s, oks[k].index)
    BY <2>8
  <2>10. /\ s \in Seq(Nat) /\ Len(s) = m
         /\ \A j \in 1 .. m : s[j] \in Fails(a)
    <3>1. \A j \in 1 .. m : j \in 1 .. Len(fails)
      BY <2>3, <2>8
    <3>2. \A j \in 1 .. m : fails[j].index \in Nat /\ fails[j].index \in Fails(a)
      BY <2>5, <3>1
    <3> QED
      BY <2>8, <3>2
  <2> HIDE DEF s
  <2> DEFINE e == Append(s, oks[k].index)
  <2>11. /\ e \in Seq(Nat) /\ Len(e) = m + 1 /\ DOMAIN e = 1 .. m + 1
         /\ e[m + 1] = oks[k].index /\ \A j \in 1 .. m : e[j] = s[j]
    BY <2>6, <2>8, <2>10
  <2> HIDE DEF e
  <2>12. \A j \in DOMAIN e : e[j] \in Fails(a) \cup Oks(a)
    <3> TAKE j \in DOMAIN e
    <3>1. j \in 1 .. m \/ j = m + 1
      BY <2>8, <2>11
    <3> QED
      BY <2>6, <2>10, <2>11, <3>1
  <2>13. e[Len(e)] = oks[k].index /\ oks[k].index \in Oks(a) /\ Len(e) > 0
    BY <2>6, <2>8, <2>11
  <2> DEFINE f == Finds(k)
  <2>14. /\ f.kind = "auth-spray-then-hit" /\ f.entity = a /\ f.count = c
         /\ f.first_seen = At(fails[1].micros) /\ f.last_seen = At(oks[k].micros)
         /\ f.evidence = e
    BY <2>9 DEF e
  <2>15. p = <<f>>
    BY <2>1
  <2> HIDE DEF f, Ev
  <2>16. SprayOf(f, a)
    BY <2>4, <2>5, <2>6, <2>7, <2>11, <2>12, <2>13, <2>14 DEF SprayOf
  <2> QED
    BY <2>15, <2>16
<1> QED
  BY <1>2, <1>3

(***************************************************************************)
(* Types of the answers, and what each shows.                              *)
(***************************************************************************)
Places(f) ==
  IF f.kind = "auth-brute-force" THEN Fails(f.entity)
  ELSE IF f.kind = "http-error-burst" THEN Errors(f.entity)
  ELSE IF f.kind = "port-or-path-scan" THEN Touching(f.entity)
  ELSE IF f.kind = "severity-spike" THEN Severe
  ELSE Same(f.entity)

Entities == {Names[k] : k \in DOMAIN Names}

LEMMA EntitiesNamed ==
  /\ "(global)" \in Entities /\ Keys \in SUBSET Entities
  /\ events \in Seq(Events) => Signatures \in SUBSET Entities
<1>1. /\ "(global)" \in Entities
      /\ \A e \in Events : e.signature \in Entities /\ ActorKey(e) \in Entities \cup {""}
  BY EntityNames DEF Entities
<1>2. Keys \in SUBSET Entities
  BY <1>1 DEF Keys
<1>3. ASSUME events \in Seq(Events) PROVE Signatures \in SUBSET Entities
  BY <1>1, <1>3, StreamType DEF Signatures
<1> QED
  BY <1>1, <1>2, <1>3

LEMMA ReportIs ==
  ASSUME NEW f, NEW kind, NEW entity, NEW count, NEW first, NEW last, NEW evidence,
         f = [kind |-> kind, entity |-> entity, count |-> count, first_seen |-> first,
              last_seen |-> last, evidence |-> evidence],
         f.kind \in {"auth-brute-force", "auth-spray-then-hit", "http-error-burst",
                     "port-or-path-scan", "rare-signature", "severity-spike"},
         f.entity \in Entities, f.count \in Nat, f.first_seen \in Stamps,
         f.last_seen \in Stamps, f.evidence \in Seq(Nat)
  PROVE  f \in Report
BY DEF Report, Entities

LEMMA AnswerIs ==
  ASSUME events \in Seq(Events), InTimeOrder(events), NEW f, IsAnswer(f)
  PROVE  /\ f \in Report
         /\ f.kind # "auth-spray-then-hit" => Founded(f, Places(f))
         /\ f.kind = "auth-spray-then-hit" =>
              /\ f.entity \in Keys /\ BruteAnswer(f.entity) # <<>>
              /\ SprayOf(f, f.entity)
         /\ f.kind = "rare-signature" =>
              /\ f.entity \in Signatures /\ IsRare(f.entity)
              /\ f = RareFinding(f.entity)
<1>1. ASSUME NEW a \in Keys, BruteAnswer(a) # <<>>, f = Brute(a)
      PROVE  f \in Report /\ Founded(f, Places(f)) /\ f.kind = "auth-brute-force"
  <2>1. /\ f.kind = "auth-brute-force" /\ f.entity = a /\ f.count \in Nat
        /\ Founded(f, Fails(a))
    BY <1>1, BruteIs
  <2>2. f \in Report
    BY <1>1, <2>1, EntitiesNamed, ReportIs DEF Founded, Brute, Entitled
  <2> QED
    BY <2>1, <2>2 DEF Places
<1>2. ASSUME NEW a \in Keys, BruteAnswer(a) # <<>>, <<f>> \in Sprays(a)
      PROVE  f \in Report /\ SprayOf(f, a)
  <2>1. SprayOf(f, a)
    <3> DEFINE p == <<f>>
    <3>1. p # <<>> /\ p[1] = f /\ p \in Sprays(a)
      BY <1>2
    <3> HIDE DEF p
    <3>2. SprayOf(p[1], a)
      BY <1>2, <3>1, SprayIs
    <3> QED
      BY <3>1, <3>2
  <2>2. \E count, first, last, evidence :
          f = [kind |-> "auth-spray-then-hit", entity |-> a, count |-> count,
               first_seen |-> first, last_seen |-> last, evidence |-> evidence]
    BY <1>2 DEF Sprays, SprayFindings
  <2>3. f \in Report
    BY <2>1, <2>2, EntitiesNamed, ReportIs DEF SprayOf
  <2> QED
    BY <2>1, <2>3
<1>3. ASSUME NEW a \in Keys, HttpAnswer(a) # <<>>, f = HttpBurst(a)
      PROVE  f \in Report /\ Founded(f, Places(f)) /\ f.kind = "http-error-burst"
  <2>1. /\ f.kind = "http-error-burst" /\ f.entity = a /\ f.count \in Nat
        /\ Founded(f, Errors(a))
    BY <1>3, HttpIs
  <2>2. f \in Report
    BY <1>3, <2>1, EntitiesNamed, ReportIs DEF Founded, HttpBurst, Entitled
  <2> QED
    BY <2>1, <2>2 DEF Places
<1>4. ASSUME NEW a \in Keys, ScanAnswerOf(a) # <<>>, f = Scan(a)
      PROVE  f \in Report /\ Founded(f, Places(f)) /\ f.kind = "port-or-path-scan"
  <2>1. /\ f.kind = "port-or-path-scan" /\ f.entity = a /\ f.count \in Nat
        /\ Founded(f, Touching(a))
    BY <1>4, ScanIs
  <2>2. f \in Report
    BY <1>4, <2>1, EntitiesNamed, ReportIs DEF Founded, Scan, Entitled
  <2> QED
    BY <2>1, <2>2 DEF Places
<1>5. ASSUME SpikeAnswer # <<>>, f = Spike
      PROVE  f \in Report /\ Founded(f, Places(f)) /\ f.kind = "severity-spike"
  <2>1. /\ f.kind = "severity-spike" /\ f.entity = "(global)" /\ f.count \in Nat
        /\ Founded(f, Severe)
    BY <1>5, SpikeIs
  <2>2. f \in Report
    BY <1>5, <2>1, EntitiesNamed, ReportIs DEF Founded, Spike, Entitled
  <2> QED
    BY <2>1, <2>2 DEF Places
<1>6. ASSUME NEW s \in Signatures, IsRare(s), f = RareFinding(s)
      PROVE  /\ f \in Report /\ Founded(f, Places(f))
             /\ f.kind = "rare-signature" /\ f.entity = s
  <2>1. /\ f.kind = "rare-signature" /\ f.entity = s /\ f.count \in Nat
        /\ Founded(f, Same(s))
    BY <1>6, RareIs
  <2>2. \E count, first, last, evidence :
          f = [kind |-> "rare-signature", entity |-> s, count |-> count,
               first_seen |-> first, last_seen |-> last, evidence |-> evidence]
    BY <1>6 DEF RareFinding
  <2>3. f \in Report
    BY <2>1, <2>2, EntitiesNamed, ReportIs DEF Founded
  <2> QED
    BY <2>1, <2>3 DEF Places
<1>7. \A a : SprayOf(f, a) => f.kind = "auth-spray-then-hit" /\ f.entity = a
  BY DEF SprayOf
<1> QED
  BY <1>1, <1>2, <1>3, <1>4, <1>5, <1>6, <1>7 DEF IsAnswer

(***************************************************************************)
(* The answers depend on the stream alone.                                 *)
(***************************************************************************)
LEMMA StreamKept ==
  ASSUME events' = events
  PROVE  /\ \A a : /\ (BruteAnswer(a) = BruteAnswer(a)') /\ (Brute(a) = Brute(a)')
                   /\ (Sprays(a) = Sprays(a)')
                   /\ (HttpAnswer(a) = HttpAnswer(a)') /\ (HttpBurst(a) = HttpBurst(a)')
                   /\ (ScanAnswerOf(a) = ScanAnswerOf(a)') /\ (Scan(a) = Scan(a)')
         /\ SpikeAnswer = SpikeAnswer' /\ Spike = Spike' /\ Signatures = Signatures'
         /\ \A s : (IsRare(s) <=> IsRare(s)') /\ (RareFinding(s) = RareFinding(s)')
         /\ \A f : IsAnswer(f) <=> IsAnswer(f)'
         /\ InTimeOrder(events) => InTimeOrder(events)'
<1>1. ASSUME NEW S PROVE Group(S)' = Group(S) /\ Hits(S)' = Hits(S)
  BY DEF Group, ObsAt, Hits
<1>2. ASSUME NEW a
      PROVE  /\ Fails(a)' = Fails(a) /\ Oks(a)' = Oks(a)
             /\ Errors(a)' = Errors(a) /\ Touching(a)' = Touching(a)
  BY DEF Fails, Oks, Errors, Touching
<1>3. Severe' = Severe /\ Signatures' = Signatures
  BY DEF Severe, Signatures
<1>4. ASSUME NEW a PROVE BruteAnswer(a)' = BruteAnswer(a) /\ Brute(a)' = Brute(a)
  BY <1>1, <1>2 DEF BruteAnswer, Brute, Group, ObsAt, Fails
<1>5. ASSUME NEW a PROVE Sprays(a)' = Sprays(a)
  BY <1>2, <1>4 DEF Sprays, Group, ObsAt
<1>6. ASSUME NEW a PROVE HttpAnswer(a)' = HttpAnswer(a) /\ HttpBurst(a)' = HttpBurst(a)
  BY <1>1, <1>2 DEF HttpAnswer, HttpBurst, Group, ObsAt
<1>7. ASSUME NEW a PROVE ScanAnswerOf(a)' = ScanAnswerOf(a) /\ Scan(a)' = Scan(a)
  <2>1. /\ Touching(a)' = Touching(a)
        /\ Group(Touching(a))' = Group(Touching(a))
        /\ Hits(Touching(a))' = Hits(Touching(a))
    BY <1>2 DEF Group, ObsAt, Hits
  <2>2. ScanAnswerOf(a)' = ScanAnswerOf(a)
    BY <2>1 DEF ScanAnswerOf
  <2> QED
    BY <2>2 DEF Scan
<1>8. SpikeAnswer' = SpikeAnswer /\ Spike' = Spike
  BY <1>1, <1>3 DEF SpikeAnswer, Spike, Group, ObsAt
<1>9. ASSUME NEW s PROVE (IsRare(s) <=> IsRare(s)') /\ RareFinding(s)' = RareFinding(s)
  BY DEF IsRare, Occurrences, RareFinding, Where, Times
<1>10. ASSUME NEW f PROVE IsAnswer(f) <=> IsAnswer(f)'
  BY <1>3, <1>4, <1>5, <1>6, <1>7, <1>8, <1>9 DEF IsAnswer
<1>11. InTimeOrder(events) => InTimeOrder(events)'
  OBVIOUS
<1> QED
  BY <1>3, <1>4, <1>5, <1>6, <1>7, <1>8, <1>9, <1>10, <1>11

(***************************************************************************)
(* The order of the report is one in which only findings of one kind about *)
(* one entity are alike.                                                   *)
(***************************************************************************)
LEMMA RankIs ==
  ASSUME NEW names, NEW name \in {names[k] : k \in DOMAIN names}
  PROVE  Rank(names, name) \in DOMAIN names /\ names[Rank(names, name)] = name
BY DEF Rank

LEMMA ListedOrders ==
  ASSUME NEW a \in Report, NEW b \in Report
  PROVE  /\ ~ListedBefore(a, a)
         /\ ListedBefore(a, b) => ~ListedBefore(b, a)
         /\ \A c \in Report : ListedBefore(a, b) => ListedBefore(a, c) \/ ListedBefore(c, b)
         /\ ~ListedBefore(a, b) /\ ~ListedBefore(b, a) => a.kind = b.kind /\ a.entity = b.entity
<1> DEFINE K(f) == Rank(KindNames, f.kind)
           N(f) == Rank(Names, f.entity)
<1>1. \A f \in Report : /\ K(f) \in Nat /\ KindNames[K(f)] = f.kind
                        /\ N(f) \in Nat /\ Names[N(f)] = f.entity
  <2> TAKE f \in Report
  <2>1. f.kind \in {KindNames[k] : k \in DOMAIN KindNames} /\ DOMAIN KindNames = 1 .. 6
    <3>1. DOMAIN KindNames = 1 .. 6
      BY DEF KindNames
    <3>2. \E k \in 1 .. 6 : KindNames[k] = f.kind
      BY DEF KindNames, Report
    <3> QED
      BY <3>1, <3>2
  <2>2. f.entity \in {Names[k] : k \in DOMAIN Names} /\ DOMAIN Names \subseteq Nat
    BY EntityNames DEF Report
  <2>3. K(f) \in DOMAIN KindNames /\ KindNames[K(f)] = f.kind
    BY <2>1, RankIs
  <2>4. N(f) \in DOMAIN Names /\ Names[N(f)] = f.entity
    BY <2>2, RankIs
  <2> QED
    BY <2>1, <2>2, <2>3, <2>4
<1>2. \A f, g \in Report : f.kind = g.kind <=> K(f) = K(g)
  <2> TAKE f, g \in Report
  <2>1. f.kind = g.kind => K(f) = K(g)
    OBVIOUS
  <2> HIDE DEF K
  <2> QED
    BY <1>1, <2>1
<1>3. \A f, g \in Report :
        ListedBefore(f, g) <=>
          \/ Before(f.first_seen, g.first_seen)
          \/ /\ f.first_seen = g.first_seen
             /\ K(f) < K(g) \/ (K(f) = K(g) /\ N(f) < N(g))
  <2> TAKE f, g \in Report
  <2>1. f.kind = g.kind <=> K(f) = K(g)
    BY <1>2
  <2> QED
    BY <2>1 DEF ListedBefore
<1>4. \A f \in Report : f.first_seen \in Stamps
  BY DEF Report
<1>5. /\ \A t, u \in Stamps : ~Before(t, t) /\ (Before(t, u) => ~Before(u, t))
      /\ \A t, u, v \in Stamps : Before(t, u) => Before(t, v) \/ Before(v, u)
      /\ \A t, u \in Stamps : ~Before(t, u) /\ ~Before(u, t) => t = u
  BY BeforeOrders
<1> HIDE DEF K, N
<1>6. ~ListedBefore(a, a)
  BY <1>1, <1>3, <1>4, <1>5
<1>7. ListedBefore(a, b) => ~ListedBefore(b, a)
  BY <1>1, <1>3, <1>4, <1>5
<1>8. ~ListedBefore(a, b) /\ ~ListedBefore(b, a) => a.kind = b.kind /\ a.entity = b.entity
  BY <1>1, <1>3, <1>4, <1>5
<1>9. ASSUME NEW c \in Report, ListedBefore(a, b)
      PROVE  ListedBefore(a, c) \/ ListedBefore(c, b)
  <2> DEFINE s == a.first_seen
             t == b.first_seen
             u == c.first_seen
  <2>1. s \in Stamps /\ t \in Stamps /\ u \in Stamps
    BY <1>4
  <2>2. Before(s, u) => ListedBefore(a, c)
    BY <1>3
  <2>3. Before(u, t) => ListedBefore(c, b)
    BY <1>3
  <2>4. CASE ~Before(s, u) /\ ~Before(u, t)
    <3>1. ~Before(s, t) /\ s = t
      BY <1>3, <1>5, <1>9, <2>1, <2>4
    <3>2. u = s /\ u = t
      BY <1>5, <2>1, <2>4, <3>1
    <3> HIDE DEF s, t, u
    <3>3. K(a) < K(b) \/ (K(a) = K(b) /\ N(a) < N(b))
      BY <1>3, <1>9, <3>1 DEF s, t
    <3>4. \/ K(a) < K(c) \/ (K(a) = K(c) /\ N(a) < N(c))
          \/ K(c) < K(b) \/ (K(c) = K(b) /\ N(c) < N(b))
      <4>1. /\ K(a) \in Nat /\ K(b) \in Nat /\ K(c) \in Nat
            /\ N(a) \in Nat /\ N(b) \in Nat /\ N(c) \in Nat
        BY <1>1
      <4> QED
        BY <3>3, <4>1
    <3> QED
      BY <1>3, <3>1, <3>2, <3>4 DEF s, t, u
  <2> QED
    BY <2>2, <2>3, <2>4
<1> QED
  BY <1>6, <1>7, <1>8, <1>9

LEMMA MadeIs ==
  /\ MadeIn("auth-brute-force") = 1 /\ MadeIn("auth-spray-then-hit") = 1
  /\ MadeIn("http-error-burst") = 2 /\ MadeIn("port-or-path-scan") = 3
  /\ MadeIn("severity-spike") = 4 /\ MadeIn("rare-signature") = 5
  /\ \A kind : MadeIn(kind) \in 1 .. 5
BY DEF MadeIn

(***************************************************************************)
(* What a detector adds to the findings.                                   *)
(***************************************************************************)
Adds(f) ==
  IsAnswer(f) /\ ~Served(MadeIn(f.kind), f.entity) /\ Served(MadeIn(f.kind), f.entity)'

LEMMA AppendKeeps ==
  ASSUME TypeInv, Sound, Unique, InTimeOrder(events), events' = events, NEW N \in Nat,
         NEW new, new \in Seq(Report), Len(new) = N,
         \A n \in 1 .. N : Adds(new[n]),
         \A m, n \in 1 .. N :
           new[m].kind = new[n].kind /\ new[m].entity = new[n].entity => m = n,
         \A n \in 1 .. 5 : \A x : Served(n, x) => Served(n, x)',
         all' = all \o new
  PROVE  /\ all' \in Seq(Report) /\ Sound' /\ Unique'
         /\ Listed \subseteq Listed'
         /\ \A n \in 1 .. N : new[n] \in Listed'
<1> DEFINE L == Len(all)
<1>1. /\ all \in Seq(Report) /\ L \in Nat /\ DOMAIN all = 1 .. L
      /\ all' \in Seq(Report) /\ DOMAIN all' = 1 .. (L + N)
      /\ \A n \in 1 .. L : all'[n] = all[n]
      /\ \A n \in 1 .. N : all'[L + n] = new[n] /\ L + n \in DOMAIN all'
  <2>1. all \in Seq(Report)
    BY DEF TypeInv
  <2>2. Len(all') = L + N /\ all' \in Seq(Report)
    BY <2>1
  <2>3. \A n \in 1 .. L : all'[n] = all[n]
    BY <2>1
  <2>4. \A n \in 1 .. N : all'[L + n] = new[n]
    BY <2>1
  <2> QED
    BY <2>1, <2>2, <2>3, <2>4
<1>2. \A n \in DOMAIN all' : n \in 1 .. L \/ \E k \in 1 .. N : n = L + k
  <2> TAKE n \in DOMAIN all'
  <2> HIDE DEF L
  <2>1. n \in 1 .. (L + N) /\ L \in Nat
    BY <1>1
  <2>2. CASE n <= L
    BY <2>1, <2>2
  <2>3. CASE n > L
    <3>1. n - L \in 1 .. N /\ n = L + (n - L)
      BY <2>1, <2>3
    <3> QED
      BY <3>1
  <2> QED
    BY <2>1, <2>2, <2>3
<1>3. Listed \subseteq Listed'
  <2> HIDE DEF L
  <2>1. \A n \in 1 .. L : n \in DOMAIN all'
    BY <1>1
  <2> QED
    BY <1>1, <2>1 DEF Listed
<1>4. \A n \in 1 .. N : new[n] \in Listed'
  <2> HIDE DEF L
  <2> QED
    BY <1>1, ZenonT(30) DEF Listed
<1> HIDE DEF L
<1>5. Sound'
  <2> SUFFICES ASSUME NEW f, f \in Listed'
               PROVE  IsAnswer(f)' /\ Served(MadeIn(f.kind), f.entity)'
    BY DEF Sound
  <2>1. PICK n \in DOMAIN all' : all'[n] = f
    BY DEF Listed
  <2>2. IsAnswer(f) /\ Served(MadeIn(f.kind), f.entity)'
    <3>1. CASE n \in 1 .. L
      <4>1. f \in Listed
        BY <1>1, <2>1, <3>1 DEF Listed
      <4> QED
        BY <4>1, MadeIs DEF Sound
    <3>2. CASE \E k \in 1 .. N : n = L + k
      <4>1. PICK k \in 1 .. N : n = L + k
        BY <3>2
      <4>2. f = new[k] /\ Adds(new[k])
        BY <1>1, <2>1, <4>1
      <4> QED
        BY <4>2 DEF Adds
    <3> QED
      BY <1>2, <3>1, <3>2
  <2>3. IsAnswer(f)'
    BY <2>2, StreamKept
  <2> QED
    BY <2>2, <2>3
<1>6. Unique'
  <2>1. ASSUME NEW i \in 1 .. L, NEW k \in 1 .. N
        PROVE  ~(all[i].kind = new[k].kind /\ all[i].entity = new[k].entity)
    <3>1. all[i] \in Listed
      BY <1>1 DEF Listed
    <3>2. Served(MadeIn(all[i].kind), all[i].entity)
      BY <3>1 DEF Sound
    <3>3. ~Served(MadeIn(new[k].kind), new[k].entity)
      BY DEF Adds
    <3> QED
      BY <3>2, <3>3
  <2>2. ASSUME NEW i \in DOMAIN all', NEW j \in DOMAIN all',
               all'[i].kind = all'[j].kind, all'[i].entity = all'[j].entity
        PROVE  i = j
    <3>1. CASE i \in 1 .. L /\ j \in 1 .. L
      BY <1>1, <2>2, <3>1 DEF Unique
    <3>2. ASSUME i \in 1 .. L, NEW k \in 1 .. N, j = L + k PROVE FALSE
      BY <1>1, <2>1, <2>2, <3>2
    <3>3. ASSUME j \in 1 .. L, NEW k \in 1 .. N, i = L + k PROVE FALSE
      BY <1>1, <2>1, <2>2, <3>3
    <3>4. ASSUME NEW k \in 1 .. N, NEW l \in 1 .. N, i = L + k, j = L + l PROVE i = j
      <4>1. all'[i] = new[k] /\ all'[j] = new[l]
        BY <1>1, <3>4
      <4>2. k = l
        BY <2>2, <4>1
      <4> QED
        BY <3>4, <4>2
    <3> QED
      BY <1>2, <3>1, <3>2, <3>3, <3>4
  <2> QED
    BY <2>2 DEF Unique
<1> QED
  BY <1>1, <1>3, <1>4, <1>5, <1>6

(***************************************************************************)
(* The steps of run_detections.                                            *)
(***************************************************************************)
LEMMA PhaseIs ==
  /\ DOMAIN Phase = {"ingest", "auth", "http", "scan", "spike", "rare", "order", "done"}
  /\ Phase["ingest"] = 0 /\ Phase["auth"] = 1 /\ Phase["http"] = 2 /\ Phase["scan"] = 3
  /\ Phase["spike"] = 4 /\ Phase["rare"] = 5 /\ Phase["order"] = 6 /\ Phase["done"] = 7
BY DEF Phase

(* Every group that answers has an actor the detector visits.              *)
LEMMA NoGroup ==
  InOrder({}) = <<>>
<1>1. Cardinality({}) = 0
  BY FS_EmptySet
<1> QED
  BY <1>1 DEF InOrder, StableOrder

LEMMA CompleteKeeps ==
  ASSUME Complete, events' = events, Listed \subseteq Listed',
         \A a \in Keys : Served(1, a)' /\ BruteAnswer(a) # <<>>
           => Served(1, a) \/ Brute(a) \in Listed',
         \A a \in Keys : Served(2, a)' /\ HttpAnswer(a) # <<>>
           => Served(2, a) \/ HttpBurst(a) \in Listed',
         \A a \in Keys : Served(3, a)' /\ ScanAnswerOf(a) # <<>>
           => Served(3, a) \/ Scan(a) \in Listed',
         (Phase[pc] > 4)' /\ SpikeAnswer # <<>> => Phase[pc] > 4 \/ Spike \in Listed',
         (Phase[pc] > 5)' =>
           Phase[pc] > 5 \/ \A s \in Signatures : IsRare(s) => RareFinding(s) \in Listed'
  PROVE  Complete'
<1>1. /\ \A a : /\ (BruteAnswer(a) = BruteAnswer(a)') /\ (Brute(a) = Brute(a)')
                /\ (HttpAnswer(a) = HttpAnswer(a)') /\ (HttpBurst(a) = HttpBurst(a)')
                /\ (ScanAnswerOf(a) = ScanAnswerOf(a)') /\ (Scan(a) = Scan(a)')
      /\ SpikeAnswer = SpikeAnswer' /\ Spike = Spike' /\ Signatures = Signatures'
      /\ \A s : (IsRare(s) <=> IsRare(s)') /\ (RareFinding(s) = RareFinding(s)')
  BY StreamKept
<1>2. ASSUME NEW a \in Keys, Served(1, a)', BruteAnswer(a)' # <<>>
      PROVE  Brute(a)' \in Listed'
  BY <1>1, <1>2 DEF Complete
<1>3. ASSUME NEW a \in Keys, Served(2, a)', HttpAnswer(a)' # <<>>
      PROVE  HttpBurst(a)' \in Listed'
  BY <1>1, <1>3 DEF Complete
<1>4. ASSUME NEW a \in Keys, Served(3, a)', ScanAnswerOf(a)' # <<>>
      PROVE  Scan(a)' \in Listed'
  BY <1>1, <1>4 DEF Complete
<1>5. ASSUME (Phase[pc] > 4)', SpikeAnswer' # <<>> PROVE Spike' \in Listed'
  BY <1>1, <1>5 DEF Complete
<1>6. ASSUME (Phase[pc] > 5)', NEW s \in Signatures', IsRare(s)'
      PROVE  RareFinding(s)' \in Listed'
  BY <1>1, <1>6 DEF Complete
<1> QED
  BY <1>2, <1>3, <1>4, <1>5, <1>6 DEF Complete

LEMMA Initially ==
  Init => FindInv
<1> SUFFICES ASSUME Init PROVE FindInv
  OBVIOUS
<1> USE DEF Init, InitStream
<1>1. TypeInv
  BY PhaseIs DEF TypeInv
<1>2. Listed = {}
  BY DEF Listed
<1>3. Sound /\ Unique
  BY <1>2 DEF Sound, Unique
<1>4. Phase[pc] = 0 /\ \A n \in 1 .. 5 : \A x : ~Served(n, x)
  BY PhaseIs DEF Served
<1>5. Complete
  <2> HIDE DEF Init
  <2> QED
    BY <1>4 DEF Complete
<1>6. Ordered
  BY DEF Ordered
<1> QED
  BY <1>1, <1>3, <1>5, <1>6 DEF FindInv

LEMMA NothingYet ==
  ASSUME FindInv, pc = "ingest"
  PROVE  all = <<>> /\ pending = {}
<1>1. \A n \in 1 .. 5 : \A x : ~Served(n, x)
  BY PhaseIs DEF Served
<1>2. Listed = {}
  BY <1>1, MadeIs DEF FindInv, Sound
<1>3. all \in Seq(Report) /\ pending = {}
  BY DEF FindInv, TypeInv
<1>4. DOMAIN all = {}
  BY <1>2 DEF Listed
<1> QED
  BY <1>3, <1>4

LEMMA IngestKeeps ==
  ASSUME FindInv, Ingest
  PROVE  FindInv'
<1> USE DEF Ingest
<1>1. all' = <<>> /\ pending' = {} /\ pc' = "ingest"
  BY NothingYet
<1>2. events' \in Seq(Events)
  BY DEF FindInv, TypeInv, Add
<1>3. TypeInv'
  BY <1>1, <1>2, PhaseIs DEF TypeInv
<1>4. Listed' = {}
  BY <1>1 DEF Listed
<1>5. Sound' /\ Unique'
  BY <1>1, <1>4 DEF Sound, Unique
<1>6. (Phase[pc])' = 0 /\ \A n \in 1 .. 5 : \A x : ~Served(n, x)'
  BY <1>1, PhaseIs DEF Served
<1>7. Complete'
  BY <1>6 DEF Complete
<1>8. Ordered'
  BY <1>1 DEF Ordered
<1> QED
  BY <1>3, <1>5, <1>7, <1>8 DEF FindInv

LEMMA StartKeeps ==
  ASSUME FindInv, Start
  PROVE  FindInv'
<1>1. /\ all' = <<>> /\ pc' = "auth"
      /\ pending' = {ActorKey(events[k]) :
                       k \in {j \in DOMAIN events : Failure(events[j]) \/ Success(events[j])}}'
  BY NothingYet DEF Start, Actors
<1>2. events' \in Seq(Events) /\ InTimeOrder(events')
  BY SortSorts DEF FindInv, TypeInv, Start
<1>3. pending' \in SUBSET Keys
  <2>1. \A k \in DOMAIN events' : events'[k] \in Events
    BY <1>2
  <2>2. \A e : Failure(e) \/ Success(e) => ActorKey(e) # ""
    BY DEF Failure, Success
  <2> QED
    BY <1>1, <2>1, <2>2 DEF Keys
<1>4. TypeInv'
  BY <1>1, <1>2, <1>3, PhaseIs DEF TypeInv
<1>5. Listed' = {}
  BY <1>1 DEF Listed
<1>6. Sound' /\ Unique'
  BY <1>1, <1>5 DEF Sound, Unique
<1>7. ASSUME NEW a, BruteAnswer(a)' # <<>> PROVE a \in pending'
  <2>1. Fails(a)' # {}
    <3> SUFFICES ASSUME Fails(a)' = {} PROVE FALSE
      OBVIOUS
    <3>1. Group(Fails(a))' = <<>>
      BY NoGroup DEF Group, ObsAt
    <3> QED
      BY <1>7, <3>1 DEF BruteAnswer, BurstAnswer
  <2> QED
    BY <1>1, <2>1 DEF Fails
<1>8. /\ (Phase[pc])' = 1 /\ \A n \in 2 .. 5 : \A x : ~Served(n, x)'
      /\ \A x : Served(1, x)' => x \notin pending'
  BY <1>1, PhaseIs DEF Served
<1>9. Complete'
  BY <1>7, <1>8 DEF Complete
<1>10. Ordered'
  BY <1>1, <1>2 DEF Ordered
<1> QED
  BY <1>4, <1>6, <1>9, <1>10 DEF FindInv

(* A detector visits an actor.                                             *)
LEMMA VisitServes ==
  ASSUME TypeInv, pc \in {"auth", "http", "scan"}, NEW actor \in pending,
         pending' = pending \ {actor}, pc' = pc
  PROVE  /\ Phase[pc] \in 1 .. 3 /\ ~Served(Phase[pc], actor)
         /\ \A n, x : Served(n, x)' <=> Served(n, x) \/ (n = Phase[pc] /\ x = actor)
<1>1. Phase[pc] \in 1 .. 3 /\ (Phase[pc])' = Phase[pc]
  BY PhaseIs
<1>2. ~Served(Phase[pc], actor)
  BY <1>1 DEF Served
<1>3. ASSUME NEW n, NEW x
      PROVE  Served(n, x)' <=> Served(n, x) \/ (n = Phase[pc] /\ x = actor)
  <2>1. Served(n, x)' <=> n < Phase[pc] \/ (n = Phase[pc] /\ n <= 3 /\ x \notin pending')
    BY <1>1 DEF Served
  <2>2. Served(n, x) <=> n < Phase[pc] \/ (n = Phase[pc] /\ n <= 3 /\ x \notin pending)
    BY DEF Served
  <2> QED
    BY <1>1, <2>1, <2>2
<1> QED
  BY <1>1, <1>2, <1>3

LEMMA VisitKeeps ==
  ASSUME FindInv, pc \in {"auth", "http", "scan"}, NEW actor \in pending,
         pending' = pending \ {actor}, pc' = pc, events' = events,
         NEW new \in Seq(Report), all' = all \o new,
         \A n \in 1 .. Len(new) : /\ IsAnswer(new[n]) /\ MadeIn(new[n].kind) = Phase[pc]
                                  /\ new[n].entity = actor,
         \A m, n \in 1 .. Len(new) : new[m].kind = new[n].kind => m = n,
         pc = "auth" /\ BruteAnswer(actor) # <<>> => \E n \in 1 .. Len(new) : new[n] = Brute(actor),
         pc = "http" /\ HttpAnswer(actor) # <<>> => \E n \in 1 .. Len(new) : new[n] = HttpBurst(actor),
         pc = "scan" /\ ScanAnswerOf(actor) # <<>> => \E n \in 1 .. Len(new) : new[n] = Scan(actor)
  PROVE  FindInv'
<1>1. TypeInv /\ Sound /\ Unique /\ Complete /\ InTimeOrder(events)
  BY DEF FindInv, Ordered
<1>2. /\ Phase[pc] \in 1 .. 3 /\ ~Served(Phase[pc], actor)
      /\ \A n, x : Served(n, x)' <=> Served(n, x) \/ (n = Phase[pc] /\ x = actor)
  BY <1>1, VisitServes
<1>3. Len(new) \in Nat /\ \A n \in 1 .. Len(new) : Adds(new[n])
  <2>1. Len(new) \in Nat
    OBVIOUS
  <2>2. \A n \in 1 .. Len(new) : Adds(new[n])
    BY <1>2 DEF Adds
  <2> QED
    BY <2>1, <2>2
<1>4. /\ all' \in Seq(Report) /\ Sound' /\ Unique' /\ Listed \subseteq Listed'
      /\ \A n \in 1 .. Len(new) : new[n] \in Listed'
  BY <1>1, <1>2, <1>3, AppendKeeps
<1>5. Complete'
  <2>1. /\ Phase[pc] = 1 <=> pc = "auth"
        /\ Phase[pc] = 2 <=> pc = "http"
        /\ Phase[pc] = 3 <=> pc = "scan"
        /\ (Phase[pc])' <= 3
    BY PhaseIs, SMTT(30)
  <2>2. \A a : Served(1, a)' /\ BruteAnswer(a) # <<>> => Served(1, a) \/ Brute(a) \in Listed'
    BY <1>2, <1>4, <2>1
  <2>3. \A a : Served(2, a)' /\ HttpAnswer(a) # <<>> => Served(2, a) \/ HttpBurst(a) \in Listed'
    BY <1>2, <1>4, <2>1
  <2>4. \A a : Served(3, a)' /\ ScanAnswerOf(a) # <<>> => Served(3, a) \/ Scan(a) \in Listed'
    BY <1>2, <1>4, <2>1
  <2>5. ~(Phase[pc] > 4)' /\ ~(Phase[pc] > 5)'
    BY <2>1, <1>2
  <2> QED
    BY <1>1, <1>4, <2>2, <2>3, <2>4, <2>5, CompleteKeeps
<1>6. TypeInv'
  BY <1>1, <1>4 DEF TypeInv
<1>7. Ordered'
  BY <1>1 DEF Ordered
<1> QED
  BY <1>4, <1>5, <1>6, <1>7 DEF FindInv

LEMMA AuthKeeps ==
  ASSUME FindInv, NEW actor \in pending, AuthActor(actor)
  PROVE  FindInv'
<1>1. /\ pc = "auth" /\ pc' = pc /\ pending' = pending \ {actor} /\ events' = events
  BY DEF AuthActor, streamVars
<1>2. events \in Seq(Events) /\ InTimeOrder(events) /\ all \in Seq(Report) /\ actor \in Keys
  BY <1>1 DEF FindInv, TypeInv, Ordered
<1>3. \/ BruteAnswer(actor) = <<>> /\ all' = all
      \/ /\ BruteAnswer(actor) # <<>>
         /\ \E spray \in Sprays(actor) :
              all' = all \o Named("auth-brute-force", actor, BruteAnswer(actor)) \o spray
  BY <1>2, Grouped DEF AuthActor, BruteAnswer, Sprays
<1>4. Phase[pc] = 1
  BY <1>1, PhaseIs
<1>5. CASE BruteAnswer(actor) = <<>>
  <2> DEFINE new == <<>>
  <2>1. new \in Seq(Report) /\ Len(new) = 0 /\ all' = all \o new
    BY <1>2, <1>3, <1>5
  <2> HIDE DEF new
  <2> QED
    <3>1. \A n \in 1 .. Len(new) : FALSE
      BY <2>1
    <3> QED
      BY <1>1, <1>5, <2>1, <3>1, VisitKeeps
<1>6. CASE BruteAnswer(actor) # <<>>
  <2> DEFINE b == Brute(actor)
  <2>1. PICK spray \in Sprays(actor) : all' = all \o <<b>> \o spray
    BY <1>2, <1>3, <1>6, BruteIs
  <2>2. IsAnswer(b) /\ b.kind = "auth-brute-force" /\ b.entity = actor
    BY <1>2, <1>6, BruteIs DEF IsAnswer
  <2>3. b \in Report
    BY <1>2, <2>2, AnswerIs
  <2>4. spray = <<>> \/ (spray = <<spray[1]>> /\ SprayOf(spray[1], actor))
    BY <1>2, <1>6, SprayIs
  <2> HIDE DEF b
  <2>5. CASE spray = <<>>
    <3> DEFINE new == <<b>>
    <3>1. new \in Seq(Report) /\ Len(new) = 1 /\ all' = all \o new /\ new[1] = b
      BY <1>2, <2>1, <2>3, <2>5
    <3> HIDE DEF new
    <3>2. \A n \in 1 .. Len(new) : /\ IsAnswer(new[n]) /\ MadeIn(new[n].kind) = Phase[pc]
                                   /\ new[n].entity = actor
      BY <1>4, <2>2, <3>1, MadeIs
    <3>3. \E n \in 1 .. Len(new) : new[n] = Brute(actor)
      BY <3>1 DEF b
    <3>4. \A m, n \in 1 .. Len(new) : m = n
      BY <3>1
    <3> QED
      BY <1>1, <3>1, <3>2, <3>3, <3>4, VisitKeeps
  <2>6. CASE spray # <<>>
    <3> DEFINE f == spray[1]
               new == <<b>> \o <<f>>
    <3>1. spray = <<f>> /\ SprayOf(f, actor)
      BY <2>4, <2>6
    <3>2. IsAnswer(f)
      BY <1>2, <1>6, <3>1 DEF IsAnswer
    <3>3. f.kind = "auth-spray-then-hit" /\ f.entity = actor
      BY <3>1 DEF SprayOf
    <3>4. f \in Report
      BY <1>2, <3>2, AnswerIs
    <3> HIDE DEF f
    <3>5. new \in Seq(Report) /\ Len(new) = 2 /\ new[1] = b /\ new[2] = f
      <4>1. /\ <<b>> \in Seq(Report) /\ Len(<<b>>) = 1 /\ <<b>>[1] = b
            /\ <<f>> \in Seq(Report) /\ Len(<<f>>) = 1 /\ <<f>>[1] = f
        BY <2>3, <3>4
      <4> QED
        BY <4>1, ConcatProperties
    <3>6. all' = all \o new
      <4>1. <<b>> \in Seq(Report) /\ <<f>> \in Seq(Report)
        BY <2>3, <3>4
      <4>2. all' = all \o (<<b>> \o <<f>>)
        BY <1>2, <2>1, <3>1, <4>1, ConcatAssociative
      <4> QED
        BY <4>2
    <3> HIDE DEF new
    <3>7. \A n \in 1 .. 2 : n = 1 \/ n = 2
      OBVIOUS
    <3>8. \A n \in 1 .. Len(new) : /\ IsAnswer(new[n]) /\ MadeIn(new[n].kind) = Phase[pc]
                                   /\ new[n].entity = actor
      BY <1>4, <2>2, <3>2, <3>3, <3>5, <3>7, MadeIs
    <3>9. \A m, n \in 1 .. Len(new) : new[m].kind = new[n].kind => m = n
      BY <2>2, <3>3, <3>5, <3>7
    <3>10. \E n \in 1 .. Len(new) : new[n] = Brute(actor)
      BY <3>5 DEF b
    <3> QED
      BY <1>1, <3>5, <3>6, <3>8, <3>9, <3>10, VisitKeeps
  <2> QED
    BY <2>5, <2>6
<1> QED
  BY <1>5, <1>6

LEMMA HttpKeeps ==
  ASSUME FindInv, NEW actor \in pending, HttpActor(actor)
  PROVE  FindInv'
<1>1. /\ pc = "http" /\ pc' = pc /\ pending' = pending \ {actor} /\ events' = events
  BY DEF HttpActor, streamVars
<1>2. events \in Seq(Events) /\ InTimeOrder(events) /\ all \in Seq(Report) /\ actor \in Keys
  BY <1>1 DEF FindInv, TypeInv, Ordered
<1>3. all' = all \o Named("http-error-burst", actor, HttpAnswer(actor))
  BY <1>2, Grouped DEF HttpActor, HttpAnswer
<1>4. Phase[pc] = 2
  BY <1>1, PhaseIs
<1>5. CASE HttpAnswer(actor) = <<>>
  <2> DEFINE new == <<>>
  <2>1. new \in Seq(Report) /\ Len(new) = 0 /\ all' = all \o new
    BY <1>2, <1>3, <1>5, HttpIs
  <2> HIDE DEF new
  <2> QED
    <3>1. \A n \in 1 .. Len(new) : FALSE
      BY <2>1
    <3> QED
      BY <1>1, <1>5, <2>1, <3>1, VisitKeeps
<1>6. CASE HttpAnswer(actor) # <<>>
  <2> DEFINE b == HttpBurst(actor)
             new == <<b>>
  <2>1. IsAnswer(b) /\ b.kind = "http-error-burst" /\ b.entity = actor
    BY <1>2, <1>6, HttpIs DEF IsAnswer
  <2>2. b \in Report
    BY <1>2, <2>1, AnswerIs
  <2>3. all' = all \o new
    BY <1>2, <1>3, <1>6, HttpIs
  <2> HIDE DEF b
  <2>4. new \in Seq(Report) /\ Len(new) = 1 /\ new[1] = b
    BY <2>2
  <2> HIDE DEF new
  <2>5. \A n \in 1 .. Len(new) : /\ IsAnswer(new[n]) /\ MadeIn(new[n].kind) = Phase[pc]
                                 /\ new[n].entity = actor
    BY <1>4, <2>1, <2>4, MadeIs
  <2>6. \E n \in 1 .. Len(new) : new[n] = HttpBurst(actor)
    BY <2>4 DEF b
  <2>7. \A m, n \in 1 .. Len(new) : m = n
    BY <2>4
  <2> QED
    BY <1>1, <2>3, <2>4, <2>5, <2>6, <2>7, VisitKeeps
<1> QED
  BY <1>5, <1>6

LEMMA ScanKeeps ==
  ASSUME FindInv, NEW actor \in pending, ScanActor(actor)
  PROVE  FindInv'
<1>1. /\ pc = "scan" /\ pc' = pc /\ pending' = pending \ {actor} /\ events' = events
  BY DEF ScanActor, streamVars
<1>2. events \in Seq(Events) /\ InTimeOrder(events) /\ all \in Seq(Report) /\ actor \in Keys
  BY <1>1 DEF FindInv, TypeInv, Ordered
<1>3. all' = all \o Named("port-or-path-scan", actor, ScanAnswerOf(actor))
  BY <1>2, Grouped DEF ScanActor, ScanAnswerOf
<1>4. Phase[pc] = 3
  BY <1>1, PhaseIs
<1>5. CASE ScanAnswerOf(actor) = <<>>
  <2> DEFINE new == <<>>
  <2>1. new \in Seq(Report) /\ Len(new) = 0 /\ all' = all \o new
    BY <1>2, <1>3, <1>5, ScanIs
  <2> HIDE DEF new
  <2> QED
    <3>1. \A n \in 1 .. Len(new) : FALSE
      BY <2>1
    <3> QED
      BY <1>1, <1>5, <2>1, <3>1, VisitKeeps
<1>6. CASE ScanAnswerOf(actor) # <<>>
  <2> DEFINE b == Scan(actor)
             new == <<b>>
  <2>1. IsAnswer(b) /\ b.kind = "port-or-path-scan" /\ b.entity = actor
    BY <1>2, <1>6, ScanIs DEF IsAnswer
  <2>2. b \in Report
    BY <1>2, <2>1, AnswerIs
  <2>3. all' = all \o new
    BY <1>2, <1>3, <1>6, ScanIs
  <2> HIDE DEF b
  <2>4. new \in Seq(Report) /\ Len(new) = 1 /\ new[1] = b
    BY <2>2
  <2> HIDE DEF new
  <2>5. \A n \in 1 .. Len(new) : /\ IsAnswer(new[n]) /\ MadeIn(new[n].kind) = Phase[pc]
                                 /\ new[n].entity = actor
    BY <1>4, <2>1, <2>4, MadeIs
  <2>6. \E n \in 1 .. Len(new) : new[n] = Scan(actor)
    BY <2>4 DEF b
  <2>7. \A m, n \in 1 .. Len(new) : m = n
    BY <2>4
  <2> QED
    BY <1>1, <2>3, <2>4, <2>5, <2>6, <2>7, VisitKeeps
<1> QED
  BY <1>5, <1>6

(* A detector of the whole stream runs, or one that visits actors is done. *)
LEMMA StageKeeps ==
  ASSUME FindInv, events' = events, pending = {},
         \/ pc = "auth" /\ pc' = "http"
         \/ pc = "http" /\ pc' = "scan"
         \/ pc = "scan" /\ pc' = "spike"
         \/ pc = "spike" /\ pc' = "rare"
         \/ pc = "rare" /\ pc' = "order",
         pending' \in SUBSET Keys, pc' \notin {"http", "scan"} => pending' = {},
         NEW new \in Seq(Report), all' = all \o new,
         \A n \in 1 .. Len(new) : /\ IsAnswer(new[n])
                                  /\ \/ pc = "spike" /\ MadeIn(new[n].kind) = 4
                                     \/ pc = "rare" /\ MadeIn(new[n].kind) = 5,
         \A m, n \in 1 .. Len(new) :
           new[m].kind = new[n].kind /\ new[m].entity = new[n].entity => m = n,
         pc = "auth" => \A a : HttpAnswer(a) # <<>> => a \in pending',
         pc = "http" => \A a : ScanAnswerOf(a) # <<>> => a \in pending',
         pc = "spike" /\ SpikeAnswer # <<>> => \E n \in 1 .. Len(new) : new[n] = Spike,
         pc = "rare" => \A s \in Signatures : IsRare(s) =>
                          \E n \in 1 .. Len(new) : new[n] = RareFinding(s)
  PROVE  FindInv'
<1>1. /\ TypeInv /\ Sound /\ Unique /\ Complete /\ InTimeOrder(events) /\ Len(new) \in Nat
      /\ pc' \in DOMAIN Phase
  BY PhaseIs DEF FindInv, Ordered
<1> DEFINE p == Phase[pc]
<1>2. /\ p \in 1 .. 5 /\ (Phase[pc])' = p + 1
      /\ p = 1 <=> pc = "auth"
      /\ p = 2 <=> pc = "http"
      /\ p = 4 <=> pc = "spike"
      /\ p = 5 <=> pc = "rare"
  BY PhaseIs
<1>3. \A n, x : Served(n, x) <=> n < p \/ (n = p /\ n <= 3)
  BY DEF Served
<1>4. \A n, x : Served(n, x)' <=> n < p + 1 \/ (n = p + 1 /\ n <= 3 /\ x \notin pending')
  BY <1>2 DEF Served
<1> HIDE DEF p
<1>5. \A n \in 1 .. 5 : \A x : Served(n, x) => Served(n, x)'
  BY <1>2, <1>3, <1>4
<1>6. \A n \in 1 .. 5 : \A x : Served(n, x)' =>
           Served(n, x) \/ n = p \/ (n = p + 1 /\ x \notin pending' /\ n <= 3)
  BY <1>2, <1>3, <1>4
<1>7. /\ p = 4 => \A x : ~Served(4, x) /\ Served(4, x)'
      /\ p = 5 => \A x : ~Served(5, x) /\ Served(5, x)'
  BY <1>3, <1>4, SMTT(30)
<1>8. \A n \in 1 .. 3 : \A x : p = n => Served(n, x)
  BY <1>3
<1>9. \A n \in 1 .. Len(new) : Adds(new[n])
  <2> TAKE n \in 1 .. Len(new)
  <2>1. \/ p = 4 /\ MadeIn(new[n].kind) = 4
        \/ p = 5 /\ MadeIn(new[n].kind) = 5
    BY <1>2
  <2>2. ~Served(MadeIn(new[n].kind), new[n].entity)
    BY <1>7, <2>1
  <2>3. Served(MadeIn(new[n].kind), new[n].entity)'
    BY <1>7, <2>1
  <2> QED
    BY <2>2, <2>3 DEF Adds
<1>10. /\ all' \in Seq(Report) /\ Sound' /\ Unique' /\ Listed \subseteq Listed'
       /\ \A n \in 1 .. Len(new) : new[n] \in Listed'
  BY <1>1, <1>5, <1>9, AppendKeeps
<1>11. Complete'
  <2>1. \A a : Served(1, a)' => Served(1, a)
    BY <1>2, <1>6, <1>8
  <2>2. \A a : Served(2, a)' /\ HttpAnswer(a) # <<>> => Served(2, a)
    BY <1>2, <1>6, <1>8
  <2>3. \A a : Served(3, a)' /\ ScanAnswerOf(a) # <<>> => Served(3, a)
    BY <1>2, <1>6, <1>8
  <2>4. (Phase[pc] > 4)' /\ SpikeAnswer # <<>> => Phase[pc] > 4 \/ Spike \in Listed'
    BY <1>2, <1>10 DEF p
  <2>5. (Phase[pc] > 5)' =>
          Phase[pc] > 5 \/ \A s \in Signatures : IsRare(s) => RareFinding(s) \in Listed'
    <3>1. CASE pc = "rare"
      <4>1. \A s \in Signatures : IsRare(s) => \E n \in 1 .. Len(new) : new[n] = RareFinding(s)
        BY <3>1
      <4>2. \A s \in Signatures : IsRare(s) => RareFinding(s) \in Listed'
        BY <1>10, <4>1
      <4> QED
        BY <4>2
    <3>2. CASE pc # "rare"
      BY <1>2, <3>2
    <3> QED
      BY <3>1, <3>2
  <2> QED
    BY <1>1, <1>10, <2>1, <2>2, <2>3, <2>4, <2>5, CompleteKeeps
<1>12. TypeInv'
  BY <1>1, <1>10 DEF TypeInv
<1>13. Ordered'
  BY <1>1 DEF Ordered
<1> QED
  BY <1>10, <1>11, <1>12, <1>13 DEF FindInv

LEMMA NextDetectorKeeps ==
  ASSUME FindInv, NextDetector
  PROVE  FindInv'
<1>1. /\ pending = {} /\ events' = events /\ all' = all
      /\ events \in Seq(Events) /\ all \in Seq(Report) /\ InTimeOrder(events)
  BY DEF NextDetector, streamVars, FindInv, TypeInv, Ordered
<1> DEFINE new == <<>>
<1>2. /\ new \in Seq(Report) /\ all' = all \o new /\ Len(new) = 0
  BY <1>1
<1>3. \A k \in DOMAIN events : events[k] \in Events
  BY <1>1
<1> HIDE DEF new
<1>4. \A n \in 1 .. Len(new) : FALSE
  BY <1>2
<1>5. CASE pc = "auth" /\ pc' = "http" /\ pending' = Actors(HttpError)
  <2>1. pending' = {ActorKey(events[k]) : k \in {j \in DOMAIN events : HttpError(events[j])}}
    BY <1>5 DEF Actors
  <2>2. pending' \in SUBSET Keys
    <3>1. \A e : HttpError(e) => ActorKey(e) # ""
      BY DEF HttpError
    <3> QED
      BY <1>3, <2>1, <3>1 DEF Keys
  <2>3. ASSUME NEW a, HttpAnswer(a) # <<>> PROVE a \in pending'
    <3>1. Errors(a) # {}
      BY <1>1, <2>3, HttpIs
    <3> QED
      BY <2>1, <3>1 DEF Errors
  <2> QED
    BY <1>1, <1>2, <1>4, <1>5, <2>2, <2>3, StageKeeps
<1>6. CASE pc = "http" /\ pc' = "scan" /\ pending' = Actors(Touches)
  <2>1. pending' = {ActorKey(events[k]) : k \in {j \in DOMAIN events : Touches(events[j])}}
    BY <1>6 DEF Actors
  <2>2. pending' \in SUBSET Keys
    <3>1. \A e : Touches(e) => ActorKey(e) # ""
      BY DEF Touches
    <3> QED
      BY <1>3, <2>1, <3>1 DEF Keys
  <2>3. ASSUME NEW a, ScanAnswerOf(a) # <<>> PROVE a \in pending'
    <3>1. Touching(a) # {}
      BY <1>1, <2>3, ScanIs
    <3> QED
      BY <2>1, <3>1 DEF Touching
  <2> QED
    BY <1>1, <1>2, <1>4, <1>6, <2>2, <2>3, StageKeeps
<1>7. CASE pc = "scan" /\ pc' = "spike" /\ pending' = {}
  BY <1>1, <1>2, <1>4, <1>7, StageKeeps
<1> QED
  BY <1>5, <1>6, <1>7 DEF NextDetector

LEMMA SpikesKeep ==
  ASSUME FindInv, SeveritySpikes
  PROVE  FindInv'
<1>1. /\ pc = "spike" /\ pc' = "rare" /\ pending' = pending /\ events' = events
  BY DEF SeveritySpikes, streamVars
<1>2. /\ events \in Seq(Events) /\ InTimeOrder(events) /\ all \in Seq(Report)
      /\ pending = {}
  BY <1>1 DEF FindInv, TypeInv, Ordered
<1>3. all' = all \o Named("severity-spike", "(global)", SpikeAnswer)
  BY <1>2, Grouped DEF SeveritySpikes, SpikeAnswer
<1>4. CASE SpikeAnswer = <<>>
  <2> DEFINE new == <<>>
  <2>1. new \in Seq(Report) /\ Len(new) = 0 /\ all' = all \o new
    BY <1>2, <1>3, <1>4, SpikeIs
  <2> HIDE DEF new
  <2>2. \A n \in 1 .. Len(new) : FALSE
    BY <2>1
  <2> QED
    BY <1>1, <1>2, <1>4, <2>1, <2>2, StageKeeps
<1>5. CASE SpikeAnswer # <<>>
  <2> DEFINE b == Spike
             new == <<b>>
  <2>1. IsAnswer(b) /\ b.kind = "severity-spike"
    BY <1>2, <1>5, SpikeIs DEF IsAnswer
  <2>2. b \in Report
    BY <1>2, <2>1, AnswerIs
  <2>3. all' = all \o new
    BY <1>2, <1>3, <1>5, SpikeIs
  <2> HIDE DEF b
  <2>4. new \in Seq(Report) /\ Len(new) = 1 /\ new[1] = b
    BY <2>2
  <2> HIDE DEF new
  <2>5. \A n \in 1 .. Len(new) : /\ IsAnswer(new[n]) /\ MadeIn(new[n].kind) = 4
    BY <2>1, <2>4, MadeIs
  <2>6. \E n \in 1 .. Len(new) : new[n] = Spike
    BY <2>4 DEF b
  <2>7. \A m, n \in 1 .. Len(new) : m = n
    BY <2>4
  <2> QED
    BY <1>1, <1>2, <2>3, <2>4, <2>5, <2>6, <2>7, StageKeeps
<1> QED
  BY <1>4, <1>5

LEMMA RareKeep ==
  ASSUME FindInv, RareSignatures
  PROVE  FindInv'
<1>1. /\ pc = "rare" /\ pc' = "order" /\ pending' = pending /\ events' = events
  BY DEF RareSignatures, streamVars
<1>2. /\ events \in Seq(Events) /\ InTimeOrder(events) /\ all \in Seq(Report)
      /\ pending = {} /\ Len(events) \in Nat /\ DOMAIN events = 1 .. Len(events)
  BY <1>1 DEF FindInv, TypeInv, Ordered
<1> DEFINE New(k) == \A j \in 1 .. k - 1 : events[j].signature # events[k].signature
           S == {k \in DOMAIN events : New(k) /\ IsRare(events[k].signature)}
           o == InOrder(S)
           c == Cardinality(S)
           new == [k \in 1 .. c |-> RareFinding(events[o[k]].signature)]
<1>4. /\ c \in Nat /\ DOMAIN o = 1 .. c
      /\ \A k \in 1 .. c : o[k] \in S
      /\ \A i \in S : \E k \in 1 .. c : o[k] = i
      /\ \A k, l \in 1 .. c : o[k] = o[l] => k = l
  <2>1. S \in SUBSET (1 .. Len(events))
    BY <1>2
  <2> HIDE DEF S
  <2> QED
    BY <1>2, <2>1, InOrderIs
<1>5. all' = all \o new
  <2>1. all' = all \o [k \in DOMAIN o |-> RareFinding(events[o[k]].signature)]
    BY DEF RareSignatures
  <2> QED
    BY <1>4, <2>1
<1>6. \A k \in 1 .. c : LET s == events[o[k]].signature
                        IN  s \in Signatures /\ IsRare(s) /\ new[k] = RareFinding(s)
  BY <1>4 DEF Signatures
<1>7. \A k \in 1 .. c : IsAnswer(new[k])
  <2> HIDE DEF new, o, c
  <2> QED
    BY <1>6 DEF IsAnswer
<1>8. \A k \in 1 .. c : /\ new[k] \in Report /\ new[k].kind = "rare-signature"
                        /\ new[k].entity = events[o[k]].signature
  <2> HIDE DEF new, o, c
  <2> QED
    BY <1>2, <1>6, <1>7, AnswerIs, RareIs
<1>9. new \in Seq(Report) /\ Len(new) = c
  <2>1. \A k \in 1 .. c : RareFinding(events[o[k]].signature) \in Report
    BY <1>6, <1>8
  <2> HIDE DEF o, c
  <2> QED
    BY <1>4, <2>1
<1>10. \A m, n \in 1 .. c : new[m].entity = new[n].entity => m = n
  <2>1. \A i, j \in S : events[i].signature = events[j].signature => i = j
    <3> SUFFICES ASSUME NEW i \in S, NEW j \in S, i < j,
                        events[i].signature = events[j].signature
                 PROVE  FALSE
      BY <1>2
    <3>1. i \in 1 .. j - 1 /\ New(j)
      BY <1>2
    <3> QED
      BY <3>1
  <2> HIDE DEF new, S, o, c
  <2> SUFFICES ASSUME NEW m \in 1 .. c, NEW n \in 1 .. c, new[m].entity = new[n].entity
               PROVE  m = n
    OBVIOUS
  <2>2. o[m] \in S /\ o[n] \in S /\ events[o[m]].signature = events[o[n]].signature
    BY <1>4, <1>8
  <2>3. o[m] = o[n]
    BY <2>1, <2>2
  <2> QED
    BY <1>4, <2>3
<1>11. \A s \in Signatures : IsRare(s) => \E n \in 1 .. c : new[n] = RareFinding(s)
  <2> SUFFICES ASSUME NEW s \in Signatures, IsRare(s)
               PROVE  \E n \in 1 .. c : new[n] = RareFinding(s)
    OBVIOUS
  <2>1. Same(s) # {} /\ Same(s) \in SUBSET Nat
    BY <1>2 DEF Signatures, Same
  <2>2. PICK i \in Same(s) : \A j \in Same(s) : i <= j
    BY <2>1, SmallestExists
  <2>3. i \in S /\ events[i].signature = s
    <3>1. i \in DOMAIN events /\ events[i].signature = s /\ i \in Nat
      BY <1>2 DEF Same
    <3>2. New(i)
      <4> SUFFICES ASSUME NEW j \in 1 .. i - 1, events[j].signature = events[i].signature
                   PROVE  FALSE
        OBVIOUS
      <4>1. j \in DOMAIN events /\ j < i
        BY <1>2, <3>1
      <4>2. j \in Same(s) /\ j \in Nat
        BY <3>1, <4>1 DEF Same
      <4> QED
        BY <2>2, <3>1, <4>1, <4>2
    <3> QED
      BY <3>1, <3>2
  <2> HIDE DEF new, S, o, c
  <2> QED
    BY <1>4, <1>6, <2>3
<1>12. \A n \in 1 .. c : MadeIn(new[n].kind) = 5
  <2> HIDE DEF new, c
  <2> QED
    BY <1>8, MadeIs
<1> HIDE DEF new, c, S, o
<1> QED
  BY <1>1, <1>2, <1>5, <1>7, <1>9, <1>10, <1>11, <1>12, StageKeeps

(* std::stable_sort orders the findings and keeps every one.               *)
LEMMA OrderSorts ==
  ASSUME all \in Seq(Report), OrderFindings,
         NEW L, L = {p \in (1 .. Len(all)) \X (1 .. Len(all)) :
                       ListedBefore(all[p[1]], all[p[2]])}
  PROVE  /\ Rearranged(all', all, Len(all), L)
         /\ all' = [k \in 1 .. Len(all) |-> all'[k]]
<1> DEFINE n == Len(all)
           P == 1 .. n
           o == StableOrder(DOMAIN all, LAMBDA i, j : ListedBefore(all[i], all[j]))
           R == Steady(P, L)
<1>1. n \in Nat /\ DOMAIN all = P /\ \A k \in P : all[k] \in Report
  OBVIOUS
<1>2. \A i, j \in P : <<i, j>> \in L <=> ListedBefore(all[i], all[j])
  OBVIOUS
<1>3. WeakOrder(P, L)
  <2> HIDE DEF P
  <2> QED
    BY <1>1, <1>2, ListedOrders DEF WeakOrder
<1>4. P \in SUBSET Nat /\ IsFiniteSet(P) /\ Cardinality(P) = n
  <2>1. IsFiniteSet(1 .. n) /\ Cardinality(1 .. n) = IF 1 > n THEN 0 ELSE n - 1 + 1
    BY <1>1, FS_Interval, SMTT(30)
  <2> QED
    BY <1>1, <2>1
<1>5. \A i \in P : Ahead(P, R, i) =
        {j \in P : ListedBefore(all[j], all[i]) \/ (j < i /\ ~ListedBefore(all[i], all[j]))}
  <2>1. \A i, j \in P : <<j, i>> \in R <=>
          <<j, i>> \in L \/ (j < i /\ <<i, j>> \notin L)
    BY DEF Steady
  <2> HIDE DEF R, P
  <2> QED
    BY <1>2, <2>1 DEF Ahead
<1>6. o = [k \in 1 .. Cardinality(P) |->
             CHOOSE i \in P : Cardinality(
               {j \in P : \/ ListedBefore(all[j], all[i])
                          \/ (j < i /\ ~ListedBefore(all[i], all[j]))}) = k - 1]
  BY <1>1 DEF StableOrder
<1>7. Sorts(o, P, R)
  <2> SUFFICES ASSUME NEW k \in 1 .. Cardinality(P)
               PROVE  o[k] \in P /\ Cardinality(Ahead(P, R, o[k])) = k - 1
    BY DEF Sorts
  <2>1. StrictOrder(P, R)
    BY <1>3, <1>4, SteadyIsStrict
  <2> HIDE DEF R, o, P
  <2>2. \E i \in P : Cardinality(Ahead(P, R, i)) = k - 1
    BY <1>4, <2>1, RankTaken
  <2>3. \E i \in P : Cardinality(
               {j \in P : \/ ListedBefore(all[j], all[i])
                          \/ (j < i /\ ~ListedBefore(all[i], all[j]))}) = k - 1
    BY <1>5, <2>2
  <2>4. /\ o[k] \in P
        /\ Cardinality(
               {j \in P : \/ ListedBefore(all[j], all[o[k]])
                          \/ (j < o[k] /\ ~ListedBefore(all[o[k]], all[j]))}) = k - 1
    BY <1>6, <2>3
  <2> QED
    BY <1>5, <2>4
<1>8. all' = [k \in P |-> all[o[k]]]
  BY <1>1 DEF OrderFindings, StableSort
<1>9. Rearranged([k \in 1 .. n |-> all[o[k]]], all, n, L)
  <2>1. Sorts(o, 1 .. n, Steady(1 .. n, L)) /\ WeakOrder(1 .. n, L)
    BY <1>3, <1>7
  <2> HIDE DEF o, n
  <2> QED
    BY <1>1, <2>1, StableIs
<1>10. all' = [k \in P |-> all'[k]]
  BY <1>8
<1> QED
  BY <1>8, <1>9, <1>10

LEMMA OrderKeeps ==
  ASSUME FindInv, OrderFindings
  PROVE  FindInv'
<1> DEFINE n == Len(all)
           P == 1 .. n
           L == {p \in P \X P : ListedBefore(all[p[1]], all[p[2]])}
<1>1. /\ pc = "order" /\ pc' = "done" /\ pending' = pending /\ events' = events
  BY DEF OrderFindings, streamVars
<1>2. /\ TypeInv /\ Sound /\ Unique /\ Complete /\ InTimeOrder(events)
      /\ pending = {} /\ all \in Seq(Report) /\ n \in Nat /\ DOMAIN all = P
      /\ \A k \in P : all[k] \in Report
  BY <1>1 DEF FindInv, TypeInv, Ordered
<1>3. Rearranged(all', all, n, L) /\ all' = [k \in P |-> all'[k]]
  BY <1>2, OrderSorts
<1>4. \A i, j \in P : <<i, j>> \in L <=> ListedBefore(all[i], all[j])
  OBVIOUS
<1> HIDE DEF P, n, L
<1>5. /\ DOMAIN all' = P
      /\ \A k \in P : \E i \in P : all'[k] = all[i]
      /\ \A i \in P : \E k \in P : all'[k] = all[i]
  BY <1>3, ZenonT(30) DEF Rearranged, P
<1>6. \A k, l \in P : k # l => \E i, j \in P : Carried(all', all, L, k, l, i, j)
  BY <1>3 DEF Rearranged, P
<1>7. Listed' = Listed
  <2>1. Listed = {all[i] : i \in P} /\ Listed' = {all'[k] : k \in P}
    BY <1>2, <1>5 DEF Listed
  <2> QED
    BY <1>5, <2>1
<1>8. all' \in Seq(Report)
  <2>1. \A k \in P : all'[k] \in Report
    BY <1>2, <1>5
  <2> QED
    BY <1>2, <1>3, <2>1 DEF P
<1>9. Unique'
  <2> SUFFICES ASSUME NEW k \in P, NEW l \in P, k # l,
                      all'[k].kind = all'[l].kind, all'[k].entity = all'[l].entity
               PROVE  FALSE
    BY <1>5 DEF Unique
  <2>1. PICK i \in P, j \in P : Carried(all', all, L, k, l, i, j)
    BY <1>6
  <2>2. i # j /\ all'[k] = all[i] /\ all'[l] = all[j]
    BY <2>1 DEF Carried
  <2> QED
    BY <1>2, <2>2 DEF Unique
<1>10. Phase[pc] = 6 /\ (Phase[pc])' = 7 /\ pc' \in DOMAIN Phase
  BY <1>1, PhaseIs
<1>11. \A m \in 1 .. 5 : \A x : Served(m, x) /\ Served(m, x)'
  BY <1>10 DEF Served
<1>12. Sound'
  <2> SUFFICES ASSUME NEW f \in Listed
               PROVE  IsAnswer(f)' /\ Served(MadeIn(f.kind), f.entity)'
    BY <1>7 DEF Sound
  <2>1. IsAnswer(f)
    BY <1>2 DEF Sound
  <2>2. IsAnswer(f)'
    BY <1>1, <2>1, StreamKept
  <2> QED
    BY <1>11, <2>2, MadeIs
<1>13. Complete'
  <2>1. \A m \in {1, 2, 3} : \A x : Served(m, x)
    BY <1>11
  <2>2. Phase[pc] > 4 /\ Phase[pc] > 5
    BY <1>10
  <2> QED
    BY <1>1, <1>2, <1>7, <2>1, <2>2, CompleteKeeps
<1>14. TypeInv'
  BY <1>1, <1>2, <1>8, <1>10 DEF TypeInv
<1>15. Ordered'
  <2>1. ASSUME NEW k \in P, NEW l \in P, k < l
        PROVE  ~ListedBefore(all'[l], all'[k])
    <3>1. k # l
      BY <1>2, <2>1 DEF P
    <3>2. PICK i \in P, j \in P : Carried(all', all, L, k, l, i, j)
      BY <1>6, <3>1
    <3>3. all'[k] = all[i] /\ all'[l] = all[j] /\ <<j, i>> \notin L
      BY <2>1, <3>2 DEF Carried
    <3> QED
      BY <1>4, <3>3
  <2>2. InTimeOrder(events)'
    BY <1>1, <1>2
  <2> QED
    BY <1>5, <2>1, <2>2 DEF Ordered
<1> QED
  BY <1>9, <1>12, <1>13, <1>14, <1>15 DEF FindInv

LEMMA StutterKeeps ==
  ASSUME FindInv, UNCHANGED vars
  PROVE  FindInv'
<1>1. /\ events' = events /\ all' = all /\ pending' = pending /\ pc' = pc
  BY DEF vars, streamVars
<1>2. /\ TypeInv /\ Sound /\ Unique /\ Complete /\ Ordered
  BY DEF FindInv
<1>3. Listed' = Listed /\ \A n, x : Served(n, x) <=> Served(n, x)'
  BY <1>1 DEF Listed, Served
<1>4. TypeInv' /\ Unique' /\ Ordered'
  BY <1>1, <1>2 DEF TypeInv, Unique, Ordered
<1>5. Sound'
  <2> SUFFICES ASSUME NEW f \in Listed
               PROVE  IsAnswer(f)' /\ Served(MadeIn(f.kind), f.entity)'
    BY <1>3 DEF Sound
  <2>1. IsAnswer(f) /\ Served(MadeIn(f.kind), f.entity)
    BY <1>2 DEF Sound
  <2> QED
    BY <1>1, <1>3, <2>1, StreamKept
<1>6. Complete'
  <2>1. (Phase[pc])' = Phase[pc]
    BY <1>1
  <2> QED
    BY <1>1, <1>2, <1>3, <2>1, CompleteKeeps
<1> QED
  BY <1>4, <1>5, <1>6 DEF FindInv

(* Whatever the stream and the order of the visits, the invariant holds.   *)
THEOREM FindingsInv == Spec => []FindInv
<1>1. Init => FindInv
  BY Initially
<1>2. FindInv /\ [Next]_vars => FindInv'
  <2> SUFFICES ASSUME FindInv, [Next]_vars PROVE FindInv'
    OBVIOUS
  <2>1. CASE Ingest
    BY <2>1, IngestKeeps
  <2>2. CASE Start
    BY <2>2, StartKeeps
  <2>3. ASSUME NEW actor \in pending, AuthActor(actor) PROVE FindInv'
    BY <2>3, AuthKeeps
  <2>4. ASSUME NEW actor \in pending, HttpActor(actor) PROVE FindInv'
    BY <2>4, HttpKeeps
  <2>5. ASSUME NEW actor \in pending, ScanActor(actor) PROVE FindInv'
    BY <2>5, ScanKeeps
  <2>6. CASE NextDetector
    BY <2>6, NextDetectorKeeps
  <2>7. CASE SeveritySpikes
    BY <2>7, SpikesKeep
  <2>8. CASE RareSignatures
    BY <2>8, RareKeep
  <2>9. CASE OrderFindings
    BY <2>9, OrderKeeps
  <2>10. CASE UNCHANGED vars
    BY <2>10, StutterKeeps
  <2> QED
    BY <2>1, <2>2, <2>3, <2>4, <2>5, <2>6, <2>7, <2>8, <2>9, <2>10 DEF Next
<1> QED
  BY <1>1, <1>2, PTL DEF Spec

(***************************************************************************)
(* What the invariant says of the report.                                  *)
(***************************************************************************)
LEMMA InvIs ==
  ASSUME FindInv
  PROVE  /\ events \in Seq(Events) /\ all \in Seq(Report)
         /\ Len(events) \in Nat /\ DOMAIN events = 1 .. Len(events)
         /\ all # <<>> => InTimeOrder(events)
         /\ pc = "done" => InTimeOrder(events)
         /\ \A n \in DOMAIN all : /\ all[n] \in Report /\ all[n] \in Listed
                                  /\ IsAnswer(all[n])
                                  /\ Served(MadeIn(all[n].kind), all[n].entity)
         /\ pc = "done" =>
              /\ \A a \in Keys : BruteAnswer(a) # <<>> => Brute(a) \in Listed
              /\ \A a \in Keys : HttpAnswer(a) # <<>> => HttpBurst(a) \in Listed
              /\ \A a \in Keys : ScanAnswerOf(a) # <<>> => Scan(a) \in Listed
              /\ SpikeAnswer # <<>> => Spike \in Listed
              /\ \A s \in Signatures : IsRare(s) => RareFinding(s) \in Listed
<1>1. /\ events \in Seq(Events) /\ all \in Seq(Report)
      /\ pc = "done" => InTimeOrder(events)
  BY DEF FindInv, TypeInv, Ordered
<1>2. all # <<>> => InTimeOrder(events)
  BY NothingYet DEF FindInv, Ordered
<1>3. Len(events) \in Nat /\ DOMAIN events = 1 .. Len(events)
  BY <1>1, StreamType
<1>4. \A n \in DOMAIN all : all[n] \in Report /\ all[n] \in Listed
  BY <1>1 DEF Listed
<1>5. \A n \in DOMAIN all : IsAnswer(all[n]) /\ Served(MadeIn(all[n].kind), all[n].entity)
  BY <1>4 DEF FindInv, Sound
<1>6. ASSUME pc = "done"
      PROVE  /\ \A a \in Keys : BruteAnswer(a) # <<>> => Brute(a) \in Listed
             /\ \A a \in Keys : HttpAnswer(a) # <<>> => HttpBurst(a) \in Listed
             /\ \A a \in Keys : ScanAnswerOf(a) # <<>> => Scan(a) \in Listed
             /\ SpikeAnswer # <<>> => Spike \in Listed
             /\ \A s \in Signatures : IsRare(s) => RareFinding(s) \in Listed
  <2>1. Phase[pc] = 7
    BY <1>6, PhaseIs
  <2>2. \A n \in {1, 2, 3} : \A x : Served(n, x)
    BY <2>1 DEF Served
  <2>3. Phase[pc] > 4 /\ Phase[pc] > 5
    BY <2>1
  <2> QED
    BY <2>2, <2>3 DEF FindInv, Complete
<1> QED
  BY <1>1, <1>2, <1>3, <1>4, <1>5, <1>6

(* No two findings of the report tie.                                      *)
LEMMA NoTies ==
  ASSUME FindInv
  PROVE  ReportTotallyOrdered
<1> SUFFICES ASSUME pc = "done", NEW j \in DOMAIN all, NEW k \in DOMAIN all, j < k
             PROVE  ListedBefore(all[j], all[k]) /\ ~ListedBefore(all[k], all[j])
  BY DEF ReportTotallyOrdered
<1>1. ~ListedBefore(all[k], all[j])
  BY DEF FindInv, Ordered
<1>2. all[j] \in Report /\ all[k] \in Report /\ j # k
  <2>1. all[j] \in Report /\ all[k] \in Report /\ DOMAIN all \in SUBSET Int
    BY InvIs
  <2> QED
    BY <2>1
<1>3. ~(all[j].kind = all[k].kind /\ all[j].entity = all[k].entity)
  BY <1>2 DEF FindInv, Unique
<1> QED
  BY <1>1, <1>2, <1>3, ListedOrders

LEMMA KeyOf ==
  ASSUME events \in Seq(Events), NEW k \in DOMAIN events, ActorKey(events[k]) # ""
  PROVE  ActorKey(events[k]) \in Keys
BY StreamType DEF Keys

LEMMA BruteOwed ==
  ASSUME FindInv, pc = "done", NEW S \in SUBSET DOMAIN events, S # {}, NEW a,
         \A k \in S : Failure(events[k]) /\ ActorKey(events[k]) = a,
         Together(S, cfg.bruteforce_window_seconds), cfg.bruteforce_min_failures > 0,
         Cardinality(S) >= cfg.bruteforce_min_failures
  PROVE  Reported("auth-brute-force", a, Cardinality(S))
<1>1. events \in Seq(Events) /\ InTimeOrder(events)
  BY InvIs
<1>2. a \in Keys
  <2>1. PICK k \in S : TRUE
    OBVIOUS
  <2> QED
    BY <1>1, <2>1, KeyOf DEF Failure
<1>3. S \in SUBSET Fails(a) /\ Fails(a) \in SUBSET DOMAIN events
  BY DEF Fails
<1>4. BruteAnswer(a) # <<>> /\ BruteAnswer(a)[1].count >= Cardinality(S)
  BY <1>1, <1>3, Limits, GroupBurst DEF BruteAnswer
<1>5. /\ Brute(a) \in Listed /\ Brute(a).kind = "auth-brute-force"
      /\ Brute(a).entity = a /\ Brute(a).count >= Cardinality(S)
  <2>1. Brute(a) \in Listed
    BY <1>2, <1>4, InvIs
  <2> QED
    BY <1>1, <1>4, <2>1, BruteIs
<1> QED
  BY <1>5 DEF Reported, Listed

LEMMA HttpOwed ==
  ASSUME FindInv, pc = "done", NEW S \in SUBSET DOMAIN events, S # {}, NEW a,
         \A k \in S : HttpError(events[k]) /\ ActorKey(events[k]) = a,
         Together(S, cfg.http_error_window_seconds), cfg.http_error_min > 0,
         Cardinality(S) >= cfg.http_error_min
  PROVE  Reported("http-error-burst", a, Cardinality(S))
<1>1. events \in Seq(Events) /\ InTimeOrder(events)
  BY InvIs
<1>2. a \in Keys
  <2>1. PICK k \in S : TRUE
    OBVIOUS
  <2> QED
    BY <1>1, <2>1, KeyOf, ZenonT(30) DEF HttpError
<1>3. S \in SUBSET Errors(a) /\ Errors(a) \in SUBSET DOMAIN events
  BY DEF Errors
<1>4. HttpAnswer(a) # <<>> /\ HttpAnswer(a)[1].count >= Cardinality(S)
  BY <1>1, <1>3, Limits, GroupBurst DEF HttpAnswer
<1>5. /\ HttpBurst(a) \in Listed /\ HttpBurst(a).kind = "http-error-burst"
      /\ HttpBurst(a).entity = a /\ HttpBurst(a).count >= Cardinality(S)
  <2>1. HttpBurst(a) \in Listed
    BY <1>2, <1>4, InvIs
  <2> QED
    BY <1>1, <1>4, <2>1, HttpIs
<1> QED
  BY <1>5 DEF Reported, Listed

LEMMA SpikeOwed ==
  ASSUME FindInv, pc = "done", NEW S \in SUBSET DOMAIN events, S # {},
         \A k \in S : ErrorOrWorse(events[k]),
         Together(S, cfg.severity_spike_window_seconds), cfg.severity_spike_min > 0,
         Cardinality(S) >= cfg.severity_spike_min
  PROVE  Reported("severity-spike", "(global)", Cardinality(S))
<1>1. events \in Seq(Events) /\ InTimeOrder(events)
  BY InvIs
<1>2. S \in SUBSET Severe /\ Severe \in SUBSET DOMAIN events
  BY DEF Severe
<1>3. SpikeAnswer # <<>> /\ SpikeAnswer[1].count >= Cardinality(S)
  BY <1>1, <1>2, Limits, GroupBurst DEF SpikeAnswer
<1>4. /\ Spike \in Listed /\ Spike.kind = "severity-spike"
      /\ Spike.entity = "(global)" /\ Spike.count >= Cardinality(S)
  <2>1. Spike \in Listed
    BY <1>3, InvIs
  <2> QED
    BY <1>1, <1>3, <2>1, SpikeIs
<1> QED
  BY <1>4 DEF Reported, Listed

LEMMA BurstsReported ==
  ASSUME FindInv
  PROVE  NoBurstUnreported
<1> SUFFICES ASSUME pc = "done", NEW S \in (SUBSET DOMAIN events) \ {{}}
             PROVE  /\ (/\ \A k \in S : ErrorOrWorse(events[k])
                        /\ Together(S, cfg.severity_spike_window_seconds)
                        /\ cfg.severity_spike_min > 0
                        /\ Cardinality(S) >= cfg.severity_spike_min)
                         => Reported("severity-spike", "(global)", Cardinality(S))
                    /\ Cardinality({ActorKey(events[k]) : k \in S}) = 1 =>
                         \A actor \in {ActorKey(events[k]) : k \in S} :
                           /\ (/\ \A k \in S : Failure(events[k])
                               /\ Together(S, cfg.bruteforce_window_seconds)
                               /\ cfg.bruteforce_min_failures > 0
                               /\ Cardinality(S) >= cfg.bruteforce_min_failures)
                                => Reported("auth-brute-force", actor, Cardinality(S))
                           /\ (/\ \A k \in S : HttpError(events[k])
                               /\ Together(S, cfg.http_error_window_seconds)
                               /\ cfg.http_error_min > 0
                               /\ Cardinality(S) >= cfg.http_error_min)
                                => Reported("http-error-burst", actor, Cardinality(S))
  BY DEF NoBurstUnreported
<1> DEFINE actors == {ActorKey(events[k]) : k \in S}
<1>1. S \in SUBSET DOMAIN events /\ S # {}
  OBVIOUS
<1>2. ASSUME Cardinality(actors) = 1, NEW actor \in actors
      PROVE  \A k \in S : ActorKey(events[k]) = actor
  <2>1. IsFiniteSet(actors)
    <3>1. IsFiniteSet(S)
      <4>1. Len(events) \in Nat /\ S \in SUBSET (1 .. Len(events))
        BY <1>1, InvIs
      <4>2. IsFiniteSet(1 .. Len(events))
        BY <4>1, FS_Interval
      <4> QED
        BY <4>1, <4>2, FS_Subset
    <3> DEFINE g == [k \in S |-> ActorKey(events[k])]
    <3>2. actors = {g[k] : k \in S}
      OBVIOUS
    <3> HIDE DEF g, actors
    <3> QED
      BY <3>1, <3>2, ImageSize
  <2>2. \A k \in S : ActorKey(events[k]) \in actors
    OBVIOUS
  <2> HIDE DEF actors
  <2>3. \E x : actors = {x}
    BY <1>2, <2>1, FS_Singleton
  <2> QED
    BY <1>2, <2>2, <2>3
<1>3. ASSUME \A k \in S : ErrorOrWorse(events[k]),
             Together(S, cfg.severity_spike_window_seconds), cfg.severity_spike_min > 0,
             Cardinality(S) >= cfg.severity_spike_min
      PROVE  Reported("severity-spike", "(global)", Cardinality(S))
  BY <1>1, <1>3, SpikeOwed
<1>4. ASSUME Cardinality(actors) = 1, NEW actor \in actors,
             \A k \in S : Failure(events[k]),
             Together(S, cfg.bruteforce_window_seconds), cfg.bruteforce_min_failures > 0,
             Cardinality(S) >= cfg.bruteforce_min_failures
      PROVE  Reported("auth-brute-force", actor, Cardinality(S))
  BY <1>1, <1>2, <1>4, BruteOwed
<1>5. ASSUME Cardinality(actors) = 1, NEW actor \in actors,
             \A k \in S : HttpError(events[k]),
             Together(S, cfg.http_error_window_seconds), cfg.http_error_min > 0,
             Cardinality(S) >= cfg.http_error_min
      PROVE  Reported("http-error-burst", actor, Cardinality(S))
  BY <1>1, <1>2, <1>5, HttpOwed
<1> QED
  BY <1>3, <1>4, <1>5

LEMMA TaggedCount ==
  ASSUME NEW X, NEW tag, NEW Y, IsFiniteSet(Y), \A x \in X : <<tag, x>> \in Y
  PROVE  /\ IsFiniteSet(X) /\ Cardinality(X) <= Cardinality(Y) /\ Cardinality(X) \in Nat
<1> DEFINE f == [x \in X |-> <<tag, x>>]
<1>1. f \in [X -> Y]
  OBVIOUS
<1>2. \A x, y \in X : f[x] = f[y] => x = y
  OBVIOUS
<1> HIDE DEF f
<1>3. f \in Injection(X, Y)
  BY <1>1, <1>2 DEF Injection, IsInjective
<1>4. IsFiniteSet(X) /\ Cardinality(X) <= Cardinality(Y)
  BY <1>3, FS_Injection
<1> QED
  BY <1>4, FS_CardinalityType

(* Paths and ports are told apart: the distinct paths and the distinct     *)
(* ports of the set are as many as its distinct targets, or fewer.         *)
LEMMA TargetsCount ==
  ASSUME NEW S, IsFiniteSet(S), \A k \in S : Touches(events[k])
  PROVE  LET paths == {events[k].http_path : k \in S} \ {""}
             ports == {events[k].dst_port : k \in {j \in S : events[j].http_path = ""}}
         IN  /\ Cardinality(paths) + Cardinality(ports \ {0})
                  <= Cardinality({Target(events[k]) : k \in S})
             /\ Cardinality({Target(events[k]) : k \in S}) \in Nat
             /\ Cardinality(paths) + Cardinality(ports \ {0}) \in Nat
<1> DEFINE A == {events[k].http_path : k \in S} \ {""}
           B == {events[k].dst_port : k \in {j \in S : events[j].http_path = ""}} \ {0}
           T == {Target(events[k]) : k \in S}
           TA == {<<"path", x>> : x \in A}
           TB == {<<"port", x>> : x \in B}
           t == [k \in S |-> Target(events[k])]
<1>1. IsFiniteSet(T) /\ Cardinality(T) \in Nat
  <2>1. T = {t[k] : k \in S}
    OBVIOUS
  <2> HIDE DEF t, T
  <2> QED
    BY <2>1, ImageSize
<1>2. TA \in SUBSET T
  <2> SUFFICES ASSUME NEW k \in S, events[k].http_path # ""
               PROVE  <<"path", events[k].http_path>> \in T
    OBVIOUS
  <2> QED
    BY DEF Target
<1>3. TB \in SUBSET T
  <2> SUFFICES ASSUME NEW k \in S, events[k].http_path = ""
               PROVE  <<"port", events[k].dst_port>> \in T
    OBVIOUS
  <2> QED
    BY DEF Target
<1>4. TA \cap TB = {}
  <2>1. "path" # "port"
    OBVIOUS
  <2>2. \A x, y : <<"path", x>> # <<"port", y>>
    BY <2>1
  <2> QED
    BY <2>2
<1> HIDE DEF A, B, T
<1>5. IsFiniteSet(TA) /\ IsFiniteSet(TB)
  BY <1>1, <1>2, <1>3, FS_Subset
<1>6. /\ Cardinality(A) <= Cardinality(TA) /\ Cardinality(A) \in Nat
      /\ Cardinality(B) <= Cardinality(TB) /\ Cardinality(B) \in Nat
  <2>1. \A x \in A : <<"path", x>> \in TA
    OBVIOUS
  <2>2. \A x \in B : <<"port", x>> \in TB
    OBVIOUS
  <2> HIDE DEF TA, TB
  <2>3. Cardinality(A) <= Cardinality(TA) /\ Cardinality(A) \in Nat
    BY <1>5, <2>1, TaggedCount
  <2>4. Cardinality(B) <= Cardinality(TB) /\ Cardinality(B) \in Nat
    BY <1>5, <2>2, TaggedCount
  <2> QED
    BY <2>3, <2>4
<1>7. /\ Cardinality(TA) + Cardinality(TB) <= Cardinality(T)
      /\ Cardinality(TA) \in Nat /\ Cardinality(TB) \in Nat
  <2> HIDE DEF TA, TB
  <2>1. /\ IsFiniteSet(TA \cup TB)
        /\ Cardinality(TA \cup TB)
             = Cardinality(TA) + Cardinality(TB) - Cardinality(TA \cap TB)
    BY <1>5, FS_Union
  <2>2. Cardinality(TA \cap TB) = 0
    BY <1>4, FS_EmptySet
  <2>3. Cardinality(TA \cup TB) <= Cardinality(T)
    BY <1>1, <1>2, <1>3, FS_Subset
  <2>4. Cardinality(TA) \in Nat /\ Cardinality(TB) \in Nat
    BY <1>5, FS_CardinalityType
  <2> QED
    BY <2>1, <2>2, <2>3, <2>4
<1> HIDE DEF TA, TB
<1>8. /\ Cardinality(A) + Cardinality(B) <= Cardinality(T)
      /\ Cardinality(A) + Cardinality(B) \in Nat
  BY <1>1, <1>6, <1>7
<1> QED
  BY <1>1, <1>8 DEF A, B, T

LEMMA ScansReported ==
  ASSUME FindInv
  PROVE  NoScanUnreported
<1> DEFINE Count(S) == Cardinality({events[k].http_path : k \in S} \ {""})
             + Cardinality({events[k].dst_port :
                              k \in {j \in S : events[j].http_path = ""}} \ {0})
<1> SUFFICES ASSUME pc = "done", cfg.scan_distinct_min > 0,
                    NEW S \in (SUBSET DOMAIN events) \ {{}},
                    NEW actor \in {ActorKey(events[k]) : k \in S},
                    \A k \in S : Touches(events[k]) /\ ActorKey(events[k]) = actor,
                    Together(S, cfg.scan_window_seconds),
                    NEW distinct, distinct = Count(S),
                    distinct >= cfg.scan_distinct_min
             PROVE  Reported("port-or-path-scan", actor, distinct)
  BY DEF NoScanUnreported
<1> HIDE DEF Count
<1> DEFINE G == Touching(actor)
           T == {Target(events[k]) : k \in S}
<1>1. /\ events \in Seq(Events) /\ InTimeOrder(events) /\ S \in SUBSET DOMAIN events
      /\ S # {} /\ Len(events) \in Nat /\ DOMAIN events = 1 .. Len(events)
  BY InvIs
<1>2. IsFiniteSet(S)
  <2>1. IsFiniteSet(1 .. Len(events))
    <3>1. Len(events) \in Int
      BY <1>1
    <3> QED
      BY <3>1, FS_Interval
  <2> QED
    BY <1>1, <2>1, FS_Subset
<1>3. distinct <= Cardinality(T) /\ Cardinality(T) \in Nat /\ distinct \in Nat
  BY <1>2, TargetsCount DEF Count
<1>4. Cardinality(T) >= cfg.scan_distinct_min
  <2>1. cfg.scan_distinct_min \in Nat /\ distinct >= cfg.scan_distinct_min
    BY Limits
  <2> HIDE DEF T
  <2> QED
    BY <1>3, <2>1
<1>5. actor \in Keys
  <2>1. PICK k \in S : TRUE
    BY <1>1
  <2> QED
    BY <1>1, <2>1, KeyOf DEF Touches
<1>6. S \in SUBSET G /\ G \in SUBSET DOMAIN events
  BY <1>1 DEF Touching
<1>7. \A k \in 1 .. Cardinality(G) : Hits(G)[k] = Target(events[InOrder(G)[k]])
  <2>1. DOMAIN InOrder(G) = 1 .. Cardinality(G)
    <3>1. G \in SUBSET (1 .. Len(events))
      BY <1>1, <1>6
    <3> HIDE DEF G
    <3> QED
      BY <1>1, <3>1, InOrderIs
  <2> QED
    BY <2>1 DEF Hits
<1>8. /\ ScanAnswerOf(actor) # <<>>
      /\ ScanAnswerOf(actor)[1].count >= Cardinality(T)
  <2> DEFINE hits == Hits(G)
             a == ScanAnswer(Group(G), hits, WindowMicros(cfg.scan_window_seconds),
                             cfg.scan_distinct_min, cfg.evidence_cap)
  <2>1. a = ScanAnswerOf(actor)
    BY DEF ScanAnswerOf
  <2>2. \A k \in 1 .. Cardinality(G) : hits[k] = Target(events[InOrder(G)[k]])
    BY <1>7
  <2> HIDE DEF hits, G
  <2>3. a # <<>> /\ a[1].count >= Cardinality(T)
    BY <1>1, <1>4, <1>6, <2>2, Limits, GroupScan
  <2> QED
    BY <2>1, <2>3
<1>9. Scan(actor) \in Listed
  BY <1>5, <1>8, InvIs
<1>10. /\ Scan(actor).kind = "port-or-path-scan" /\ Scan(actor).entity = actor
       /\ Scan(actor).count = ScanAnswerOf(actor)[1].count /\ Scan(actor).count \in Nat
  BY <1>1, <1>8, ScanIs
<1>11. Scan(actor).count >= distinct
  <2> DEFINE c == Scan(actor).count
             m == Cardinality(T)
  <2>1. c \in Nat /\ m \in Nat /\ c >= m /\ distinct <= m /\ distinct \in Nat
    BY <1>3, <1>8, <1>10
  <2> HIDE DEF c, m
  <2>2. c >= distinct
    BY <2>1
  <2> QED
    BY <2>2 DEF c
<1> QED
  BY <1>9, <1>10, <1>11 DEF Reported, Listed

(* The evidence of every finding is of its kind and its entity.            *)
LEMMA EvidenceFits ==
  ASSUME FindInv
  PROVE  EvidenceIsOfTheFinding
<1> SUFFICES ASSUME NEW n \in DOMAIN all, NEW f, f = all[n]
             PROVE  /\ \A k \in DOMAIN f.evidence :
                         /\ f.evidence[k] \in DOMAIN events
                         /\ Supports(events[f.evidence[k]], f)
                    /\ f.kind # "auth-spray-then-hit" =>
                         /\ Len(f.evidence) <= cfg.evidence_cap
                         /\ \A k \in 2 .. Len(f.evidence) : f.evidence[k - 1] < f.evidence[k]
                         /\ \A k \in DOMAIN f.evidence :
                              LET t == events[f.evidence[k]].timestamp
                              IN  t.valid => /\ ~Before(t, f.first_seen)
                                             /\ ~Before(f.last_seen, t)
  BY Zenon DEF EvidenceIsOfTheFinding
<1>1. /\ events \in Seq(Events) /\ InTimeOrder(events) /\ IsAnswer(f) /\ f \in Report
  BY InvIs
<1>2. CASE f.kind = "auth-spray-then-hit"
  <2>1. \A k \in DOMAIN f.evidence : f.evidence[k] \in Fails(f.entity) \cup Oks(f.entity)
    BY <1>1, <1>2, AnswerIs DEF SprayOf
  <2>2. \A i \in Fails(f.entity) \cup Oks(f.entity) :
          i \in DOMAIN events /\ Supports(events[i], f)
    BY <1>2 DEF Fails, Oks, Supports
  <2> QED
    BY <1>2, <2>1, <2>2
<1>3. CASE f.kind # "auth-spray-then-hit"
  <2>1. Founded(f, Places(f))
    BY <1>1, <1>3, AnswerIs
  <2>2. \A i \in Places(f) : i \in DOMAIN events /\ Supports(events[i], f)
    <3>1. f.kind \in {"auth-brute-force", "http-error-burst", "port-or-path-scan",
                      "severity-spike", "rare-signature"}
      BY <1>1, <1>3 DEF Report
    <3>2. CASE f.kind = "auth-brute-force"
      BY <3>2 DEF Places, Supports, Fails
    <3>3. CASE f.kind = "http-error-burst"
      BY <3>3 DEF Places, Supports, Errors
    <3>4. CASE f.kind = "port-or-path-scan"
      BY <3>4 DEF Places, Supports, Touching
    <3>5. CASE f.kind = "severity-spike"
      BY <3>5 DEF Places, Supports, Severe
    <3>6. CASE f.kind = "rare-signature"
      BY <3>6 DEF Places, Supports, Same
    <3> QED
      BY <3>1, <3>2, <3>3, <3>4, <3>5, <3>6
  <2> QED
    BY <2>1, <2>2 DEF Founded
<1> QED
  BY <1>2, <1>3

(* Behind each spray finding stand its brute-force finding, its success    *)
(* and the failures up to then.                                            *)
LEMMA SpraysBacked ==
  ASSUME FindInv
  PROVE  SprayBacked
<1> SUFFICES ASSUME NEW n \in DOMAIN all, NEW f, f = all[n],
                    f.kind = "auth-spray-then-hit",
                    NEW hit, hit = events[f.evidence[Len(f.evidence)]]
             PROVE  /\ Reported("auth-brute-force", f.entity, cfg.bruteforce_min_failures)
                    /\ Success(hit) /\ hit.timestamp = f.last_seen
                    /\ Cardinality({k \in DOMAIN events :
                                      /\ Failure(events[k])
                                      /\ ActorKey(events[k]) = f.entity
                                      /\ ~Before(f.last_seen, events[k].timestamp)})
                         >= cfg.bruteforce_min_failures
  BY DEF SprayBacked
<1> DEFINE a == f.entity
<1>1. /\ events \in Seq(Events) /\ InTimeOrder(events) /\ IsAnswer(f)
      /\ Served(MadeIn(f.kind), a)
  <2>1. all # <<>>
    OBVIOUS
  <2> QED
    BY <2>1, InvIs
<1>2. a \in Keys /\ BruteAnswer(a) # <<>> /\ SprayOf(f, a)
  BY <1>1, AnswerIs
<1>3. Brute(a) \in Listed
  <2>1. Served(1, a)
    BY <1>1, MadeIs
  <2> QED
    BY <1>2, <2>1 DEF FindInv, Complete
<1>4. /\ Brute(a).kind = "auth-brute-force" /\ Brute(a).entity = a
      /\ Brute(a).count >= cfg.bruteforce_min_failures
  BY <1>1, <1>2, BruteIs
<1> HIDE DEF a
<1>5. Reported("auth-brute-force", a, cfg.bruteforce_min_failures)
  BY <1>3, <1>4 DEF Reported, Listed
<1>6. f.evidence[Len(f.evidence)] \in Oks(a) /\ hit.timestamp = f.last_seen
  BY <1>2 DEF SprayOf
<1>7. Success(hit)
  BY <1>6 DEF Oks
<1>8. {k \in DOMAIN events : /\ Failure(events[k]) /\ ActorKey(events[k]) = a
                             /\ ~Before(f.last_seen, events[k].timestamp)}
        = {k \in Fails(a) : ~Before(f.last_seen, events[k].timestamp)}
  BY DEF Fails
<1>9. Cardinality({k \in Fails(a) : ~Before(f.last_seen, events[k].timestamp)})
        >= cfg.bruteforce_min_failures
  BY <1>2 DEF SprayOf
<1> QED
  BY <1>5, <1>6, <1>7, <1>8, <1>9 DEF a

(* Each rare signature, and no other, has its one finding.                 *)
LEMMA RareListed ==
  ASSUME FindInv
  PROVE  RareExact
<1> SUFFICES ASSUME pc = "done", NEW s \in Signatures, NEW found,
                    found = {n \in DOMAIN all : /\ all[n].kind = "rare-signature"
                                                /\ all[n].entity = s}
             PROVE  /\ Cardinality(found)
                         = IF Cardinality(Same(s)) <= cfg.rare_signature_max
                           THEN 1 ELSE 0
                    /\ \A n \in found :
                         /\ all[n].count = Cardinality(Same(s))
                         /\ Times(Same(s)) # {} =>
                              /\ {all[n].first_seen, all[n].last_seen}
                                   \subseteq Times(Same(s))
                              /\ \A t \in Times(Same(s)) :
                                   /\ ~Before(t, all[n].first_seen)
                                   /\ ~Before(all[n].last_seen, t)
  BY DEF RareExact, Signatures, Same
<1>1. events \in Seq(Events) /\ InTimeOrder(events)
  BY InvIs
<1>2. IsRare(s) <=> Cardinality(Same(s)) <= cfg.rare_signature_max
  BY DEF IsRare, Occurrences, Same
<1>3. \A n \in found : IsRare(s) /\ all[n] = RareFinding(s)
  <2> SUFFICES ASSUME NEW n \in found
               PROVE  IsRare(s) /\ all[n] = RareFinding(s)
    OBVIOUS
  <2>1. n \in DOMAIN all /\ all[n].kind = "rare-signature" /\ all[n].entity = s
    OBVIOUS
  <2>2. IsAnswer(all[n])
    BY <2>1, InvIs
  <2> QED
    BY <1>1, <2>1, <2>2, AnswerIs
<1>4. \A m, n \in found : m = n
  BY DEF FindInv, Unique
<1>5. ASSUME IsRare(s)
      PROVE  found # {}
  <2>1. RareFinding(s) \in Listed
    BY <1>5, InvIs
  <2>2. RareFinding(s).kind = "rare-signature" /\ RareFinding(s).entity = s
    BY <1>1, RareIs
  <2> QED
    BY <2>1, <2>2 DEF Listed
<1>6. Cardinality(found) = IF IsRare(s) THEN 1 ELSE 0
  <2>1. CASE IsRare(s)
    <3>1. PICK n : found = {n}
      BY <1>4, <1>5, <2>1
    <3>2. Cardinality({n}) = 1
      BY FS_Singleton
    <3> QED
      BY <2>1, <3>1, <3>2
  <2>2. CASE ~IsRare(s)
    <3>1. found = {}
      BY <1>3, <2>2
    <3> QED
      BY <2>2, <3>1, FS_EmptySet
  <2> QED
    BY <2>1, <2>2
<1>7. ASSUME NEW n \in found
      PROVE  /\ all[n].count = Cardinality(Same(s))
             /\ Times(Same(s)) # {} =>
                  /\ {all[n].first_seen, all[n].last_seen} \subseteq Times(Same(s))
                  /\ \A t \in Times(Same(s)) : /\ ~Before(t, all[n].first_seen)
                                               /\ ~Before(all[n].last_seen, t)
  <2>1. all[n] = RareFinding(s)
    BY <1>3
  <2>2. /\ RareFinding(s).count = Cardinality(Same(s))
        /\ Times(Same(s)) # {} =>
             /\ RareFinding(s).first_seen \in Times(Same(s))
             /\ RareFinding(s).last_seen \in Times(Same(s))
        /\ \A t \in Times(Same(s)) : /\ ~Before(t, RareFinding(s).first_seen)
                                     /\ ~Before(RareFinding(s).last_seen, t)
    BY <1>1, RareIs
  <2> QED
    BY <2>1, <2>2
<1> QED
  BY <1>2, <1>6, <1>7

(***************************************************************************)
(* The theorems about run_detections.                                      *)
(***************************************************************************)
(* Type correctness: whatever is ingested, the stream holds events, every  *)
(* actor yet to be visited is a key of some event, none is left between    *)
(* the detectors that group by actor, and every finding is well formed,    *)
(* with its times and its evidence.                                        *)
THEOREM FindingsTyped == Spec => []TypeInv
<1>1. FindInv => TypeInv
  BY DEF FindInv
<1> QED
  BY <1>1, FindingsInv, PTL

(* The report is the same whatever order the hash maps are walked in: the  *)
(* final sort leaves no two findings tied.                                 *)
THEOREM ReportOrdered == Spec => []ReportTotallyOrdered
<1>1. FindInv => ReportTotallyOrdered
  BY NoTies
<1> QED
  BY <1>1, FindingsInv, PTL

(* Whatever order the events arrived in, every burst of failures or HTTP   *)
(* errors of one actor, or of errors of anyone, that reaches its threshold *)
(* is in the report, with a count as large.                                *)
THEOREM BurstsFound == Spec => []NoBurstUnreported
<1>1. FindInv => NoBurstUnreported
  BY BurstsReported
<1> QED
  BY <1>1, FindingsInv, PTL

(* Likewise every scan, paths and ports counted apart.                     *)
THEOREM ScansFound == Spec => []NoScanUnreported
<1>1. FindInv => NoScanUnreported
  BY ScansReported
<1> QED
  BY <1>1, FindingsInv, PTL

(* The evidence of a finding is events of its kind and entity, in stream   *)
(* order, within the cap and the reported times: at every step, not only   *)
(* at the end.                                                             *)
THEOREM EvidenceTrue == Spec => []EvidenceIsOfTheFinding
<1>1. FindInv => EvidenceIsOfTheFinding
  BY EvidenceFits
<1> QED
  BY <1>1, FindingsInv, PTL

(* A spray finding stands beside a brute-force finding of its actor, ends  *)
(* in a success, and the threshold had been reached by then.               *)
THEOREM SpraysHeld == Spec => []SprayBacked
<1>1. FindInv => SprayBacked
  BY SpraysBacked
<1> QED
  BY <1>1, FindingsInv, PTL

(* A signature that occurs at most rare_signature_max times has exactly    *)
(* one finding, with its count and span, and no other signature has one.   *)
THEOREM RareFound == Spec => []RareExact
<1>1. FindInv => RareExact
  BY RareListed
<1> QED
  BY <1>1, FindingsInv, PTL

=============================================================================
