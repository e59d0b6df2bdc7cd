-------------------------- MODULE TimeWindowProofs --------------------------
(***************************************************************************)
(* Facts about the time arithmetic of the detectors, for any width of the  *)
(* timestamps and groups of any length, and about sorting: what the proofs *)
(* about the window loops (WindowProofs), the detectors (DetectionsProofs) *)
(* and the other analyses (StreamToolsProofs) share.                       *)
(***************************************************************************)
EXTENDS TimeWindow, FiniteSetTheorems, TLAPS

USE MicrosAssumption

(* A window length is never negative, whatever the configured seconds.     *)
LEMMA WindowMicrosType ==
  ASSUME NEW s \in Int
  PROVE  WindowMicros(s) \in Nat
<1>1. CASE s < 0
  BY <1>1 DEF WindowMicros
<1>2. CASE s >= 0 /\ s > MaxMicros \div MicrosPerSecond
  BY <1>2 DEF WindowMicros
<1>3. CASE s >= 0 /\ ~(s > MaxMicros \div MicrosPerSecond)
  <2>1. s * MicrosPerSecond \in Nat
    BY <1>3
  <2> QED
    BY <1>3, <2>1 DEF WindowMicros
<1> QED
  BY <1>1, <1>2, <1>3

(* The facts about micros_diff the loop needs: an observation is no time   *)
(* away from itself, and moving the later one later or the earlier one     *)
(* earlier never brings them closer.                                       *)
LEMMA MicrosDiffFacts ==
  ASSUME NEW a \in Micros, NEW b \in Micros
  PROVE  /\ MicrosDiff(a, b) \in Nat
         /\ MicrosDiff(a, a) = 0
         /\ \A c \in Micros : c >= a => MicrosDiff(a, b) <= MicrosDiff(c, b)
         /\ \A c \in Micros : c <= b => MicrosDiff(a, b) <= MicrosDiff(a, c)
BY DEF MicrosDiff, Micros

(* What an observation of a group is.                                      *)
LEMMA ObsType ==
  ASSUME NEW o \in Seq(Obs), NEW i \in 1 .. Len(o)
  PROVE  o[i].micros \in Micros /\ o[i].index \in Nat
<1>1. o[i] \in Obs
  OBVIOUS
<1> QED
  BY <1>1 DEF Obs

(* In a time-ordered group, a window that spans i .. j spans every part of *)
(* it.                                                                     *)
LEMMA InWindowShrinks ==
  ASSUME NEW o \in Seq(Obs), TimeOrdered(o), NEW win \in Nat,
         NEW i \in 1 .. Len(o), NEW j \in 1 .. Len(o),
         NEW k \in 1 .. Len(o), NEW m \in 1 .. Len(o),
         i <= k, m <= j, InWindow(o, win, i, j)
  PROVE  InWindow(o, win, k, m)
<1>1. /\ o[i].micros \in Micros /\ o[j].micros \in Micros
      /\ o[k].micros \in Micros /\ o[m].micros \in Micros
  BY ObsType
<1>2. o[i].micros <= o[k].micros /\ o[m].micros <= o[j].micros
  BY DEF TimeOrdered
<1> DEFINE a == o[i].micros  b == o[k].micros  c == o[m].micros  d == o[j].micros
<1>3. MicrosDiff(d, a) <= win
  BY DEF InWindow
<1> HIDE DEF a, b, c, d
<1>4. a \in Micros /\ b \in Micros /\ c \in Micros /\ d \in Micros /\ a <= b /\ c <= d
  BY <1>1, <1>2 DEF a, b, c, d
<1>5. MicrosDiff(c, b) <= win
  BY <1>3, <1>4 DEF MicrosDiff, Micros
<1> QED
  BY <1>5 DEF InWindow, b, c

----------------------------------------------------------------------------
(* A set of positions has a smallest and a largest one.                    *)
LEMMA SmallestExists ==
  ASSUME NEW S \in SUBSET Nat, S # {}
  PROVE  \E x \in S : \A y \in S : x <= y
<1> DEFINE R == OpToRel(<, Nat)
<1>1. IsWellFoundedOn(R, Nat)
  BY NatLessThanWellFounded
<1>2. \A x \in Nat, y \in Nat : y < x => <<y, x>> \in R
  BY DEF OpToRel
<1> HIDE DEF R
<1>3. \E x \in S : \A y \in S : ~ (<<y, x>> \in R)
  BY <1>1, WFMin
<1>4. \A x \in S : x \in Nat
  OBVIOUS
<1>5. \A x, y \in S : ~ (<<y, x>> \in R) => x <= y
  BY <1>2, <1>4
<1> QED
  BY <1>3, <1>5

LEMMA LargestExists ==
  ASSUME NEW n \in Nat, NEW S \in SUBSET (1 .. n), S # {}
  PROVE  \E x \in S : \A y \in S : y <= x
<1> DEFINE T == {n - x : x \in S}
<1>1. \A x \in S : x \in Int /\ n - x \in Nat
  OBVIOUS
<1>2. T \in SUBSET Nat
  BY <1>1
<1>3. \A y \in S : n - y \in T
  OBVIOUS
<1>4. T # {}
  BY <1>3
<1>5. \E t \in T : \A y \in T : t <= y
  BY <1>2, <1>4, SmallestExists
<1>6. PICK x \in S : \A y \in T : n - x <= y
  BY <1>5
<1> HIDE DEF T
<1>7. \A y \in S : n - x <= n - y
  BY <1>3, <1>6
<1> QED
  BY <1>1, <1>7

(* A finding about positions inside a group is well formed.                *)
LEMMA FindingType ==
  ASSUME NEW o \in Seq(Obs), NEW r \in 1 .. Len(o), NEW l \in 1 .. r,
         NEW n \in Nat, NEW cap \in Nat
  PROVE  FindingOf(o, l, r, n, cap) \in Finding
<1> DEFINE size == r - l + 1
           m == IF size < cap THEN size ELSE cap
<1>1. m \in Nat /\ m <= size
  OBVIOUS
<1>2. \A k \in 1 .. m : o[l + k - 1].index \in Nat
  <2> TAKE k \in 1 .. m
  <2>1. l + k - 1 \in 1 .. Len(o)
    BY <1>1
  <2> QED
    BY <2>1, ObsType
<1>3. Evidence(o, l, r, cap) = [k \in 1 .. m |-> o[l + k - 1].index]
  BY DEF Evidence
<1> HIDE DEF m
<1>4. [k \in 1 .. m |-> o[l + k - 1].index] \in Seq(Nat)
  BY <1>1, <1>2
<1>5. o[l].micros \in Micros /\ o[r].micros \in Micros
  BY ObsType
<1> QED
  BY <1>3, <1>4, <1>5 DEF FindingOf, Finding

(* There is only one place where the widest window closing at j starts.    *)
LEMMA WidestIs ==
  ASSUME NEW o, NEW win, NEW j \in Nat, NEW i \in 1 .. j,
         InWindow(o, win, i, j),
         \A k \in 1 .. i - 1 : ~InWindow(o, win, k, j)
  PROVE  WidestFrom(o, win, j) = i
<1>1. ASSUME NEW m \in 1 .. j, InWindow(o, win, m, j),
             \A k \in 1 .. m - 1 : ~InWindow(o, win, k, j)
      PROVE  m = i
  <2>1. ~(m < i) /\ ~(i < m)
    BY <1>1
  <2> QED
    BY <2>1
<1> QED
  BY <1>1 DEF WidestFrom

(* There is one: the observation at j is no time away from itself.         *)
LEMMA WidestType ==
  ASSUME NEW o \in Seq(Obs), NEW win \in Nat, NEW j \in 1 .. Len(o)
  PROVE  WidestFrom(o, win, j) \in 1 .. j
<1> DEFINE S == {i \in 1 .. j : InWindow(o, win, i, j)}
<1>1. j \in S
  <2>1. o[j].micros \in Micros
    BY ObsType
  <2> QED
    BY <2>1, MicrosDiffFacts DEF InWindow
<1>2. S \in SUBSET Nat /\ S # {}
  BY <1>1
<1>3. PICK i \in S : \A k \in S : i <= k
  BY <1>2, SmallestExists
<1>4. \A k \in 1 .. i - 1 : ~InWindow(o, win, k, j)
  BY <1>3
<1> QED
  BY <1>3, <1>4, WidestIs

(* What WidestFrom picks: all that stands before it is out of the window.  *)
LEMMA WidestFits ==
  ASSUME NEW o \in Seq(Obs), NEW win \in Nat, NEW j \in 1 .. Len(o),
         NEW k \in 1 .. j, InWindow(o, win, k, j)
  PROVE  WidestFrom(o, win, j) <= k
<1> DEFINE S == {i \in 1 .. j : InWindow(o, win, i, j)}
<1>1. S \in SUBSET Nat /\ k \in S
  OBVIOUS
<1>2. PICK i \in S : \A m \in S : i <= m
  BY <1>1, SmallestExists
<1>3. \A m \in 1 .. i - 1 : ~InWindow(o, win, m, j)
  BY <1>2
<1>4. WidestFrom(o, win, j) = i
  BY <1>2, <1>3, WidestIs
<1> QED
  BY <1>1, <1>2, <1>4

----------------------------------------------------------------------------
(* What a burst detector owes. A burst is an interval of the group.        *)
LEMMA BurstType ==
  ASSUME NEW o \in Seq(Obs), NEW win, NEW b \in Bursts(o, win)
  PROVE  /\ b[2] \in 1 .. Len(o) /\ b[1] \in 1 .. b[2]
         /\ BurstSize(b) \in 1 .. Len(o) /\ BurstSize(b) = b[2] - b[1] + 1
         /\ InWindow(o, win, b[1], b[2])
BY DEF Bursts, BurstSize

(* A group that is not empty has a densest burst that closes first.        *)
LEMMA FirstDensestExists ==
  ASSUME NEW o \in Seq(Obs), o # <<>>, NEW win \in Nat
  PROVE  IsFirstDensest(o, win, DensestBurst(o, win))
<1> DEFINE B == Bursts(o, win)
           Sizes == {BurstSize(b) : b \in B}
<1>1. Len(o) \in Nat /\ DOMAIN o = 1 .. Len(o) /\ 1 \in 1 .. Len(o)
  OBVIOUS
<1>2. <<1, 1>> \in B
  <2>1. InWindow(o, win, 1, 1)
    <3>1. o[1].micros \in Micros
      BY <1>1, ObsType
    <3> QED
      BY <3>1, MicrosDiffFacts DEF InWindow
  <2> QED
    BY <1>1, <2>1 DEF Bursts
<1>3. \A b \in B : BurstSize(b) \in 1 .. Len(o)
  BY BurstType
<1>4. \E m \in Sizes : \A y \in Sizes : y <= m
  <2>1. Sizes \in SUBSET (1 .. Len(o)) /\ Sizes # {}
    BY <1>2, <1>3
  <2> HIDE DEF Sizes
  <2> QED
    BY <1>1, <2>1, LargestExists
<1>5. PICK m \in Sizes : \A b \in B : BurstSize(b) <= m
  BY <1>4
<1> DEFINE Ends == {b[2] : b \in {c \in B : BurstSize(c) = m}}
<1>6. \E e \in Ends : \A y \in Ends : e <= y
  <2>1. \A b \in B : b[2] \in Nat
    BY BurstType
  <2>2. Ends \in SUBSET Nat /\ Ends # {}
    BY <1>5, <2>1
  <2> HIDE DEF Ends
  <2> QED
    BY <2>2, SmallestExists
<1>7. PICK b \in B : BurstSize(b) = m /\ \A y \in Ends : b[2] <= y
  BY <1>6
<1>8. IsFirstDensest(o, win, b)
  BY <1>5, <1>7 DEF IsFirstDensest
<1> QED
  BY <1>7, <1>8 DEF DensestBurst

(* It answers with one finding about an interval of the group, or none.    *)
LEMMA BurstAnswerIs ==
  ASSUME NEW o \in Seq(Obs), NEW win \in Nat, NEW min \in Nat, NEW cap,
         BurstAnswer(o, win, min, cap) # <<>>
  PROVE  \E r \in 1 .. Len(o) : \E l \in 1 .. r :
           /\ BurstAnswer(o, win, min, cap) = <<FindingOf(o, l, r, r - l + 1, cap)>>
           /\ min > 0 /\ r - l + 1 >= min
<1> DEFINE b == DensestBurst(o, win)
<1>1. o # <<>> /\ min > 0 /\ BurstSize(b) >= min
  BY DEF BurstAnswer
<1>2. b \in Bursts(o, win)
  BY <1>1, FirstDensestExists DEF IsFirstDensest
<1>3. /\ b[2] \in 1 .. Len(o) /\ b[1] \in 1 .. b[2]
      /\ BurstSize(b) = b[2] - b[1] + 1
  BY <1>2, BurstType
<1> QED
  BY <1>1, <1>3 DEF BurstAnswer

(* Whatever fits one window, however it is spread in the group, is no more *)
(* than the answer counts.                                                 *)
LEMMA BurstOwed ==
  ASSUME NEW o \in Seq(Obs), NEW win \in Nat, NEW min \in Nat, NEW cap,
         NEW T \in SUBSET (1 .. Len(o)), min > 0, Cardinality(T) >= min,
         \A i, j \in T : InWindow(o, win, i, j)
  PROVE  /\ BurstAnswer(o, win, min, cap) # <<>>
         /\ BurstAnswer(o, win, min, cap)[1].count >= Cardinality(T)
<1>1. Len(o) \in Nat /\ DOMAIN o = 1 .. Len(o) /\ T \in SUBSET Nat
  OBVIOUS
<1>2. T # {}
  <2> SUFFICES ASSUME T = {} PROVE FALSE
    OBVIOUS
  <2>1. Cardinality(T) = 0
    BY FS_EmptySet
  <2> QED
    BY <2>1
<1>3. PICK lo \in T : \A y \in T : lo <= y
  BY <1>1, <1>2, SmallestExists
<1>4. PICK hi \in T : \A y \in T : y <= hi
  BY <1>1, <1>2, LargestExists
<1>5. /\ lo \in 1 .. Len(o) /\ hi \in 1 .. Len(o) /\ lo <= hi
      /\ T \in SUBSET (lo .. hi)
  BY <1>1, <1>3, <1>4
<1>6. Cardinality(T) \in Nat /\ Cardinality(T) <= hi - lo + 1
  <2>1. IsFiniteSet(lo .. hi) /\ Cardinality(lo .. hi) = hi - lo + 1
    BY <1>5, FS_Interval
  <2> QED
    BY <1>5, <2>1, FS_Subset, FS_CardinalityType
<1> DEFINE b == DensestBurst(o, win)
           c == <<lo, hi>>
<1>7. c \in Bursts(o, win) /\ BurstSize(c) = hi - lo + 1
  BY <1>1, <1>5 DEF Bursts, BurstSize
<1>8. o # <<>>
  BY <1>1, <1>5
<1>9. BurstSize(c) <= BurstSize(b) /\ b \in Bursts(o, win)
  BY <1>7, <1>8, FirstDensestExists DEF IsFirstDensest
<1>10. BurstSize(b) \in Nat
  BY <1>9, BurstType
<1> HIDE DEF b, c
<1>11. BurstSize(b) >= Cardinality(T) /\ BurstSize(b) >= min
  BY <1>5, <1>6, <1>7, <1>9, <1>10
<1>12. BurstAnswer(o, win, min, cap) = <<FindingOf(o, b[1], b[2], BurstSize(b), cap)>>
  BY <1>8, <1>11 DEF BurstAnswer, b
<1>13. FindingOf(o, b[1], b[2], BurstSize(b), cap).count = BurstSize(b)
  BY DEF FindingOf
<1> QED
  BY <1>11, <1>12, <1>13

----------------------------------------------------------------------------
(* What the scan detector owes. An interval touches no more targets than   *)
(* it has observations.                                                    *)
LEMMA ImageSize ==
  ASSUME NEW S, IsFiniteSet(S), NEW f
  PROVE  /\ IsFiniteSet({f[k] : k \in S})
         /\ Cardinality({f[k] : k \in S}) \in Nat
         /\ Cardinality({f[k] : k \in S}) <= Cardinality(S)
<1> DEFINE g == [k \in S |-> f[k]]
           R == {f[k] : k \in S}
<1>1. g \in Surjection(S, R)
  BY DEF Surjection
<1> HIDE DEF g, R
<1>2. IsFiniteSet(R) /\ Cardinality(R) <= Cardinality(S)
  BY <1>1, FS_Surjection
<1> QED
  BY <1>2, FS_CardinalityType DEF R

LEMMA TouchedBound ==
  ASSUME NEW o \in Seq(Obs), NEW targets, NEW win \in Nat, NEW j \in 1 .. Len(o)
  PROVE  Touched(o, targets, win, j) \in 0 .. Len(o)
<1> DEFINE i == WidestFrom(o, win, j)
<1>1. i \in 1 .. j /\ i \in Int /\ j \in Int /\ Len(o) \in Nat
  BY WidestType
<1> HIDE DEF i
<1>2. IsFiniteSet(i .. j) /\ Cardinality(i .. j) = j - i + 1
  <2>1. ~(i > j)
    BY <1>1
  <2>2. /\ IsFiniteSet(i .. j)
        /\ Cardinality(i .. j) = IF i > j THEN 0 ELSE j - i + 1
    BY <1>1, FS_Interval
  <2> QED
    BY <2>1, <2>2
<1>3. /\ Cardinality({targets[k] : k \in i .. j}) \in Nat
      /\ Cardinality({targets[k] : k \in i .. j}) <= j - i + 1
  BY <1>2, ImageSize
<1>4. Cardinality({targets[k] : k \in i .. j}) \in 0 .. Len(o)
  <2> DEFINE n == Cardinality({targets[k] : k \in i .. j})
  <2>1. n \in Nat /\ n <= j - i + 1
    BY <1>3
  <2> HIDE DEF n
  <2>2. n \in 0 .. Len(o)
    BY <1>1, <2>1
  <2> QED
    BY <2>2 DEF n
<1> QED
  BY <1>4 DEF Touched, i

(* The right edge ScanAnswer chooses.                                      *)
FirstWidest(o, targets, win, j) ==
  \A k \in DOMAIN o :
    /\ Touched(o, targets, win, k) <= Touched(o, targets, win, j)
    /\ k < j => Touched(o, targets, win, k) < Touched(o, targets, win, j)

LEMMA FirstWidestExists ==
  ASSUME NEW o \in Seq(Obs), o # <<>>, NEW targets, NEW win \in Nat
  PROVE  \E j \in DOMAIN o : FirstWidest(o, targets, win, j)
<1> DEFINE T(j) == Touched(o, targets, win, j)
<1>1. Len(o) \in Nat /\ DOMAIN o = 1 .. Len(o) /\ 1 \in 1 .. Len(o)
  OBVIOUS
<1>2. \A j \in DOMAIN o : T(j) \in 0 .. Len(o)
  BY <1>1, TouchedBound
<1> HIDE DEF T
<1> DEFINE Sizes == {T(j) + 1 : j \in DOMAIN o}
<1>3. \E m \in Sizes : \A y \in Sizes : y <= m
  <2>1. Sizes \in SUBSET (1 .. Len(o) + 1) /\ Sizes # {} /\ Len(o) + 1 \in Nat
    BY <1>1, <1>2
  <2> HIDE DEF Sizes
  <2> QED
    BY <2>1, LargestExists
<1>4. PICK m \in DOMAIN o : \A j \in DOMAIN o : T(j) + 1 <= T(m) + 1
  BY <1>3
<1> DEFINE Most == {j \in DOMAIN o : T(j) = T(m)}
<1>5. \E e \in Most : \A y \in Most : e <= y
  <2>1. Most \in SUBSET Nat /\ Most # {}
    BY <1>1, <1>4
  <2> HIDE DEF Most
  <2> QED
    BY <2>1, SmallestExists
<1>6. PICK e \in Most : \A y \in Most : e <= y
  BY <1>5
<1>7. \A k \in DOMAIN o : T(k) <= T(e) /\ (k < e => T(k) < T(e))
  <2> TAKE k \in DOMAIN o
  <2>1. T(k) \in Int /\ T(m) \in Int /\ T(e) = T(m) /\ T(k) <= T(m)
    BY <1>2, <1>4, <1>6
  <2>2. k < e => T(k) # T(m)
    BY <1>1, <1>6
  <2> QED
    BY <2>1, <2>2
<1> QED
  BY <1>6, <1>7 DEF FirstWidest, T

LEMMA ScanAnswerIs ==
  ASSUME NEW o \in Seq(Obs), NEW targets, NEW win \in Nat, NEW min \in Nat, NEW cap
  PROVE  \/ ScanAnswer(o, targets, win, min, cap) = <<>>
         \/ \E r \in 1 .. Len(o) : \E l \in 1 .. r : \E n \in Nat :
              /\ ScanAnswer(o, targets, win, min, cap)
                   = <<FindingOf(o, l, r, n, cap)>>
              /\ FirstWidest(o, targets, win, r)
              /\ n = Touched(o, targets, win, r)
<1> DEFINE r == CHOOSE j \in DOMAIN o : FirstWidest(o, targets, win, j)
           n == Touched(o, targets, win, r)
           l == WidestFrom(o, win, r)
<1>1. CASE o = <<>> \/ ~(min > 0 /\ n >= min)
  BY <1>1 DEF ScanAnswer, FirstWidest
<1>2. CASE o # <<>> /\ min > 0 /\ n >= min
  <2>1. r \in 1 .. Len(o) /\ FirstWidest(o, targets, win, r)
    BY <1>2, FirstWidestExists
  <2>2. l \in 1 .. r /\ n \in Nat
    BY <2>1, WidestType, TouchedBound
  <2>3. ScanAnswer(o, targets, win, min, cap) = <<FindingOf(o, l, r, n, cap)>>
    BY <1>2 DEF ScanAnswer, FirstWidest
  <2> HIDE DEF r, n, l
  <2> QED
    BY <2>1, <2>2, <2>3 DEF n
<1> QED
  BY <1>1, <1>2

LEMMA ScanOwed ==
  ASSUME NEW o \in Seq(Obs), NEW targets, NEW win \in Nat, NEW min \in Nat, NEW cap,
         NEW T \in SUBSET (1 .. Len(o)), T # {}, min > 0,
         Cardinality({targets[k] : k \in T}) >= min,
         \A i, j \in T : InWindow(o, win, i, j)
  PROVE  /\ ScanAnswer(o, targets, win, min, cap) # <<>>
         /\ ScanAnswer(o, targets, win, min, cap)[1].count
              >= Cardinality({targets[k] : k \in T})
<1> DEFINE C == Cardinality({targets[k] : k \in T})
<1>1. Len(o) \in Nat /\ DOMAIN o = 1 .. Len(o) /\ T \in SUBSET Nat
  OBVIOUS
<1>2. PICK hi \in T : \A y \in T : y <= hi
  BY <1>1, LargestExists
<1> DEFINE i == WidestFrom(o, win, hi)
<1>3. hi \in 1 .. Len(o) /\ i \in 1 .. hi /\ \A k \in T : k \in i .. hi
  <2>1. hi \in 1 .. Len(o) /\ i \in 1 .. hi
    BY WidestType
  <2>2. ASSUME NEW k \in T PROVE k \in i .. hi
    <3>1. k \in 1 .. hi /\ InWindow(o, win, k, hi)
      BY <1>1, <1>2
    <3>2. i <= k
      BY <2>1, <3>1, WidestFits
    <3> HIDE DEF i
    <3> QED
      BY <2>1, <3>1, <3>2
  <2> QED
    BY <2>1, <2>2
<1>4. C <= Touched(o, targets, win, hi) /\ C \in Nat
  <2> DEFINE W == {targets[k] : k \in i .. hi}
             V == {targets[k] : k \in T}
  <2>1. IsFiniteSet(W)
    <3>1. i \in Int /\ hi \in Int
      BY <1>3
    <3> HIDE DEF i
    <3>2. IsFiniteSet(i .. hi)
      BY <3>1, FS_Interval
    <3> QED
      BY <3>2, ImageSize
  <2>2. V \in SUBSET W
    BY <1>3
  <2>3. W = W /\ Touched(o, targets, win, hi) = Cardinality(W)
    BY DEF Touched
  <2>4. C = Cardinality(V)
    OBVIOUS
  <2> HIDE DEF W, V, C
  <2> QED
    BY <2>1, <2>2, <2>3, <2>4, FS_Subset, FS_CardinalityType
<1> HIDE DEF C, i
<1> DEFINE r == CHOOSE j \in DOMAIN o : FirstWidest(o, targets, win, j)
           n == Touched(o, targets, win, r)
<1>5. o # <<>>
  BY <1>1, <1>3
<1>6. r \in 1 .. Len(o) /\ FirstWidest(o, targets, win, r)
  <2>1. \E j \in DOMAIN o : FirstWidest(o, targets, win, j)
    BY <1>5, FirstWidestExists
  <2>2. r \in DOMAIN o /\ FirstWidest(o, targets, win, r)
    BY <2>1, Zenon
  <2> QED
    BY <1>1, <2>2
<1>7. n \in Nat /\ Touched(o, targets, win, hi) \in Nat
      /\ Touched(o, targets, win, hi) <= n
  <2> HIDE DEF r
  <2>1. Touched(o, targets, win, hi) <= n
    BY <1>1, <1>3, <1>6 DEF FirstWidest
  <2>2. n \in 0 .. Len(o) /\ Touched(o, targets, win, hi) \in 0 .. Len(o)
    BY <1>3, <1>6, TouchedBound
  <2> HIDE DEF n
  <2> QED
    BY <2>1, <2>2
<1>8. n >= C /\ n >= min
  <2>1. C >= min
    BY DEF C
  <2> HIDE DEF n
  <2> QED
    BY <1>4, <1>7, <2>1
<1>9. ScanAnswer(o, targets, win, min, cap)
        = <<FindingOf(o, WidestFrom(o, win, r), r, n, cap)>>
  BY <1>5, <1>8 DEF ScanAnswer, FirstWidest
<1>10. FindingOf(o, WidestFrom(o, win, r), r, n, cap).count = n
  BY DEF FindingOf
<1> HIDE DEF r, n
<1> QED
  BY <1>8, <1>9, <1>10 DEF C

----------------------------------------------------------------------------
(* A sort puts every element of a set in the place that the number of      *)
(* those before it tells.                                                  *)
Ahead(P, R, i) == {j \in P : <<j, i>> \in R}

StrictOrder(P, R) ==
  /\ \A i \in P : <<i, i>> \notin R
  /\ \A i, j \in P : i # j => <<i, j>> \in R \/ <<j, i>> \in R
  /\ \A i, j, k \in P : <<i, j>> \in R /\ <<j, k>> \in R => <<i, k>> \in R

LEMMA RankGrows ==
  ASSUME NEW P, IsFiniteSet(P), NEW R, StrictOrder(P, R), NEW i \in P, NEW j \in P,
         <<i, j>> \in R
  PROVE  /\ Cardinality(Ahead(P, R, i)) \in Nat /\ Cardinality(Ahead(P, R, j)) \in Nat
         /\ Cardinality(Ahead(P, R, i)) < Cardinality(Ahead(P, R, j))
         /\ Cardinality(Ahead(P, R, j)) < Cardinality(P)
<1> DEFINE A == Ahead(P, R, i)
      B == Ahead(P, R, j)
<1>1. /\ A \in SUBSET B /\ i \in B /\ i \notin A
      /\ B \in SUBSET P /\ j \in P /\ j \notin B
  BY DEF Ahead, StrictOrder
<1> HIDE DEF A, B
<1>2. /\ IsFiniteSet(B) /\ Cardinality(B) <= Cardinality(P)
      /\ Cardinality(P) = Cardinality(B) => P = B
  BY <1>1, FS_Subset
<1>3. /\ IsFiniteSet(A) /\ Cardinality(A) <= Cardinality(B)
      /\ Cardinality(B) = Cardinality(A) => B = A
  BY <1>1, <1>2, FS_Subset
<1>4. Cardinality(A) \in Nat /\ Cardinality(B) \in Nat /\ Cardinality(P) \in Nat
  BY <1>2, <1>3, FS_CardinalityType
<1>5. Cardinality(B) # Cardinality(A) /\ Cardinality(P) # Cardinality(B)
  BY <1>1, <1>2, <1>3
<1> QED
  BY <1>2, <1>3, <1>4, <1>5 DEF A, B

LEMMA RankType ==
  ASSUME NEW P, IsFiniteSet(P), NEW R, StrictOrder(P, R), NEW i \in P
  PROVE  /\ Cardinality(P) \in Nat
         /\ Cardinality(Ahead(P, R, i)) \in 0 .. Cardinality(P) - 1
<1> DEFINE A == Ahead(P, R, i)
<1>1. A \in SUBSET P /\ i \notin A
  BY DEF Ahead, StrictOrder
<1> HIDE DEF A
<1>2. /\ IsFiniteSet(A) /\ Cardinality(A) <= Cardinality(P)
      /\ Cardinality(P) = Cardinality(A) => P = A
  BY <1>1, FS_Subset
<1>3. Cardinality(A) \in Nat /\ Cardinality(P) \in Nat
  BY <1>2, FS_CardinalityType
<1> QED
  BY <1>1, <1>2, <1>3 DEF A

LEMMA RankTaken ==
  ASSUME NEW P, IsFiniteSet(P), NEW R, StrictOrder(P, R),
         NEW k \in 1 .. Cardinality(P)
  PROVE  \E i \in P : Cardinality(Ahead(P, R, i)) = k - 1
<1> DEFINE n == Cardinality(P)
      rank == [i \in P |-> Cardinality(Ahead(P, R, i))]
<1>1. n \in Nat
  BY FS_CardinalityType
<1>2. rank \in [P -> 0 .. n - 1]
  BY RankType
<1>3. \A i, j \in P : i # j => rank[i] # rank[j]
  <2> TAKE i, j \in P
  <2> HAVE i # j
  <2>1. CASE <<i, j>> \in R
    BY <2>1, RankGrows
  <2>2. CASE <<j, i>> \in R
    BY <2>2, RankGrows
  <2> QED
    BY <2>1, <2>2 DEF StrictOrder
<1>4. rank \in Injection(P, 0 .. n - 1)
  <2> HIDE DEF rank, n
  <2> QED
    BY <1>2, <1>3 DEF Injection, IsInjective
<1>5. IsFiniteSet(0 .. n - 1) /\ Cardinality(0 .. n - 1) = n
  <2>1. 0 \in Int /\ n - 1 \in Int /\ (IF 0 > n - 1 THEN 0 ELSE n - 1 - 0 + 1) = n
    BY <1>1
  <2> HIDE DEF n
  <2> QED
    BY <2>1, FS_Interval
<1>6. rank \in Surjection(P, 0 .. n - 1)
  <2> DEFINE T == 0 .. n - 1
  <2>1. rank \in Injection(P, T) /\ IsFiniteSet(T) /\ Cardinality(P) = Cardinality(T)
    BY <1>4, <1>5
  <2> HIDE DEF rank, T
  <2>2. rank \in Surjection(P, T)
    BY <2>1, FS_Injection
  <2> QED
    BY <2>2 DEF T
<1>7. k - 1 \in 0 .. n - 1
  BY <1>1
<1>8. \E i \in P : rank[i] = k - 1
  <2> HIDE DEF rank, n
  <2> QED
    BY <1>6, <1>7 DEF Surjection
<1> QED
  BY <1>8

(* A sequence of places, each with as many ahead of it as its number says, *)
(* is the whole set in order.                                              *)
Sorts(o, P, R) ==
  \A k \in 1 .. Cardinality(P) : o[k] \in P /\ Cardinality(Ahead(P, R, o[k])) = k - 1

LEMMA Sorted ==
  ASSUME NEW P, IsFiniteSet(P), NEW R, StrictOrder(P, R), NEW o, Sorts(o, P, R)
  PROVE  /\ Cardinality(P) \in Nat
         /\ \A i \in P : \E k \in 1 .. Cardinality(P) : o[k] = i
         /\ \A k, l \in 1 .. Cardinality(P) :
              /\ k < l <=> <<o[k], o[l]>> \in R
              /\ o[k] = o[l] => k = l
<1>1. Cardinality(P) \in Nat
  BY FS_CardinalityType
<1>2. \A i, j \in P : i = j \/ <<i, j>> \in R \/ <<j, i>> \in R
  BY DEF StrictOrder
<1>3. \A i \in P : \E k \in 1 .. Cardinality(P) : o[k] = i
  <2> TAKE i \in P
  <2>1. PICK k \in 1 .. Cardinality(P) : k - 1 = Cardinality(Ahead(P, R, i))
    <3>1. PICK r \in 0 .. Cardinality(P) - 1 : r = Cardinality(Ahead(P, R, i))
      BY RankType
    <3>2. r + 1 \in 1 .. Cardinality(P) /\ (r + 1) - 1 = r
      BY <1>1
    <3> QED
      BY <3>1, <3>2
  <2>2. o[k] \in P /\ Cardinality(Ahead(P, R, o[k])) = Cardinality(Ahead(P, R, i))
    BY <2>1 DEF Sorts
  <2>3. ASSUME NEW a \in P, NEW b \in P, <<a, b>> \in R
        PROVE  Cardinality(Ahead(P, R, a)) # Cardinality(Ahead(P, R, b))
    BY <2>3, RankGrows
  <2>4. o[k] = i
    BY <1>2, <2>2, <2>3, Zenon
  <2> QED
    BY <2>4
<1>4. ASSUME NEW k \in 1 .. Cardinality(P), NEW l \in 1 .. Cardinality(P)
      PROVE  /\ k < l <=> <<o[k], o[l]>> \in R
             /\ o[k] = o[l] => k = l
  <2>1. /\ o[k] \in P /\ Cardinality(Ahead(P, R, o[k])) = k - 1
        /\ o[l] \in P /\ Cardinality(Ahead(P, R, o[l])) = l - 1
    BY DEF Sorts
  <2>2. <<o[k], o[l]>> \in R => k - 1 < l - 1
    BY <2>1, RankGrows
  <2>3. <<o[l], o[k]>> \in R => l - 1 < k - 1
    BY <2>1, RankGrows
  <2>4. o[k] = o[l] => k - 1 = l - 1
    BY <2>1
  <2>5. o[k] = o[l] \/ <<o[k], o[l]>> \in R \/ <<o[l], o[k]>> \in R
    BY <1>2, <2>1
  <2>6. k \in Int /\ l \in Int
    OBVIOUS
  <2> QED
    BY <2>2, <2>3, <2>4, <2>5, <2>6
<1> QED
  BY <1>1, <1>3, <1>4

=============================================================================
