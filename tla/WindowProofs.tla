---------------------------- MODULE WindowProofs ----------------------------
(***************************************************************************)
(* Proofs about the window loops of the detectors: first the burst loop,   *)
(* then the scan loop that counts targets, for groups of any length, any   *)
(* window, threshold and evidence cap and any width of the timestamps.     *)
(***************************************************************************)
EXTENDS ScanWindow, TimeWindowProofs

USE MicrosAssumption

(* What holds of the edges whatever the order of the group.                *)
Edges ==
  /\ right = 1 => best.count = 0
  /\ right > 1 => /\ best.right \in 1 .. right - 1
                  /\ best.left \in 1 .. best.right
                  /\ best.count = best.right - best.left + 1

TypeInv == TypeOK /\ Edges

LEMMA TypeInit == Init => TypeInv
BY ObservationLists, ConfigRecords
   DEF Init, InitLoop, TypeInv, TypeOK, Edges

LEMMA TypeNext == TypeInv /\ [Next]_vars => TypeInv'
<1> SUFFICES ASSUME TypeInv, [Next]_vars PROVE TypeInv'
  OBVIOUS
<1> USE DEF TypeInv, TypeOK, Edges
<1>1. CASE Shrink
  BY <1>1 DEF Shrink, LeftTooOld
<1>2. CASE Score
  BY <1>2 DEF Score, Improved
<1>3. CASE Emit
  <2>1. findings' \in Seq(Finding)
    <3>1. CASE Reportable
      <4>1. right > 1
        BY <3>1, <1>3 DEF Reportable, Emit
      <4>2. best.right \in 1 .. Len(obs) /\ best.left \in 1 .. best.right
        BY <4>1
      <4>3. best.count \in Nat /\ config.cap \in Nat
        OBVIOUS
      <4>4. FindingOf(obs, best.left, best.right, best.count, config.cap)
              \in Finding
        <5> HIDE DEF TypeInv, TypeOK, Edges
        <5>1. obs \in Seq(Obs)
          BY DEF TypeInv, TypeOK
        <5> QED
          BY <4>2, <4>3, <5>1, FindingType
      <4> QED
        BY <1>3, <3>1, <4>4 DEF Emit
    <3>2. CASE ~Reportable
      BY <1>3, <3>2 DEF Emit
    <3> QED
      BY <3>1, <3>2
  <2> QED
    BY <1>3, <2>1 DEF Emit
<1>4. CASE UNCHANGED vars
  BY <1>4 DEF vars
<1> QED
  BY <1>1, <1>2, <1>3, <1>4 DEF Next

(* The window edges stay inside the group and in order, and every finding  *)
(* is well formed, even for a group that is not in time order.             *)
THEOREM TypeCorrect == Spec => []TypeOK
<1>1. TypeInv => TypeOK
  BY DEF TypeInv
<1> QED
  BY <1>1, TypeInit, TypeNext, PTL DEF Spec

----------------------------------------------------------------------------
(* From here on the groups are in time order, as in a sorted stream.       *)
SortedGroups == \A o \in Observations : TimeOrdered(o)

Answered ==
  pc = "done" =>
    /\ right = Len(obs) + 1
    /\ findings = IF Reportable
                  THEN <<FindingOf(obs, best.left, best.right, best.count,
                                   config.cap)>>
                  ELSE <<>>

(* The inductive invariant. BestSoFar alone is not inductive: that the     *)
(* window closing at right is the largest one closing there needs          *)
(* DroppedForGood, and that in turn needs the order of the group.          *)
SortedInv ==
  /\ TypeInv
  /\ TimeOrdered(obs)
  /\ DroppedForGood
  /\ BestSoFar
  /\ Answered

LEMMA WinType ==
  ASSUME TypeInv
  PROVE  Win \in Nat
BY WindowMicrosType DEF TypeInv, TypeOK, Win

LEMMA SortedInit ==
  ASSUME SortedGroups
  PROVE  Init => SortedInv
BY TypeInit DEF Init, InitLoop, SortedGroups, SortedInv, DroppedForGood,
                BestSoFar, Answered

LEMMA ShrinkKeepsDropped ==
  ASSUME SortedInv, Shrink
  PROVE  DroppedForGood'
<1> USE DEF SortedInv
<1>1. /\ left \in 1 .. Len(obs) /\ right \in 1 .. Len(obs) /\ left < right
      /\ ~InWindow(obs, Win, left, right)
  BY WinType, ObsType, MicrosDiffFacts, SMTT(20)
     DEF Shrink, LeftTooOld, InWindow, TypeInv, TypeOK
<1>2. obs \in Seq(Obs) /\ TimeOrdered(obs) /\ Win \in Nat
  BY WinType DEF TypeInv, TypeOK
<1>3. ASSUME NEW j \in right .. Len(obs), NEW i \in 1 .. left
      PROVE  ~InWindow(obs, Win, i, j)
  <2>1. CASE i < left
    BY <1>1, <2>1 DEF DroppedForGood
  <2>2. CASE i = left
    <3>1. j \in 1 .. Len(obs) /\ right <= j
      BY <1>1
    <3> QED
      BY <1>1, <1>2, <2>2, <3>1, InWindowShrinks
  <2> QED
    BY <1>1, <2>1, <2>2
<1>4. /\ obs' = obs /\ config' = config /\ right' = right
      /\ left' - 1 = left
  BY <1>1 DEF Shrink
<1>5. Win' = Win
  BY <1>4 DEF Win
<1> QED
  BY <1>3, <1>4, <1>5 DEF DroppedForGood, InWindow

LEMMA ScoreKeepsBest ==
  ASSUME SortedInv, Score
  PROVE  BestSoFar'
<1> USE DEF SortedInv
<1>1. /\ obs \in Seq(Obs) /\ TimeOrdered(obs) /\ Win \in Nat
      /\ right \in 1 .. Len(obs) /\ left \in 1 .. right
      /\ best \in [count : 0 .. Len(obs), left : Nat, right : Nat]
  BY WinType DEF TypeInv, TypeOK, Score
<1>2. InWindow(obs, Win, left, right)
  BY <1>1, ObsType, MicrosDiffFacts DEF Score, LeftTooOld, InWindow
<1>3. \A i \in 1 .. right : InWindow(obs, Win, i, right) => i >= left
  BY <1>1 DEF DroppedForGood
<1>4. /\ obs' = obs /\ config' = config /\ right' = right + 1
      /\ best' = Improved
  BY DEF Score
<1>5. Win' = Win
  BY <1>4 DEF Win
<1> DEFINE count == right - left + 1
<1>6. CASE count > best.count
  <2>1. best' = [count |-> count, left |-> left, right |-> right]
    BY <1>4, <1>6 DEF Improved
  <2>2. \A j \in 1 .. right - 1 : \A i \in 1 .. j :
          InWindow(obs, Win, i, j) => j - i + 1 < count
    <3> SUFFICES ASSUME NEW j \in 1 .. right - 1, NEW i \in 1 .. j,
                        InWindow(obs, Win, i, j)
                 PROVE  j - i + 1 < count
      OBVIOUS
    <3>1. j - i + 1 <= best.count
      BY <1>1 DEF BestSoFar
    <3> QED
      BY <1>1, <1>6, <3>1
  <2>3. \A i \in 1 .. right :
          InWindow(obs, Win, i, right) => right - i + 1 <= count
    BY <1>1, <1>3
  <2>4. \A j \in 1 .. right : \A i \in 1 .. j : InWindow(obs, Win, i, j) =>
          /\ j - i + 1 <= count
          /\ j < right => j - i + 1 < count
    BY <1>1, <2>2, <2>3
  <2> QED
    BY <1>1, <1>2, <1>4, <1>5, <2>1, <2>4 DEF BestSoFar, InWindow
<1>7. CASE ~(count > best.count)
  <2>1. best' = best
    BY <1>4, <1>7 DEF Improved
  <2>2. right > 1
    BY <1>1, <1>7 DEF TypeInv, Edges
  <2>3. \A i \in 1 .. right :
          InWindow(obs, Win, i, right) => right - i + 1 <= best.count
    BY <1>1, <1>3, <1>7
  <2>4. /\ best.right \in 1 .. right - 1
        /\ best.left \in 1 .. best.right
        /\ best.count = best.right - best.left + 1
        /\ InWindow(obs, Win, best.left, best.right)
    BY <2>2 DEF BestSoFar
  <2>5. \A j \in 1 .. right : \A i \in 1 .. j : InWindow(obs, Win, i, j) =>
          /\ j - i + 1 <= best.count
          /\ j < best.right => j - i + 1 < best.count
    BY <1>1, <2>2, <2>3, <2>4 DEF BestSoFar
  <2> QED
    BY <1>1, <1>4, <1>5, <2>1, <2>4, <2>5 DEF BestSoFar, InWindow
<1> QED
  BY <1>6, <1>7

LEMMA SortedNext == SortedInv /\ [Next]_vars => SortedInv'
<1> SUFFICES ASSUME SortedInv, [Next]_vars PROVE SortedInv'
  OBVIOUS
<1>1. TypeInv'
  BY TypeNext DEF SortedInv
<1>2. CASE Shrink
  <2>1. DroppedForGood'
    BY <1>2, ShrinkKeepsDropped
  <2> QED
    BY <1>1, <1>2, <2>1
       DEF SortedInv, Shrink, TimeOrdered, BestSoFar, Answered, Win, InWindow
<1>3. CASE Score
  <2>1. BestSoFar'
    BY <1>3, ScoreKeepsBest
  <2>2. DroppedForGood'
    BY <1>3 DEF SortedInv, Score, DroppedForGood, Win, InWindow, TypeInv, TypeOK
  <2> QED
    BY <1>1, <1>3, <2>1, <2>2 DEF SortedInv, Score, TimeOrdered, Answered
<1>4. CASE Emit
  <2>1. right = Len(obs) + 1
    BY <1>4 DEF Emit, SortedInv, TypeInv, TypeOK
  <2> QED
    BY <1>1, <1>4, <2>1 DEF SortedInv, Emit, TimeOrdered, BestSoFar,
       DroppedForGood, Answered, Reportable, Win, InWindow
<1>5. CASE UNCHANGED vars
  BY <1>1, <1>5 DEF SortedInv, vars, TimeOrdered, BestSoFar, DroppedForGood,
     Answered, Reportable, Win, InWindow
<1> QED
  BY <1>2, <1>3, <1>4, <1>5 DEF Next

(* On time-ordered groups the best window is, at every step, the first     *)
(* densest window among the observations scored so far.                    *)
THEOREM BestIsBest ==
  ASSUME SortedGroups
  PROVE  Spec => []BestSoFar
<1>1. SortedInv => BestSoFar
  BY DEF SortedInv
<1> QED
  BY <1>1, SortedInit, SortedNext, PTL DEF Spec

LEMMA AnswerMissesNothing ==
  ASSUME SortedInv
  PROVE  NoBurstMissed
<1> SUFFICES ASSUME pc = "done", NEW S \in SUBSET DOMAIN obs,
                    \A i, j \in S : InWindow(obs, Win, i, j),
                    Cardinality(S) >= config.min, config.min # 0
             PROVE  findings # <<>> /\ Cardinality(S) <= findings[1].count
  <2>1. IsFiniteSet(DOMAIN obs)
    <3>1. DOMAIN obs = 1 .. Len(obs) /\ Len(obs) \in Int
      BY DEF SortedInv, TypeInv, TypeOK
    <3> QED
      BY <3>1, FS_Interval
  <2>2. \A S \in SUBSET DOMAIN obs : Cardinality(S) \in Nat
    BY <2>1, FS_Subset, FS_CardinalityType
  <2>3. config.min \in Nat
    BY DEF SortedInv, TypeInv, TypeOK
  <2> QED
    BY <2>2, <2>3 DEF NoBurstMissed
<1> USE DEF SortedInv
<1>1. /\ DOMAIN obs = 1 .. Len(obs) /\ Len(obs) \in Nat
      /\ right = Len(obs) + 1 /\ config.min \in Nat
      /\ best.count \in 0 .. Len(obs)
  BY DEF TypeInv, TypeOK, Answered
<1>2. S # {}
  <2> SUFFICES ASSUME S = {} PROVE FALSE
    OBVIOUS
  <2>1. Cardinality(S) = 0
    BY FS_EmptySet
  <2> QED
    BY <1>1, <2>1
<1>3. PICK lo \in S : \A y \in S : lo <= y
  BY <1>1, <1>2, SmallestExists, SMTT(15)
<1>4. PICK hi \in S : \A y \in S : y <= hi
  BY <1>1, <1>2, LargestExists
<1>5. /\ lo \in 1 .. Len(obs) /\ hi \in 1 .. Len(obs) /\ lo <= hi
      /\ S \in SUBSET (lo .. hi)
  BY <1>1, <1>3, <1>4
<1>6. Cardinality(S) \in Nat /\ Cardinality(S) <= hi - lo + 1
  <2>1. IsFiniteSet(lo .. hi) /\ Cardinality(lo .. hi) = hi - lo + 1
    BY <1>5, FS_Interval
  <2> QED
    BY <1>5, <2>1, FS_Subset, FS_CardinalityType
<1>7. hi - lo + 1 <= best.count
  BY <1>1, <1>5 DEF BestSoFar
<1>8. Reportable
  BY <1>1, <1>5, <1>6, <1>7 DEF Reportable
<1>9. findings = <<FindingOf(obs, best.left, best.right, best.count,
                             config.cap)>>
  BY <1>8 DEF Answered
<1> QED
  BY <1>1, <1>5, <1>6, <1>7, <1>9 DEF FindingOf

(* No burst goes unreported: whatever observations fit one window, however *)
(* they are spread in the group, if there are enough of them the detector  *)
(* reports a window at least as dense.                                     *)
THEOREM NoneMissed ==
  ASSUME SortedGroups
  PROVE  Spec => []NoBurstMissed
<1>1. SortedInv => NoBurstMissed
  BY AnswerMissesNothing
<1> QED
  BY <1>1, SortedInit, SortedNext, PTL DEF Spec

----------------------------------------------------------------------------
(* The loop implements the abstract burst report. When it emits, best is   *)
(* the first densest window, and there is only one such window.            *)
LEMMA BestIsFirstDensest ==
  ASSUME SortedInv, right = Len(obs) + 1, obs # <<>>
  PROVE  DensestBurst(obs, Win) = <<best.left, best.right>>
<1> USE DEF SortedInv
<1> DEFINE b == <<best.left, best.right>>
<1>1. Len(obs) \in Nat \ {0} /\ DOMAIN obs = 1 .. Len(obs)
  BY DEF TypeInv, TypeOK
<1>2. /\ best.right \in 1 .. Len(obs) /\ best.left \in 1 .. best.right
      /\ best.count = best.right - best.left + 1
      /\ InWindow(obs, Win, best.left, best.right)
      /\ \A j \in 1 .. Len(obs) : \A i \in 1 .. j :
           InWindow(obs, Win, i, j) =>
             /\ j - i + 1 <= best.count
             /\ j < best.right => j - i + 1 < best.count
  BY <1>1 DEF BestSoFar
<1>3. b \in Bursts(obs, Win) /\ b[1] = best.left /\ b[2] = best.right
  BY <1>1, <1>2 DEF Bursts
<1>4. ASSUME NEW c \in Bursts(obs, Win)
      PROVE  /\ c[2] \in 1 .. Len(obs) /\ c[1] \in 1 .. c[2]
             /\ c = <<c[1], c[2]>>
             /\ c[2] - c[1] + 1 <= best.count
             /\ c[2] < best.right => c[2] - c[1] + 1 < best.count
  <2>1. /\ c[2] \in 1 .. Len(obs) /\ c[1] \in 1 .. c[2] /\ c = <<c[1], c[2]>>
        /\ InWindow(obs, Win, c[1], c[2])
    BY <1>1 DEF Bursts
  <2> QED
    BY <1>2, <2>1
<1>5. IsFirstDensest(obs, Win, b)
  <2>1. BurstSize(b) = best.count
    BY <1>2, <1>3 DEF BurstSize
  <2>2. ASSUME NEW c \in Bursts(obs, Win)
        PROVE  /\ BurstSize(c) <= BurstSize(b)
               /\ BurstSize(c) = BurstSize(b) => b[2] <= c[2]
    <3>1. BurstSize(c) <= best.count
      BY <1>4 DEF BurstSize
    <3>2. c[2] < best.right => BurstSize(c) < best.count
      BY <1>4 DEF BurstSize
    <3>3. BurstSize(c) \in Int /\ best.count \in Int /\ c[2] \in Int
          /\ best.right \in Int
      BY <1>2, <1>4, SMTT(30) DEF BurstSize
    <3> HIDE DEF b
    <3> QED
      BY <1>3, <2>1, <3>1, <3>2, <3>3
  <2> QED
    BY <1>3, <2>2 DEF IsFirstDensest
<1>6. \A c \in Bursts(obs, Win) : IsFirstDensest(obs, Win, c) => c = b
  <2> SUFFICES ASSUME NEW c \in Bursts(obs, Win), IsFirstDensest(obs, Win, c)
               PROVE  c = b
    OBVIOUS
  <2>1. BurstSize(b) <= BurstSize(c) /\ BurstSize(c) <= BurstSize(b)
    BY <1>3, <1>5 DEF IsFirstDensest
  <2>2. BurstSize(b) = BurstSize(c)
    BY <1>2, <1>3, <1>4, <2>1 DEF BurstSize
  <2>3. b[2] <= c[2] /\ c[2] <= b[2]
    BY <1>3, <1>5, <2>2 DEF IsFirstDensest
  <2>4. b[2] = c[2] /\ b[1] = c[1]
    BY <1>2, <1>3, <1>4, <2>2, <2>3, SMTT(15) DEF BurstSize
  <2> QED
    BY <1>3, <1>4, <2>4
<1> QED
  BY <1>3, <1>5, <1>6 DEF DensestBurst

(* Burst and SlidingWindow share the definitions of TimeWindow.            *)
LEMMA SameWindow ==
  ASSUME NEW s
  PROVE  Abstract!WindowMicros(s) = WindowMicros(s)
BY DEF WindowMicros, Abstract!WindowMicros

LEMMA SameTypes ==
  /\ Abstract!Obs = Obs
  /\ \A o : Abstract!TimeOrdered(o) = TimeOrdered(o)
BY DEF Obs, Abstract!Obs, Micros, Abstract!Micros, TimeOrdered,
       Abstract!TimeOrdered

LEMMA SameAnswer ==
  ASSUME NEW o, NEW win, NEW min, NEW cap
  PROVE  Abstract!BurstAnswer(o, win, min, cap) = BurstAnswer(o, win, min, cap)
BY DEF BurstAnswer, DensestBurst, IsFirstDensest, Bursts, BurstSize, InWindow,
       MicrosDiff, FindingOf, Evidence,
       Abstract!BurstAnswer, Abstract!DensestBurst, Abstract!IsFirstDensest,
       Abstract!Bursts, Abstract!BurstSize, Abstract!InWindow,
       Abstract!MicrosDiff, Abstract!FindingOf, Abstract!Evidence

LEMMA EmitReports ==
  ASSUME SortedInv, Emit
  PROVE  Abstract!Report
<1> USE DEF SortedInv
<1>1. right = Len(obs) + 1 /\ pc = "window" /\ pc' = "done"
      /\ UNCHANGED <<obs, config>>
  BY DEF Emit, TypeInv, TypeOK
<1>2. findings' = BurstAnswer(obs, Win, config.min, config.cap)
  <2>1. CASE obs = <<>>
    <3>1. best.count = 0 /\ config.min \in Nat
      BY <1>1, <2>1 DEF TypeInv, Edges, TypeOK
    <3>2. findings' = <<>>
      BY <3>1 DEF Emit, Reportable
    <3> QED
      BY <2>1, <3>2 DEF BurstAnswer
  <2>2. CASE obs # <<>>
    <3>1. DensestBurst(obs, Win) = <<best.left, best.right>>
      BY <1>1, <2>2, BestIsFirstDensest
    <3>2. best.count = best.right - best.left + 1
      BY <1>1, <2>2 DEF BestSoFar, TypeInv, TypeOK
    <3> QED
      BY <2>2, <3>1, <3>2 DEF Emit, Reportable, BurstAnswer, BurstSize
  <2> QED
    BY <2>1, <2>2
<1> QED
  BY <1>1, <1>2, SameWindow, SameAnswer DEF Abstract!Report, Win

(* The detector's loop implements Burst: its steps before the answer are   *)
(* invisible, and its answer is the abstract one.                          *)
THEOREM RefinesBurst ==
  ASSUME SortedGroups
  PROVE  Spec => Abstract!Spec
<1>1. Init => Abstract!Init
  <2> SUFFICES ASSUME Init PROVE Abstract!Init
    OBVIOUS
  <2>1. obs \in Seq(Obs) /\ config \in [seconds : Int, min : Nat, cap : Nat]
    BY ObservationLists, ConfigRecords DEF Init
  <2> QED
    BY <2>1, SameTypes DEF Init, InitLoop, SortedGroups, Abstract!Init
<1>2. SortedInv /\ [Next]_vars => [Abstract!Report]_(Abstract!vars)
  <2> SUFFICES ASSUME SortedInv, [Next]_vars
               PROVE  [Abstract!Report]_(Abstract!vars)
    OBVIOUS
  <2>1. CASE Shrink
    BY <2>1 DEF Shrink, Abstract!vars
  <2>2. CASE Score
    BY <2>2 DEF Score, Abstract!vars
  <2>3. CASE Emit
    BY <2>3, EmitReports
  <2>4. CASE UNCHANGED vars
    BY <2>4 DEF vars, Abstract!vars
  <2> QED
    BY <2>1, <2>2, <2>3, <2>4 DEF Next
<1> QED
  BY <1>1, <1>2, SortedInit, SortedNext, PTL DEF Spec, Abstract!Spec

----------------------------------------------------------------------------
(***************************************************************************)
(* The scan loop.                                                          *)
(***************************************************************************)

(* The occurrences of target t among the observations S.                   *)
Hits(S, t) == {k \in S : targets[k] = t}

(* What the loop is bound to whatever the order of the group: once an      *)
(* observation is scored, best stands for a window of the scored ones and  *)
(* the number of targets it touches.                                       *)
ScanEdges ==
  /\ pc = "enter" /\ right > 1 => left < right
  /\ right = 1 => best.count = 0
  /\ right > 1 => /\ best.right \in 1 .. right - 1
                  /\ best.left \in 1 .. best.right

ScanTypeInv == ScanTypeOK /\ ScanEdges /\ FreqExact

(***************************************************************************)
(* The contents of the window.                                             *)
(***************************************************************************)

(* An interval's occurrences of a target are finitely many, and none only  *)
(* if the interval does not touch the target.                              *)
LEMMA HitsCount ==
  ASSUME NEW a \in Int, NEW b \in Int, NEW t
  PROVE  /\ IsFiniteSet(Hits(a .. b, t))
         /\ Cardinality(Hits(a .. b, t)) \in Nat
         /\ t \in TargetsOf(a .. b) <=> Cardinality(Hits(a .. b, t)) # 0
<1>1. IsFiniteSet(a .. b) /\ Hits(a .. b, t) \subseteq a .. b
  BY FS_Interval DEF Hits
<1>2. IsFiniteSet(Hits(a .. b, t))
  BY <1>1, FS_Subset
<1>3. t \in TargetsOf(a .. b) <=> Hits(a .. b, t) # {}
  BY DEF TargetsOf, Hits
<1> QED
  BY <1>2, <1>3, FS_CardinalityType, FS_EmptySet

(* Taking one more observation in at the right edge adds an occurrence of  *)
(* its target and of no other.                                             *)
LEMMA HitsGrow ==
  ASSUME NEW a \in Int, NEW b \in Int, a <= b, NEW t
  PROVE  Cardinality(Hits(a .. b, t)) =
           Cardinality(Hits(a .. b - 1, t)) + (IF targets[b] = t THEN 1 ELSE 0)
<1>1. a .. b = (a .. b - 1) \cup {b} /\ b \notin a .. b - 1
  OBVIOUS
<1>2. /\ IsFiniteSet(Hits(a .. b - 1, t))
      /\ Cardinality(Hits(a .. b - 1, t)) \in Nat
  BY HitsCount
<1>3. CASE targets[b] = t
  <2>1. /\ Hits(a .. b, t) = Hits(a .. b - 1, t) \cup {b}
        /\ b \notin Hits(a .. b - 1, t)
    BY <1>1, <1>3 DEF Hits
  <2> QED
    BY <1>2, <1>3, <2>1, FS_AddElement
<1>4. CASE targets[b] # t
  <2>1. Hits(a .. b, t) = Hits(a .. b - 1, t)
    BY <1>1, <1>4 DEF Hits
  <2> QED
    BY <1>2, <1>4, <2>1
<1> QED
  BY <1>3, <1>4

(* Dropping the observation at the left edge takes an occurrence of its    *)
(* target away and of no other.                                            *)
LEMMA HitsShrink ==
  ASSUME NEW a \in Int, NEW b \in Int, a <= b, NEW t
  PROVE  Cardinality(Hits(a + 1 .. b, t)) =
           Cardinality(Hits(a .. b, t)) - (IF targets[a] = t THEN 1 ELSE 0)
<1>1. a .. b = (a + 1 .. b) \cup {a} /\ a \notin a + 1 .. b
  OBVIOUS
<1>2. /\ IsFiniteSet(Hits(a + 1 .. b, t))
      /\ Cardinality(Hits(a + 1 .. b, t)) \in Nat
  BY HitsCount
<1>3. CASE targets[a] = t
  <2>1. /\ Hits(a .. b, t) = Hits(a + 1 .. b, t) \cup {a}
        /\ a \notin Hits(a + 1 .. b, t)
    BY <1>1, <1>3 DEF Hits
  <2>2. Cardinality(Hits(a .. b, t)) = Cardinality(Hits(a + 1 .. b, t)) + 1
    BY <1>2, <2>1, FS_AddElement
  <2> QED
    BY <1>2, <1>3, <2>2
<1>4. CASE targets[a] # t
  <2>1. Hits(a .. b, t) = Hits(a + 1 .. b, t)
    BY <1>1, <1>4 DEF Hits
  <2> QED
    BY <1>2, <1>4, <2>1
<1> QED
  BY <1>3, <1>4

(* Bag B counts the occurrences among the observations S, target by target. *)
CountsHits(B, S) ==
  /\ \A t : t \in BagToSet(B) <=> Cardinality(Hits(S, t)) # 0
  /\ \A t \in BagToSet(B) : B[t] = Cardinality(Hits(S, t))

LEMMA FreqByTarget ==
  left \in Int /\ Edge \in Int =>
    (FreqExact <=> CountsHits(freq, left .. Edge))
<1> SUFFICES ASSUME left \in Int, Edge \in Int
             PROVE  FreqExact <=> CountsHits(freq, left .. Edge)
  OBVIOUS
<1>1. \A t : t \in TargetsOf(left .. Edge) <=>
               Cardinality(Hits(left .. Edge, t)) # 0
  BY HitsCount
<1> QED
  BY <1>1 DEF FreqExact, CountsHits, Hits

LEMMA EnterKeepsFreq ==
  ASSUME ScanTypeInv, Enter
  PROVE  FreqExact' /\ IsABag(freq')
<1> USE DEF ScanTypeInv, ScanTypeOK, ScanEdges
<1> DEFINE r == right  t0 == targets[right]
<1>1. /\ left \in Int /\ right - 1 \in Int /\ right \in Int /\ left <= right
  BY DEF Enter
<1>2. CountsHits(freq, left .. right - 1)
  <2>1. Edge = right - 1
    BY DEF Enter, Edge
  <2> QED
    BY <1>1, <2>1, FreqByTarget
<1>3. \A t : /\ Cardinality(Hits(left .. right - 1, t)) \in Nat
             /\ Cardinality(Hits(left .. right, t)) =
                  Cardinality(Hits(left .. right - 1, t))
                    + (IF t0 = t THEN 1 ELSE 0)
  BY <1>1, HitsCount, HitsGrow
<1>4. /\ BagToSet(freq') = BagToSet(freq) \cup {t0}
      /\ \A t \in BagToSet(freq') :
           freq'[t] = (IF t \in BagToSet(freq) THEN freq[t] ELSE 0)
                        + (IF t = t0 THEN 1 ELSE 0)
  BY DEF Enter, (+), SetToBag, BagToSet
<1>5. CountsHits(freq', left .. right)
  BY <1>2, <1>3, <1>4, SMTT(15) DEF CountsHits
<1>6. FreqExact'
  <2>1. left' = left /\ targets' = targets /\ Edge' = right
    BY DEF Enter, Edge
  <2>2. CountsHits(freq, left .. Edge)'
    BY <1>5, <2>1, ZenonT(30) DEF CountsHits, Hits
  <2>3. (left \in Int /\ Edge \in Int)'
    BY <1>1, <2>1
  <2> QED
    BY <2>2, <2>3, FreqByTarget, PTL
<1>7. \A t \in BagToSet(freq') : freq'[t] \in {n \in Nat : n > 0}
  BY <1>3, <1>5, SMTT(20) DEF CountsHits
<1>8. freq' = [t \in DOMAIN freq' |-> freq'[t]]
  BY DEF Enter, (+)
<1> QED
  BY <1>6, <1>7, <1>8 DEF IsABag, BagToSet

LEMMA ShrinkKeepsFreq ==
  ASSUME ScanTypeInv, ScanShrink
  PROVE  FreqExact' /\ IsABag(freq')
<1> USE DEF ScanTypeInv, ScanTypeOK, ScanEdges
<1> DEFINE t0 == targets[left]
<1>1. left \in Int /\ right \in Int /\ left <= right /\ left + 1 \in Int
  BY DEF ScanShrink, Shrink, LeftTooOld
<1>2. CountsHits(freq, left .. right)
  <2>1. Edge = right
    BY DEF ScanShrink, Shrink, Edge
  <2> QED
    BY <1>1, <2>1, FreqByTarget
<1>3. \A t : /\ Cardinality(Hits(left + 1 .. right, t)) \in Nat
             /\ Cardinality(Hits(left .. right, t)) \in Nat
             /\ Cardinality(Hits(left + 1 .. right, t)) =
                  Cardinality(Hits(left .. right, t))
                    - (IF t0 = t THEN 1 ELSE 0)
  BY <1>1, HitsCount, HitsShrink
<1>4. /\ BagToSet(freq') =
           {t \in BagToSet(freq) : freq[t] - (IF t = t0 THEN 1 ELSE 0) > 0}
      /\ \A t \in BagToSet(freq') :
           freq'[t] = freq[t] - (IF t = t0 THEN 1 ELSE 0)
  <2>1. \A t \in BagToSet(freq) : freq[t] \in Nat
    BY <1>2, <1>3 DEF CountsHits
  <2> QED
    BY <2>1 DEF ScanShrink, Shrink, Leave, (-), SetToBag, BagToSet
<1>5. CountsHits(freq', left + 1 .. right)
  <2>1. ASSUME NEW t, t \in BagToSet(freq)
        PROVE  freq[t] = Cardinality(Hits(left .. right, t))
    BY <1>2, <2>1 DEF CountsHits
  <2>2. ASSUME NEW t
        PROVE  t \in BagToSet(freq') <=>
                 Cardinality(Hits(left + 1 .. right, t)) # 0
    <3>1. CASE t \in BagToSet(freq)
      BY <1>3, <1>4, <2>1, <3>1, SMTT(20)
    <3>2. CASE t \notin BagToSet(freq)
      BY <1>2, <1>3, <1>4, <3>2, SMTT(20) DEF CountsHits
    <3> QED
      BY <3>1, <3>2
  <2>3. ASSUME NEW t \in BagToSet(freq')
        PROVE  freq'[t] = Cardinality(Hits(left + 1 .. right, t))
    <3>1. t \in BagToSet(freq) /\ freq'[t] = freq[t] - (IF t = t0 THEN 1 ELSE 0)
      BY <1>4
    <3>2. freq[t] = Cardinality(Hits(left .. right, t))
      BY <2>1, <3>1
    <3> QED
      BY <1>3, <3>1, <3>2
  <2> QED
    BY <2>2, <2>3 DEF CountsHits
<1>6. FreqExact'
  <2>1. left' = left + 1 /\ targets' = targets /\ Edge' = right
    BY DEF ScanShrink, Shrink, Edge
  <2>2. CountsHits(freq, left .. Edge)'
    <3>1. \A t : Hits(left .. Edge, t)' = Hits(left + 1 .. right, t)
      BY <2>1 DEF Hits
    <3> QED
      BY <1>5, <3>1 DEF CountsHits
  <2>3. (left \in Int /\ Edge \in Int)'
    BY <1>1, <2>1
  <2> QED
    BY <2>2, <2>3, FreqByTarget, PTL
<1>7. \A t \in BagToSet(freq') : freq'[t] \in {n \in Nat : n > 0}
  BY <1>3, <1>5 DEF CountsHits
<1>8. freq' = [t \in DOMAIN freq' |-> freq'[t]]
  BY DEF ScanShrink, Shrink, Leave, (-)
<1> QED
  BY <1>6, <1>7, <1>8 DEF IsABag, BagToSet

(* An interval touches finitely many targets, and some unless it is empty. *)
LEMMA TargetsCount ==
  ASSUME NEW a \in Int, NEW b \in Int
  PROVE  /\ IsFiniteSet(TargetsOf(a .. b))
         /\ Cardinality(TargetsOf(a .. b)) \in Nat
         /\ a <= b => Cardinality(TargetsOf(a .. b)) > 0
<1> DEFINE f == [k \in a .. b |-> targets[k]]
<1>1. IsFiniteSet(a .. b)
  BY FS_Interval
<1>2. f \in Surjection(a .. b, TargetsOf(a .. b))
  BY DEF Surjection, TargetsOf
<1>3. IsFiniteSet(TargetsOf(a .. b))
  BY <1>1, <1>2, FS_Surjection
<1>4. Cardinality(TargetsOf(a .. b)) \in Nat
  BY <1>3, FS_CardinalityType
<1>5. ASSUME a <= b PROVE Cardinality(TargetsOf(a .. b)) # 0
  <2>1. targets[a] \in TargetsOf(a .. b)
    BY <1>5 DEF TargetsOf
  <2> QED
    BY <1>3, <2>1, FS_EmptySet
<1> QED
  BY <1>3, <1>4, <1>5

LEMMA DistinctTargets ==
  ASSUME ScanTypeInv, ScanScore
  PROVE  /\ left \in 1 .. right /\ right \in 1 .. Len(obs)
         /\ Distinct = Cardinality(TargetsOf(left .. right))
         /\ Distinct \in Nat \ {0}
<1>1. /\ left \in 1 .. right /\ right \in 1 .. Len(obs)
      /\ left \in Int /\ right \in Int /\ left <= right
  BY DEF ScanTypeInv, ScanTypeOK, ScanScore
<1>2. BagToSet(freq) = TargetsOf(left .. right)
  BY DEF ScanTypeInv, FreqExact, Edge, ScanScore
<1>3. Cardinality(TargetsOf(left .. right)) \in Nat \ {0}
  <2>1. PICK a \in Int, b \in Int : a = left /\ b = right /\ a <= b
    BY <1>1
  <2>2. Cardinality(TargetsOf(a .. b)) \in Nat /\ Cardinality(TargetsOf(a .. b)) > 0
    BY <2>1, TargetsCount
  <2> QED
    BY <2>1, <2>2
<1> QED
  BY <1>1, <1>2, <1>3 DEF Distinct

LEMMA ScanTypeInit == ScanInit => ScanTypeInv
<1> SUFFICES ASSUME ScanInit PROVE ScanTypeInv
  OBVIOUS
<1>1. ScanTypeOK /\ ScanEdges
  <2>1. obs \in Seq(Obs) /\ targets \in [DOMAIN obs -> Targets]
    BY ObservationLists DEF ScanInit
  <2>2. config \in [seconds : Int, min : Nat, cap : Nat]
    BY ConfigRecords DEF ScanInit
  <2>3. IsABag(freq)
    BY DEF ScanInit, EmptyBag, SetToBag, IsABag
  <2> QED
    BY <2>1, <2>2, <2>3 DEF ScanInit, ScanTypeOK, ScanEdges
<1>2. FreqExact
  <2>1. BagToSet(freq) = {}
    BY DEF ScanInit, EmptyBag, SetToBag, BagToSet
  <2>2. left .. Edge = {}
    BY DEF ScanInit, Edge
  <2>3. TargetsOf({}) = {}
    BY DEF TargetsOf
  <2> QED
    BY <2>1, <2>2, <2>3 DEF FreqExact
<1> QED
  BY <1>1, <1>2 DEF ScanTypeInv

LEMMA ScanTypeNext == ScanTypeInv /\ [ScanNext]_scanVars => ScanTypeInv'
<1> SUFFICES ASSUME ScanTypeInv, [ScanNext]_scanVars PROVE ScanTypeInv'
  OBVIOUS
<1> USE DEF ScanTypeInv
<1>1. CASE Enter
  <2>1. FreqExact' /\ IsABag(freq')
    BY <1>1, EnterKeepsFreq
  <2> QED
    BY <1>1, <2>1 DEF Enter, ScanTypeOK, ScanEdges
<1>2. CASE ScanShrink
  <2>1. FreqExact' /\ IsABag(freq')
    BY <1>2, ShrinkKeepsFreq
  <2> QED
    BY <1>2, <2>1 DEF ScanShrink, Shrink, LeftTooOld, ScanTypeOK, ScanEdges
<1>3. CASE ScanScore
  <2>1. Distinct \in Nat \ {0}
    BY <1>3, DistinctTargets
  <2>2. FreqExact'
    <3>1. /\ Edge' = Edge /\ UNCHANGED <<left, targets, freq>>
      BY <1>3 DEF ScanScore, Edge, ScanTypeOK
    <3> QED
      BY <3>1 DEF FreqExact, TargetsOf
  <2>3. IsABag(freq')
    BY <1>3 DEF ScanScore, ScanTypeOK
  <2> QED
    BY <1>3, <2>1, <2>2, <2>3 DEF ScanScore, ScanTypeOK, ScanEdges
<1>4. CASE ScanEmit
  <2>1. findings' \in Seq(Finding) /\ Len(findings') <= 1
    <3>1. CASE Reportable
      <4>1. right > 1
        BY <1>4, <3>1 DEF ScanEmit, Reportable, ScanTypeOK, ScanEdges
      <4>2. best.right \in 1 .. Len(obs) /\ best.left \in 1 .. best.right
        BY <4>1 DEF ScanTypeOK, ScanEdges
      <4>3. best.count \in Nat /\ config.cap \in Nat /\ obs \in Seq(Obs)
        BY DEF ScanTypeOK
      <4>4. FindingOf(obs, best.left, best.right, best.count, config.cap)
              \in Finding
        BY <4>2, <4>3, FindingType
      <4> QED
        BY <1>4, <3>1, <4>4 DEF ScanEmit, Reportable
    <3>2. CASE ~Reportable
      BY <1>4, <3>2 DEF ScanEmit, Reportable
    <3> QED
      BY <3>1, <3>2
  <2>2. FreqExact'
    <3>1. /\ Edge' = Edge /\ UNCHANGED <<left, targets, freq>>
      BY <1>4 DEF ScanEmit, Edge
    <3> QED
      BY <3>1 DEF FreqExact, TargetsOf
  <2>3. IsABag(freq')
    BY <1>4 DEF ScanEmit, ScanTypeOK
  <2> QED
    BY <1>4, <2>1, <2>2, <2>3 DEF ScanEmit, Reportable, ScanTypeOK, ScanEdges
<1>5. CASE UNCHANGED scanVars
  <2>1. FreqExact' /\ IsABag(freq')
    BY <1>5, ZenonT(30) DEF scanVars, vars, FreqExact, TargetsOf, Edge, ScanTypeOK
  <2> QED
    BY <1>5, <2>1 DEF scanVars, vars, ScanTypeOK, ScanEdges
<1> QED
  BY <1>1, <1>2, <1>3, <1>4, <1>5 DEF ScanNext

(* The window edges stay inside the group and in order, the counting map   *)
(* holds positive counts only, and the finding is well formed, even for a  *)
(* group that is not in time order.                                        *)
THEOREM ScanTypeCorrect == ScanSpec => []ScanTypeOK
<1>1. ScanTypeInv => ScanTypeOK
  BY DEF ScanTypeInv
<1> QED
  BY <1>1, ScanTypeInit, ScanTypeNext, PTL DEF ScanSpec

(* The counting map is, at every step, exactly the contents of the window: *)
(* no target lingers after its last occurrence has left, none is lost      *)
(* while an occurrence stays. The order of the group does not matter.      *)
THEOREM MapIsWindow == ScanSpec => []FreqExact
<1>1. ScanTypeInv => FreqExact
  BY DEF ScanTypeInv
<1> QED
  BY <1>1, ScanTypeInit, ScanTypeNext, PTL DEF ScanSpec

----------------------------------------------------------------------------
(* best is the first window with the most targets among those that close   *)
(* at an observation already scored.                                       *)
BestScanSoFar ==
  right > 1 =>
    /\ best.left = WidestFrom(obs, Win, best.right)
    /\ best.count = Touched(obs, targets, Win, best.right)
    /\ \A j \in 1 .. right - 1 :
         /\ Touched(obs, targets, Win, j) <= best.count
         /\ j < best.right => Touched(obs, targets, Win, j) < best.count

(* The inductive invariant: that the window closing at right is the widest *)
(* one closing there needs DroppedForGood, that its targets are the keys   *)
(* of the map needs FreqExact, a part of ScanTypeInv.                          *)
ScanSortedInv ==
  /\ ScanTypeInv
  /\ TimeOrdered(obs)
  /\ DroppedForGood
  /\ BestScanSoFar
  /\ ScanAnswered

LEMMA ScanWinType ==
  ASSUME ScanTypeInv
  PROVE  Win \in Nat
BY WindowMicrosType DEF ScanTypeInv, ScanTypeOK, Win

LEMMA TouchedType ==
  ASSUME ScanTypeInv, NEW j \in 1 .. Len(obs)
  PROVE  Touched(obs, targets, Win, j) \in Nat
<1>1. obs \in Seq(Obs) /\ Win \in Nat
  BY ScanWinType DEF ScanTypeInv, ScanTypeOK
<1>2. WidestFrom(obs, Win, j) \in Int /\ j \in Int
  BY <1>1, WidestType
<1> QED
  BY <1>2, TargetsCount DEF Touched, TargetsOf

LEMMA ScanSortedInit ==
  ASSUME SortedGroups
  PROVE  ScanInit => ScanSortedInv
<1> SUFFICES ASSUME ScanInit PROVE ScanSortedInv
  OBVIOUS
<1>1. TimeOrdered(obs)
  BY DEF ScanInit, SortedGroups
<1>2. DroppedForGood /\ BestScanSoFar /\ ScanAnswered
  BY DEF ScanInit, DroppedForGood, BestScanSoFar, ScanAnswered
<1> QED
  BY <1>1, <1>2, ScanTypeInit DEF ScanSortedInv

LEMMA ScanKeepsDropped ==
  ASSUME ScanSortedInv, ScanShrink
  PROVE  DroppedForGood'
<1> USE DEF ScanSortedInv
<1>1. /\ left \in 1 .. Len(obs) /\ right \in 1 .. Len(obs) /\ left < right
      /\ ~InWindow(obs, Win, left, right)
  BY ScanWinType, ObsType, MicrosDiffFacts, SMTT(20)
     DEF ScanShrink, Shrink, LeftTooOld, InWindow, ScanTypeInv, ScanTypeOK
<1>2. obs \in Seq(Obs) /\ TimeOrdered(obs) /\ Win \in Nat
  BY ScanWinType DEF ScanTypeInv, ScanTypeOK
<1>3. ASSUME NEW j \in right .. Len(obs), NEW i \in 1 .. left
      PROVE  ~InWindow(obs, Win, i, j)
  <2>1. CASE i < left
    BY <1>1, <2>1 DEF DroppedForGood
  <2>2. CASE i = left
    <3>1. j \in 1 .. Len(obs) /\ right <= j
      BY <1>1
    <3> QED
      BY <1>1, <1>2, <2>2, <3>1, InWindowShrinks
  <2> QED
    BY <1>1, <2>1, <2>2
<1>4. /\ obs' = obs /\ config' = config /\ right' = right
      /\ left' - 1 = left
  BY <1>1 DEF ScanShrink, Shrink
<1>5. Win' = Win
  BY <1>4 DEF Win
<1> QED
  BY <1>3, <1>4, <1>5 DEF DroppedForGood, InWindow

(* When an observation is scored, the window is the widest one closing     *)
(* there and the map holds exactly its targets.                            *)
LEMMA ScoresWidest ==
  ASSUME ScanSortedInv, ScanScore
  PROVE  /\ WidestFrom(obs, Win, right) = left
         /\ Touched(obs, targets, Win, right) = Distinct
<1> USE DEF ScanSortedInv
<1>1. /\ obs \in Seq(Obs) /\ Win \in Nat
      /\ right \in 1 .. Len(obs) /\ left \in 1 .. right /\ right \in Nat
  BY ScanWinType DEF ScanTypeInv, ScanTypeOK, ScanScore
<1>2. InWindow(obs, Win, left, right)
  BY <1>1, ObsType, MicrosDiffFacts DEF ScanScore, LeftTooOld, InWindow
<1>3. \A k \in 1 .. left - 1 : ~InWindow(obs, Win, k, right)
  BY <1>1 DEF DroppedForGood
<1>4. WidestFrom(obs, Win, right) = left
  BY <1>1, <1>2, <1>3, WidestIs
<1> QED
  BY <1>4, DistinctTargets DEF Touched, TargetsOf

LEMMA ScanKeepsBest ==
  ASSUME ScanSortedInv, ScanScore
  PROVE  BestScanSoFar'
<1> USE DEF ScanSortedInv
<1>1. /\ right \in 1 .. Len(obs) /\ right \in Nat
      /\ Distinct \in Nat \ {0} /\ best.count \in Nat
  BY DistinctTargets DEF ScanTypeInv, ScanTypeOK
<1> DEFINE T(j) == Touched(obs, targets, Win, j)
<1>2. T(right) = Distinct /\ WidestFrom(obs, Win, right) = left
  BY ScoresWidest
<1>3. /\ obs' = obs /\ targets' = targets /\ Win' = Win
      /\ right' = right + 1
  BY DEF ScanScore, Win
<1> SUFFICES /\ best'.left = WidestFrom(obs, Win, best'.right)
             /\ best'.count = T(best'.right)
             /\ \A j \in 1 .. right :
                  /\ T(j) <= best'.count
                  /\ j < best'.right => T(j) < best'.count
  BY <1>1, <1>3 DEF BestScanSoFar
<1>4. right > 1 =>
        /\ best.left = WidestFrom(obs, Win, best.right)
        /\ best.count = T(best.right)
        /\ best.right \in 1 .. right - 1
        /\ \A j \in 1 .. right - 1 :
             /\ T(j) <= best.count
             /\ j < best.right => T(j) < best.count
  BY DEF BestScanSoFar, ScanTypeInv, ScanEdges
<1>5. \A j \in 1 .. right - 1 : T(j) \in Nat
  BY <1>1, TouchedType
<1> HIDE DEF T
<1>6. CASE Distinct > best.count
  <2>1. /\ best'.count = Distinct /\ best'.left = left
        /\ best'.right = right
    BY <1>6 DEF ScanScore
  <2>2. \A j \in 1 .. right - 1 : T(j) < Distinct
    BY <1>1, <1>4, <1>6, <1>5
  <2>3. \A j \in 1 .. right : T(j) <= Distinct
    BY <1>1, <1>2, <1>5, <2>2
  <2> QED
    BY <1>1, <1>2, <2>1, <2>2, <2>3
<1>7. CASE ~(Distinct > best.count)
  <2>1. best' = best /\ right > 1
    BY <1>1, <1>7 DEF ScanScore, ScanTypeInv, ScanEdges
  <2> QED
    BY <1>1, <1>2, <1>4, <1>7, <2>1
<1> QED
  BY <1>6, <1>7

(* When the loop is over, best is the window ScanAnswer asks for: there is *)
(* only one first window with the most targets.                            *)
LEMMA ScanEmitAnswers ==
  ASSUME ScanSortedInv, ScanEmit
  PROVE  findings' = ScanAnswer(obs, targets, Win, config.min, config.cap)
<1> USE DEF ScanSortedInv
<1>1. /\ right = Len(obs) + 1 /\ obs \in Seq(Obs) /\ Len(obs) \in Nat
      /\ best.count \in Nat /\ config.min \in Nat
  <2>1. /\ obs \in Seq(Obs) /\ right \in 1 .. Len(obs) + 1 /\ right > Len(obs)
        /\ best \in [count : Nat, left : Nat, right : Nat]
        /\ config \in [seconds : Int, min : Nat, cap : Nat]
    BY DEF ScanEmit, ScanTypeInv, ScanTypeOK
  <2>2. Len(obs) \in Nat
    BY <2>1
  <2> QED
    BY <2>1, <2>2
<1> DEFINE T(j) == Touched(obs, targets, Win, j)
           Most(j) == \A k \in DOMAIN obs : /\ T(k) <= T(j)
                                            /\ k < j => T(k) < T(j)
<1>2. CASE obs = <<>>
  <2>1. best.count = 0
    BY <1>1, <1>2 DEF ScanTypeInv, ScanEdges
  <2>2. findings' = <<>>
    BY <1>1, <2>1 DEF ScanEmit, Reportable
  <2> QED
    BY <1>2, <2>2 DEF ScanAnswer
<1>3. CASE obs # <<>>
  <2>1. /\ DOMAIN obs = 1 .. Len(obs) /\ right > 1
        /\ best.right \in DOMAIN obs
        /\ best.left = WidestFrom(obs, Win, best.right)
        /\ best.count = T(best.right)
        /\ \A j \in DOMAIN obs :
             /\ T(j) <= best.count
             /\ j < best.right => T(j) < best.count
    BY <1>1, <1>3 DEF BestScanSoFar, ScanTypeInv, ScanEdges
  <2>2. \A j \in DOMAIN obs : T(j) \in Nat
    BY <2>1, TouchedType
  <2>3. (CHOOSE j \in DOMAIN obs : Most(j)) = best.right
    <3> HIDE DEF T
    <3>1. Most(best.right)
      BY <2>1
    <3>2. ASSUME NEW j \in DOMAIN obs, Most(j)
          PROVE  j = best.right
      <4>1. T(best.right) <= T(j) /\ T(j) <= T(best.right)
        BY <2>1, <3>2
      <4>2. T(best.right) = T(j)
        BY <2>1, <2>2, <4>1
      <4>3. ~(j < best.right)
        BY <2>1, <2>2, <4>2
      <4>4. ~(best.right < j)
        BY <2>1, <2>2, <3>2, <4>2
      <4> QED
        BY <2>1, <4>3, <4>4
    <3> QED
      BY <2>1, <3>1, <3>2
  <2> QED
    BY <1>3, <2>1, <2>3 DEF ScanAnswer, ScanEmit, Reportable
<1> QED
  BY <1>2, <1>3

LEMMA ScanSortedNext == ScanSortedInv /\ [ScanNext]_scanVars => ScanSortedInv'
<1> SUFFICES ASSUME ScanSortedInv, [ScanNext]_scanVars PROVE ScanSortedInv'
  OBVIOUS
<1>1. ScanTypeInv'
  BY ScanTypeNext DEF ScanSortedInv
<1>2. CASE Enter
  BY <1>1, <1>2
     DEF ScanSortedInv, Enter, TimeOrdered, DroppedForGood, BestScanSoFar,
         ScanAnswered, Win
<1>3. CASE ScanShrink
  <2>1. DroppedForGood'
    BY <1>3, ScanKeepsDropped
  <2> QED
    BY <1>1, <1>3, <2>1
       DEF ScanSortedInv, ScanShrink, Shrink, TimeOrdered, BestScanSoFar, ScanAnswered, Win
<1>4. CASE ScanScore
  <2>1. BestScanSoFar'
    BY <1>4, ScanKeepsBest
  <2>2. DroppedForGood'
    BY <1>4 DEF ScanSortedInv, ScanScore, DroppedForGood, Win, ScanTypeInv, ScanTypeOK
  <2> QED
    BY <1>1, <1>4, <2>1, <2>2
       DEF ScanSortedInv, ScanScore, TimeOrdered, ScanAnswered
<1>5. CASE ScanEmit
  <2>1. findings' = ScanAnswer(obs, targets, Win, config.min, config.cap)
    BY <1>5, ScanEmitAnswers
  <2> QED
    BY <1>1, <1>5, <2>1
       DEF ScanSortedInv, ScanEmit, TimeOrdered, DroppedForGood, BestScanSoFar,
           ScanAnswered, Win
<1>6. CASE UNCHANGED scanVars
  BY <1>1, <1>6
     DEF ScanSortedInv, scanVars, vars, TimeOrdered, DroppedForGood, BestScanSoFar,
         ScanAnswered, Win
<1> QED
  BY <1>2, <1>3, <1>4, <1>5, <1>6 DEF ScanNext

(* On time-ordered groups the loop answers with the first of the windows   *)
(* that touch the most targets, reports exactly how many they are and      *)
(* stays silent only below the threshold.                                  *)
THEOREM ScanAnswers ==
  ASSUME SortedGroups
  PROVE  ScanSpec => []ScanAnswered
<1>1. ScanSortedInv => ScanAnswered
  BY DEF ScanSortedInv
<1> QED
  BY <1>1, ScanSortedInit, ScanSortedNext, PTL DEF ScanSpec

=============================================================================
