--------------------------- MODULE SlidingWindow ----------------------------
(***************************************************************************)
(* The two-pointer window of the burst detectors, one action per loop      *)
(* step. detect_auth_bruteforce, detect_http_error_bursts and              *)
(* detect_severity_spikes hold the same loop over one group of             *)
(* observations (one actor's failures, one client's error responses, all   *)
(* error-or-worse events); the lines mapped are those of the first.        *)
(***************************************************************************)
EXTENDS TimeWindow, FiniteSets

CONSTANTS
  Observations,   \* the groups the loop may be given: sequences of Obs
  Configs         \* [seconds, min, cap]: window, threshold, evidence_cap

ASSUME ObservationLists == \A o \in Observations : o \in Seq(Obs)

ASSUME ConfigRecords ==
  \A c \in Configs : c \in [seconds : Int, min : Nat, cap : Nat]

VARIABLES
  obs,       \* fails: the group, in stream order
  config,    \* the DetectionConfig fields the loop reads
  left,      \* left edge of the window
  right,     \* right edge, Len(obs) + 1 once the for loop is over
  best,      \* best_count, best_left, best_right
  findings,  \* the findings pushed
  pc         \* "window" while the loops run, then "done"

vars == <<obs, config, left, right, best, findings, pc>>

Win == WindowMicros(config.seconds)

----------------------------------------------------------------------------
InitLoop ==
  /\ left = 1
  /\ right = 1
  /\ best = [count |-> 0, left |-> 1, right |-> 1]
  /\ findings = <<>>
  /\ pc = "window"

Init ==
  /\ obs \in Observations
  /\ config \in Configs
  /\ InitLoop

LeftTooOld ==
  /\ left < right
  /\ MicrosDiff(obs[right].micros, obs[left].micros) > Win

Shrink ==
  /\ pc = "window"
  /\ right <= Len(obs)
  /\ LeftTooOld
  /\ left' = left + 1
  /\ UNCHANGED <<obs, config, right, best, findings, pc>>

(* A slip: a later window as large as the best one replaces it.            *)
ImprovedByTie ==
  LET count == right - left + 1
  IN  IF count >= best.count
      THEN [count |-> count, left |-> left, right |-> right]
      ELSE best

(* A slip: one too many, the right edge taken for past the end.            *)
ImprovedPastEnd ==
  LET count == right - left + 2
  IN  IF count > best.count
      THEN [count |-> count, left |-> left, right |-> right]
      ELSE best

(* The window that closes at right, if it holds strictly more than best.   *)
Improved ==
  LET count == right - left + 1
  IN  IF count > best.count
      THEN [count |-> count, left |-> left, right |-> right]
      ELSE best

Score ==
  /\ pc = "window"
  /\ right <= Len(obs)
  /\ ~LeftTooOld
  /\ best' = Improved
  /\ right' = right + 1
  /\ UNCHANGED <<obs, config, left, findings, pc>>

(* A slip: the threshold has to be exceeded.                               *)
ReportableAbove == config.min > 0 /\ best.count > config.min

(* The threshold test and the finding. An empty group is skipped by the    *)
(* code before the loop: it leaves best.count at 0 and reports nothing.    *)
Reportable == config.min > 0 /\ best.count >= config.min

Emit ==
  /\ pc = "window"
  /\ right > Len(obs)
  /\ findings' = IF Reportable
                 THEN <<FindingOf(obs, best.left, best.right, best.count,
                             config.cap)>>
                 ELSE <<>>
  /\ pc' = "done"
  /\ UNCHANGED <<obs, config, left, right, best>>

Next == Shrink \/ Score \/ Emit

Spec == Init /\ [][Next]_vars

(* A sequential function that is called runs to its return.                *)
FairSpec == Spec /\ WF_vars(Next)

----------------------------------------------------------------------------
(* The loop's variables stay in range: the edges in the group, and one     *)
(* past it only when the loop is over.                                     *)
TypeOK ==
  /\ obs \in Seq(Obs)
  /\ config \in [seconds : Int, min : Nat, cap : Nat]
  /\ right \in 1 .. Len(obs) + 1
  /\ left \in 1 .. right
  /\ best \in [count : 0 .. Len(obs), left : Nat, right : Nat]
  /\ findings \in Seq(Finding)
  /\ pc \in {"window", "done"}

(* At every step the best window is a real one among the observations      *)
(* scored so far, and no window scored so far beats it or equals it and    *)
(* closes earlier: the two-pointer loop never slides past the densest      *)
(* window.                                                                 *)
BestSoFar ==
  right > 1 =>
    /\ best.right \in 1 .. right - 1
    /\ best.left \in 1 .. best.right
    /\ best.count = best.right - best.left + 1
    /\ InWindow(obs, Win, best.left, best.right)
    /\ \A j \in 1 .. right - 1 : \A i \in 1 .. j :
         InWindow(obs, Win, i, j) =>
           /\ j - i + 1 <= best.count
           /\ j < best.right => j - i + 1 < best.count

(* What was dropped on the left can never fit a window again.              *)
DroppedForGood ==
  \A j \in right .. Len(obs) : \A i \in 1 .. left - 1 :
    ~InWindow(obs, Win, i, j)

(* No set of observations, adjacent or not, that fits one window and       *)
(* reaches the threshold goes unreported, and the count reported is no     *)
(* smaller than it.                                                        *)
NoBurstMissed ==
  pc = "done" =>
    \A S \in SUBSET DOMAIN obs :
      (\A i, j \in S : InWindow(obs, Win, i, j)) =>
        \/ Cardinality(S) < config.min
        \/ config.min = 0
        \/ /\ findings # <<>>
           /\ Cardinality(S) <= findings[1].count

Abstract == INSTANCE Burst WITH done <- (pc = "done")

(* The two-pointer loop does what Burst promises: it answers, once, with   *)
(* the densest window that closes first, or with nothing.                  *)
ImplementsBurst == Abstract!FairSpec

=============================================================================
