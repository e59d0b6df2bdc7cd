----------------------------- MODULE ScanWindow -----------------------------
(***************************************************************************)
(* The window of detect_scans over one actor's observations. It moves over *)
(* the group as the burst loop of SlidingWindow does and shares its edges  *)
(* and its best window; but each observation touches a target (a path or a *)
(* port), the loop keeps the number of occurrences of each target in the   *)
(* window in a map, and it looks for the window with the most distinct     *)
(* targets.                                                                *)
(***************************************************************************)
EXTENDS SlidingWindow, Bags

CONSTANT Targets   \* the paths and ports an observation may touch

VARIABLES
  targets,   \* targets[k] is the target obs[k] touches
  freq       \* the map from target to its count in the window, a bag

scanVars == <<vars, targets, freq>>

ScanInit ==
  /\ obs \in Observations
  /\ targets \in [DOMAIN obs -> Targets]
  /\ config \in Configs
  /\ freq = EmptyBag
  /\ left = 1
  /\ right = 1
  /\ best = [count |-> 0, left |-> 1, right |-> 1]
  /\ findings = <<>>
  /\ pc = "enter"

(* The observation at the right edge is counted before the left edge       *)
(* moves.                                                                  *)
Enter ==
  /\ pc = "enter"
  /\ right <= Len(obs)
  /\ freq' = freq (+) SetToBag({targets[right]})
  /\ pc' = "window"
  /\ UNCHANGED <<obs, targets, config, left, right, best, findings>>

(* A slip: the map entry is erased with the first occurrence that leaves.  *)
LeaveAtOnce(t) == [u \in BagToSet(freq) \ {t} |-> freq[u]]

(* A target leaves the map when its last occurrence leaves the window.     *)
Leave(t) == freq (-) SetToBag({t})

ScanShrink ==
  /\ Shrink
  /\ freq' = Leave(targets[left])
  /\ UNCHANGED targets

(* A slip: requests are counted, not targets.                              *)
DistinctRequests == BagCardinality(freq)

Distinct == Cardinality(BagToSet(freq))

ScanScore ==
  /\ pc = "window"
  /\ ~LeftTooOld
  /\ best' = IF Distinct > best.count
             THEN [count |-> Distinct, left |-> left, right |-> right]
             ELSE best
  /\ right' = right + 1
  /\ pc' = "enter"
  /\ UNCHANGED <<obs, targets, config, freq, left, findings>>

ScanEmit ==
  /\ pc = "enter"
  /\ right > Len(obs)
  /\ findings' = IF Reportable
                 THEN <<FindingOf(obs, best.left, best.right, best.count,
                                  config.cap)>>
                 ELSE <<>>
  /\ pc' = "done"
  /\ UNCHANGED <<obs, targets, config, freq, left, right, best>>

ScanNext == Enter \/ ScanShrink \/ ScanScore \/ ScanEmit

ScanSpec == ScanInit /\ [][ScanNext]_scanVars

----------------------------------------------------------------------------
ScanTypeOK ==
  /\ obs \in Seq(Obs)
  /\ targets \in [DOMAIN obs -> Targets]
  /\ config \in [seconds : Int, min : Nat, cap : Nat]
  /\ IsABag(freq)
  /\ right \in 1 .. Len(obs) + 1
  /\ left \in 1 .. right
  /\ pc = "window" => right <= Len(obs)
  /\ best \in [count : Nat, left : Nat, right : Nat]
  /\ findings \in Seq(Finding)
  /\ Len(findings) <= 1
  /\ pc \in {"enter", "window", "done"}

TargetsOf(S) == {targets[k] : k \in S}

(* Last observation counted in freq.                                       *)
Edge == IF pc = "window" THEN right ELSE right - 1

(* The map is exactly the contents of the window: no target lingers after  *)
(* its last occurrence has left, none is lost while an occurrence stays.   *)
FreqExact ==
  /\ BagToSet(freq) = TargetsOf(left .. Edge)
  /\ \A t \in BagToSet(freq) :
       freq[t] = Cardinality({k \in left .. Edge : targets[k] = t})

(* The loop answers with the first window that touches the most targets,   *)
(* and with its edges: the observations between them fit one window and    *)
(* touch exactly as many targets as reported.                              *)
ScanAnswered ==
  pc = "done" =>
    findings = ScanAnswer(obs, targets, Win, config.min, config.cap)

=============================================================================
