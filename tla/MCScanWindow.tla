---------------------------- MODULE MCScanWindow ----------------------------
(***************************************************************************)
(* Every time-ordered group of up to MaxLen observations with every        *)
(* assignment of targets to them.                                          *)
(***************************************************************************)
EXTENDS MCSlidingWindow, ScanWindow, TLC

MCScanConfigs == [seconds : {0, 1, 9}, min : {0, 2, 3}, cap : {2}]

(* Targets are only compared for equality.                                 *)
TargetSymmetry == Permutations(Targets)

=============================================================================
