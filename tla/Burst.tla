------------------------------- MODULE Burst --------------------------------
(***************************************************************************)
(* What a burst detector promises about one group of observations in time  *)
(* order: if some window of the configured length holds at least min of    *)
(* them, it reports the densest such window, the one that closes first     *)
(* among equals, and otherwise it reports nothing. Nothing is said of how  *)
(* it is found.                                                            *)
(* SlidingWindow implements this specification.                            *)
(***************************************************************************)
EXTENDS TimeWindow

VARIABLES
  obs,       \* the group
  config,    \* the thresholds
  findings,  \* the findings produced: a sequence of length 0 or 1
  done       \* has the detector answered?

vars == <<obs, config, findings, done>>

Init ==
  /\ obs \in Seq(Obs)
  /\ TimeOrdered(obs)
  /\ config \in [seconds : Int, min : Nat, cap : Nat]
  /\ findings = <<>>
  /\ done = FALSE

Report ==
  /\ ~done
  /\ done' = TRUE
  /\ findings' = BurstAnswer(obs, WindowMicros(config.seconds),
                             config.min, config.cap)
  /\ UNCHANGED <<obs, config>>

Spec == Init /\ [][Report]_vars

FairSpec == Spec /\ WF_vars(Report)

=============================================================================
