----------------------------- MODULE TimeWindow -----------------------------
(***************************************************************************)
(* The time arithmetic the detectors of src/analyze/detections.cpp share:  *)
(* 64-bit microsecond timestamps, a difference that saturates instead of   *)
(* overflowing and a window length given in seconds that saturates too.    *)
(*                                                                         *)
(* The code indexes vectors from 0; the modules index sequences from 1.    *)
(***************************************************************************)
EXTENDS Integers, Sequences, FiniteSets

CONSTANTS
  MaxMicros,        \* INT64_MAX, the largest timestamp in microseconds
  MicrosPerSecond   \* 1000000 in the code

ASSUME MicrosAssumption ==
  /\ MaxMicros \in Nat
  /\ MicrosPerSecond \in Nat \ {0}

(* The values of core::i64.                                                *)
Micros == (-MaxMicros - 1) .. MaxMicros

(* A signed 64-bit result. A difference that does not fit is undefined in  *)
(* C++; the subtraction instruction leaves it modulo 2^64.                 *)
Wrap(x) == ((x + MaxMicros + 1) % (2 * (MaxMicros + 1))) - MaxMicros - 1

(* micros_diff: 0 when the operands are in the wrong order, and never more *)
(* than INT64_MAX.                                                         *)
MicrosDiff(a, b) ==
  IF a < b THEN 0
  ELSE IF a - b > MaxMicros THEN MaxMicros ELSE a - b

(* window_micros: seconds to microseconds, clamped to 0 .. INT64_MAX.      *)
WindowMicros(seconds) ==
  IF seconds < 0 THEN 0
  ELSE IF seconds > MaxMicros \div MicrosPerSecond THEN MaxMicros
  ELSE seconds * MicrosPerSecond

(* An Obs: when something happened and where the event stands in the       *)
(* stream.                                                                 *)
Obs == [micros : Micros, index : Nat]

(* The order the detectors rely on: the stream's time order.               *)
TimeOrdered(obs) ==
  \A i, j \in DOMAIN obs : i <= j => obs[i].micros <= obs[j].micros

(* The indices of the observations left .. right, at most cap of them.     *)
Evidence(obs, left, right, cap) ==
  LET size == right - left + 1
  IN  [k \in 1 .. (IF size < cap THEN size ELSE cap) |->
         obs[left + k - 1].index]

(* A finding: how much was seen, from when to when, and which events.      *)
Finding ==
  [count : Nat, first_seen : Micros, last_seen : Micros, evidence : Seq(Nat)]

(* The finding that reports the observations left .. right; the texts it   *)
(* carries are left out.                                                   *)
FindingOf(obs, left, right, count, cap) ==
  [count |-> count, first_seen |-> obs[left].micros,
   last_seen |-> obs[right].micros,
   evidence |-> Evidence(obs, left, right, cap)]

(***************************************************************************)
(* The declarative side: what the densest window of a group is.            *)
(***************************************************************************)

(* Observations i to j stand in one window of the given length.            *)
InWindow(obs, win, i, j) ==
  MicrosDiff(obs[j].micros, obs[i].micros) <= win

(* The bursts of a group: pairs <<left, right>> that fit one window.       *)
Bursts(obs, win) ==
  {b \in (DOMAIN obs) \X (DOMAIN obs) :
     b[1] <= b[2] /\ InWindow(obs, win, b[1], b[2])}

BurstSize(b) == b[2] - b[1] + 1

(* No burst is larger than b, and every burst as large closes later.       *)
IsFirstDensest(obs, win, b) ==
  /\ b \in Bursts(obs, win)
  /\ \A c \in Bursts(obs, win) :
       /\ BurstSize(c) <= BurstSize(b)
       /\ BurstSize(c) = BurstSize(b) => b[2] <= c[2]

DensestBurst(obs, win) ==
  CHOOSE b \in Bursts(obs, win) : IsFirstDensest(obs, win, b)

(* A slip: the threshold has to be exceeded.                               *)
BurstAnswerAbove(obs, win, min, cap) ==
  LET b == DensestBurst(obs, win)
  IN  IF obs # <<>> /\ min > 0 /\ BurstSize(b) > min
      THEN <<FindingOf(obs, b[1], b[2], BurstSize(b), cap)>>
      ELSE <<>>

(* The findings a burst detector owes for a group: the densest burst if it *)
(* reaches a positive threshold, else nothing.                             *)
BurstAnswer(obs, win, min, cap) ==
  LET b == DensestBurst(obs, win)
  IN  IF obs # <<>> /\ min > 0 /\ BurstSize(b) >= min
      THEN <<FindingOf(obs, b[1], b[2], BurstSize(b), cap)>>
      ELSE <<>>

(* The widest window that closes at j starts here.                         *)
WidestFrom(obs, win, j) ==
  CHOOSE i \in 1 .. j : /\ InWindow(obs, win, i, j)
                        /\ \A k \in 1 .. i - 1 : ~InWindow(obs, win, k, j)

(* How many targets the widest window that closes at j touches.            *)
Touched(obs, targets, win, j) ==
  Cardinality({targets[k] : k \in WidestFrom(obs, win, j) .. j})

(* The findings the scan detector owes for a group: the first window with  *)
(* the most distinct targets if they reach a positive threshold.           *)
ScanAnswer(obs, targets, win, min, cap) ==
  LET Most(j) == \A k \in DOMAIN obs :
        /\ Touched(obs, targets, win, k) <= Touched(obs, targets, win, j)
        /\ k < j =>
             Touched(obs, targets, win, k) < Touched(obs, targets, win, j)
      right == CHOOSE j \in DOMAIN obs : Most(j)
      count == Touched(obs, targets, win, right)
  IN  IF obs # <<>> /\ min > 0 /\ count >= min
      THEN <<FindingOf(obs, WidestFrom(obs, win, right), right, count, cap)>>
      ELSE <<>>

=============================================================================
