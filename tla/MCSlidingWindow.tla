--------------------------- MODULE MCSlidingWindow --------------------------
(***************************************************************************)
(* Every time-ordered group of up to MaxLen observations with timestamps   *)
(* anywhere in Micros, so that differences saturate, and thresholds that   *)
(* include a negative, a reachable and a saturating window.                *)
(***************************************************************************)
EXTENDS SlidingWindow

CONSTANT MaxLen

(* Events of other groups stand between the observations: the index of     *)
(* the k-th observation in the stream is 2 * k.                            *)
ObsList(times) == [k \in DOMAIN times |-> [micros |-> times[k], index |-> 2 * k]]

TimeLists == UNION {[1 .. n -> Micros] : n \in 0 .. MaxLen}

Rising(times) == \A k \in 2 .. Len(times) : times[k - 1] <= times[k]

MCSortedLists == {ObsList(t) : t \in {t \in TimeLists : Rising(t)}}

MCConfigs == [seconds : {-1, 1, 9}, min : {0, 3}, cap : {0, 2}]

=============================================================================
