-------------------------- MODULE CivilFromMicros ---------------------------
(***************************************************************************)
(* The way of a time through the program: a text is parsed into an         *)
(* instant, civil_from_micros walks from 1970 to its year and from January *)
(* to its month, and to_iso8601 writes the date that a later run reads.    *)
(***************************************************************************)
EXTENDS CivilTime

CONSTANT Texts   \* what a log may say

(* Numbers are read without a sign, and a FILETIME of 64 bits, counted in  *)
(* microseconds from 1970, is in the range of those.                       *)
ASSUME TextsAssumption ==
  \A t \in Texts :
    /\ t.form \in {"iso", "clf", "bsd"} =>
         /\ t.date \in [year : Nat, month : Nat, day : Nat]
         /\ t.time \in [hour : Nat, minute : Nat, second : Nat]
         /\ t.frac \in Seq(0 .. 9)
         /\ t.zone.hours \in Nat /\ t.zone.minutes \in Nat
    /\ t.form = "epoch" => t.seconds \in Nat
    /\ t.form = "filetime" =>
         /\ t.ticks \in Nat
         /\ 2 * (t.ticks \div 10 - 134774 * MicrosPerDay)
              \in -MicrosSpan .. MicrosSpan - 1
    /\ t.form \in {"iso", "clf", "bsd", "epoch", "filetime"}

(* An i64 of microseconds reaches back to the year 1, 719162 days before   *)
(* the epoch, and no year it can tell is too large for an i32.             *)
ASSUME SpanAssumption ==
  /\ 2 * 719162 * MicrosPerDay <= MicrosSpan
  /\ 2 * (1969 + MicrosSpan \div (2 * 366 * MicrosPerDay)) < YearSpan

VARIABLES
  text,   \* the text of the log
  stamp,  \* the Timestamp it was parsed into
  days,   \* the days that are left to walk
  civil,  \* the CivilTime so far
  back,   \* the Timestamp its rendering is read as
  pc      \* "parse", "split", "years", "months", "render" or "done"

vars == <<text, stamp, days, civil, back, pc>>

(* The default member values of CivilTime.                                 *)
Epoch == [year |-> 1970, month |-> 1, day |-> 1,
          hour |-> 0, minute |-> 0, second |-> 0, micro |-> 0]

Init ==
  /\ text \in Texts
  /\ stamp = Unknown /\ back = Unknown
  /\ days = 0
  /\ civil = Epoch
  /\ pc = "parse"

(* An unknown time is written as "unknown" and read back as no time.       *)
Parse ==
  /\ pc = "parse"
  /\ stamp' = ParseTime(text)
  /\ pc' = IF stamp'.valid THEN "split" ELSE "done"
  /\ UNCHANGED <<text, days, civil, back>>

(* The division towards zero, corrected where the rest is negative, is     *)
(* that of TLA+.                                                           *)
Split ==
  /\ pc = "split"
  /\ LET seconds == stamp.micros \div MicrosPerSecond
         of_day == seconds % SecondsPerDay
     IN  /\ days' = seconds \div SecondsPerDay
         /\ civil' = [year |-> 1970, month |-> 1, day |-> 1,
                        hour |-> of_day \div (Minutes * Seconds),
                        minute |-> (of_day \div Seconds) % Minutes,
                        second |-> of_day % Seconds,
                        micro |-> stamp.micros % MicrosPerSecond]
  /\ pc' = "years"
  /\ UNCHANGED <<text, stamp, back>>

(* A slip: the day that only a leap year has leads to the next year.       *)
NextYearOnLeapDay ==
  /\ pc = "years"
  /\ days >= 365
  /\ days' = days - YearDays(civil.year)
  /\ civil' = [civil EXCEPT !.year = @ + 1]
  /\ UNCHANGED <<text, stamp, back, pc>>

NextYear ==
  /\ pc = "years"
  /\ days >= YearDays(civil.year)
  /\ days' = days - YearDays(civil.year)
  /\ civil' = [civil EXCEPT !.year = @ + 1]
  /\ UNCHANGED <<text, stamp, back, pc>>

PreviousYear ==
  /\ pc = "years"
  /\ days < 0
  /\ civil' = [civil EXCEPT !.year = @ - 1]
  /\ days' = days + YearDays(civil'.year)
  /\ UNCHANGED <<text, stamp, back, pc>>

YearFound ==
  /\ pc = "years"
  /\ 0 <= days /\ days < YearDays(civil.year)
  /\ pc' = "months"
  /\ UNCHANGED <<text, stamp, days, civil, back>>

MonthPast == civil.month <= 12 /\ days >= DaysInMonth(civil.year, civil.month)

NextMonth ==
  /\ pc = "months"
  /\ MonthPast
  /\ days' = days - DaysInMonth(civil.year, civil.month)
  /\ civil' = [civil EXCEPT !.month = @ + 1]
  /\ UNCHANGED <<text, stamp, back, pc>>

MonthFound ==
  /\ pc = "months"
  /\ ~MonthPast
  /\ civil' = [civil EXCEPT !.month = IF @ > 12 THEN 12 ELSE @, !.day = days + 1]
  /\ pc' = "render"
  /\ UNCHANGED <<text, stamp, days, back>>

ReadBack ==
  /\ pc = "render"
  /\ back' = ParseIso8601(ToIso8601(civil))
  /\ pc' = "done"
  /\ UNCHANGED <<text, stamp, days, civil>>

Next ==
  \/ Parse \/ Split
  \/ NextYear \/ PreviousYear \/ YearFound
  \/ NextMonth \/ MonthFound
  \/ ReadBack

(* A sequential function that is called runs to its return.                *)
Spec == Init /\ [][Next]_vars /\ WF_vars(Next)

----------------------------------------------------------------------------
Found == pc \in {"render", "done"} /\ stamp.valid

(* civil_from_micros is the inverse of micros_from_civil, although one     *)
(* walks the years and the other counts them: from the year 1 on it finds  *)
(* a date the calendar has, and that date is the instant it was given.     *)
WalkExact ==
  Found /\ civil.year >= 1 =>
    /\ IsCivil(civil)
    /\ MicrosFromCivil(civil) = stamp.micros

(* In years of four digits the rendering is read as the same instant, so   *)
(* an exported time survives its way back through the JSON reader.         *)
TimesReadBack ==
  pc = "done" /\ stamp.valid /\ civil.year \in 1 .. 9999 => back = stamp

Written ==
  [year |-> IF text.form = "bsd" THEN AssumeYear ELSE text.date.year,
   month |-> text.date.month, day |-> text.date.day,
   hour |-> text.time.hour, minute |-> text.time.minute,
   second |-> text.time.second, micro |-> Fraction(text.frac)]

(* A date that exists, written in any notation without an offset, is the   *)
(* date that is found: none is moved to another day, and the notations     *)
(* agree on what it is. Beyond the years an i64 of microseconds can tell,  *)
(* which only parse_clf_time takes, the claim does not hold.               *)
DatesKept ==
  Found /\ text.form \in {"iso", "clf", "bsd"} =>
    \/ text.clock # "full"
    \/ text.zone.hours # 0 \/ text.zone.minutes # 0
    \/ ~IsCivil(Written)
    \/ Written.year < 1
    \/ Written.year - 1969 > MicrosSpan \div (2 * 366 * MicrosPerDay)
    \/ civil = Written

(* The walk ends, whatever the instant, on the last day of a leap year,    *)
(* too.                                                                    *)
WalkEnds == <>(pc = "done")

=============================================================================
