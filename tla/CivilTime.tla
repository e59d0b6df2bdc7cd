----------------------------- MODULE CivilTime ------------------------------
(***************************************************************************)
(* src/core/time_util.cpp: the proleptic Gregorian calendar as arithmetic  *)
(* on microseconds since 1970. The units of a day are parameters, so that  *)
(* ten thousand years fit into the integers of TLC.                        *)
(***************************************************************************)
EXTENDS Timestamp, Sequences

CONSTANTS
  Hours, Minutes, Seconds,  \* in a day, an hour, a minute: 24, 60, 60
  FracDigits,               \* decimal digits of a second: 6
  MicrosSpan                \* 2^64, the number of values of core::i64

ASSUME UnitsAssumption ==
  /\ {Hours, Minutes, Seconds} \subseteq Nat \ {0}
  /\ FracDigits \in Nat
  /\ 10 ^ FracDigits \in Nat \ {0}
  /\ MicrosSpan \in Nat \ {0}

(* What the powers of ten are; the provers know nothing of them.           *)
ASSUME PowersAssumption ==
  /\ 10 ^ 0 = 1
  /\ \A k \in 1 .. FracDigits :
       10 ^ (k - 1) \in Nat \ {0} /\ 10 ^ k = 10 * 10 ^ (k - 1)

MicrosPerSecond == 10 ^ FracDigits

SecondsPerDay == Hours * Minutes * Seconds

MicrosPerDay == SecondsPerDay * MicrosPerSecond

(* Division as C++ has it, towards zero.                                   *)
Quotient(a, b) == IF a >= 0 THEN a \div b ELSE -((-a) \div b)

----------------------------------------------------------------------------
(* A slip: the rule of the Julian calendar.                                *)
IsJulianLeapYear(year) == year % 4 = 0

IsLeapYear(year) ==
  \/ year % 4 = 0 /\ year % 100 # 0
  \/ year % 400 = 0

YearDays(year) == IF IsLeapYear(year) THEN 366 ELSE 365

DaysInMonth(year, month) ==
  IF month = 2 /\ IsLeapYear(year) THEN 29
  ELSE <<31, 28, 31, 30, 31, 30, 31, 31, 30, 31, 30, 31>>[month]

Leaps(y) == Quotient(y, 4) - Quotient(y, 100) + Quotient(y, 400)

(* A slip: the leap day of the year itself is counted, too.                *)
DaysBeforeYearLate(year) ==
  (year - 1970) * 365 + Leaps(year) - Leaps(1969)

(* Days from the start of 1970 to the start of the year.                   *)
DaysBeforeYear(year) ==
  (year - 1970) * 365 + Leaps(year - 1) - Leaps(1969)

(* A slip: the months of a common year.                                    *)
DaysBeforeMonthCommon(year, month) ==
  LET before[m \in 1 .. month] ==
        IF m = 1 THEN 0 ELSE before[m - 1] + DaysInMonth(1970, m - 1)
  IN  before[month]

DaysBeforeMonth(year, month) ==
  LET before[m \in 1 .. month] ==
        IF m = 1 THEN 0 ELSE before[m - 1] + DaysInMonth(year, m - 1)
  IN  before[month]

DayNumber(t) == DaysBeforeYear(t.year) + DaysBeforeMonth(t.year, t.month) + t.day - 1

(* A day beyond the end of its month runs on into the next one.            *)
MicrosFromCivil(t) ==
  LET seconds == ((DayNumber(t) * Hours + t.hour) * Minutes + t.minute) * Seconds
                   + t.second
  IN  Wrapped(seconds * MicrosPerSecond + t.micro, MicrosSpan)

(* A date the calendar has, and a time the clock shows.                    *)
IsCivil(t) ==
  /\ t.month \in 1 .. 12
  /\ t.day \in 1 .. DaysInMonth(t.year, t.month)
  /\ t.hour \in 0 .. Hours - 1
  /\ t.minute \in 0 .. Minutes - 1
  /\ t.second \in 0 .. Seconds - 1
  /\ t.micro \in 0 .. MicrosPerSecond - 1

----------------------------------------------------------------------------
(***************************************************************************)
(* The notations of time the parsers of src/core/time_util.cpp read, each  *)
(* text as the record of its pieces:                                       *)
(*   form   "iso", "clf" or "bsd"                                          *)
(*   date   [year, month, day]; month 0 is a name that is no month         *)
(*   clock  "full", "none", or "cut" where hh:mm:ss is begun and not there *)
(*   time   [hour, minute, second]                                         *)
(*   frac   the digits behind the seconds                                  *)
(*   zone   [sign, hours, minutes], the sign being "+", "-", "Z", "none",  *)
(*          or "cut" where the digits are missing behind it                *)
(* and two that are a number: [form |-> "epoch", seconds, digits] and      *)
(* [form |-> "filetime", ticks].                                           *)
(***************************************************************************)
CONSTANTS
  YearSpan,    \* 2^32, the number of values of core::i32
  AssumeYear   \* the year of a text that tells none

ASSUME YearAssumption == YearSpan \in Nat \ {0} /\ AssumeYear \in Int

DateLegal(date) == date.month \in 1 .. 12 /\ date.day \in 1 .. 31

(* One more second than a minute has, for the leap second.                 *)
ClockLegal(time) ==
  /\ time.hour \in 0 .. Hours - 1
  /\ time.minute \in 0 .. Minutes - 1
  /\ time.second \in 0 .. Seconds

Civil(year, text, micro) ==
  [year |-> year, month |-> text.date.month, day |-> text.date.day,
   hour |-> text.time.hour, minute |-> text.time.minute,
   second |-> IF text.time.second = Seconds THEN Seconds - 1 ELSE text.time.second,
   micro |-> micro]

(* Digits beyond those of a microsecond are dropped, missing ones are 0.   *)
Fraction(frac) ==
  LET value[k \in 0 .. FracDigits] ==
        IF k = 0 THEN 0
        ELSE 10 * value[k - 1] + IF k <= Len(frac) THEN frac[k] ELSE 0
  IN  value[FracDigits]

(* To UTC. Hours and minutes of an offset are not looked at.               *)
ToUtc(micros, zone) ==
  LET offset == (zone.hours * Minutes + zone.minutes) * Seconds * MicrosPerSecond
  IN  CASE zone.sign = "+" -> Wrapped(micros - offset, MicrosSpan)
        [] zone.sign = "-" -> Wrapped(micros + offset, MicrosSpan)
        [] OTHER -> micros

----------------------------------------------------------------------------
(* parse_iso8601: four digits of year. What follows the date is a clock or *)
(* is not looked at; the same goes for what follows the clock.             *)
IsoLegal(text) ==
  /\ 0 <= text.date.year /\ text.date.year <= 9999
  /\ DateLegal(text.date)
  /\ text.clock # "cut"
  /\ text.clock = "full" => ClockLegal(text.time) /\ text.zone.sign # "cut"

Midnight(date) ==
  [year |-> date.year, month |-> date.month, day |-> date.day,
   hour |-> 0, minute |-> 0, second |-> 0, micro |-> 0]

ParseIso8601(text) ==
  IF ~IsoLegal(text) THEN Unknown
  ELSE IF text.clock = "none" THEN At(MicrosFromCivil(Midnight(text.date)))
  ELSE At(ToUtc(MicrosFromCivil(Civil(text.date.year, text, Fraction(text.frac))),
                text.zone))

(* The date and clock of the other two notations have no fraction.         *)
Plain(text) ==
  /\ DateLegal(text.date)
  /\ text.clock = "full" /\ ClockLegal(text.time) /\ text.frac = <<>>

(* parse_clf_time: the year is any unsigned number, cast to an i32.        *)
ParseClfTime(text) ==
  IF ~Plain(text) THEN Unknown
  ELSE At(ToUtc(MicrosFromCivil(Civil(Wrapped(text.date.year, YearSpan), text, 0)),
                text.zone))

(* parse_syslog_bsd_time: no year, and no zone.                            *)
ParseSyslogBsdTime(text) ==
  IF ~Plain(text) THEN Unknown
  ELSE At(MicrosFromCivil(Civil(AssumeYear, text, 0)))

(* Bare epoch seconds, of nine to eleven digits, in from_unix_seconds.     *)
ParseEpoch(text) ==
  IF text.digits \notin 9 .. 11 THEN Unknown
  ELSE At(Wrapped(text.seconds * MicrosPerSecond, MicrosSpan))

(* parse_filetime: tenths of microseconds since the start of 1601, which   *)
(* is 134774 days before the epoch.                                        *)
ParseFiletime(text) == At(text.ticks \div 10 - 134774 * MicrosPerDay)

(* parse_any_time tries the parsers in turn; a text of one notation is     *)
(* nothing to those before it. A FILETIME is no text and has its own call. *)
ParseTime(text) ==
  CASE text.form = "iso" -> ParseIso8601(text)
    [] text.form = "clf" -> ParseClfTime(text)
    [] text.form = "bsd" -> ParseSyslogBsdTime(text)
    [] text.form = "epoch" -> ParseEpoch(text)
    [] text.form = "filetime" -> ParseFiletime(text)

----------------------------------------------------------------------------
FractionText(micro) ==
  [k \in 1 .. FracDigits |-> (micro \div 10 ^ (FracDigits - k)) % 10]

(* Timestamp::to_iso8601: at least four characters of year.                *)
ToIso8601(t) ==
  [form |-> "iso", date |-> [year |-> t.year, month |-> t.month, day |-> t.day],
   clock |-> "full",
   time |-> [hour |-> t.hour, minute |-> t.minute, second |-> t.second],
   frac |-> FractionText(t.micro),
   zone |-> [sign |-> "Z", hours |-> 0, minutes |-> 0]]

=============================================================================
