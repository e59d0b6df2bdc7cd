---------------------------- MODULE CivilProofs -----------------------------
(***************************************************************************)
(* Proofs about the two conversions between instants and dates, for any    *)
(* units of the day, any width of the microseconds and any text.           *)
(***************************************************************************)
EXTENDS CivilFromMicros, NaturalsInduction, WellFoundedInduction, TLAPS

USE UnitsAssumption DEF MicrosPerSecond

----------------------------------------------------------------------------
(* Arithmetic.                                                             *)
LEMMA DivMod ==
  ASSUME NEW a \in Int, NEW b \in Nat \ {0}
  PROVE  a \div b \in Int /\ a % b \in 0 .. b - 1 /\ a = b * (a \div b) + (a % b)
OBVIOUS

LEMMA ProductPositive ==
  ASSUME NEW a \in Nat \ {0}, NEW b \in Nat \ {0}
  PROVE  a * b \in Nat \ {0}
OBVIOUS

LEMMA NextMultiple ==
  ASSUME NEW b \in Nat \ {0}, NEW p \in Int, NEW q \in Int, p < q
  PROVE  b * p + b <= b * q
OBVIOUS

LEMMA DivisionUnique ==
  ASSUME NEW b \in Nat \ {0}, NEW p \in Int, NEW q \in Int,
         NEW r \in 0 .. b - 1, NEW s \in 0 .. b - 1,
         b * p + r = b * q + s
  PROVE  p = q /\ r = s
<1>1. ASSUME NEW x \in Int, NEW y \in Int, x < y,
             NEW u \in 0 .. b - 1, NEW v \in 0 .. b - 1, b * x + u = b * y + v
      PROVE  FALSE
  <2>1. b * x + b <= b * y
    BY <1>1, NextMultiple
  <2>2. b * x \in Int /\ b * y \in Int
    OBVIOUS
  <2> QED
    BY <1>1, <2>1, <2>2
<1>2. ~(p < q)
  BY <1>1
<1>3. ~(q < p)
  BY <1>1
<1> QED
  BY <1>2, <1>3

(* What a 64-bit number holds is left as it is, and everything else is     *)
(* brought into its range.                                                 *)
InRange(n) == n \in Int /\ -MicrosSpan <= 2 * n /\ 2 * n < MicrosSpan

LEMMA WrappedInRange ==
  ASSUME NEW n \in Int
  PROVE  InRange(Wrapped(n, MicrosSpan)) /\ (InRange(n) => Wrapped(n, MicrosSpan) = n)
<1> DEFINE low == n % MicrosSpan  q == n \div MicrosSpan
<1>1. /\ MicrosSpan \in Nat \ {0} /\ low \in 0 .. MicrosSpan - 1
      /\ q \in Int /\ n = MicrosSpan * q + low
  BY DivMod
<1>2. Wrapped(n, MicrosSpan) = IF 2 * low < MicrosSpan THEN low ELSE low - MicrosSpan
  BY DEF Wrapped
<1>3. InRange(Wrapped(n, MicrosSpan))
  BY <1>1, <1>2 DEF InRange
<1>4. ASSUME InRange(n) PROVE Wrapped(n, MicrosSpan) = n
  <2>1. CASE n >= 0
    <3>1. MicrosSpan * q + low = MicrosSpan * 0 + n /\ n \in 0 .. MicrosSpan - 1
      BY <1>1, <1>4, <2>1 DEF InRange
    <3>2. low = n
      BY <1>1, <3>1, DivisionUnique
    <3> QED
      BY <1>1, <1>2, <1>4, <3>2 DEF InRange
  <2>2. CASE n < 0
    <3>1. /\ n + MicrosSpan \in 0 .. MicrosSpan - 1
          /\ MicrosSpan * q + low = MicrosSpan * (-1) + (n + MicrosSpan)
      BY <1>1, <1>4, <2>2 DEF InRange
    <3>2. low = n + MicrosSpan
      BY <1>1, <3>1, DivisionUnique
    <3> QED
      BY <1>1, <1>2, <1>4, <3>2 DEF InRange
  <2> QED
    BY <2>1, <2>2
<1> QED
  BY <1>3, <1>4

(* A second of the day as hour, minute and second, and back.               *)
LEMMA ClockExact ==
  ASSUME NEW s \in 0 .. SecondsPerDay - 1,
         NEW hour, hour = s \div (Minutes * Seconds),
         NEW minute, minute = (s \div Seconds) % Minutes,
         NEW second, second = s % Seconds
  PROVE  /\ hour \in 0 .. Hours - 1 /\ minute \in 0 .. Minutes - 1
         /\ second \in 0 .. Seconds - 1
         /\ s = (hour * Minutes + minute) * Seconds + second
<1> DEFINE m == s \div Seconds  h == m \div Minutes  P == Minutes * Seconds
<1>1. /\ Hours \in Nat \ {0} /\ Minutes \in Nat \ {0} /\ Seconds \in Nat \ {0}
      /\ P \in Nat \ {0} /\ Hours * P \in Nat \ {0}
  BY ProductPositive
<1>2. SecondsPerDay = Hours * P
  BY <1>1 DEF SecondsPerDay
<1>3. s \in Int /\ 0 <= s /\ s < Hours * P
  BY <1>1, <1>2
<1>4. /\ m \in Int /\ second \in 0 .. Seconds - 1 /\ s = Seconds * m + second
  BY <1>1, <1>3, DivMod
<1>5. /\ h \in Int /\ minute \in 0 .. Minutes - 1 /\ m = Minutes * h + minute
  BY <1>1, <1>4, DivMod
<1> DEFINE r == Seconds * minute + second
<1>6. s = P * h + r
  <2>1. Seconds * m = Seconds * (Minutes * h) + Seconds * minute
    BY <1>1, <1>4, <1>5
  <2>2. Seconds * (Minutes * h) = P * h
    BY <1>1, <1>5
  <2>3. Seconds * minute \in Int /\ P * h \in Int
    BY <1>1, <1>5
  <2> QED
    BY <1>4, <2>1, <2>2, <2>3
<1>7. r \in 0 .. P - 1
  <2>1. Seconds * minute + Seconds <= Seconds * Minutes
    BY <1>1, <1>5, NextMultiple
  <2>2. Seconds * minute \in Nat /\ Seconds * Minutes = P
    BY <1>1, <1>5
  <2> QED
    BY <1>1, <1>4, <2>1, <2>2
<1>8. hour \in Int /\ s % P \in 0 .. P - 1 /\ s = P * hour + (s % P)
  BY <1>1, <1>3, DivMod
<1>9. hour = h
  <2>1. P * hour + (s % P) = P * h + r
    BY <1>6, <1>8
  <2> HIDE DEF P, r, h
  <2> QED
    BY <1>1, <1>5, <1>7, <1>8, <2>1, DivisionUnique
<1>10. hour \in 0 .. Hours - 1
  <2>1. P * hour \in Int /\ P * 0 = 0
    BY <1>1, <1>8
  <2>2. ASSUME hour < 0 PROVE FALSE
    <3>1. P * hour + P <= P * 0
      BY <1>1, <1>8, <2>2, NextMultiple
    <3> QED
      BY <1>1, <1>3, <1>8, <2>1, <3>1
  <2>3. ASSUME Hours <= hour PROVE FALSE
    <3>1. CASE Hours = hour
      <4>1. P * hour = Hours * P
        BY <1>1, <1>8, <3>1
      <4> QED
        BY <1>1, <1>3, <1>8, <4>1
    <3>2. CASE Hours < hour
      <4>1. P * Hours + P <= P * hour
        BY <1>1, <1>8, <3>2, NextMultiple
      <4>2. P * Hours = Hours * P
        BY <1>1
      <4> QED
        BY <1>1, <1>3, <1>8, <2>1, <4>1, <4>2
    <3> QED
      BY <1>1, <1>8, <2>3, <3>1, <3>2
  <2> QED
    BY <1>1, <1>8, <2>2, <2>3
<1>11. s = (hour * Minutes + minute) * Seconds + second
  <2>1. hour * Minutes + minute = m
    <3>1. hour * Minutes = Minutes * h
      BY <1>1, <1>5, <1>9
    <3> QED
      BY <1>5, <3>1
  <2>2. m * Seconds = Seconds * m
    BY <1>1, <1>4
  <2> QED
    BY <1>4, <2>1, <2>2
<1> QED
  BY <1>4, <1>5, <1>10, <1>11

----------------------------------------------------------------------------
(* The calendar.                                                           *)
LEMMA LeapsGrow ==
  ASSUME NEW year \in Int, year >= 1
  PROVE  Leaps(year) = Leaps(year - 1) + YearDays(year) - 365
<1>1. /\ year \div 4 = ((year - 1) \div 4) + (IF year % 4 = 0 THEN 1 ELSE 0)
      /\ year \div 100 = ((year - 1) \div 100) + (IF year % 100 = 0 THEN 1 ELSE 0)
      /\ year \div 400 = ((year - 1) \div 400) + (IF year % 400 = 0 THEN 1 ELSE 0)
  OBVIOUS
<1>2. \A y \in Int : y >= 0 => Leaps(y) = (y \div 4) - (y \div 100) + (y \div 400)
  BY DEF Leaps, Quotient
<1>3. YearDays(year) = 365 + (IF year % 4 = 0 THEN 1 ELSE 0)
                         - (IF year % 100 = 0 THEN 1 ELSE 0)
                         + (IF year % 400 = 0 THEN 1 ELSE 0)
  <2>1. (year % 100 = 0 => year % 4 = 0) /\ (year % 400 = 0 => year % 100 = 0)
    OBVIOUS
  <2> QED
    BY <2>1 DEF YearDays, IsLeapYear
<1>4. /\ year \div 4 \in Int /\ year \div 100 \in Int /\ year \div 400 \in Int
      /\ (year - 1) \div 4 \in Int /\ (year - 1) \div 100 \in Int
      /\ (year - 1) \div 400 \in Int
  OBVIOUS
<1>5. /\ Leaps(year) = (year \div 4) - (year \div 100) + (year \div 400)
      /\ Leaps(year - 1) = ((year - 1) \div 4) - ((year - 1) \div 100)
                             + ((year - 1) \div 400)
  <2>1. year - 1 \in Int /\ year - 1 >= 0 /\ year >= 0
    OBVIOUS
  <2> QED
    BY <1>2, <2>1, ZenonT(30)
<1> QED
  BY <1>1, <1>3, <1>4, <1>5

LEMMA YearDaysType ==
  ASSUME NEW year \in Int
  PROVE  YearDays(year) \in {365, 366} /\ Leaps(year) \in Int
BY DEF YearDays, Leaps, Quotient

(* The year is as long as the days from its start to that of the next.     *)
LEMMA NextYearStarts ==
  ASSUME NEW year \in Int, year >= 1
  PROVE  DaysBeforeYear(year + 1) = DaysBeforeYear(year) + YearDays(year)
<1>1. Leaps(year) = Leaps(year - 1) + YearDays(year) - 365
  BY LeapsGrow
<1>2. /\ YearDays(year) \in Int /\ Leaps(year) \in Int
      /\ Leaps(year - 1) \in Int /\ Leaps(1969) \in Int
  BY YearDaysType
<1>3. year + 1 - 1 = year
  OBVIOUS
<1> QED
  BY <1>1, <1>2, <1>3 DEF DaysBeforeYear

LEMMA EpochStarts == DaysBeforeYear(1970) = 0
BY YearDaysType DEF DaysBeforeYear

LEMMA SmallestExists ==
  ASSUME NEW S \in SUBSET Nat, S # {}
  PROVE  \E x \in S : \A y \in S : x <= y
<1> DEFINE R == OpToRel(<, Nat)
<1>1. IsWellFoundedOn(R, Nat)
  BY NatLessThanWellFounded
<1>2. \A x \in Nat, y \in Nat : y < x => <<y, x>> \in R
  BY DEF OpToRel
<1> HIDE DEF R
<1>3. \E x \in S : \A y \in S : ~ (<<y, x>> \in R)
  BY <1>1, WFMin
<1>4. \A x \in S : x \in Nat
  OBVIOUS
<1>5. \A x, y \in S : ~ (<<y, x>> \in R) => x <= y
  BY <1>2, <1>4
<1> QED
  BY <1>3, <1>5

(* The days before each month, and all of them.                            *)
MonthStarts(year) ==
  LET leap == YearDays(year) - 365
  IN  <<0, 31, 59 + leap, 90 + leap, 120 + leap, 151 + leap, 181 + leap,
        212 + leap, 243 + leap, 273 + leap, 304 + leap, 334 + leap, 365 + leap>>

LEMMA MonthsGrow ==
  ASSUME NEW year \in Int, NEW month \in 1 .. 12
  PROVE  /\ MonthStarts(year)[month] \in Nat
         /\ DaysInMonth(year, month) \in 28 .. 31
         /\ MonthStarts(year)[month + 1] =
              MonthStarts(year)[month] + DaysInMonth(year, month)
         /\ MonthStarts(year)[1] = 0 /\ MonthStarts(year)[13] = YearDays(year)
<1>1. month \in {1, 2, 3, 4, 5, 6, 7, 8, 9, 10, 11, 12}
  OBVIOUS
<1>2. CASE IsLeapYear(year)
  BY <1>1, <1>2 DEF MonthStarts, DaysInMonth, YearDays
<1>3. CASE ~IsLeapYear(year)
  BY <1>1, <1>3 DEF MonthStarts, DaysInMonth, YearDays
<1> QED
  BY <1>2, <1>3

LEMMA BeforeMonth ==
  ASSUME NEW year \in Int, NEW month \in 1 .. 12
  PROVE  DaysBeforeMonth(year, month) = MonthStarts(year)[month]
<1> DEFINE before == CHOOSE b : b = [m \in 1 .. month |->
              IF m = 1 THEN 0 ELSE b[m - 1] + DaysInMonth(year, m - 1)]
      T == MonthStarts(year)
      J == [m \in 1 .. month |-> T[m]]
      Wrong == {m \in 1 .. month : before[m] # T[m]}
<1>1. \A m \in 2 .. month : /\ m - 1 \in 1 .. 12 /\ m - 1 \in 1 .. month
                            /\ m - 1 + 1 = m
                            /\ T[m] = T[m - 1] + DaysInMonth(year, m - 1)
  <2> TAKE m \in 2 .. month
  <2>1. m - 1 \in 1 .. 12 /\ m - 1 \in 1 .. month /\ m - 1 + 1 = m
    OBVIOUS
  <2> QED
    BY <2>1, MonthsGrow
<1>2. T[1] = 0
  BY MonthsGrow
<1> HIDE DEF T
<1>3. \A m \in 1 .. month : m = 1 \/ m \in 2 .. month
  OBVIOUS
<1>4. J = [m \in 1 .. month |->
             IF m = 1 THEN 0 ELSE J[m - 1] + DaysInMonth(year, m - 1)]
  BY <1>1, <1>2, <1>3
<1>5. before = [m \in 1 .. month |->
                  IF m = 1 THEN 0 ELSE before[m - 1] + DaysInMonth(year, m - 1)]
  <2> HIDE DEF J
  <2> QED
    BY <1>4
<1>6. DaysBeforeMonth(year, month) = before[month]
  BY DEF DaysBeforeMonth
<1> HIDE DEF before
<1>7. SUFFICES ASSUME Wrong # {} PROVE FALSE
  <2>1. month \in 1 .. month
    OBVIOUS
  <2> QED
    BY <1>6, <2>1 DEF T
<1>8. PICK m \in Wrong : \A k \in Wrong : m <= k
  <2>1. 1 .. month \subseteq Nat
    OBVIOUS
  <2>2. Wrong \in SUBSET Nat
    BY <2>1
  <2> QED
    BY <1>7, <2>2, SmallestExists
<1>9. m \in 1 .. month /\ before[m] # T[m]
  BY <1>8
<1>10. CASE m = 1
  BY <1>2, <1>5, <1>9, <1>10
<1>11. CASE m # 1
  <2>1. m \in 2 .. month /\ ~(m <= m - 1)
    BY <1>9, <1>11
  <2>2. before[m - 1] = T[m - 1]
    BY <1>1, <1>8, <2>1
  <2>3. before[m] = before[m - 1] + DaysInMonth(year, m - 1)
    BY <1>5, <1>9, <1>11
  <2> QED
    BY <1>1, <1>9, <2>1, <2>2, <2>3
<1> QED
  BY <1>10, <1>11

----------------------------------------------------------------------------
(* The digits behind the seconds make a number.                            *)
LEMMA FractionType ==
  ASSUME NEW frac \in Seq(0 .. 9)
  PROVE  Fraction(frac) \in Int
<1> DEFINE Digit(k) == IF k <= Len(frac) THEN frac[k] ELSE 0
      Values(v, m) == v = [k \in 0 .. m |-> IF k = 0 THEN 0
                                            ELSE 10 * v[k - 1] + Digit(k)]
      Missing == {m \in 0 .. FracDigits : ~ \E v : Values(v, m)}
<1>1. \A k \in 1 .. FracDigits : Digit(k) \in Int
  OBVIOUS
<1> HIDE DEF Values, Digit
<1>2. \E v : Values(v, FracDigits)
  <2> SUFFICES ASSUME Missing # {} PROVE FALSE
    <3>1. FracDigits \in 0 .. FracDigits
      OBVIOUS
    <3> QED
      BY <3>1
  <2>1. PICK m \in Missing : \A k \in Missing : m <= k
    <3>1. 0 .. FracDigits \subseteq Nat
      OBVIOUS
    <3>2. Missing \in SUBSET Nat
      BY <3>1
    <3> QED
      BY <3>2, SmallestExists
  <2>2. m \in 0 .. FracDigits /\ ~ \E v : Values(v, m)
    BY <2>1
  <2>3. CASE m = 0
    <3>1. Values([k \in 0 .. 0 |-> 0], 0)
      BY DEF Values
    <3> QED
      BY <2>2, <2>3, <3>1
  <2>4. CASE m # 0
    <3>1. m - 1 \in 0 .. FracDigits /\ ~(m <= m - 1)
      BY <2>2, <2>4
    <3>2. PICK v : Values(v, m - 1)
      BY <2>1, <3>1
    <3> DEFINE w == [k \in 0 .. m |-> IF k = m THEN 10 * v[m - 1] + Digit(m) ELSE v[k]]
    <3>3. \A k \in 0 .. m - 1 : w[k] = IF k = 0 THEN 0 ELSE 10 * w[k - 1] + Digit(k)
      BY <2>2, <2>4, <3>2 DEF Values
    <3>4. w[m] = 10 * w[m - 1] + Digit(m)
      BY <2>2, <2>4
    <3>5. \A k \in 0 .. m : k \in 0 .. m - 1 \/ k = m
      BY <2>2, <2>4
    <3>6. Values(w, m)
      BY <2>4, <3>3, <3>4, <3>5 DEF Values
    <3> QED
      BY <2>2, <3>6
  <2> QED
    BY <2>3, <2>4
<1> DEFINE value == CHOOSE v : Values(v, FracDigits)
      Wrong == {m \in 0 .. FracDigits : value[m] \notin Int}
<1>3. Values(value, FracDigits)
  BY <1>2
<1>4. Fraction(frac) = value[FracDigits]
  BY DEF Fraction, Values, Digit
<1> HIDE DEF value
<1>5. SUFFICES ASSUME Wrong # {} PROVE FALSE
  <2>1. FracDigits \in 0 .. FracDigits
    OBVIOUS
  <2> QED
    BY <1>4, <2>1
<1>6. PICK m \in Wrong : \A k \in Wrong : m <= k
  <2>1. 0 .. FracDigits \subseteq Nat
    OBVIOUS
  <2>2. Wrong \in SUBSET Nat
    BY <2>1
  <2> QED
    BY <1>5, <2>2, SmallestExists
<1>7. m \in 0 .. FracDigits /\ value[m] \notin Int
  BY <1>6
<1>8. CASE m = 0
  BY <1>3, <1>7, <1>8 DEF Values
<1>9. CASE m # 0
  <2>1. /\ m - 1 \in 0 .. FracDigits /\ ~(m <= m - 1) /\ m \in 1 .. FracDigits
    BY <1>7, <1>9
  <2>2. value[m - 1] \in Int
    BY <1>6, <2>1
  <2>3. value[m] = 10 * value[m - 1] + Digit(m)
    BY <1>3, <1>7, <1>9 DEF Values
  <2> QED
    BY <1>1, <1>7, <2>1, <2>2, <2>3
<1> QED
  BY <1>8, <1>9

(* Every text is parsed into an instant of 64 bits, or into none.          *)
StampType(t) == t = Unknown \/ (t.valid = TRUE /\ InRange(t.micros))

LEMMA MicrosType ==
  ASSUME NEW t, t.year \in Int, t.month \in 1 .. 12, t.day \in Int,
         t.hour \in Int, t.minute \in Int, t.second \in Int, t.micro \in Int
  PROVE  MicrosFromCivil(t) \in Int /\ InRange(MicrosFromCivil(t))
<1>1. DayNumber(t) \in Int
  <2>1. DaysBeforeMonth(t.year, t.month) \in Int
    <3>1. PICK year \in Int, month \in 1 .. 12 : year = t.year /\ month = t.month
      OBVIOUS
    <3>2. DaysBeforeMonth(year, month) = MonthStarts(year)[month]
      BY BeforeMonth
    <3>3. MonthStarts(year)[month] \in Nat
      BY MonthsGrow
    <3> QED
      BY <3>1, <3>2, <3>3
  <2>2. DaysBeforeYear(t.year) \in Int
    BY YearDaysType DEF DaysBeforeYear
  <2> QED
    BY <2>1, <2>2 DEF DayNumber
<1> DEFINE seconds == ((DayNumber(t) * Hours + t.hour) * Minutes + t.minute) * Seconds
                        + t.second
<1>2. seconds \in Int
  <2>1. DayNumber(t) * Hours + t.hour \in Int
    BY <1>1
  <2>2. (DayNumber(t) * Hours + t.hour) * Minutes + t.minute \in Int
    BY <2>1
  <2> QED
    BY <2>2
<1>3. MicrosFromCivil(t) = Wrapped(seconds * MicrosPerSecond + t.micro, MicrosSpan)
  BY DEF MicrosFromCivil
<1> HIDE DEF seconds
<1>4. seconds * MicrosPerSecond + t.micro \in Int
  BY <1>2
<1> QED
  BY <1>3, <1>4, WrappedInRange DEF InRange

LEMMA ToUtcType ==
  ASSUME NEW micros, micros \in Int, InRange(micros),
         NEW zone, zone.hours \in Nat, zone.minutes \in Nat
  PROVE  InRange(ToUtc(micros, zone))
<1> DEFINE offset == (zone.hours * Minutes + zone.minutes) * Seconds * MicrosPerSecond
<1>1. offset \in Int
  <2>1. zone.hours * Minutes + zone.minutes \in Int
    OBVIOUS
  <2>2. (zone.hours * Minutes + zone.minutes) * Seconds \in Int
    BY <2>1
  <2> QED
    BY <2>2
<1> HIDE DEF offset
<1>2. micros - offset \in Int /\ micros + offset \in Int
  BY <1>1
<1>3. \/ ToUtc(micros, zone) = Wrapped(micros - offset, MicrosSpan)
      \/ ToUtc(micros, zone) = Wrapped(micros + offset, MicrosSpan)
      \/ ToUtc(micros, zone) = micros
  BY DEF ToUtc, offset
<1> QED
  BY <1>2, <1>3, WrappedInRange

LEMMA ParseTimeType ==
  ASSUME NEW t \in Texts
  PROVE  StampType(ParseTime(t))
<1>1. ASSUME NEW micros, InRange(micros) PROVE StampType(At(micros))
  BY <1>1 DEF StampType, At
<1>2. CASE t.form \in {"iso", "clf", "bsd"}
  <2>1. /\ t.date \in [year : Nat, month : Nat, day : Nat]
        /\ t.time \in [hour : Nat, minute : Nat, second : Nat]
        /\ t.frac \in Seq(0 .. 9)
        /\ t.zone.hours \in Nat /\ t.zone.minutes \in Nat
    BY <1>2, TextsAssumption
  <2>2. ASSUME NEW year \in Int, NEW micro \in Int, DateLegal(t.date)
        PROVE  /\ MicrosFromCivil(Civil(year, t, micro)) \in Int
               /\ InRange(MicrosFromCivil(Civil(year, t, micro)))
    <3>1. PICK c : c = Civil(year, t, micro)
      OBVIOUS
    <3>2. /\ c.year \in Int /\ c.month \in 1 .. 12 /\ c.day \in Int
          /\ c.hour \in Int /\ c.minute \in Int /\ c.second \in Int
          /\ c.micro \in Int
      BY <2>1, <2>2, <3>1 DEF Civil, DateLegal
    <3> QED
      BY <3>1, <3>2, MicrosType
  <2>3. Fraction(t.frac) \in Int
    BY <2>1, FractionType
  <2>4. CASE t.form = "iso"
    <3>1. ParseTime(t) = ParseIso8601(t)
      BY <2>4 DEF ParseTime
    <3>2. CASE IsoLegal(t)
      <4>1. DateLegal(t.date) /\ t.date.year \in Int
        BY <2>1, <3>2 DEF IsoLegal
      <4>2. InRange(MicrosFromCivil(Midnight(t.date)))
        <5>1. PICK c : c = Midnight(t.date)
          OBVIOUS
        <5>2. /\ c.year \in Int /\ c.month \in 1 .. 12 /\ c.day \in Int
              /\ c.hour \in Int /\ c.minute \in Int /\ c.second \in Int
              /\ c.micro \in Int
          BY <2>1, <4>1, <5>1 DEF Midnight, DateLegal
        <5> QED
          BY <5>1, <5>2, MicrosType
      <4>3. InRange(ToUtc(MicrosFromCivil(Civil(t.date.year, t, Fraction(t.frac))),
                          t.zone))
        <5>1. PICK micros \in Int :
                /\ micros = MicrosFromCivil(Civil(t.date.year, t, Fraction(t.frac)))
                /\ InRange(micros)
          BY <2>2, <2>3, <4>1, Zenon
        <5>2. PICK zone : zone = t.zone
          OBVIOUS
        <5>3. InRange(ToUtc(micros, zone))
          BY <2>1, <5>1, <5>2, ToUtcType
        <5> QED
          BY <5>1, <5>2, <5>3
      <4>4. CASE t.clock = "none"
        BY <1>1, <3>1, <3>2, <4>2, <4>4 DEF ParseIso8601
      <4>5. CASE t.clock # "none"
        BY <1>1, <3>1, <3>2, <4>3, <4>5 DEF ParseIso8601
      <4> QED
        BY <4>4, <4>5
    <3>3. CASE ~IsoLegal(t)
      BY <3>1, <3>3 DEF ParseIso8601, StampType
    <3> QED
      BY <3>2, <3>3
  <2>5. CASE t.form = "clf"
    <3>1. ParseTime(t) = ParseClfTime(t)
      BY <2>5 DEF ParseTime
    <3>2. Wrapped(t.date.year, YearSpan) \in Int
      <4>1. PICK year \in Int : year = t.date.year
        BY <2>1
      <4>2. YearSpan \in Nat \ {0}
        BY YearAssumption
      <4>3. year % YearSpan \in Int
        BY <4>2, DivMod
      <4> QED
        BY <4>1, <4>2, <4>3 DEF Wrapped
    <3>3. CASE Plain(t)
      <4>1. InRange(ToUtc(MicrosFromCivil(Civil(Wrapped(t.date.year, YearSpan), t, 0)),
                          t.zone))
        <5>1. PICK year \in Int : year = Wrapped(t.date.year, YearSpan)
          BY <3>2
        <5>2. DateLegal(t.date)
          BY <3>3 DEF Plain
        <5>3. PICK micros \in Int : /\ micros = MicrosFromCivil(Civil(year, t, 0))
                                    /\ InRange(micros)
          <6>1. 0 \in Int
            OBVIOUS
          <6> QED
            BY <2>2, <5>2, <6>1, Zenon
        <5>4. PICK zone : zone = t.zone
          OBVIOUS
        <5>5. InRange(ToUtc(micros, zone))
          BY <2>1, <5>3, <5>4, ToUtcType
        <5> QED
          BY <5>1, <5>3, <5>4, <5>5
      <4> QED
        BY <1>1, <3>1, <3>3, <4>1 DEF ParseClfTime
    <3>4. CASE ~Plain(t)
      BY <3>1, <3>4 DEF ParseClfTime, StampType
    <3> QED
      BY <3>3, <3>4
  <2>6. CASE t.form = "bsd"
    <3>1. ParseTime(t) = ParseSyslogBsdTime(t)
      BY <2>6 DEF ParseTime
    <3>2. CASE Plain(t)
      <4>1. InRange(MicrosFromCivil(Civil(AssumeYear, t, 0)))
        BY <2>2, <3>2, YearAssumption DEF Plain
      <4> QED
        BY <1>1, <3>1, <3>2, <4>1 DEF ParseSyslogBsdTime
    <3>3. CASE ~Plain(t)
      BY <3>1, <3>3 DEF ParseSyslogBsdTime, StampType
    <3> QED
      BY <3>2, <3>3
  <2> QED
    BY <1>2, <2>4, <2>5, <2>6
<1>3. CASE t.form = "epoch"
  <2>1. ParseTime(t) = ParseEpoch(t)
    BY <1>3 DEF ParseTime
  <2>2. t.seconds * MicrosPerSecond \in Int
    BY <1>3, TextsAssumption
  <2>3. InRange(Wrapped(t.seconds * MicrosPerSecond, MicrosSpan))
    BY <2>2, WrappedInRange
  <2> QED
    BY <1>1, <2>1, <2>3 DEF ParseEpoch, StampType
<1>4. CASE t.form = "filetime"
  <2>1. ParseTime(t) = ParseFiletime(t)
    BY <1>4 DEF ParseTime
  <2>2. PICK micros : micros = t.ticks \div 10 - 134774 * MicrosPerDay
    OBVIOUS
  <2>3. MicrosPerDay \in Int
    <3>1. Hours * Minutes \in Int
      OBVIOUS
    <3>2. Hours * Minutes * Seconds \in Int
      BY <3>1
    <3> QED
      BY <3>2 DEF MicrosPerDay, SecondsPerDay
  <2>4. t.ticks \in Nat /\ 2 * micros \in -MicrosSpan .. MicrosSpan - 1
    BY <1>4, <2>2, TextsAssumption
  <2>5. micros \in Int
    BY <2>2, <2>3, <2>4
  <2>6. InRange(micros)
    BY <2>4, <2>5 DEF InRange
  <2> QED
    BY <1>1, <2>1, <2>2, <2>6 DEF ParseFiletime
<1> QED
  BY <1>2, <1>3, <1>4, TextsAssumption

----------------------------------------------------------------------------
(* The walk. Of the days since 1970 those before the year and the month    *)
(* are told by civil, the others are left in days.                         *)
SecondsOf(t) == t.micros \div MicrosPerSecond

DayOf(t) == SecondsOf(t) \div SecondsPerDay

Walking == pc \in {"years", "months", "render", "done"} /\ stamp.valid

DateType ==
  civil \in [year : Int, month : 1 .. 12, day : Int, hour : 0 .. Hours - 1,
             minute : 0 .. Minutes - 1, second : 0 .. Seconds - 1,
             micro : 0 .. MicrosPerSecond - 1]

ClockShown ==
  /\ (civil.hour * Minutes + civil.minute) * Seconds + civil.second =
       SecondsOf(stamp) % SecondsPerDay
  /\ civil.micro = stamp.micros % MicrosPerSecond

YearReached ==
  /\ civil.month = 1
  /\ civil.year >= 1 => DaysBeforeYear(civil.year) + days = DayOf(stamp)
  /\ civil.year < 1970 => days < YearDays(civil.year)

MonthReached ==
  /\ 0 <= days
  /\ MonthStarts(civil.year)[civil.month] + days < YearDays(civil.year)
  /\ civil.year >= 1 =>
       DaysBeforeYear(civil.year) + MonthStarts(civil.year)[civil.month] + days =
         DayOf(stamp)

DateReached ==
  /\ civil.day \in 1 .. DaysInMonth(civil.year, civil.month)
  /\ civil.year >= 1 =>
       DaysBeforeYear(civil.year) + MonthStarts(civil.year)[civil.month]
         + civil.day - 1 = DayOf(stamp)

CivilInv ==
  /\ text \in Texts /\ StampType(stamp) /\ days \in Int
  /\ pc \in {"parse", "split", "years", "months", "render", "done"}
  /\ pc \in {"split", "years", "months", "render"} => stamp.valid
  /\ Walking => DateType /\ ClockShown
  /\ pc = "years" => YearReached
  /\ pc = "months" => MonthReached
  /\ Found => DateReached


LEMMA CivilInit == Init => CivilInv
<1>1. Unknown.valid = FALSE
  BY DEF Unknown
<1> QED
  BY <1>1 DEF Init, CivilInv, StampType, Walking, Found

LEMMA CivilParse == CivilInv /\ Parse => CivilInv'
<1> SUFFICES ASSUME CivilInv, Parse PROVE CivilInv'
  OBVIOUS
<1>1. StampType(stamp')
  BY ParseTimeType DEF CivilInv, Parse
<1>2. CASE stamp' = Unknown
  <2>1. ~stamp'.valid /\ ~Walking' /\ ~Found' /\ pc' = "done"
    BY <1>2 DEF Unknown, Parse, Walking, Found
  <2> QED
    BY <1>1, <2>1 DEF CivilInv, Parse, StampType
<1>3. CASE stamp'.valid = TRUE
  <2>1. pc' = "split" /\ ~Walking' /\ ~Found'
    BY <1>3 DEF Parse, Walking, Found
  <2> QED
    BY <1>1, <1>3, <2>1 DEF CivilInv, Parse, StampType
<1> QED
  BY <1>1, <1>2, <1>3 DEF StampType

LEMMA CivilSplit == CivilInv /\ Split => CivilInv'
<1> SUFFICES ASSUME CivilInv, Split PROVE CivilInv'
  OBVIOUS
<1>1. /\ stamp.valid = TRUE /\ InRange(stamp.micros)
      /\ UNCHANGED <<text, stamp>> /\ pc' = "years"
  BY DEF CivilInv, Split, StampType, Unknown
<1>2. PICK micros \in Int : micros = stamp.micros
  BY <1>1 DEF InRange
<1>3. PICK seconds : seconds = micros \div MicrosPerSecond
  OBVIOUS
<1>4. seconds \in Int /\ micros % MicrosPerSecond \in 0 .. MicrosPerSecond - 1
  BY <1>3, DivMod
<1>5. SecondsPerDay \in Nat \ {0}
  <2>1. Hours * Minutes \in Nat \ {0}
    BY ProductPositive
  <2> QED
    BY <2>1, ProductPositive DEF SecondsPerDay
<1>6. PICK s : s = seconds % SecondsPerDay
  OBVIOUS
<1>7. s \in 0 .. SecondsPerDay - 1 /\ seconds \div SecondsPerDay \in Int
  BY <1>4, <1>5, <1>6, DivMod
<1>8. PICK hour, minute, second : /\ hour = s \div (Minutes * Seconds)
                                  /\ minute = (s \div Seconds) % Minutes
                                  /\ second = s % Seconds
  OBVIOUS
<1>9. /\ hour \in 0 .. Hours - 1 /\ minute \in 0 .. Minutes - 1
      /\ second \in 0 .. Seconds - 1
      /\ s = (hour * Minutes + minute) * Seconds + second
  BY <1>7, <1>8, ClockExact
<1>10. days' = seconds \div SecondsPerDay
  BY <1>2, <1>3 DEF Split
<1>11. civil' = [year |-> 1970, month |-> 1, day |-> 1, hour |-> hour,
                 minute |-> minute, second |-> second,
                 micro |-> micros % MicrosPerSecond]
  BY <1>2, <1>3, <1>6, <1>8 DEF Split
<1>12. DateType'
  BY <1>4, <1>9, <1>11 DEF DateType
<1>13. ClockShown'
  BY <1>1, <1>2, <1>3, <1>6, <1>9, <1>11 DEF ClockShown, SecondsOf
<1>14. YearReached'
  <2>1. DayOf(stamp') = days'
    BY <1>1, <1>2, <1>3, <1>10 DEF DayOf, SecondsOf
  <2>2. days' \in Int
    BY <1>7, <1>10
  <2> QED
    BY <1>11, <2>1, <2>2, EpochStarts DEF YearReached
<1> QED
  BY <1>1, <1>7, <1>10, <1>12, <1>13, <1>14 DEF CivilInv, Walking, Found

(* What the actions share that change the year or the month alone: the     *)
(* time of the day stays shown.                                            *)
LEMMA ClockStays ==
  ASSUME DateType, ClockShown, stamp' = stamp,
         civil'.hour = civil.hour, civil'.minute = civil.minute,
         civil'.second = civil.second, civil'.micro = civil.micro
  PROVE  ClockShown'
BY DEF ClockShown, SecondsOf

LEMMA CivilNextYear == CivilInv /\ NextYear => CivilInv'
<1> SUFFICES ASSUME CivilInv, NextYear PROVE CivilInv'
  OBVIOUS
<1>1. /\ pc = "years" /\ DateType /\ ClockShown /\ YearReached /\ StampType(stamp)
      /\ stamp.valid /\ days \in Int /\ text \in Texts
  BY DEF CivilInv, NextYear, Walking
<1>2. PICK year \in Int : year = civil.year
  BY <1>1 DEF DateType
<1>3. /\ days >= YearDays(year) /\ days' = days - YearDays(year)
      /\ civil' = [civil EXCEPT !.year = year + 1]
      /\ UNCHANGED <<text, stamp, pc>>
  BY <1>2 DEF NextYear
<1>4. YearDays(year) \in Int /\ YearDays(year + 1) \in {365, 366}
  BY YearDaysType
<1>5. year >= 1970
  BY <1>1, <1>2, <1>3, <1>4 DEF YearReached
<1>6. DaysBeforeYear(year + 1) = DaysBeforeYear(year) + YearDays(year)
  BY <1>5, NextYearStarts
<1>7. DaysBeforeYear(year) \in Int
  BY YearDaysType DEF DaysBeforeYear
<1>8. DateType' /\ civil'.year = year + 1 /\ civil'.month = civil.month
  BY <1>1, <1>3 DEF DateType
<1>9. ClockShown'
  BY <1>1, <1>3, ClockStays DEF DateType
<1>10. YearReached'
  <2>1. DaysBeforeYear(year) + days = DayOf(stamp)
    BY <1>1, <1>2, <1>5 DEF YearReached
  <2>2. DaysBeforeYear(year + 1) + days' = DayOf(stamp)
    BY <1>1, <1>3, <1>4, <1>6, <1>7, <2>1
  <2>3. DayOf(stamp') = DayOf(stamp) /\ civil'.month = 1 /\ ~(civil'.year < 1970)
    BY <1>1, <1>3, <1>5, <1>8 DEF YearReached
  <2> QED
    BY <1>8, <2>2, <2>3 DEF YearReached
<1> QED
  BY <1>1, <1>3, <1>4, <1>8, <1>9, <1>10 DEF CivilInv, Walking, Found, StampType

LEMMA CivilPreviousYear == CivilInv /\ PreviousYear => CivilInv'
<1> SUFFICES ASSUME CivilInv, PreviousYear PROVE CivilInv'
  OBVIOUS
<1>1. /\ pc = "years" /\ DateType /\ ClockShown /\ YearReached /\ StampType(stamp)
      /\ stamp.valid /\ days \in Int /\ text \in Texts
  BY DEF CivilInv, PreviousYear, Walking
<1>2. PICK year \in Int : year = civil.year - 1
  BY <1>1 DEF DateType
<1>3. civil' = [civil EXCEPT !.year = year] /\ days < 0
  BY <1>2 DEF PreviousYear
<1>4. DateType' /\ civil'.year = year /\ civil'.month = civil.month
  BY <1>1, <1>3 DEF DateType
<1>5. days' = days + YearDays(year) /\ UNCHANGED <<text, stamp, pc>>
  BY <1>4 DEF PreviousYear
<1>6. YearDays(year) \in {365, 366}
  BY YearDaysType
<1>7. ClockShown'
  BY <1>1, <1>3, <1>5, ClockStays DEF DateType
<1>8. YearReached'
  <2>1. ASSUME year >= 1 PROVE DaysBeforeYear(year) + days' = DayOf(stamp)
    <3>1. DaysBeforeYear(year + 1) = DaysBeforeYear(year) + YearDays(year)
      BY <2>1, NextYearStarts
    <3>2. civil.year = year + 1
      BY <1>1, <1>2 DEF DateType
    <3>3. DaysBeforeYear(year + 1) + days = DayOf(stamp)
      BY <1>1, <2>1, <3>2 DEF YearReached
    <3>4. DaysBeforeYear(year) \in Int
      BY YearDaysType DEF DaysBeforeYear
    <3> QED
      BY <1>1, <1>5, <1>6, <3>1, <3>3, <3>4
  <2>2. DayOf(stamp') = DayOf(stamp) /\ civil'.month = 1 /\ days' < YearDays(year)
    BY <1>1, <1>3, <1>4, <1>5, <1>6 DEF YearReached
  <2> QED
    BY <1>4, <2>1, <2>2 DEF YearReached
<1> QED
  BY <1>1, <1>4, <1>5, <1>6, <1>7, <1>8 DEF CivilInv, Walking, Found, StampType

LEMMA CivilYearFound == CivilInv /\ YearFound => CivilInv'
<1> SUFFICES ASSUME CivilInv, YearFound PROVE CivilInv'
  OBVIOUS
<1>1. /\ pc = "years" /\ DateType /\ ClockShown /\ YearReached /\ StampType(stamp)
      /\ stamp.valid /\ days \in Int /\ text \in Texts
      /\ UNCHANGED <<text, stamp, days, civil>> /\ pc' = "months"
  BY DEF CivilInv, YearFound, Walking
<1>2. PICK year \in Int : year = civil.year
  BY <1>1 DEF DateType
<1>3. 0 <= days /\ days < YearDays(year) /\ civil.month = 1
  BY <1>1, <1>2 DEF YearFound, YearReached
<1>4. MonthStarts(year)[1] = 0
  <2>1. 1 \in 1 .. 12
    OBVIOUS
  <2> QED
    BY <2>1, MonthsGrow
<1>5. YearDays(year) \in {365, 366} /\ DaysBeforeYear(year) \in Int
  BY YearDaysType DEF DaysBeforeYear
<1>6. MonthReached
  BY <1>1, <1>2, <1>3, <1>4, <1>5 DEF YearReached, MonthReached
<1>7. MonthReached' /\ DateType' /\ ClockShown'
  BY <1>1, <1>6 DEF MonthReached, DateType, ClockShown
<1> QED
  BY <1>1, <1>7 DEF CivilInv, Walking, Found, StampType

LEMMA CivilNextMonth == CivilInv /\ NextMonth => CivilInv'
<1> SUFFICES ASSUME CivilInv, NextMonth PROVE CivilInv'
  OBVIOUS
<1>1. /\ pc = "months" /\ DateType /\ ClockShown /\ MonthReached /\ StampType(stamp)
      /\ stamp.valid /\ days \in Int /\ text \in Texts
  BY DEF CivilInv, NextMonth, Walking
<1>2. PICK year \in Int, month \in 1 .. 12 : year = civil.year /\ month = civil.month
  BY <1>1 DEF DateType
<1>3. PICK starts : starts = MonthStarts(year)
  OBVIOUS
<1>4. PICK length : length = DaysInMonth(year, month)
  OBVIOUS
<1>5. /\ days >= length /\ days' = days - length
      /\ civil' = [civil EXCEPT !.month = month + 1]
      /\ UNCHANGED <<text, stamp, pc>>
  BY <1>2, <1>4 DEF NextMonth, MonthPast
<1>6. /\ starts[month] \in Nat /\ length \in 28 .. 31
      /\ starts[month + 1] = starts[month] + length
      /\ starts[13] = YearDays(year)
  BY <1>3, <1>4, MonthsGrow
<1>7. YearDays(year) \in {365, 366} /\ DaysBeforeYear(year) \in Int
  BY YearDaysType DEF DaysBeforeYear
<1>8. /\ 0 <= days /\ starts[month] + days < YearDays(year)
      /\ year >= 1 => DaysBeforeYear(year) + starts[month] + days = DayOf(stamp)
  BY <1>1, <1>2, <1>3 DEF MonthReached
<1>9. 0 <= days' /\ days' \in Int
  BY <1>1, <1>5, <1>6
<1>10. starts[month + 1] + days' = starts[month] + days
  BY <1>1, <1>5, <1>6
<1>11. month + 1 \in 1 .. 12
  <2>1. CASE month = 12
    <3>1. starts[13] + days' = starts[month] + days
      BY <1>10, <2>1
    <3> QED
      BY <1>6, <1>7, <1>8, <1>9, <3>1
  <2>2. CASE month # 12
    BY <2>2
  <2> QED
    BY <2>1, <2>2
<1>12. DateType' /\ civil'.year = year /\ civil'.month = month + 1
  BY <1>1, <1>2, <1>5, <1>11 DEF DateType
<1>13. ClockShown'
  BY <1>1, <1>5, ClockStays DEF DateType
<1>14. MonthReached'
  <2>1. DayOf(stamp') = DayOf(stamp)
    BY <1>5
  <2>2. starts[month + 1] + days' < YearDays(year)
    BY <1>8, <1>10
  <2>3. DaysBeforeYear(year) + starts[month + 1] + days' =
          DaysBeforeYear(year) + starts[month] + days
    BY <1>1, <1>5, <1>6, <1>7
  <2> QED
    BY <1>3, <1>8, <1>9, <1>12, <2>1, <2>2, <2>3 DEF MonthReached
<1> QED
  BY <1>1, <1>5, <1>9, <1>12, <1>13, <1>14 DEF CivilInv, Walking, Found, StampType

LEMMA CivilMonthFound == CivilInv /\ MonthFound => CivilInv'
<1> SUFFICES ASSUME CivilInv, MonthFound PROVE CivilInv'
  OBVIOUS
<1>1. /\ pc = "months" /\ DateType /\ ClockShown /\ MonthReached /\ StampType(stamp)
      /\ stamp.valid /\ days \in Int /\ text \in Texts
      /\ UNCHANGED <<text, stamp, days>> /\ pc' = "render"
  BY DEF CivilInv, MonthFound, Walking
<1>2. PICK year \in Int, month \in 1 .. 12 : year = civil.year /\ month = civil.month
  BY <1>1 DEF DateType
<1>3. ~(month > 12)
  OBVIOUS
<1>4. ~(days >= DaysInMonth(year, month))
  BY <1>2, <1>3 DEF MonthFound, MonthPast
<1>5. civil' = [civil EXCEPT !.month = month, !.day = days + 1]
  BY <1>2, <1>3 DEF MonthFound
<1>6. /\ DateType' /\ civil'.year = year /\ civil'.month = month
      /\ civil'.day = days + 1 /\ civil'.hour = civil.hour
      /\ civil'.minute = civil.minute /\ civil'.second = civil.second
      /\ civil'.micro = civil.micro
  <2>1. PICK dated : dated = [civil EXCEPT !.month = month]
    OBVIOUS
  <2>2. /\ dated = civil
        /\ dated \in [year : Int, month : 1 .. 12, day : Int, hour : 0 .. Hours - 1,
                      minute : 0 .. Minutes - 1, second : 0 .. Seconds - 1,
                      micro : 0 .. MicrosPerSecond - 1]
    BY <1>1, <1>2, <2>1 DEF DateType
  <2>3. civil' = [dated EXCEPT !.day = days + 1] /\ days + 1 \in Int
    BY <1>1, <1>5, <2>1
  <2>4. DateType'
    BY <2>2, <2>3 DEF DateType
  <2> QED
    BY <1>2, <2>2, <2>3, <2>4
<1>7. ClockShown'
  BY <1>1, <1>6, ClockStays
<1>8. DaysInMonth(year, month) \in 28 .. 31 /\ MonthStarts(year)[month] \in Nat
  BY MonthsGrow
<1>9. days + 1 \in 1 .. DaysInMonth(year, month)
  BY <1>1, <1>2, <1>4, <1>8 DEF MonthReached
<1>10. DateReached'
  <2>1. DayOf(stamp') = DayOf(stamp)
    BY <1>1
  <2>2. year >= 1 =>
          DaysBeforeYear(year) + MonthStarts(year)[month] + days = DayOf(stamp)
    BY <1>1, <1>2 DEF MonthReached
  <2>3. DaysBeforeYear(year) \in Int
    BY YearDaysType DEF DaysBeforeYear
  <2>4. DaysBeforeYear(year) + MonthStarts(year)[month] + (days + 1) - 1 =
          DaysBeforeYear(year) + MonthStarts(year)[month] + days
    BY <1>1, <1>8, <2>3
  <2> QED
    BY <1>6, <1>9, <2>1, <2>2, <2>4 DEF DateReached
<1> QED
  BY <1>1, <1>6, <1>7, <1>10 DEF CivilInv, Walking, Found, StampType

LEMMA CivilStays ==
  ASSUME CivilInv, UNCHANGED <<text, stamp, days, civil>>,
         \/ pc' = pc
         \/ pc = "render" /\ pc' = "done"
  PROVE  CivilInv'
<1>1. /\ DateType' = DateType /\ ClockShown' = ClockShown
      /\ YearReached' = YearReached /\ MonthReached' = MonthReached
      /\ DateReached' = DateReached
  BY DEF DateType, ClockShown, YearReached, MonthReached, DateReached
<1> QED
  BY <1>1 DEF CivilInv, Walking, Found

LEMMA CivilStep == CivilInv /\ [Next]_vars => CivilInv'
<1> SUFFICES ASSUME CivilInv, [Next]_vars PROVE CivilInv'
  OBVIOUS
<1>1. CASE Parse
  BY <1>1, CivilParse
<1>2. CASE Split
  BY <1>2, CivilSplit
<1>3. CASE NextYear
  BY <1>3, CivilNextYear
<1>4. CASE PreviousYear
  BY <1>4, CivilPreviousYear
<1>5. CASE YearFound
  BY <1>5, CivilYearFound
<1>6. CASE NextMonth
  BY <1>6, CivilNextMonth
<1>7. CASE MonthFound
  BY <1>7, CivilMonthFound
<1>8. CASE ReadBack
  BY <1>8, CivilStays DEF ReadBack
<1>9. CASE UNCHANGED vars
  BY <1>9, CivilStays DEF vars
<1> QED
  BY <1>1, <1>2, <1>3, <1>4, <1>5, <1>6, <1>7, <1>8, <1>9 DEF Next

----------------------------------------------------------------------------
(* An instant is put together of its day, its time of the day and its      *)
(* microseconds.                                                           *)
LEMMA Recombined ==
  ASSUME NEW micros \in Int,
         NEW hour \in Int, NEW minute \in Int, NEW second \in Int,
         NEW day, day = (micros \div MicrosPerSecond) \div SecondsPerDay,
         (hour * Minutes + minute) * Seconds + second =
           (micros \div MicrosPerSecond) % SecondsPerDay
  PROVE  (((day * Hours + hour) * Minutes + minute) * Seconds + second)
            * MicrosPerSecond + (micros % MicrosPerSecond) = micros
<1>1. PICK seconds : seconds = micros \div MicrosPerSecond
  OBVIOUS
<1>2. /\ seconds \in Int /\ micros % MicrosPerSecond \in Int
      /\ micros = MicrosPerSecond * seconds + (micros % MicrosPerSecond)
  <2>1. PICK scale \in Nat \ {0} : scale = MicrosPerSecond
    OBVIOUS
  <2>2. /\ micros \div scale \in Int /\ micros % scale \in Int
        /\ micros = scale * (micros \div scale) + (micros % scale)
    BY DivMod
  <2> QED
    BY <1>1, <2>1, <2>2
<1>3. SecondsPerDay \in Nat \ {0}
  <2>1. Hours * Minutes \in Nat \ {0}
    BY ProductPositive
  <2> QED
    BY <2>1, ProductPositive DEF SecondsPerDay
<1>4. /\ day \in Int
      /\ seconds = SecondsPerDay * day + (seconds % SecondsPerDay)
  BY <1>1, <1>2, <1>3, DivMod
<1>5. SecondsPerDay * day = ((day * Hours) * Minutes) * Seconds
  BY <1>4 DEF SecondsPerDay
<1>6. ((day * Hours + hour) * Minutes + minute) * Seconds + second = seconds
  <2>1. /\ Hours \in Int /\ Minutes \in Int /\ Seconds \in Int
        /\ day * Hours \in Int /\ hour * Minutes \in Int
        /\ (day * Hours) * Minutes \in Int
    BY <1>4
  <2>2. (day * Hours + hour) * Minutes = (day * Hours) * Minutes + hour * Minutes
    BY <2>1
  <2>3. ((day * Hours) * Minutes + (hour * Minutes + minute)) * Seconds =
          ((day * Hours) * Minutes) * Seconds + (hour * Minutes + minute) * Seconds
    BY <2>1
  <2>4. /\ ((day * Hours) * Minutes) * Seconds \in Int
        /\ (hour * Minutes + minute) * Seconds \in Int
    BY <2>1
  <2>5. (day * Hours + hour) * Minutes + minute =
          (day * Hours) * Minutes + (hour * Minutes + minute)
    BY <2>1, <2>2
  <2> QED
    BY <1>1, <1>4, <1>5, <2>3, <2>4, <2>5
<1>7. MicrosPerSecond * seconds = seconds * MicrosPerSecond
  BY <1>2
<1> QED
  BY <1>2, <1>6, <1>7

LEMMA DateIsExact ==
  ASSUME CivilInv, Found, civil.year >= 1
  PROVE  IsCivil(civil) /\ MicrosFromCivil(civil) = stamp.micros
<1>1. /\ stamp.valid = TRUE /\ InRange(stamp.micros)
      /\ DateType /\ ClockShown /\ DateReached
  BY DEF CivilInv, Found, Walking, StampType, Unknown
<1>2. PICK micros \in Int : micros = stamp.micros
  BY <1>1 DEF InRange
<1>3. PICK year \in Int, month \in 1 .. 12, hour \in Int, minute \in Int, second \in Int :
        /\ year = civil.year /\ month = civil.month /\ hour = civil.hour
        /\ minute = civil.minute /\ second = civil.second
  <2>1. /\ civil.year \in Int /\ civil.month \in 1 .. 12 /\ civil.hour \in Int
        /\ civil.minute \in Int /\ civil.second \in Int
    BY <1>1 DEF DateType
  <2> QED
    BY <2>1, Zenon
<1>4. DaysBeforeMonth(year, month) = MonthStarts(year)[month]
  BY BeforeMonth
<1>5. DayNumber(civil) = DayOf(stamp)
  BY <1>1, <1>3, <1>4 DEF DayNumber, DateReached
<1>6. PICK day : day = DayNumber(civil)
  OBVIOUS
<1>7. /\ day = (micros \div MicrosPerSecond) \div SecondsPerDay
      /\ (hour * Minutes + minute) * Seconds + second =
           (micros \div MicrosPerSecond) % SecondsPerDay
      /\ civil.micro = micros % MicrosPerSecond
  BY <1>1, <1>2, <1>3, <1>5, <1>6 DEF ClockShown, DayOf, SecondsOf
<1>8. MicrosFromCivil(civil) =
        Wrapped((((day * Hours + hour) * Minutes + minute) * Seconds + second)
                  * MicrosPerSecond + (micros % MicrosPerSecond), MicrosSpan)
  BY <1>3, <1>6, <1>7 DEF MicrosFromCivil
<1>9. (((day * Hours + hour) * Minutes + minute) * Seconds + second)
         * MicrosPerSecond + (micros % MicrosPerSecond) = micros
  BY <1>7, Recombined
<1>10. MicrosFromCivil(civil) = Wrapped(micros, MicrosSpan)
  BY <1>8, <1>9, Zenon
<1>11. Wrapped(micros, MicrosSpan) = micros
  BY <1>1, <1>2, WrappedInRange
<1>12. IsCivil(civil)
  BY <1>1 DEF IsCivil, DateType, DateReached
<1> QED
  BY <1>2, <1>10, <1>11, <1>12

(* civil_from_micros inverts micros_from_civil, whatever the text, the     *)
(* units of the day and the width of the microseconds: from the year 1 on  *)
(* the date it walks to exists, and is the instant it was given.           *)
THEOREM WalkIsExact == Spec => []WalkExact
<1>1. CivilInv => WalkExact
  BY DateIsExact DEF WalkExact
<1> QED
  BY <1>1, CivilInit, CivilStep, PTL DEF Spec

----------------------------------------------------------------------------
(* The digits of a fraction are read as the number they were written from. *)
LEMMA NestedDivision ==
  ASSUME NEW a \in Int, NEW b \in Nat \ {0}, NEW c \in Nat \ {0}
  PROVE  a \div (c * b) = (a \div b) \div c
<1> DEFINE q == a \div b  r == a % b  u == q \div c  s == q % c
<1>1. q \in Int /\ r \in 0 .. b - 1 /\ a = b * q + r
  BY DivMod
<1>2. u \in Int /\ s \in 0 .. c - 1 /\ q = c * u + s
  BY <1>1, DivMod
<1> HIDE DEF q, r, u, s
<1>3. PICK P : P = c * b
  OBVIOUS
<1>4. P \in Nat \ {0}
  BY <1>3, ProductPositive
<1> DEFINE w == b * s + r
<1>5. a = P * u + w
  <2>1. b * q = b * (c * u) + b * s
    BY <1>2
  <2>2. b * (c * u) = (c * b) * u
    BY <1>2
  <2>3. b * (c * u) \in Int /\ b * s \in Int
    BY <1>2
  <2> QED
    BY <1>1, <1>3, <2>1, <2>2, <2>3
<1>6. w \in 0 .. P - 1
  <2>1. b * s + b <= b * c
    BY <1>2, NextMultiple
  <2>2. b * s \in Nat /\ b * c = P
    BY <1>2, <1>3
  <2> QED
    BY <1>1, <1>4, <2>1, <2>2
<1>7. a \div P \in Int /\ a % P \in 0 .. P - 1 /\ a = P * (a \div P) + (a % P)
  BY <1>4, DivMod
<1> HIDE DEF w
<1>8. a \div P = u
  <2>1. PICK p, e : p = a \div P /\ e = a % P
    OBVIOUS
  <2>2. P * p + e = P * u + w
    BY <1>5, <1>7, <2>1
  <2> QED
    BY <1>2, <1>4, <1>6, <1>7, <2>1, <2>2, DivisionUnique
<1> QED
  BY <1>3, <1>8 DEF u, q

(* A function that adds one digit after the other has the number at last.  *)
LEMMA FractionIs ==
  ASSUME NEW frac, NEW J,
         J = [k \in 0 .. FracDigits |->
                IF k = 0 THEN 0
                ELSE 10 * J[k - 1] + IF k <= Len(frac) THEN frac[k] ELSE 0]
  PROVE  Fraction(frac) = J[FracDigits]
<1> DEFINE Digit(k) == IF k <= Len(frac) THEN frac[k] ELSE 0
      value == CHOOSE v : v = [k \in 0 .. FracDigits |->
                 IF k = 0 THEN 0 ELSE 10 * v[k - 1] + Digit(k)]
      Wrong == {m \in 0 .. FracDigits : value[m] # J[m]}
<1> HIDE DEF Digit
<1>1. J = [k \in 0 .. FracDigits |-> IF k = 0 THEN 0 ELSE 10 * J[k - 1] + Digit(k)]
  BY Zenon DEF Digit
<1>2. value = [k \in 0 .. FracDigits |->
                 IF k = 0 THEN 0 ELSE 10 * value[k - 1] + Digit(k)]
  BY <1>1
<1>3. Fraction(frac) = value[FracDigits]
  BY DEF Fraction, Digit
<1> HIDE DEF value
<1>4. SUFFICES ASSUME Wrong # {} PROVE FALSE
  <2>1. FracDigits \in 0 .. FracDigits
    OBVIOUS
  <2> QED
    BY <1>3, <2>1
<1>5. PICK m \in Wrong : \A k \in Wrong : m <= k
  <2>1. 0 .. FracDigits \subseteq Nat
    OBVIOUS
  <2>2. Wrong \in SUBSET Nat
    BY <2>1
  <2> QED
    BY <1>4, <2>2, SmallestExists
<1>6. m \in 0 .. FracDigits /\ value[m] # J[m]
  BY <1>5
<1>7. CASE m = 0
  BY <1>1, <1>2, <1>6, <1>7
<1>8. CASE m # 0
  <2>1. m - 1 \in 0 .. FracDigits /\ ~(m <= m - 1)
    BY <1>6, <1>8
  <2>2. value[m - 1] = J[m - 1]
    BY <1>5, <2>1
  <2>3. value[m] = 10 * value[m - 1] + Digit(m)
    BY <1>2, <1>6, <1>8
  <2>4. J[m] = 10 * J[m - 1] + Digit(m)
    BY <1>1, <1>6, <1>8
  <2> QED
    BY <1>6, <2>2, <2>3, <2>4
<1> QED
  BY <1>7, <1>8

LEMMA NoFraction == Fraction(<<>>) = 0
<1>1. PICK frac : frac = <<>>
  OBVIOUS
<1>2. \A k \in 0 .. FracDigits : k # 0 => ~(k <= Len(frac)) /\ k - 1 \in 0 .. FracDigits
  BY <1>1
<1>3. PICK J : J = [k \in 0 .. FracDigits |-> 0]
  OBVIOUS
<1>4. J = [k \in 0 .. FracDigits |->
             IF k = 0 THEN 0
             ELSE 10 * J[k - 1] + IF k <= Len(frac) THEN frac[k] ELSE 0]
  BY <1>2, <1>3
<1>5. J[FracDigits] = 0
  BY <1>3
<1>6. Fraction(frac) = J[FracDigits]
  BY <1>4, FractionIs
<1> QED
  BY <1>1, <1>5, <1>6

LEMMA FractionReadBack ==
  ASSUME NEW micro \in 0 .. MicrosPerSecond - 1
  PROVE  Fraction(FractionText(micro)) = micro
<1> DEFINE P(k) == 10 ^ k
      J == [k \in 0 .. FracDigits |-> micro \div P(FracDigits - k)]
      frac == FractionText(micro)
<1>1. FracDigits \in Nat /\ P(0) = 1 /\ P(FracDigits) = MicrosPerSecond
  BY PowersAssumption
<1>2. \A k \in 1 .. FracDigits : P(k - 1) \in Nat \ {0} /\ P(k) = 10 * P(k - 1)
  BY PowersAssumption
<1>3. frac = [k \in 1 .. FracDigits |-> (micro \div P(FracDigits - k)) % 10]
  BY DEF FractionText
<1>4. MicrosPerSecond \in Nat \ {0} /\ micro \in Int
  OBVIOUS
<1> HIDE DEF P, frac
<1>5. Len(frac) = FracDigits
  BY <1>1, <1>3
<1>6. micro \div P(FracDigits) = 0
  <2>1. PICK scale \in Nat \ {0} : scale = P(FracDigits)
    BY <1>1, <1>4
  <2>2. micro \in 0 .. scale - 1
    BY <1>1, <2>1
  <2>3. /\ micro \div scale \in Int /\ micro % scale \in 0 .. scale - 1
        /\ micro = scale * (micro \div scale) + (micro % scale)
    BY <1>4, DivMod
  <2>4. PICK p \in Int, e \in 0 .. scale - 1 : p = micro \div scale /\ e = micro % scale
    BY <2>3
  <2>5. scale * p + e = scale * 0 + micro
    BY <2>2, <2>3, <2>4
  <2>6. p = 0
    <3>1. 0 \in Int
      OBVIOUS
    <3> QED
      BY <2>2, <2>5, <3>1, DivisionUnique
  <2> QED
    BY <2>1, <2>4, <2>6
<1>7. ASSUME NEW k \in 1 .. FracDigits
      PROVE  J[k] = 10 * J[k - 1] + frac[k]
  <2>1. PICK n \in 1 .. FracDigits : n = FracDigits - k + 1
    BY <1>1
  <2>2. /\ n - 1 = FracDigits - k /\ n = FracDigits - (k - 1)
        /\ k \in 0 .. FracDigits /\ k - 1 \in 0 .. FracDigits
    BY <1>1, <2>1
  <2>3. PICK scale \in Nat \ {0} : scale = P(n - 1)
    BY <1>2
  <2>4. P(n) = 10 * scale
    BY <1>2, <2>3
  <2>5. micro \div (10 * scale) = (micro \div scale) \div 10
    <3>1. 10 \in Nat \ {0}
      OBVIOUS
    <3> QED
      BY <1>4, <3>1, NestedDivision, ZenonT(30)
  <2>6. micro \div scale \in Int
    BY <1>4, DivMod
  <2>7. PICK q \in Int : q = micro \div scale
    BY <2>6
  <2>8. /\ J[k] = q /\ J[k - 1] = q \div 10 /\ frac[k] = q % 10
    BY <1>3, <2>2, <2>3, <2>4, <2>5, <2>7
  <2>9. q = 10 * (q \div 10) + (q % 10)
    OBVIOUS
  <2> QED
    BY <2>8, <2>9
<1>8. J[0] = 0
  <2>1. FracDigits - 0 = FracDigits /\ 0 \in 0 .. FracDigits
    BY <1>1
  <2> QED
    BY <1>6, <2>1
<1>9. J[FracDigits] = micro
  <2>1. FracDigits - FracDigits = 0 /\ FracDigits \in 0 .. FracDigits
    BY <1>1
  <2>2. J[FracDigits] = micro \div 1
    BY <1>1, <2>1
  <2> QED
    BY <1>4, <2>2
<1>10. J = [k \in 0 .. FracDigits |-> J[k]]
  OBVIOUS
<1> HIDE DEF J
<1>11. \A k \in 0 .. FracDigits :
         J[k] = IF k = 0 THEN 0
                ELSE 10 * J[k - 1] + IF k <= Len(frac) THEN frac[k] ELSE 0
  <2> TAKE k \in 0 .. FracDigits
  <2>1. CASE k = 0
    BY <1>8, <2>1
  <2>2. CASE k # 0
    <3>1. k \in 1 .. FracDigits /\ k <= Len(frac)
      BY <1>1, <1>5, <2>2
    <3> QED
      BY <1>7, <2>2, <3>1
  <2> QED
    BY <2>1, <2>2
<1>12. J = [k \in 0 .. FracDigits |->
              IF k = 0 THEN 0
              ELSE 10 * J[k - 1] + IF k <= Len(frac) THEN frac[k] ELSE 0]
  BY <1>10, <1>11, Zenon
<1>13. Fraction(frac) = micro
  BY <1>9, <1>12, FractionIs
<1> QED
  BY <1>13 DEF frac

----------------------------------------------------------------------------
(* What the walk does not touch: the instant is that of the text, and what *)
(* is read back is the rendering of the date. From the year 1 on the walk  *)
(* back in time does not go past it.                                       *)
ReadInv ==
  /\ pc # "parse" => stamp = ParseTime(text)
  /\ pc = "done" /\ stamp.valid => back = ParseIso8601(ToIso8601(civil))
  /\ Walking /\ DayOf(stamp) >= DaysBeforeYear(1) => civil.year >= 1

LEMMA ReadInit == Init => ReadInv
BY DEF Init, ReadInv, Walking

LEMMA ReadStep == CivilInv /\ ReadInv /\ [Next]_vars => ReadInv'
<1> SUFFICES ASSUME CivilInv, ReadInv, [Next]_vars PROVE ReadInv'
  OBVIOUS
<1>1. CASE Parse
  <2>1. pc' # "parse" /\ stamp' = ParseTime(text') /\ ~Walking'
        /\ (pc' = "done" => ~stamp'.valid)
    BY <1>1 DEF Parse, Walking
  <2> QED
    BY <2>1 DEF ReadInv
<1>2. CASE Split
  <2>1. pc' = "years" /\ civil'.year = 1970 /\ UNCHANGED <<text, stamp>>
        /\ pc = "split"
    BY <1>2 DEF Split
  <2> QED
    BY <2>1 DEF ReadInv
<1>3. CASE NextYear
  <2>1. /\ pc = "years" /\ UNCHANGED <<text, stamp, pc>> /\ Walking
        /\ civil \in [year : Int, month : 1 .. 12, day : Int, hour : 0 .. Hours - 1,
                      minute : 0 .. Minutes - 1, second : 0 .. Seconds - 1,
                      micro : 0 .. MicrosPerSecond - 1]
        /\ civil' = [civil EXCEPT !.year = @ + 1]
    BY <1>3 DEF NextYear, CivilInv, Walking, DateType
  <2>2. civil.year \in Int /\ civil'.year = civil.year + 1
    BY <2>1
  <2>3. DayOf(stamp') = DayOf(stamp)
    BY <2>1
  <2> QED
    BY <2>1, <2>2, <2>3 DEF ReadInv, Walking
<1>4. CASE PreviousYear
  <2>1. /\ pc = "years" /\ UNCHANGED <<text, stamp, pc>> /\ Walking
        /\ civil \in [year : Int, month : 1 .. 12, day : Int, hour : 0 .. Hours - 1,
                      minute : 0 .. Minutes - 1, second : 0 .. Seconds - 1,
                      micro : 0 .. MicrosPerSecond - 1]
        /\ civil' = [civil EXCEPT !.year = @ - 1]
        /\ days \in Int /\ days < 0 /\ YearReached
    BY <1>4 DEF PreviousYear, CivilInv, Walking, DateType
  <2>2. civil.year \in Int /\ civil'.year = civil.year - 1
    BY <2>1
  <2>3. DayOf(stamp') = DayOf(stamp)
    BY <2>1
  <2>4. ASSUME DayOf(stamp) >= DaysBeforeYear(1) PROVE civil'.year >= 1
    <3>1. civil.year >= 1
      BY <2>1, <2>4 DEF ReadInv
    <3>2. DaysBeforeYear(civil.year) + days = DayOf(stamp)
      BY <2>1, <3>1 DEF YearReached
    <3>3. PICK start \in Int : start = DaysBeforeYear(1)
      BY YearDaysType DEF DaysBeforeYear
    <3>4. civil.year # 1
      <4> SUFFICES ASSUME civil.year = 1 PROVE FALSE
        OBVIOUS
      <4>1. start + days >= start
        BY <2>4, <3>2, <3>3
      <4> QED
        BY <2>1, <3>3, <4>1
    <3> QED
      BY <2>2, <3>1, <3>4
  <2> QED
    BY <2>1, <2>3, <2>4 DEF ReadInv, Walking
<1>5. CASE YearFound
  <2>1. pc = "years" /\ pc' = "months" /\ UNCHANGED <<text, stamp, civil>>
    BY <1>5 DEF YearFound
  <2> QED
    BY <2>1 DEF ReadInv, Walking, DayOf, SecondsOf
<1>6. CASE NextMonth \/ MonthFound
  <2>1. /\ pc = "months" /\ pc' \in {"months", "render"} /\ UNCHANGED <<text, stamp>>
        /\ Walking
        /\ \/ civil' = [civil EXCEPT !.month = @ + 1]
           \/ civil' = [civil EXCEPT !.month = IF @ > 12 THEN 12 ELSE @, !.day = days + 1]
        /\ civil \in [year : Int, month : 1 .. 12, day : Int, hour : 0 .. Hours - 1,
                      minute : 0 .. Minutes - 1, second : 0 .. Seconds - 1,
                      micro : 0 .. MicrosPerSecond - 1]
    BY <1>6 DEF NextMonth, MonthFound, CivilInv, Walking, DateType
  <2>2. civil'.year = civil.year
    BY <2>1
  <2>3. DayOf(stamp') = DayOf(stamp)
    BY <2>1
  <2> QED
    BY <2>1, <2>2, <2>3 DEF ReadInv
<1>7. CASE ReadBack
  <2>1. /\ pc = "render" /\ pc' = "done" /\ UNCHANGED <<text, stamp, civil>>
        /\ back' = ParseIso8601(ToIso8601(civil))
    BY <1>7 DEF ReadBack
  <2>2. back' = ParseIso8601(ToIso8601(civil'))
    BY <2>1
  <2>3. DayOf(stamp') = DayOf(stamp) /\ civil'.year = civil.year
    BY <2>1
  <2> QED
    BY <2>1, <2>2, <2>3 DEF ReadInv, Walking
<1>8. CASE UNCHANGED vars
  <2>1. UNCHANGED <<pc, text, stamp, civil, back>>
    BY <1>8 DEF vars
  <2>2. /\ (back' = ParseIso8601(ToIso8601(civil'))) =
             (back = ParseIso8601(ToIso8601(civil)))
        /\ (stamp' = ParseTime(text')) = (stamp = ParseTime(text))
        /\ DayOf(stamp') = DayOf(stamp) /\ civil'.year = civil.year
    BY <2>1
  <2> QED
    BY <2>1, <2>2 DEF ReadInv, Walking
<1> QED
  BY <1>1, <1>2, <1>3, <1>4, <1>5, <1>6, <1>7, <1>8 DEF Next

(* What is known of a time is that it is one.                              *)
LEMMA ParseTimeShape ==
  ASSUME NEW t \in Texts, ParseTime(t).valid
  PROVE  ParseTime(t) = At(ParseTime(t).micros)
<1>1. ASSUME NEW s, s = Unknown \/ \E m : s = At(m), s.valid PROVE s = At(s.micros)
  BY <1>1 DEF Unknown, At
<1>2. t.form \in {"iso", "clf", "bsd", "epoch", "filetime"}
  BY TextsAssumption
<1>3. ParseTime(t) \in {ParseIso8601(t), ParseClfTime(t), ParseSyslogBsdTime(t),
                        ParseEpoch(t), ParseFiletime(t)}
  BY <1>2 DEF ParseTime
<1>4. ParseTime(t) = Unknown \/ \E m : ParseTime(t) = At(m)
  <2>1. CASE ParseTime(t) = ParseIso8601(t)
    BY <2>1 DEF ParseIso8601
  <2>2. CASE ParseTime(t) = ParseClfTime(t)
    BY <2>2 DEF ParseClfTime
  <2>3. CASE ParseTime(t) = ParseSyslogBsdTime(t)
    BY <2>3 DEF ParseSyslogBsdTime
  <2>4. CASE ParseTime(t) = ParseEpoch(t)
    BY <2>4 DEF ParseEpoch
  <2>5. CASE ParseTime(t) = ParseFiletime(t)
    BY <2>5 DEF ParseFiletime
  <2> QED
    BY <1>3, <2>1, <2>2, <2>3, <2>4, <2>5
<1> QED
  BY <1>1, <1>4

(* The years that are written with four digits, from the year 1 on.        *)
FourDigits(year) == year \in 1 .. 9999

LEMMA FourDigitsRange ==
  ASSUME NEW year, FourDigits(year)
  PROVE  year \in Int /\ year >= 1 /\ 0 <= year /\ year <= 9999
BY DEF FourDigits

(* The rendering of a date of four digits of year is read as that date.    *)
LEMMA RenderingIsRead ==
  ASSUME DateType, FourDigits(civil.year),
         civil.day \in 1 .. DaysInMonth(civil.year, civil.month)
  PROVE  ParseIso8601(ToIso8601(civil)) = At(MicrosFromCivil(civil))
<1>1. PICK t : t = ToIso8601(civil)
  OBVIOUS
<1>2. /\ t.date = [year |-> civil.year, month |-> civil.month, day |-> civil.day]
      /\ t.clock = "full"
      /\ t.time = [hour |-> civil.hour, minute |-> civil.minute,
                   second |-> civil.second]
      /\ t.frac = FractionText(civil.micro)
      /\ t.zone = [sign |-> "Z", hours |-> 0, minutes |-> 0]
  BY <1>1 DEF ToIso8601
<1>3. /\ civil.month \in 1 .. 12 /\ civil.hour \in 0 .. Hours - 1
      /\ civil.minute \in 0 .. Minutes - 1 /\ civil.second \in 0 .. Seconds - 1
      /\ civil.micro \in 0 .. MicrosPerSecond - 1
      /\ civil = [year |-> civil.year, month |-> civil.month, day |-> civil.day,
                  hour |-> civil.hour, minute |-> civil.minute,
                  second |-> civil.second, micro |-> civil.micro]
  BY DEF DateType
<1>4. civil.day \in 1 .. 31
  <2>1. PICK year \in Int, month \in 1 .. 12 :
          year = civil.year /\ month = civil.month
    <3>1. civil.year \in Int
      BY DEF DateType
    <3> QED
      BY <1>3, <3>1, Zenon
  <2>2. DaysInMonth(year, month) \in 28 .. 31
    BY MonthsGrow
  <2>3. PICK day : day = civil.day
    OBVIOUS
  <2>4. day \in 1 .. DaysInMonth(year, month)
    BY <2>1, <2>3, Zenon
  <2>5. day \in 1 .. 31
    BY <2>2, <2>4
  <2> QED
    BY <2>3, <2>5
<1>5. IsoLegal(t)
  <2>2. \A s \in 0 .. Seconds - 1 : s \in 0 .. Seconds
    OBVIOUS
  <2>3. 0 <= t.date.year /\ t.date.year <= 9999
    <3>1. t.date.year = civil.year
      BY <1>2
    <3>2. 0 <= civil.year /\ civil.year <= 9999
      BY FourDigitsRange
    <3> QED
      BY <3>1, <3>2
  <2>4. DateLegal(t.date)
    BY <1>2, <1>3, <1>4 DEF DateLegal
  <2>5. ClockLegal(t.time)
    BY <1>2, <1>3, <2>2 DEF ClockLegal
  <2>6. t.clock # "cut" /\ t.zone.sign # "cut"
    BY <1>2
  <2> QED
    BY <2>3, <2>4, <2>5, <2>6 DEF IsoLegal
<1>6. Fraction(t.frac) = civil.micro
  <2>1. PICK micro \in 0 .. MicrosPerSecond - 1 : micro = civil.micro
    BY <1>3
  <2>2. Fraction(FractionText(micro)) = micro
    BY FractionReadBack
  <2> QED
    BY <1>2, <2>1, <2>2
<1>7. Civil(t.date.year, t, civil.micro) = civil
  <2>1. civil.second # Seconds
    BY <1>3
  <2> QED
    BY <1>2, <1>3, <2>1 DEF Civil
<1>8. ASSUME NEW micros PROVE ToUtc(micros, t.zone) = micros
  BY <1>2 DEF ToUtc
<1>9. ParseIso8601(t) =
        At(ToUtc(MicrosFromCivil(Civil(t.date.year, t, Fraction(t.frac))), t.zone))
  BY <1>2, <1>5 DEF ParseIso8601
<1> QED
  BY <1>1, <1>6, <1>7, <1>8, <1>9

(* Whatever instant a text was parsed into, its rendering in a year of     *)
(* four digits is read as the same instant by the parser of ISO 8601.      *)
THEOREM TimesAreReadBack == Spec => []TimesReadBack
<1>1. CivilInv /\ ReadInv => TimesReadBack
  <2>0. TimesReadBack = (pc = "done" /\ stamp.valid /\ FourDigits(civil.year)
                           => back = stamp)
    BY DEF TimesReadBack, FourDigits
  <2> SUFFICES ASSUME CivilInv, ReadInv, pc = "done" /\ stamp.valid,
                      FourDigits(civil.year)
               PROVE  back = stamp
    BY <2>0, Zenon
  <2>1. Found /\ civil.year >= 1 /\ DateType /\ DateReached /\ text \in Texts
    <3>1. civil.year >= 1
      BY FourDigitsRange
    <3>2. Found /\ Walking
      BY DEF Found, Walking
    <3> QED
      BY <3>1, <3>2, Zenon DEF CivilInv
  <2>2. MicrosFromCivil(civil) = stamp.micros
    BY <2>1, DateIsExact
  <2>3. back = At(MicrosFromCivil(civil))
    <3>1. civil.day \in 1 .. DaysInMonth(civil.year, civil.month)
      BY <2>1 DEF DateReached
    <3>2. back = ParseIso8601(ToIso8601(civil))
      BY DEF ReadInv
    <3> QED
      BY <2>1, <3>1, <3>2, RenderingIsRead
  <2>4. stamp = ParseTime(text)
    BY DEF ReadInv
  <2>5. stamp = At(stamp.micros)
    BY <2>1, <2>4, ParseTimeShape
  <2> QED
    BY <2>2, <2>3, <2>5
<1>2. Spec => [](CivilInv /\ ReadInv)
  BY CivilInit, CivilStep, ReadInit, ReadStep, PTL DEF Spec
<1> QED
  BY <1>1, <1>2, PTL

----------------------------------------------------------------------------
(* An earlier year ends before a later one starts, and so does a month.    *)
LEMMA YearsGrow ==
  ASSUME NEW y \in Int, y >= 1, NEW z \in Int, y < z
  PROVE  DaysBeforeYear(y) + YearDays(y) <= DaysBeforeYear(z)
<1> DEFINE Early(x) == y < x /\ ~(DaysBeforeYear(y) + YearDays(y) <= DaysBeforeYear(x))
      Wrong == {x \in Nat : Early(x)}
<1>1. \A x \in Int : DaysBeforeYear(x) \in Int /\ YearDays(x) \in {365, 366}
  BY YearDaysType DEF DaysBeforeYear
<1>2. DaysBeforeYear(y + 1) = DaysBeforeYear(y) + YearDays(y)
  BY NextYearStarts
<1>3. SUFFICES ASSUME Wrong # {} PROVE FALSE
  BY <1>1
<1>4. PICK x \in Wrong : \A k \in Wrong : x <= k
  <2>1. Wrong \in SUBSET Nat
    OBVIOUS
  <2> QED
    BY <1>3, <2>1, SmallestExists
<1>5. x \in Nat /\ Early(x)
  BY <1>4
<1>6. CASE x = y + 1
  BY <1>1, <1>2, <1>5, <1>6
<1>7. CASE x # y + 1
  <2>1. PICK w \in Nat : w = x - 1
    BY <1>5
  <2>2. y < w /\ w >= 1 /\ x = w + 1 /\ ~(x <= w)
    BY <1>5, <1>7, <2>1
  <2>3. ~Early(w)
    BY <1>4, <2>2
  <2>4. DaysBeforeYear(x) = DaysBeforeYear(w) + YearDays(w)
    BY <2>2, NextYearStarts
  <2>5. /\ DaysBeforeYear(w) \in Int /\ YearDays(w) \in {365, 366}
        /\ DaysBeforeYear(y) \in Int /\ YearDays(y) \in {365, 366}
    BY <1>1
  <2> QED
    BY <1>5, <2>2, <2>3, <2>4, <2>5
<1> QED
  BY <1>6, <1>7

LEMMA MonthsApart ==
  ASSUME NEW year \in Int, NEW m \in 1 .. 12, NEW n \in 1 .. 13, m < n
  PROVE  MonthStarts(year)[m] + DaysInMonth(year, m) <= MonthStarts(year)[n]
<1> DEFINE T == MonthStarts(year)
      Early(x) == ~(T[m] + DaysInMonth(year, m) <= T[x])
      Wrong == {x \in m + 1 .. n : Early(x)}
<1>1. \A x \in 1 .. 12 : /\ T[x] \in Nat /\ DaysInMonth(year, x) \in 28 .. 31
                         /\ T[x + 1] = T[x] + DaysInMonth(year, x)
  BY MonthsGrow
<1> HIDE DEF T
<1>2. SUFFICES ASSUME Wrong # {} PROVE FALSE
  <2>1. n \in m + 1 .. n
    OBVIOUS
  <2>2. ~Early(n)
    BY <1>2, <2>1
  <2> QED
    BY <2>2 DEF T
<1>3. PICK x \in Wrong : \A k \in Wrong : x <= k
  <2>1. m + 1 .. n \subseteq Nat
    OBVIOUS
  <2>2. Wrong \in SUBSET Nat
    BY <2>1
  <2> QED
    BY <1>2, <2>2, SmallestExists
<1>4. x \in m + 1 .. n /\ Early(x)
  BY <1>3
<1>5. CASE x = m + 1
  BY <1>1, <1>4, <1>5
<1>6. CASE x # m + 1
  <2>1. x - 1 \in m + 1 .. n /\ x - 1 \in 1 .. 12 /\ x = x - 1 + 1 /\ ~(x <= x - 1)
    BY <1>4, <1>6
  <2>2. ~Early(x - 1)
    BY <1>3, <2>1
  <2>3. T[x] = T[x - 1] + DaysInMonth(year, x - 1)
    BY <1>1, <2>1
  <2>4. /\ T[x - 1] \in Nat /\ DaysInMonth(year, x - 1) \in 28 .. 31
        /\ T[m] \in Nat /\ DaysInMonth(year, m) \in 28 .. 31
    BY <1>1, <2>1
  <2> QED
    BY <1>4, <2>2, <2>3, <2>4
<1> QED
  BY <1>5, <1>6

(* A day of a month is a day of its year.                                  *)
LEMMA DayInYear ==
  ASSUME NEW year \in Int, NEW month \in 1 .. 12,
         NEW day \in 1 .. DaysInMonth(year, month)
  PROVE  /\ MonthStarts(year)[month] + day - 1 \in 0 .. YearDays(year) - 1
         /\ MonthStarts(year)[month] \in Nat /\ DaysInMonth(year, month) \in 28 .. 31
         /\ YearDays(year) \in {365, 366}
<1>1. /\ MonthStarts(year)[month] \in Nat /\ DaysInMonth(year, month) \in 28 .. 31
      /\ MonthStarts(year)[13] = YearDays(year)
  BY MonthsGrow
<1>2. MonthStarts(year)[month] + DaysInMonth(year, month) <= MonthStarts(year)[13]
  <2>1. 13 \in 1 .. 13 /\ month < 13
    OBVIOUS
  <2> QED
    BY <2>1, MonthsApart
<1>3. YearDays(year) \in {365, 366}
  BY YearDaysType
<1> QED
  BY <1>1, <1>2, <1>3

DayAt(year, month, day) == DaysBeforeYear(year) + MonthStarts(year)[month] + day - 1

IsDate(year, month, day) ==
  year \in Int /\ year >= 1 /\ month \in 1 .. 12 /\ day \in 1 .. DaysInMonth(year, month)

(* Two dates of the same day are the same date.                            *)
LEMMA DatesApart ==
  ASSUME NEW y, NEW m, NEW d, IsDate(y, m, d), NEW z, NEW n, NEW e, IsDate(z, n, e),
         DayAt(y, m, d) = DayAt(z, n, e)
  PROVE  y = z /\ m = n /\ d = e
<1>0. /\ y \in Int /\ y >= 1 /\ m \in 1 .. 12 /\ d \in 1 .. DaysInMonth(y, m)
      /\ z \in Int /\ z >= 1 /\ n \in 1 .. 12 /\ e \in 1 .. DaysInMonth(z, n)
  BY DEF IsDate
<1>1. /\ MonthStarts(y)[m] + d - 1 \in 0 .. YearDays(y) - 1
      /\ MonthStarts(y)[m] \in Nat /\ DaysInMonth(y, m) \in 28 .. 31
      /\ YearDays(y) \in {365, 366}
  BY <1>0, DayInYear
<1>2. /\ MonthStarts(z)[n] + e - 1 \in 0 .. YearDays(z) - 1
      /\ MonthStarts(z)[n] \in Nat /\ DaysInMonth(z, n) \in 28 .. 31
      /\ YearDays(z) \in {365, 366}
  BY <1>0, DayInYear
<1>3. DaysBeforeYear(y) \in Int /\ DaysBeforeYear(z) \in Int
  BY <1>0, YearDaysType DEF DaysBeforeYear
<1>4. ~(y < z)
  <2> SUFFICES ASSUME y < z PROVE FALSE
    OBVIOUS
  <2>1. DaysBeforeYear(y) + YearDays(y) <= DaysBeforeYear(z)
    BY <1>0, YearsGrow
  <2> QED
    BY <1>0, <1>1, <1>2, <1>3, <2>1 DEF DayAt
<1>5. ~(z < y)
  <2> SUFFICES ASSUME z < y PROVE FALSE
    OBVIOUS
  <2>1. DaysBeforeYear(z) + YearDays(z) <= DaysBeforeYear(y)
    BY <1>0, YearsGrow
  <2> QED
    BY <1>0, <1>1, <1>2, <1>3, <2>1 DEF DayAt
<1>6. y = z
  BY <1>0, <1>4, <1>5
<1>7. MonthStarts(y)[m] + d = MonthStarts(y)[n] + e
  BY <1>0, <1>1, <1>2, <1>3, <1>6 DEF DayAt
<1>8. ~(m < n)
  <2> SUFFICES ASSUME m < n PROVE FALSE
    OBVIOUS
  <2>1. MonthStarts(y)[m] + DaysInMonth(y, m) <= MonthStarts(y)[n]
    BY <1>0, <1>6, MonthsApart
  <2> QED
    BY <1>0, <1>1, <1>2, <1>6, <1>7, <2>1
<1>9. ~(n < m)
  <2> SUFFICES ASSUME n < m PROVE FALSE
    OBVIOUS
  <2>1. MonthStarts(y)[n] + DaysInMonth(y, n) <= MonthStarts(y)[m]
    BY <1>0, <1>6, MonthsApart
  <2> QED
    BY <1>0, <1>1, <1>2, <1>6, <1>7, <2>1
<1>10. m = n
  BY <1>0, <1>8, <1>9
<1> QED
  BY <1>0, <1>1, <1>2, <1>6, <1>7, <1>10

(* How far a year is from the epoch.                                       *)
LEMMA FirstYearStarts == DaysBeforeYear(1) = -719162
BY DEF DaysBeforeYear, Leaps, Quotient

LEMMA YearStartsBy ==
  ASSUME NEW year \in Int, year >= 1
  PROVE  /\ DaysBeforeYear(year) \in Int
         /\ DaysBeforeYear(year) >= DaysBeforeYear(1)
         /\ year <= 1970 => DaysBeforeYear(year) <= 0
         /\ year >= 1970 => DaysBeforeYear(year) <= (year - 1970) * 366
<1> DEFINE Late(x) == x >= 1970 /\ ~(DaysBeforeYear(x) <= (x - 1970) * 366)
      Wrong == {x \in Nat : Late(x)}
<1>1. \A x \in Int : DaysBeforeYear(x) \in Int /\ YearDays(x) \in {365, 366}
  BY YearDaysType DEF DaysBeforeYear
<1>2. DaysBeforeYear(year) >= DaysBeforeYear(1)
  <2>1. CASE year = 1
    BY <1>1, <2>1
  <2>2. CASE year # 1
    <3>1. PICK first \in Int : first = 1
      OBVIOUS
    <3>2. first >= 1 /\ first < year
      BY <2>2, <3>1
    <3>3. DaysBeforeYear(first) + YearDays(first) <= DaysBeforeYear(year)
      BY <3>2, YearsGrow
    <3> QED
      BY <1>1, <3>1, <3>3
  <2> QED
    BY <2>1, <2>2
<1>3. year <= 1970 => DaysBeforeYear(year) <= 0
  <2>1. ASSUME year < 1970 PROVE DaysBeforeYear(year) <= 0
    <3>1. DaysBeforeYear(year) + YearDays(year) <= DaysBeforeYear(1970)
      BY <2>1, YearsGrow
    <3> QED
      BY <1>1, <3>1, EpochStarts
  <2> QED
    BY <2>1, EpochStarts
<1>4. Wrong = {}
  <2>0. SUFFICES ASSUME Wrong # {} PROVE FALSE
    BY Zenon
  <2>1. PICK x \in Wrong : \A k \in Wrong : x <= k
    <3>1. Wrong \in SUBSET Nat
      OBVIOUS
    <3> HIDE DEF Wrong
    <3> QED
      BY <2>0, <3>1, SmallestExists
  <2>2. x \in Nat /\ Late(x)
    BY <2>1
  <2>3. x # 1970
    BY <2>2, EpochStarts
  <2>4. PICK w \in Nat : w = x - 1
    BY <2>2
  <2>5. w >= 1970 /\ x = w + 1 /\ ~(x <= w)
    BY <2>2, <2>3, <2>4
  <2>6. ~Late(w)
    BY <2>1, <2>5
  <2>7. DaysBeforeYear(x) = DaysBeforeYear(w) + YearDays(w)
    BY <2>5, NextYearStarts
  <2> QED
    BY <1>1, <2>2, <2>5, <2>6, <2>7
<1>5. year >= 1970 => DaysBeforeYear(year) <= (year - 1970) * 366
  BY <1>4
<1> QED
  BY <1>1, <1>2, <1>3, <1>5

----------------------------------------------------------------------------
(* The units of a day are told apart.                                      *)
LEMMA UnitsType ==
  /\ Hours \in Nat \ {0} /\ Minutes \in Nat \ {0} /\ Seconds \in Nat \ {0}
  /\ SecondsPerDay \in Nat \ {0} /\ MicrosPerDay \in Nat \ {0}
<1>1. Hours * Minutes \in Nat \ {0}
  BY ProductPositive
<1>2. SecondsPerDay \in Nat \ {0}
  BY <1>1, ProductPositive DEF SecondsPerDay
<1>3. MicrosPerDay \in Nat \ {0}
  BY <1>2, ProductPositive DEF MicrosPerDay
<1> QED
  BY <1>2, <1>3

LEMMA DivisionIs ==
  ASSUME NEW b \in Nat \ {0}, NEW q \in Int, NEW r \in 0 .. b - 1,
         NEW a, a = b * q + r
  PROVE  a \in Int /\ a \div b = q /\ a % b = r
<1>1. a \in Int
  <2>1. b * q \in Int
    OBVIOUS
  <2> QED
    BY <2>1
<1>2. PICK p \in Int, s \in 0 .. b - 1 :
        p = a \div b /\ s = a % b /\ a = b * p + s
  <2>1. a \div b \in Int /\ a % b \in 0 .. b - 1 /\ a = b * (a \div b) + (a % b)
    BY <1>1, DivMod
  <2> QED
    BY <2>1
<1>3. b * p + s = b * q + r
  BY <1>2
<1>4. p = q /\ s = r
  BY <1>3, DivisionUnique
<1> QED
  BY <1>1, <1>2, <1>4

(* A number of smaller and larger units is below the next larger one.      *)
LEMMA UnitsBelow ==
  ASSUME NEW b \in Nat \ {0}, NEW c \in Nat \ {0},
         NEW q \in 0 .. c - 1, NEW r \in 0 .. b - 1
  PROVE  q * b + r \in 0 .. c * b - 1 /\ q * b = b * q /\ c * b \in Nat \ {0}
<1>1. b * q + b <= b * c
  BY NextMultiple
<1>2. b * q = q * b /\ b * c = c * b /\ q * b \in Nat /\ c * b \in Nat \ {0}
  BY ProductPositive
<1> QED
  BY <1>1, <1>2

LEMMA ClockBelow ==
  ASSUME NEW hour \in 0 .. Hours - 1, NEW minute \in 0 .. Minutes - 1,
         NEW second \in 0 .. Seconds - 1
  PROVE  (hour * Minutes + minute) * Seconds + second \in 0 .. SecondsPerDay - 1
<1>1. /\ hour * Minutes + minute \in 0 .. Hours * Minutes - 1
      /\ Hours * Minutes \in Nat \ {0}
  BY UnitsType, UnitsBelow
<1>2. PICK c \in Nat \ {0} : c = Hours * Minutes
  BY <1>1
<1>3. PICK q \in 0 .. c - 1 : q = hour * Minutes + minute
  BY <1>1, <1>2
<1>4. q * Seconds + second \in 0 .. c * Seconds - 1
  BY UnitsType, UnitsBelow
<1> QED
  BY <1>2, <1>3, <1>4 DEF SecondsPerDay

(* Two clocks that show the same second show the same.                     *)
LEMMA ClocksApart ==
  ASSUME NEW hour \in 0 .. Hours - 1, NEW minute \in 0 .. Minutes - 1,
         NEW second \in 0 .. Seconds - 1,
         NEW h \in 0 .. Hours - 1, NEW m \in 0 .. Minutes - 1,
         NEW s \in 0 .. Seconds - 1,
         (hour * Minutes + minute) * Seconds + second = (h * Minutes + m) * Seconds + s
  PROVE  hour = h /\ minute = m /\ second = s
<1>1. PICK q \in Int, p \in Int : q = hour * Minutes + minute /\ p = h * Minutes + m
  BY UnitsType
<1>2. Seconds * q + second = Seconds * p + s
  <2>1. q * Seconds = Seconds * q /\ p * Seconds = Seconds * p
    BY UnitsType
  <2> QED
    BY <1>1, <2>1
<1>3. q = p /\ second = s
  BY <1>2, UnitsType, DivisionUnique
<1>4. Minutes * hour + minute = Minutes * h + m
  <2>1. hour * Minutes = Minutes * hour /\ h * Minutes = Minutes * h
    BY UnitsType
  <2> QED
    BY <1>1, <1>3, <2>1
<1>5. hour = h /\ minute = m
  <2>1. hour \in Int /\ h \in Int
    OBVIOUS
  <2> QED
    BY <1>4, <2>1, UnitsType, DivisionUnique
<1> QED
  BY <1>3, <1>5

(* The instant of a day and a time of the day, taken apart again, and the  *)
(* day it is in.                                                           *)
LEMMA TakenApart ==
  ASSUME NEW day \in Int, NEW hour \in 0 .. Hours - 1,
         NEW minute \in 0 .. Minutes - 1, NEW second \in 0 .. Seconds - 1,
         NEW micro \in 0 .. MicrosPerSecond - 1,
         NEW micros,
         micros = (((day * Hours + hour) * Minutes + minute) * Seconds + second)
                    * MicrosPerSecond + micro
  PROVE  /\ micros \in Int
         /\ (micros \div MicrosPerSecond) \div SecondsPerDay = day
         /\ (micros \div MicrosPerSecond) % SecondsPerDay =
              (hour * Minutes + minute) * Seconds + second
         /\ micros % MicrosPerSecond = micro
         /\ MicrosPerDay * day <= micros /\ micros < MicrosPerDay * day + MicrosPerDay
<1>1. PICK clock \in 0 .. SecondsPerDay - 1 :
        clock = (hour * Minutes + minute) * Seconds + second
  BY ClockBelow
<1>2. PICK scale \in Nat \ {0} : scale = MicrosPerSecond
  OBVIOUS
<1>3. PICK seconds : seconds = ((day * Hours + hour) * Minutes + minute) * Seconds + second
  OBVIOUS
<1>4. seconds = SecondsPerDay * day + clock
  <2>1. /\ Hours \in Int /\ Minutes \in Int /\ Seconds \in Int
        /\ day * Hours \in Int /\ hour * Minutes \in Int
        /\ (day * Hours) * Minutes \in Int
    BY UnitsType
  <2>2. (day * Hours + hour) * Minutes = (day * Hours) * Minutes + hour * Minutes
    BY <2>1
  <2>3. ((day * Hours) * Minutes + (hour * Minutes + minute)) * Seconds =
          ((day * Hours) * Minutes) * Seconds + (hour * Minutes + minute) * Seconds
    BY <2>1
  <2>4. /\ ((day * Hours) * Minutes) * Seconds \in Int
        /\ (hour * Minutes + minute) * Seconds \in Int
    BY <2>1
  <2>5. (day * Hours + hour) * Minutes + minute =
          (day * Hours) * Minutes + (hour * Minutes + minute)
    BY <2>1, <2>2
  <2>6. SecondsPerDay * day = ((day * Hours) * Minutes) * Seconds
    BY UnitsType DEF SecondsPerDay
  <2> QED
    BY <1>1, <1>3, <2>3, <2>4, <2>5, <2>6
<1>5. /\ seconds \in Int /\ seconds \div SecondsPerDay = day
      /\ seconds % SecondsPerDay = clock
  BY <1>4, UnitsType, DivisionIs
<1>6. micro \in 0 .. scale - 1
  BY <1>2
<1>7. micros = scale * seconds + micro
  <2>1. scale * seconds = seconds * scale
    BY <1>5
  <2> QED
    BY <1>2, <1>3, <2>1
<1>8. micros \in Int /\ micros \div scale = seconds /\ micros % scale = micro
  BY <1>5, <1>6, <1>7, DivisionIs, ZenonT(30)
<1>9. MicrosPerDay * day <= micros /\ micros < MicrosPerDay * day + MicrosPerDay
  <2>1. PICK perDay \in Nat \ {0} : perDay = SecondsPerDay
    BY UnitsType
  <2>2. clock \in 0 .. perDay - 1
    BY <2>1
  <2>3. clock * scale + micro \in 0 .. perDay * scale - 1
    BY <1>6, <2>2, UnitsBelow
  <2>4. scale * seconds = scale * (perDay * day) + clock * scale
    BY <1>4, <2>1, <2>2
  <2>5. scale * (perDay * day) = (perDay * scale) * day
    BY <2>1
  <2>6. PICK length \in Nat \ {0} : length = perDay * scale
    BY ProductPositive
  <2>7. length = MicrosPerDay
    BY <1>2, <2>1, <2>6 DEF MicrosPerDay
  <2>8. length * day \in Int /\ clock * scale \in Int
    BY <2>2, <2>6
  <2>9. micros = length * day + (clock * scale + micro)
    BY <1>7, <2>4, <2>5, <2>6, <2>8
  <2>10. MicrosPerDay * day = length * day
    BY <2>7
  <2> QED
    BY <1>6, <2>3, <2>6, <2>7, <2>8, <2>9, <2>10
<1> QED
  BY <1>1, <1>2, <1>5, <1>8, <1>9

----------------------------------------------------------------------------
(* The years an i64 can tell.                                              *)
LastYears == MicrosSpan \div (2 * 366 * MicrosPerDay)

Told(year) == year >= 1 /\ year - 1969 <= LastYears

LEMMA ProductGrows ==
  ASSUME NEW b \in Nat, NEW p \in Int, NEW q \in Int, p <= q
  PROVE  b * p \in Int /\ b * q \in Int /\ b * p <= b * q
<1>1. PICK d \in Nat : q = p + d
  <2>1. q - p \in Nat /\ q = p + (q - p)
    OBVIOUS
  <2> QED
    BY <2>1
<1>2. b * q = b * p + b * d /\ b * d \in Nat /\ b * p \in Int
  BY <1>1
<1> QED
  BY <1>2

LEMMA DayFits ==
  ASSUME NEW year \in Int, year >= 1, year - 1969 <= LastYears,
         NEW day \in Int, DaysBeforeYear(1) <= day, day + 1 <= DaysBeforeYear(year + 1),
         NEW micros \in Int, MicrosPerDay * day <= micros,
         micros < MicrosPerDay * day + MicrosPerDay
  PROVE  InRange(micros)
<1>1. PICK length \in Nat \ {0} : length = MicrosPerDay
  BY UnitsType
<1>2. MicrosSpan \in Nat \ {0}
  OBVIOUS
<1>3. -MicrosSpan <= 2 * micros
  <2>1. -719162 <= day
    BY FirstYearStarts
  <2>2. length * (-719162) <= length * day /\ length * day \in Int
    BY <2>1, ProductGrows
  <2>3. 2 * 719162 * length <= MicrosSpan
    BY <1>1, SpanAssumption
  <2>4. length * day <= micros
    BY <1>1
  <2> QED
    BY <1>2, <2>2, <2>3, <2>4
<1>4. 2 * micros < MicrosSpan
  <2>1. length * (day + 1) = length * day + length /\ length * day \in Int
    OBVIOUS
  <2>2. micros < length * (day + 1)
    BY <1>1, <2>1
  <2>3. CASE year <= 1969
    <3>1. DaysBeforeYear(year + 1) <= 0 /\ DaysBeforeYear(year + 1) \in Int
      <4>1. year + 1 \in Int /\ year + 1 >= 1 /\ year + 1 <= 1970
        BY <2>3
      <4> QED
        BY <4>1, YearStartsBy
    <3>2. day + 1 <= 0
      BY <3>1
    <3>3. length * (day + 1) <= length * 0
      BY <3>2, ProductGrows
    <3> QED
      BY <1>2, <2>1, <2>2, <3>3
  <2>4. CASE year > 1969
    <3>1. PICK n \in Nat : n = year - 1969
      BY <2>4
    <3>2. DaysBeforeYear(year + 1) <= n * 366 /\ DaysBeforeYear(year + 1) \in Int
      <4>1. year + 1 \in Int /\ year + 1 >= 1 /\ year + 1 >= 1970
            /\ year + 1 - 1970 = n
        BY <2>4, <3>1
      <4> QED
        BY <4>1, YearStartsBy
    <3>3. day + 1 <= 366 * n
      BY <3>2
    <3>4. length * (day + 1) <= length * (366 * n)
      BY <3>3, ProductGrows
    <3>5. length * (366 * n) = 366 * (length * n) /\ length * n \in Int
      OBVIOUS
    <3>6. PICK unit \in Nat \ {0} : unit = 2 * 366 * length
      OBVIOUS
    <3>7. PICK limit \in Int : limit = LastYears /\ unit * limit <= MicrosSpan
      <4>1. LastYears = MicrosSpan \div unit
        BY <1>1, <3>6 DEF LastYears
      <4>2. /\ MicrosSpan \div unit \in Int /\ MicrosSpan % unit \in 0 .. unit - 1
            /\ MicrosSpan = unit * (MicrosSpan \div unit) + (MicrosSpan % unit)
        BY <1>2, DivMod
      <4>3. PICK p \in Int : p = MicrosSpan \div unit
        BY <4>2
      <4>4. unit * p \in Int
        OBVIOUS
      <4> QED
        BY <1>2, <4>1, <4>2, <4>3, <4>4
    <3>8. n <= limit
      BY <3>1, <3>7
    <3>9. unit * n <= unit * limit
      BY <3>8, ProductGrows
    <3>10. unit * n = 732 * (length * n)
      BY <3>6
    <3>11. unit * n <= MicrosSpan
      <4>1. unit * n \in Int /\ unit * limit \in Int
        OBVIOUS
      <4> QED
        BY <1>2, <3>7, <3>9, <4>1
    <3> QED
      BY <1>2, <2>1, <2>2, <3>4, <3>5, <3>10, <3>11
  <2> QED
    BY <2>3, <2>4
<1> QED
  BY <1>3, <1>4 DEF InRange

(* A date of those years is an instant, of which it can be found again.    *)
LEMMA DateFits ==
  ASSUME NEW date, date.year \in Int, Told(date.year), IsCivil(date),
         NEW micros, micros = MicrosFromCivil(date)
  PROVE  /\ micros \in Int /\ InRange(micros)
         /\ (micros \div MicrosPerSecond) \div SecondsPerDay =
              DaysBeforeYear(date.year) + MonthStarts(date.year)[date.month]
                + date.day - 1
         /\ (micros \div MicrosPerSecond) % SecondsPerDay =
              (date.hour * Minutes + date.minute) * Seconds + date.second
         /\ micros % MicrosPerSecond = date.micro
<1>1. PICK year \in Int, month \in 1 .. 12 : year = date.year /\ month = date.month
  <2>1. date.month \in 1 .. 12
    BY DEF IsCivil
  <2> QED
    BY <2>1, Zenon
<1>2. PICK d \in 1 .. DaysInMonth(year, month) : d = date.day
  BY <1>1, Zenon DEF IsCivil
<1>3. PICK hour \in 0 .. Hours - 1, minute \in 0 .. Minutes - 1,
           second \in 0 .. Seconds - 1, micro \in 0 .. MicrosPerSecond - 1 :
        /\ hour = date.hour /\ minute = date.minute
        /\ second = date.second /\ micro = date.micro
  BY Zenon DEF IsCivil
<1>4. year >= 1 /\ year - 1969 <= LastYears
  BY <1>1 DEF Told
<1>5. /\ MonthStarts(year)[month] + d - 1 \in 0 .. YearDays(year) - 1
      /\ MonthStarts(year)[month] \in Nat /\ YearDays(year) \in {365, 366}
      /\ DaysInMonth(year, month) \in 28 .. 31
  BY DayInYear, SMTT(30)
<1>6. DaysBeforeYear(year) \in Int /\ DaysBeforeYear(year) >= DaysBeforeYear(1)
  BY <1>4, YearStartsBy
<1>7. PICK day \in Int : day = DaysBeforeYear(year) + MonthStarts(year)[month] + d - 1
  BY <1>5, <1>6
<1>8. DaysBeforeYear(1) <= day /\ day + 1 <= DaysBeforeYear(year + 1)
  <2>1. DaysBeforeYear(year + 1) = DaysBeforeYear(year) + YearDays(year)
    BY <1>4, NextYearStarts
  <2>2. DaysBeforeYear(1) \in Int
    BY FirstYearStarts
  <2> QED
    BY <1>5, <1>6, <1>7, <2>1, <2>2
<1>9. DayNumber(date) = day
  <2>1. DaysBeforeMonth(year, month) = MonthStarts(year)[month]
    BY BeforeMonth
  <2> QED
    BY <1>1, <1>2, <1>7, <2>1 DEF DayNumber
<1>10. PICK total : total = (((day * Hours + hour) * Minutes + minute) * Seconds + second)
                              * MicrosPerSecond + micro
  OBVIOUS
<1>11. /\ total \in Int
       /\ (total \div MicrosPerSecond) \div SecondsPerDay = day
       /\ (total \div MicrosPerSecond) % SecondsPerDay =
            (hour * Minutes + minute) * Seconds + second
       /\ total % MicrosPerSecond = micro
       /\ MicrosPerDay * day <= total /\ total < MicrosPerDay * day + MicrosPerDay
  BY <1>10, TakenApart
<1>12. InRange(total)
  BY <1>4, <1>8, <1>11, DayFits
<1>13. MicrosFromCivil(date) = Wrapped(total, MicrosSpan)
  BY <1>1, <1>3, <1>9, <1>10, Zenon DEF MicrosFromCivil
<1>14. micros = total
  BY <1>11, <1>12, <1>13, WrappedInRange
<1>15. DaysBeforeYear(date.year) + MonthStarts(date.year)[date.month] + date.day - 1 = day
  BY <1>1, <1>2, <1>7
<1> QED
  BY <1>1, <1>3, <1>11, <1>12, <1>14, <1>15

LEMMA YearIsKept ==
  ASSUME NEW year \in Nat, Told(year)
  PROVE  Wrapped(year, YearSpan) = year
<1>1. PICK last : last = LastYears
  OBVIOUS
<1>2. last \in Int
  <2>1. 2 * 366 * MicrosPerDay \in Nat \ {0}
    BY UnitsType
  <2> QED
    BY <1>1, <2>1, DivMod DEF LastYears
<1>3. 2 * (1969 + last) < YearSpan
  BY <1>1, SpanAssumption DEF LastYears
<1>4. YearSpan \in Nat \ {0}
  BY YearAssumption
<1>5. 2 * year < YearSpan /\ year \in 0 .. YearSpan - 1
  BY <1>1, <1>2, <1>3, <1>4 DEF Told
<1>6. year % YearSpan = year
  <2>1. /\ year \div YearSpan \in Int /\ year % YearSpan \in 0 .. YearSpan - 1
        /\ year = YearSpan * (year \div YearSpan) + (year % YearSpan)
    BY <1>4, DivMod
  <2>2. PICK p \in Int, e \in 0 .. YearSpan - 1 :
          p = year \div YearSpan /\ e = year % YearSpan
    BY <2>1
  <2>3. YearSpan * p + e = YearSpan * 0 + year
    BY <1>4, <2>1, <2>2
  <2>4. e = year
    <3>1. 0 \in Int
      OBVIOUS
    <3> QED
      BY <1>4, <1>5, <2>3, <3>1, DivisionUnique
  <2> QED
    BY <2>2, <2>4
<1> QED
  BY <1>5, <1>6 DEF Wrapped

LEMMA NoOffset ==
  ASSUME NEW micros \in Int, InRange(micros),
         NEW zone, zone.hours = 0, zone.minutes = 0
  PROVE  ToUtc(micros, zone) = micros
<1>1. (zone.hours * Minutes + zone.minutes) * Seconds * MicrosPerSecond = 0
  <2>1. zone.hours * Minutes + zone.minutes = 0
    BY UnitsType
  <2> QED
    BY <2>1, UnitsType
<1>2. micros - 0 = micros /\ micros + 0 = micros
  OBVIOUS
<1>3. Wrapped(micros, MicrosSpan) = micros
  BY WrappedInRange
<1> QED
  BY <1>1, <1>2, <1>3, Zenon DEF ToUtc

(* A date that exists is parsed into the instant of what is written.       *)
LEMMA WrittenIsParsed ==
  ASSUME text \in Texts, text.form \in {"iso", "clf", "bsd"}, ParseTime(text).valid,
         text.clock = "full", text.zone.hours = 0, text.zone.minutes = 0,
         IsCivil(Written), Told(Written.year)
  PROVE  /\ Written.year \in Int
         /\ ParseTime(text) = At(MicrosFromCivil(Written))
<1>1. /\ text.date \in [year : Nat, month : Nat, day : Nat]
      /\ text.time \in [hour : Nat, minute : Nat, second : Nat]
      /\ text.frac \in Seq(0 .. 9)
  BY TextsAssumption
<1>2. /\ Written = [year |-> IF text.form = "bsd" THEN AssumeYear ELSE text.date.year,
                    month |-> text.date.month, day |-> text.date.day,
                    hour |-> text.time.hour, minute |-> text.time.minute,
                    second |-> text.time.second, micro |-> Fraction(text.frac)]
      /\ text.date.year \in Nat /\ AssumeYear \in Int
  BY <1>1, YearAssumption DEF Written
<1>3. text.time.second # Seconds
  <2>1. Written.second \in 0 .. Seconds - 1
    BY DEF IsCivil
  <2>2. Written.second = text.time.second
    BY <1>2
  <2> QED
    BY <2>1, <2>2, UnitsType
<1>4. ASSUME NEW year, year = Written.year, NEW micro, micro = Written.micro
      PROVE  Civil(year, text, micro) = Written
  BY <1>2, <1>3, <1>4 DEF Civil
<1>5. Written.year = IF text.form = "bsd" THEN AssumeYear ELSE text.date.year
  BY <1>2
<1>6. Written.year \in Int /\ Written.micro = Fraction(text.frac)
  BY <1>2, <1>5
<1>7. PICK micros \in Int : micros = MicrosFromCivil(Written) /\ InRange(micros)
  BY <1>6, DateFits
<1>8. ToUtc(micros, text.zone) = micros
  BY <1>7, NoOffset
<1>9. ~Unknown.valid
  BY DEF Unknown
<1>10. CASE text.form = "iso"
  <2>1. ParseTime(text) = ParseIso8601(text)
    BY <1>10 DEF ParseTime
  <2>2. IsoLegal(text)
    BY <1>9, <2>1 DEF ParseIso8601
  <2>3. Civil(text.date.year, text, Fraction(text.frac)) = Written
    BY <1>4, <1>5, <1>6, <1>10
  <2> QED
    BY <1>6, <1>7, <1>8, <2>1, <2>2, <2>3 DEF ParseIso8601
<1>11. CASE text.form = "clf"
  <2>1. ParseTime(text) = ParseClfTime(text)
    BY <1>11 DEF ParseTime
  <2>2. Plain(text)
    BY <1>9, <2>1 DEF ParseClfTime
  <2>3. Fraction(text.frac) = 0
    BY <2>2, NoFraction DEF Plain
  <2>4. text.date.year = Written.year
    BY <1>5, <1>11
  <2>5. Wrapped(text.date.year, YearSpan) = Written.year
    BY <1>2, <2>4, YearIsKept
  <2>6. Civil(Wrapped(text.date.year, YearSpan), text, 0) = Written
    BY <1>4, <1>6, <2>3, <2>5
  <2> QED
    BY <1>6, <1>7, <1>8, <2>1, <2>2, <2>6 DEF ParseClfTime
<1>12. CASE text.form = "bsd"
  <2>1. ParseTime(text) = ParseSyslogBsdTime(text)
    BY <1>12 DEF ParseTime
  <2>2. Plain(text)
    BY <1>9, <2>1 DEF ParseSyslogBsdTime
  <2>3. Fraction(text.frac) = 0
    BY <2>2, NoFraction DEF Plain
  <2>4. Civil(AssumeYear, text, 0) = Written
    BY <1>4, <1>5, <1>6, <1>12, <2>3
  <2> QED
    BY <1>6, <2>1, <2>2, <2>4 DEF ParseSyslogBsdTime
<1> QED
  BY <1>10, <1>11, <1>12

(* The date that is found and the date that is written are of the same day *)
(* and show the same clock, so they are the same.                          *)
LEMMA DateIsKept ==
  ASSUME CivilInv, ReadInv, Found,
         text.form \in {"iso", "clf", "bsd"}, text.clock = "full",
         text.zone.hours = 0, text.zone.minutes = 0,
         IsCivil(Written), Told(Written.year)
  PROVE  civil = Written
<1>1. /\ text \in Texts /\ Walking /\ DateType /\ ClockShown /\ DateReached
      /\ stamp = ParseTime(text) /\ stamp.valid
  BY DEF CivilInv, ReadInv, Found, Walking
<1>2. Written.year \in Int /\ stamp = At(MicrosFromCivil(Written))
  BY <1>1, WrittenIsParsed
<1>3. PICK micros : micros = MicrosFromCivil(Written)
  OBVIOUS
<1>4. stamp.micros = micros
  BY <1>2, <1>3 DEF At
<1>5. /\ (micros \div MicrosPerSecond) \div SecondsPerDay =
           DaysBeforeYear(Written.year) + MonthStarts(Written.year)[Written.month]
             + Written.day - 1
      /\ (micros \div MicrosPerSecond) % SecondsPerDay =
           (Written.hour * Minutes + Written.minute) * Seconds + Written.second
      /\ micros % MicrosPerSecond = Written.micro
  BY <1>2, <1>3, DateFits
<1>6. PICK z \in Int, n \in 1 .. 12, e \in 1 .. DaysInMonth(Written.year, Written.month),
           hour \in 0 .. Hours - 1, minute \in 0 .. Minutes - 1,
           second \in 0 .. Seconds - 1 :
        /\ z = Written.year /\ n = Written.month /\ e = Written.day
        /\ hour = Written.hour /\ minute = Written.minute /\ second = Written.second
  BY <1>2, Zenon DEF IsCivil
<1>7. DaysBeforeYear(z) + MonthStarts(z)[n] + e - 1 = DayOf(stamp)
  BY <1>4, <1>5, <1>6 DEF DayOf, SecondsOf
<1>8. e \in 1 .. DaysInMonth(z, n) /\ z >= 1
  BY <1>6 DEF Told
<1>9. civil.year >= 1
  <2>1. DaysBeforeYear(z) \in Int /\ DaysBeforeYear(z) >= DaysBeforeYear(1)
    BY <1>8, YearStartsBy
  <2>2. /\ MonthStarts(z)[n] + e - 1 \in 0 .. YearDays(z) - 1
        /\ MonthStarts(z)[n] \in Nat /\ YearDays(z) \in {365, 366}
        /\ DaysInMonth(z, n) \in 28 .. 31
    BY <1>8, DayInYear, SMTT(30)
  <2>3. DayOf(stamp) >= DaysBeforeYear(1)
    <3>1. DaysBeforeYear(1) \in Int
      BY FirstYearStarts
    <3> QED
      BY <1>7, <1>8, <2>1, <2>2, <3>1
  <2> QED
    BY <1>1, <2>3 DEF ReadInv
<1>10. PICK y \in Int, m \in 1 .. 12, d \in 1 .. DaysInMonth(civil.year, civil.month),
            h \in 0 .. Hours - 1, mi \in 0 .. Minutes - 1, s \in 0 .. Seconds - 1 :
        /\ y = civil.year /\ m = civil.month /\ d = civil.day
        /\ h = civil.hour /\ mi = civil.minute /\ s = civil.second
  <2>1. /\ civil.year \in Int /\ civil.month \in 1 .. 12
        /\ civil.hour \in 0 .. Hours - 1 /\ civil.minute \in 0 .. Minutes - 1
        /\ civil.second \in 0 .. Seconds - 1
    BY <1>1 DEF DateType
  <2>2. civil.day \in 1 .. DaysInMonth(civil.year, civil.month)
    BY <1>1 DEF DateReached
  <2> QED
    BY <2>1, <2>2, Zenon
<1>11. d \in 1 .. DaysInMonth(y, m) /\ y >= 1
  BY <1>9, <1>10
<1>12. DaysBeforeYear(y) + MonthStarts(y)[m] + d - 1 = DayOf(stamp)
  BY <1>1, <1>9, <1>10 DEF DateReached
<1>13. y = z /\ m = n /\ d = e
  <2>1. DayAt(y, m, d) = DayAt(z, n, e)
    BY <1>7, <1>12, Zenon DEF DayAt
  <2>2. IsDate(y, m, d) /\ IsDate(z, n, e)
    BY <1>8, <1>11, Zenon DEF IsDate
  <2> QED
    BY <2>1, <2>2, DatesApart
<1>14. h = hour /\ mi = minute /\ s = second
  <2>1. (h * Minutes + mi) * Seconds + s = SecondsOf(stamp) % SecondsPerDay
    BY <1>1, <1>10 DEF ClockShown
  <2>2. (hour * Minutes + minute) * Seconds + second = SecondsOf(stamp) % SecondsPerDay
    BY <1>4, <1>5, <1>6 DEF SecondsOf
  <2> QED
    BY <2>1, <2>2, ClocksApart
<1>15. civil.micro = Written.micro
  BY <1>1, <1>4, <1>5 DEF ClockShown
<1>16. civil = [year |-> civil.year, month |-> civil.month, day |-> civil.day,
                hour |-> civil.hour, minute |-> civil.minute,
                second |-> civil.second, micro |-> civil.micro]
  BY <1>1 DEF DateType
<1>17. Written = [year |-> Written.year, month |-> Written.month,
                  day |-> Written.day, hour |-> Written.hour,
                  minute |-> Written.minute, second |-> Written.second,
                  micro |-> Written.micro]
  BY DEF Written
<1> QED
  BY <1>6, <1>10, <1>13, <1>14, <1>15, <1>16, <1>17, Zenon

(* A date that exists, written in any of the three notations without an    *)
(* offset, is the date that is found, in every year an i64 can tell.       *)
THEOREM DatesAreKept == Spec => []DatesKept
<1> DEFINE Far == Written.year < 1 \/ Written.year - 1969 > LastYears
<1>1. DatesKept = (Found /\ text.form \in {"iso", "clf", "bsd"} =>
                     \/ text.clock # "full"
                     \/ text.zone.hours # 0 \/ text.zone.minutes # 0
                     \/ ~IsCivil(Written)
                     \/ Far
                     \/ civil = Written)
  BY DEF DatesKept, LastYears
<1>2. ASSUME CivilInv, ReadInv, Found, text.form \in {"iso", "clf", "bsd"},
             text.clock = "full", text.zone.hours = 0, text.zone.minutes = 0,
             IsCivil(Written), ~Far
      PROVE  civil = Written
  <2>1. text \in Texts
    BY <1>2 DEF CivilInv
  <2>2. text.date \in [year : Nat, month : Nat, day : Nat]
    BY <1>2, <2>1, TextsAssumption
  <2>3. Written.year \in Int
    BY <2>2, YearAssumption DEF Written
  <2>4. LastYears \in Int
    <3>1. PICK unit \in Nat \ {0} : unit = 2 * 366 * MicrosPerDay
      BY UnitsType
    <3>2. MicrosSpan \in Int
      OBVIOUS
    <3>3. MicrosSpan \div unit \in Int
      BY <3>2, DivMod
    <3> QED
      BY <3>1, <3>3 DEF LastYears
  <2>5. PICK year \in Int, last \in Int : year = Written.year /\ last = LastYears
    BY <2>3, <2>4
  <2>6. year >= 1 /\ year - 1969 <= last
    BY <1>2, <2>5
  <2>7. Told(Written.year)
    BY <2>5, <2>6 DEF Told
  <2> QED
    BY <1>2, <2>7, DateIsKept
<1> HIDE DEF Far
<1>3. CivilInv /\ ReadInv => DatesKept
  BY <1>1, <1>2, Zenon
<1>4. Spec => [](CivilInv /\ ReadInv)
  BY CivilInit, CivilStep, ReadInit, ReadStep, PTL DEF Spec
<1> QED
  BY <1>3, <1>4, PTL

=============================================================================
