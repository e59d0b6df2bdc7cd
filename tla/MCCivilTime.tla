---------------------------- MODULE MCCivilTime -----------------------------
(***************************************************************************)
(* Days of eighty ticks. Every date, and some that do not exist, of years  *)
(* around the epoch and of the kinds of leap years; the years at the ends  *)
(* of what each notation can tell; and each way a text may be cut off.     *)
(***************************************************************************)
EXTENDS CivilFromMicros

Text(form, year, month, day) ==
  [form |-> form, date |-> [year |-> year, month |-> month, day |-> day],
   clock |-> "full", time |-> [hour |-> 1, minute |-> 1, second |-> 0],
   frac |-> <<>>, zone |-> [sign |-> "none", hours |-> 0, minutes |-> 0]]

(* Behind the year a sweep over its days.                                  *)
Dates ==
  {Text("iso", y, m, d) :
     y \in {1967, 1968, 1969, 1970, 1972, 1973, 2000, 2100},
     m \in 0 .. 13, d \in {0, 1, 28, 29, 30, 31, 32}}

Ends ==
  {Text(form, y, md[1], md[2]) : form \in {"iso", "clf"},
     y \in {0, 1, 4, 100, 400, 1600, 1900, 9999, 10000},
     md \in {<<1, 1>>, <<2, 29>>, <<3, 1>>, <<12, 31>>}}
  \cup {Text("clf", y, 12, 31) : y \in {13500, 30000, 42000}}

Zones ==
  {[sign |-> s, hours |-> h, minutes |-> m] :
     s \in {"+", "-", "Z", "none", "cut"}, h \in {0, 1, 99}, m \in {0, 1, 99}}

Clocks ==
  {[[[[Text(form, 1972, 2, 28) EXCEPT !.time.hour = h] EXCEPT !.time.second = s]
       EXCEPT !.frac = f] EXCEPT !.clock = c] :
     form \in {"iso", "clf", "bsd"}, h \in 0 .. Hours, s \in 0 .. Seconds + 1,
     f \in {<<>>, <<0>>, <<7>>, <<0, 7>>, <<7, 9>>}, c \in {"full", "none", "cut"}}

Zoned == {[Text(form, 1972, 2, 29) EXCEPT !.zone = z] :
            form \in {"iso", "clf", "bsd"}, z \in Zones}

Bsd == {Text("bsd", 0, m, d) : m \in 0 .. 12, d \in 0 .. 32}

Numbers ==
  {[form |-> "epoch", seconds |-> s, digits |-> d] :
     s \in {0, 1, 8 * 365, 8 * 1095}, d \in {8, 9, 11, 12}}
  \cup {[form |-> "filetime", ticks |-> t] :
          t \in {0, 9, 799, 800, 800 * 365, 800 * 134774, 800 * 134774 - 1}}

MCTexts == Dates \cup Ends \cup Clocks \cup Zoned \cup Bsd \cup Numbers

=============================================================================
