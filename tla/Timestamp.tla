----------------------------- MODULE Timestamp ------------------------------
(***************************************************************************)
(* core::Timestamp: microseconds since the start of 1970, or unknown.      *)
(***************************************************************************)
EXTENDS Integers

At(micros) == [valid |-> TRUE, micros |-> micros]

Unknown == [valid |-> FALSE, micros |-> 0]

(* operator<: an unknown time is earlier than any known one.               *)
Before(s, t) ==
  IF s.valid # t.valid THEN t.valid ELSE s.micros < t.micros

(* A signed result that does not fit is undefined in C++; a multiplication *)
(* or an addition of the machine leaves it modulo the span.                *)
Wrapped(n, span) ==
  LET low == n % span IN IF 2 * low < span THEN low ELSE low - span

=============================================================================
