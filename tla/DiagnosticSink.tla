--------------------------- MODULE DiagnosticSink ---------------------------
(***************************************************************************)
(* core::DiagnosticSink: the messages of a parse run, kept up to a cap and *)
(* counted beyond it.                                                      *)
(***************************************************************************)
EXTENDS Integers, Sequences

CONSTANT MaxEntries   \* max_entries_

ASSUME SinkCap == MaxEntries \in Nat

VARIABLES
  entries,  \* entries_
  dropped   \* dropped_

sinkVars == <<entries, dropped>>

InitSink == entries = <<>> /\ dropped = 0

Diagnostic(level, line) == [level |-> level, line |-> line]

(* A slip: what does not fit is not counted.                               *)
EmitUncounted(diagnostic) ==
  IF Len(entries) >= MaxEntries
  THEN UNCHANGED sinkVars
  ELSE entries' = Append(entries, diagnostic) /\ dropped' = dropped

Emit(diagnostic) ==
  IF Len(entries) >= MaxEntries
  THEN dropped' = dropped + 1 /\ entries' = entries
  ELSE entries' = Append(entries, diagnostic) /\ dropped' = dropped

EmitNothing == UNCHANGED sinkVars

=============================================================================
