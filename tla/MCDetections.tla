----------------------------- MODULE MCDetections ---------------------------
(***************************************************************************)
(* Every stream of up to MaxEvents events drawn from a few shapes at a few *)
(* times, added in any order.                                              *)
(***************************************************************************)
EXTENDS Detections

CONSTANT Clock   \* the times logins may carry

Quiet ==
  [src_ip |-> "", user |-> "", host |-> "", source |-> "Syslog",
   message |-> "other", event_id |-> 0, outcome |-> "", http_status |-> 0,
   http_path |-> "", dst_port |-> 0, severity |-> 8, signature |-> "quiet"]

(* One address fails a login over HTTP, and the failure is an error.       *)
Denied ==
  [Quiet EXCEPT !.src_ip = "10.0.0.1", !.outcome = "denied",
     !.http_status = 401, !.http_path = "/login", !.severity = 3,
     !.signature = "http"]

(* The same address gets in, over SSH.                                     *)
Accepted ==
  [Quiet EXCEPT !.src_ip = "10.0.0.1", !.user = "root",
     !.message = "accepted password", !.dst_port = 22, !.signature = "sshd"]

(* A Windows logon failure that carries a success text: a failure.         *)
Logon ==
  [Quiet EXCEPT !.host = "pc", !.source = "WinEvent", !.event_id = 4625,
     !.outcome = "success", !.severity = 4, !.dst_port = 22,
     !.signature = "logon"]

(* An anonymous server error.                                              *)
Crash == [Quiet EXCEPT !.http_status = 500, !.severity = 2, !.signature = "http"]

(* An HTTP error of the second actor.                                      *)
Missing ==
  [Quiet EXCEPT !.host = "pc", !.http_status = 404, !.http_path = "/x",
     !.signature = "quiet"]

Timed(shape, t) == [f \in (DOMAIN shape) \cup {"timestamp"} |->
                      IF f = "timestamp" THEN t ELSE shape[f]]

AtClock(shapes) == {Timed(shape, At(m)) : shape \in shapes, m \in Clock}

MCLogins == AtClock({Denied, Accepted})

MCEvents ==
  AtClock({Denied, Accepted, Logon, Missing, Crash}) \cup {Timed(Missing, Unknown)}

(* "(global)" and addresses sort before letters.                           *)
MCNames == <<"(global)", "10.0.0.1", "http", "logon", "pc", "quiet", "sshd">>

MCConfig ==
  [bruteforce_min_failures |-> 2, bruteforce_window_seconds |-> 1,
   http_error_min |-> 2, http_error_window_seconds |-> 1,
   scan_distinct_min |-> 2, scan_window_seconds |-> 2,
   severity_spike_min |-> 2, severity_spike_window_seconds |-> 1,
   rare_signature_max |-> 1, evidence_cap |-> 2]

=============================================================================
