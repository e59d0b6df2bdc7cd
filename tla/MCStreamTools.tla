--------------------------- MODULE MCStreamTools ----------------------------
EXTENDS StreamTools, TLC

(* An event of a time and a severity. Its session key is its source        *)
(* address, numbered in byte order; the key 0 is that of no address.       *)
Ev(timestamp, severity, key) ==
  [BlankEvent EXCEPT !.timestamp = timestamp, !.severity = severity,
     !.source = "syslog", !.message = "up 7",
     !.src_ip = IF key = 0 THEN "" ELSE <<"a", "b", "c">>[key]]
  @@ [key |-> key]

(* The ends of the 64-bit range, an event just at the threshold from the   *)
(* lowest, two close neighbours, three other keys one of which is empty,   *)
(* and one event without a time; hosts, requests, services and ids that    *)
(* signatures tell apart or not.                                           *)
MCEvents ==
  {[Ev(At(-8), 3, 1) EXCEPT !.host = "web", !.app = "sshd"],
   [Ev(At(-6), 3, 1) EXCEPT !.host = "web", !.app = "cron", !.provider = "sshd"],
   [Ev(At(0), 3, 1) EXCEPT !.host = "db", !.message = "up 12"],
   [Ev(At(1), 3, 1) EXCEPT !.source = "web-access", !.http_status = "404",
                           !.http_method = "GET", !.user = "eve"],
   [Ev(At(7), 3, 1) EXCEPT !.host = "a1", !.event_id = "7", !.http_status = "99"],
   [Ev(At(0), 6, 2) EXCEPT !.http_status = "200", !.http_method = "GET"],
   Ev(At(1), 8, 3),
   [Ev(At(0), 0, 0) EXCEPT !.user = "bob", !.message = "down"],
   Ev(Unknown, 2, 1)}

MCStatusClass ==
  [s \in {"0", "99", "200", "404"} |->
     IF s = "200" THEN "2xx" ELSE IF s = "404" THEN "4xx" ELSE ""]

MCMessageShape ==
  [m \in {"up 7", "up 12", "down"} |-> IF m = "down" THEN "down" ELSE "up #"]

MCKeyOrder ==
  <<<<"2xx">>, <<"4xx">>, <<"a">>, <<"a1">>, <<"b">>, <<"bob">>, <<"c">>,
    <<"critical">>, <<"cron">>, <<"db">>, <<"emergency">>, <<"error">>, <<"eve">>,
    <<"informational">>, <<"sshd">>, <<"syslog">>,
    <<"syslog", "|", "sshd", "|", "up #">>,
    <<"syslog", "|", "", "|", "7">>, <<"syslog", "|", "", "|", "GET", " ", "200">>,
    <<"syslog", "|", "", "|", "down">>, <<"syslog", "|", "", "|", "up #">>,
    <<"unknown">>, <<"web">>,
    <<"web-access">>, <<"web-access", "|", "", "|", "GET", " ", "404">>>>
=============================================================================
