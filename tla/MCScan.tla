------------------------------- MODULE MCScan -------------------------------
(* Scans of three addresses and of two hostnames, alone and followed by tests.   *)
EXTENDS MethodScan

\* Two addresses of equal latency, one IPv6, one outside the ranges.
MCIps == <<[v4 |-> FALSE, allowed |-> TRUE, latency |-> 1], [v4 |-> TRUE, allowed |-> FALSE, latency |-> 1],
           [v4 |-> TRUE, allowed |-> TRUE, latency |-> 2], [v4 |-> TRUE, allowed |-> TRUE, latency |-> 1]>>

\* Nothing beyond the connection, and everything.
MCMeasured == {q \in Phases : q.tls = q.download /\ q.tls = q.upload}

Addr(ip, allowed, latency) == [ip |-> ip, allowed |-> allowed, latency |-> latency]

\* The first hostname has two addresses inside the ranges and one outside.
MCAnswers ==
  [a |-> {<<>>, <<Addr("x", TRUE, 2), Addr("w", FALSE, 1), Addr("y", TRUE, 1)>>},
   b |-> {<<Addr("x", TRUE, 2)>>}]

MCHosts == <<"a", "b">>

Limits(tcp, tls, names) == [p1 |-> tcp, p2 |-> tls, sni |-> names]
Job(list, ui, then, limits) ==
  [list |-> list, ui |-> ui, then |-> then, limits |-> limits, helper |-> FALSE, socket |-> FALSE,
   foreign |-> then = "methods" /\ list = "sni",
   panics |-> IF then = "report" /\ (list = "ip" \/ ui = "silent") THEN 1 ELSE 0]

\* One method with an interceptor, one without, one the build does not know.
MCMethods == <<[name |-> 3, socket |-> FALSE, known |-> TRUE], [name |-> 1, socket |-> TRUE, known |-> TRUE],
               [name |-> 2, socket |-> FALSE, known |-> FALSE]>>

MCJobs ==
  {Job("ip", "tui", "report", Limits(2, 0, 0)), Job("ip", "events", "report", Limits(1, 1, 0)),
   Job("ip", "silent", "report", Limits(2, 2, 0)), Job("ip", "tui", "methods", Limits(1, 1, 0)),
   Job("sni", "tui", "report", Limits(0, 0, 2)), Job("sni", "events", "methods", Limits(0, 0, 2)),
   Job("sni", "silent", "report", Limits(0, 0, 2)), Job("bad", "tui", "methods", Limits(0, 0, 0)),
   Job("bad", "events", "report", Limits(0, 0, 1)),
   [Job("sni", "tui", "proxy", Limits(0, 0, 0)) EXCEPT !.helper = TRUE],
   [Job("sni", "events", "proxy", Limits(0, 0, 1)) EXCEPT !.socket = TRUE]}
=============================================================================
