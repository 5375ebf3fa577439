------------------------------- MODULE MCProxy -------------------------------
(* Instances of Proxy.  Each scenario turns one part of the system up. *)
EXTENDS Proxy

Candidate(k, latency) == [key |-> k, latency |-> latency]

Base == [mode |-> "relay", strategy |-> "RoundRobin", lifetime |-> FALSE, events |-> TRUE,
         ports |-> "unique", available |-> {1, 2},
         targets |-> <<Candidate("a", 2), Candidate("b", NoPing)>>, found |-> {},
         connections |-> 2, chunks |-> 0, faults |-> 0, cancels |-> 0,
         rescans |-> 0, rebinds |-> 0, rounds |-> 0]

\* What a later scan may find: nothing, the same targets the other way round, one
\* of them twice, the other alone.
Found == {<<>>, <<Candidate("b", 1), Candidate("a", 2)>>,
          <<Candidate("a", NoPing), Candidate("a", 1)>>, <<Candidate("b", 3)>>}

\* Two relays on one port.
SharedScenario == [Base EXCEPT !.lifetime = TRUE, !.ports = "shared",
                               !.available = {1}]

\* The dashboard: every way a connection can fail, a port that is used again; one
\* client in two is turned away for an IPv6 target.
BoardScenarios ==
  {[Base EXCEPT !.mode = m, !.connections = 3, !.faults = 1, !.available = {1}]
     : m \in {"intercept", "socket", "relay"}}
  \cup {[Base EXCEPT !.chunks = 1]}

\* Leases while the list is replaced and the listener is cancelled.
LeaseScenarios ==
  {[Base EXCEPT !.strategy = s, !.events = FALSE, !.found = Found, !.cancels = 1,
                !.rescans = IF s = "Random" THEN 1 ELSE 2] : s \in {"Random", "LeastLoad"}}
TrafficScenario ==
  [Base EXCEPT !.events = FALSE, !.rescans = 1, !.found = Found, !.chunks = 2,
               !.cancels = 1, !.faults = 1, !.lifetime = TRUE, !.connections = 1]

\* The ping monitor while the list and the binding are replaced.
PingScenario == [Base EXCEPT !.strategy = "LeastPing", !.events = FALSE, !.connections = 1,
                             !.rescans = 2, !.found = Found, !.rebinds = 1, !.rounds = 1]

MCScenarios == {SharedScenario, TrafficScenario, PingScenario}
               \cup BoardScenarios \cup LeaseScenarios
=============================================================================
