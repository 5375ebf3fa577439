------------------------------ MODULE MCHelper ------------------------------
(* Instances of Helper.  Each scenario turns one kind of trouble on.            *)
EXTENDS Helper

CONSTANTS t1, t2, k1, k2

Quiet == [tasks |-> {t1}, keys |-> {k1}, seen |-> {"ready", "acked"}, ownPorts |-> TRUE, liveLimit |-> 2,
          trusted |-> TRUE, discover |-> FALSE, slow |-> FALSE, rebuilds |-> 0, reloads |-> 0,
          foreign |-> {}, rival |-> FALSE, wallFails |-> FALSE, interceptorDies |-> FALSE,
          killed |-> FALSE, clientDies |-> FALSE, clientHangs |-> FALSE]

\* One connection and one kind of trouble: a slow helper, a dying interceptor, a
\* killed helper, a client that dies or hangs, a reload, a rebuild, a stranger.
Single ==
  {[Quiet EXCEPT !.slow = TRUE, !.seen = {"ready", "acked", "closed"}],
   [Quiet EXCEPT !.interceptorDies = TRUE, !.discover = TRUE],
   [Quiet EXCEPT !.killed = TRUE],
   [Quiet EXCEPT !.clientDies = TRUE, !.clientHangs = TRUE],
   [Quiet EXCEPT !.rebuilds = 1],
   [Quiet EXCEPT !.trusted = FALSE]}

\* The firewall: commands that fail, rules of dead and of live helpers, the latter
\* with every other trouble on.
Wall ==
  {[Quiet EXCEPT !.seen = {}, !.foreign = {"dead"}, !.wallFails = TRUE, !.interceptorDies = TRUE],
   [Quiet EXCEPT !.foreign = {"dead", "live"}, !.wallFails = TRUE, !.slow = TRUE, !.discover = TRUE,
                 !.rebuilds = 1, !.reloads = 1, !.killed = TRUE, !.clientDies = TRUE,
                 !.clientHangs = TRUE],
   [Quiet EXCEPT !.seen = {}, !.foreign = {"dead"}, !.rival = TRUE, !.rebuilds = 1]}

\* Two connections: at the limit of the helper, on one 4-tuple, over a reload.
Double ==
  {[Quiet EXCEPT !.tasks = Tasks, !.keys = {k1, k2}, !.seen = {"acked"}, !.liveLimit = 1],
   [Quiet EXCEPT !.tasks = Tasks, !.ownPorts = FALSE, !.seen = {"closed"}],
   [Quiet EXCEPT !.tasks = Tasks, !.reloads = 1, !.seen = {}]}

MCScenarios == Single \cup Wall \cup Double

=============================================================================
