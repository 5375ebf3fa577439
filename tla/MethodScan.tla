----------------------------- MODULE MethodScan -----------------------------
(* The scan modes that test what the scan found (method_scanner.rs,              *)
(* proxy_tester.rs, main.rs).                                                    *)
(*                                                                               *)
(* sni_method_scan and ip_method_scan take the best target of the scan and try   *)
(* every bypass method on it; proxy_scan takes the best hostnames and tries them *)
(* with the configured method.  A worker on a blocking thread brings up an       *)
(* engine (interceptor thread and listener) for each unit, takes its samples and *)
(* takes the engine down again.  The main thread watches as it does in Scan.     *)
(*                                                                               *)
(* A unit is a position in the list of methods or candidates.  Engines and       *)
(* listeners are named after the unit they were started for; Foreign is a        *)
(* listener of another program on LISTEN_PORT.  Sample progress is display only. *)
(* A job also says whether a root helper is used, whether the configured method  *)
(* is socket-only and whether another program may own the port.                  *)
EXTENDS Scan

CONSTANTS
  Methods,     \* [name, socket, known]: METHOD_SCAN_METHODS; names by their order
  Samples,     \* METHOD_SCAN_SAMPLES
  MinScore, TopN   \* PROXY_TEST_MIN_SNI_SCORE, PROXY_TEST_TOP_N

ASSUME MethodScanAssumption ==
  /\ Samples \in Nat /\ TopN \in Nat /\ MinScore \in Nat
  /\ Methods \in Seq([name : Nat, socket : BOOLEAN, known : BOOLEAN])

VARIABLES
  units,       \* what is tested: a sequence of [name, socket, known, score]
  unit, step,  \* the worker's unit and where it is in it
  worker,      \* the blocking task
  engines, stopping, late, \* interceptor threads: running, told to stop, given up on
  port, closing,           \* who listens on LISTEN_PORT; the proxy task was aborted
  samples, via,            \* of the unit: its results, and the listeners they went through
  entries, news, seen,     \* the worker's list, its channel, the main thread's copy
  quit, report,            \* the user pressed q during the tests; the final list
  helper                   \* the root helper

testVars == <<units, unit, step, worker, engines, stopping, late, port, closing, samples, via, entries,
              news, seen, quit, report, helper>>
vars == <<scanVars, testVars>>

Free == 0
Foreign == -1

NewUnit(name, socket, known, score) ==
  [name |-> name, socket |-> socket, known |-> known, score |-> score]

TestInit ==
  /\ units = <<>> /\ unit = 0 /\ step = "idle" /\ worker = "none"
  /\ engines = {} /\ stopping = {} /\ late = {}
  /\ port \in {Free} \cup (IF job.foreign THEN {Foreign} ELSE {})
  /\ closing = FALSE
  /\ samples = <<>> /\ via = {}
  /\ entries = <<>> /\ news = <<>> /\ seen = <<>> /\ quit = FALSE /\ report = <<>>
  /\ helper = IF job.then = "proxy" /\ job.helper THEN "up" ELSE "none"

-----------------------------------------------------------------------------
(* From the scan to the tests.                                                   *)

\* sni_method_scan_main, ip_method_scan_main: the first entry, the first IPv4 entry.
Testable == \E i \in DOMAIN result : result[i].v4

\* proxy_scan_main: good enough, then the first TopN; zero means all.
Candidates ==
  LET P == {i \in DOMAIN result : result[i].score >= MinScore}
      ahead == {p \in P \X P : p[1] < p[2]}
      good == Arranged(result, P, ahead)
  IN  IF TopN > 0 /\ Len(good) > TopN THEN SubSeq(good, 1, TopN) ELSE good

Units ==
  CASE job.then = "methods" /\ Testable ->
         [i \in DOMAIN Methods |->
            NewUnit(Methods[i].name, Methods[i].socket, Methods[i].known, 0)]
    [] job.then = "proxy" ->
         [i \in DOMAIN Candidates |-> NewUnit(i, job.socket, TRUE, Candidates[i].score)]
    [] OTHER -> <<>>

MainStays == UNCHANGED <<arrived, aborted, result, progress, completed>>

\* The list is consumed when its owner goes on.
ScanDropped ==
  /\ all' = <<>> /\ result' = <<>>
  /\ UNCHANGED <<job, task, failed, ipVars, sniVars, chan, panics, arrived, aborted, progress, completed>>

ScanStays == UNCHANGED <<job, task, failed, ipVars, sniVars, all, chan, panics>>

\* sni_scan_main, ip_scan_main: the list is saved and shown.
Report ==
  /\ pc = "scanned" /\ job.then = "report"
  /\ pc' = IF job.ui = "tui" THEN "view" ELSE "leaving"
  /\ UNCHANGED testVars /\ ScanDropped

StartTests ==
  /\ pc = "scanned" /\ Units # <<>>
  /\ pc' = "test" /\ units' = Units /\ worker' = "run"
  /\ UNCHANGED <<unit, step, engines, stopping, late, port, closing, samples, via, entries, news, seen,
                 quit, report, helper>>
  /\ ScanDropped

\* No candidate, no uplink, an unreachable SOCKS5 proxy.
CannotTest ==
  /\ pc = "scanned" /\ job.then # "report"
  /\ pc' = "error"
  /\ UNCHANGED testVars /\ ScanStays /\ MainStays

-----------------------------------------------------------------------------
(* The worker: run_one_method, test_candidate_full, test_candidate_with_flow_controller. *)

WorkerAt(s) == worker = "run" /\ step = s
NotMain == UNCHANGED <<scanVars, units, worker, seen, quit, report>>

TestEntry(ok, ttfb) == [unit |-> unit, name |-> units[unit].name, ok |-> ok, ttfb |-> ttfb]

Oks == Cardinality({i \in DOMAIN samples : samples[i] # NoLatency})

\* entry_from_samples counts the samples that were answered; build_entry and
\* failed_entry blend the scan's score with the test's.
Credit(oks) ==
  IF job.then = "methods" THEN oks ELSE BlendScores(units[unit].score, ProxyScore(oks > 0))

Outcome ==
  TestEntry(Credit(Oks),
            IF Oks = 0 THEN NoLatency
            ELSE CHOOSE t \in ToSet(samples) : \A x \in ToSet(samples) : t <= x)

NextUnit ==
  /\ WorkerAt("idle") /\ unit < Len(units)
  /\ unit' = unit + 1 /\ step' = "open" /\ samples' = <<>> /\ via' = {}
  /\ UNCHANGED <<engines, stopping, late, port, closing, entries, news, helper>> /\ NotMain

\* A socket-only method needs no interceptor.
SkipEngine ==
  /\ WorkerAt("open") /\ units[unit].socket /\ helper = "none"
  /\ step' = "bind"
  /\ UNCHANGED <<unit, engines, stopping, late, port, closing, samples, via, entries, news, helper>>
  /\ NotMain

OpenEngine ==
  /\ WorkerAt("open") /\ ~units[unit].socket /\ units[unit].known /\ helper = "none"
  /\ engines' = engines \cup {unit} /\ step' = "bind"
  /\ UNCHANGED <<unit, stopping, late, port, closing, samples, via, entries, news, helper>> /\ NotMain

\* helper.configure, helper.open.
OpenHelper ==
  /\ WorkerAt("open") /\ helper = "up"
  /\ helper' = "open" /\ step' = "bind"
  /\ UNCHANGED <<unit, engines, stopping, late, port, closing, samples, via, entries, news>> /\ NotMain

\* failed_entry: the method is unknown, or the interceptor does not open.  A failed
\* candidate is announced, a failed method is not.
EngineFails ==
  /\ WorkerAt("open") /\ (~units[unit].socket \/ helper = "up")
  /\ LET e == TestEntry(Credit(0), NoLatency)
     IN  /\ entries' = Append(entries, e)
         /\ news' = IF job.then = "proxy" THEN Append(news, e) ELSE news
  /\ step' = "gap"
  /\ UNCHANGED <<unit, engines, stopping, late, port, closing, samples, via, helper>> /\ NotMain

\* run_proxy binds LISTEN_PORT; an error of its own ends in its task.
Bind ==
  /\ WorkerAt("bind")
  /\ port' = IF port = Free THEN unit ELSE port
  /\ step' = "sample"
  /\ UNCHANGED <<unit, engines, stopping, late, closing, samples, via, entries, news, helper>> /\ NotMain

Wanted == IF job.then = "methods" THEN Samples ELSE 1

\* direct_probe, socks5_http_probe: whoever listens on the port answers, or nobody.
Sample ==
  /\ WorkerAt("sample") /\ Len(samples) < Wanted
  /\ \E t \in {1, NoLatency} :
       /\ t = NoLatency \/ port # Free
       /\ samples' = Append(samples, t)
       /\ via' = IF t = NoLatency THEN via ELSE via \cup {port}
  /\ UNCHANGED <<unit, step, engines, stopping, late, port, closing, entries, news, helper>> /\ NotMain

\* proxy_task.abort, shutdown.request.
TakeDown ==
  /\ WorkerAt("sample") /\ Len(samples) = Wanted
  /\ closing' = TRUE /\ stopping' = stopping \cup {unit} /\ step' = "down"
  /\ UNCHANGED <<unit, engines, late, port, samples, via, entries, news, helper>> /\ NotMain

\* Variation: nobody waits for the thread.
EngineDownAtOnce ==
  /\ WorkerAt("down")
  /\ helper' = IF helper = "open" THEN "up" ELSE helper
  /\ entries' = Append(entries, Outcome) /\ news' = Append(news, Outcome) /\ step' = "gap"
  /\ UNCHANGED <<unit, engines, stopping, late, port, closing, samples, via>> /\ NotMain

\* The interceptor thread has reported, there is none, or two seconds have passed.
EngineDown ==
  /\ WorkerAt("down")
  /\ \/ unit \notin engines /\ UNCHANGED late
     \/ unit \in engines /\ late' = late \cup {unit}
  /\ helper' = IF helper = "open" THEN "up" ELSE helper
  /\ entries' = Append(entries, Outcome) /\ news' = Append(news, Outcome) /\ step' = "gap"
  /\ UNCHANGED <<unit, engines, stopping, port, closing, samples, via>> /\ NotMain

\* The aborted proxy task is dropped when the worker's runtime next runs its tasks,
\* which it does before the pause of 200 ms is over.
DropListener ==
  /\ closing /\ closing' = FALSE
  /\ port' = IF port = unit THEN Free ELSE port
  /\ UNCHANGED <<unit, step, engines, stopping, late, samples, via, entries, news, helper>> /\ NotMain

GapOver ==
  /\ WorkerAt("gap") /\ ~closing
  /\ step' = "idle"
  /\ UNCHANGED <<unit, engines, stopping, late, port, closing, samples, via, entries, news, helper>>
  /\ NotMain

\* helper.shutdown after the last candidate; the worker's sender goes with its future.
WorkerEnds ==
  /\ WorkerAt("idle") /\ unit = Len(units)
  /\ worker' = "left"
  /\ helper' = IF helper = "none" THEN "none" ELSE "down"
  /\ UNCHANGED <<scanVars, units, unit, step, engines, stopping, late, port, closing, samples, via,
                 entries, news, seen, quit, report>>

\* The runtime the worker built is dropped, then the blocking task is finished.
WorkerFinishes ==
  /\ worker = "left" /\ worker' = "finished"
  /\ UNCHANGED <<scanVars, units, unit, step, engines, stopping, late, port, closing, samples, via,
                 entries, news, seen, quit, report, helper>>

\* The interceptor thread ends: it was told to, or the capture failed.
EngineEnds(u) ==
  /\ u \in engines
  /\ engines' = engines \ {u}
  /\ UNCHANGED <<unit, step, stopping, late, port, closing, samples, via, entries, news, helper>>
  /\ NotMain

-----------------------------------------------------------------------------
(* The main thread during the tests.                                             *)

\* rank_entries and the sort of proxy_scan_main: a method's name decides last.
TestBefore(a, b) ==
  \/ a.ok > b.ok
  \/ a.ok = b.ok /\ a.ttfb < b.ttfb
  \/ a.ok = b.ok /\ a.ttfb = b.ttfb /\ job.then = "methods" /\ a.name < b.name
TestOrder(s) ==
  {p \in (DOMAIN s) \X (DOMAIN s) : \/ TestBefore(s[p[1]], s[p[2]])
                                    \/ ~TestBefore(s[p[2]], s[p[1]]) /\ p[1] < p[2]}
RankedTests(s) == Arranged(s, DOMAIN s, TestOrder(s))

WorkerStays ==
  UNCHANGED <<units, unit, step, worker, engines, stopping, late, port, closing, samples, via, entries,
              helper>>

\* run_method_scan_progress, run_proxy_scan_progress, the headless progress task.
ReadNews ==
  /\ pc = "test" /\ news # <<>>
  /\ news' = Tail(news) /\ seen' = Append(seen, Head(news))
  /\ UNCHANGED <<pc, quit, report>> /\ WorkerStays /\ ScanStays /\ MainStays

NewsEnds ==
  /\ pc = "test" /\ job.ui = "tui" /\ news = <<>> /\ worker \in {"left", "finished"}
  /\ pc' = "judge"
  /\ UNCHANGED <<news, seen, quit, report>> /\ WorkerStays /\ ScanStays /\ MainStays

UserQuits ==
  /\ pc = "test" /\ job.ui = "tui"
  /\ pc' = "judge" /\ quit' = TRUE
  /\ UNCHANGED <<news, seen, report>> /\ WorkerStays /\ ScanStays /\ MainStays

\* The worker's list if it has finished, otherwise what arrived; abort does not stop
\* a blocking task that has begun.
Judge ==
  /\ pc = "judge" /\ pc' = "view"
  /\ report' = RankedTests(IF worker = "finished" THEN entries ELSE seen)
  /\ UNCHANGED <<news, seen, quit>> /\ WorkerStays /\ ScanStays /\ MainStays

HeadlessTestsEnd ==
  /\ pc = "test" /\ job.ui # "tui" /\ worker = "finished" /\ news = <<>>
  /\ pc' = "leaving" /\ report' = RankedTests(entries)
  /\ UNCHANGED <<news, seen, quit>> /\ WorkerStays /\ ScanStays /\ MainStays

\* A key closes the results view.
CloseView ==
  /\ pc = "view" /\ pc' = "leaving"
  /\ UNCHANGED testVars /\ ScanStays /\ MainStays

\* Variation: the interceptor threads are joined, however long they take.
ExitJoins ==
  /\ pc = "leaving" /\ worker \in {"none", "finished"} /\ engines = {}
  /\ pc' = "exit"
  /\ UNCHANGED testVars /\ ScanStays /\ MainStays

\* Dropping the runtime waits for its blocking tasks and drops the others.
Exit ==
  /\ pc = "leaving" /\ worker \in {"none", "finished"}
  /\ pc' = "exit"
  /\ UNCHANGED testVars /\ ScanStays /\ MainStays

WorkerStep ==
  \/ NextUnit \/ SkipEngine \/ OpenEngine \/ OpenHelper \/ EngineFails \/ Bind \/ Sample \/ TakeDown
  \/ EngineDown \/ GapOver \/ WorkerEnds \/ WorkerFinishes

MainStep ==
  \/ Report \/ StartTests \/ CannotTest \/ ReadNews \/ NewsEnds \/ Judge \/ HeadlessTestsEnd \/ Exit

Stopped == pc \in {"exit", "error"} /\ UNCHANGED vars

Init == ScanInit /\ TestInit

Next ==
  \/ ScanNext /\ UNCHANGED testVars
  \/ WorkerStep \/ DropListener \/ MainStep
  \/ UserQuits \/ CloseView
  \/ \E u \in engines : EngineEnds(u)
  \/ Stopped

Spec == Init /\ [][Next]_vars

\* Every await of the scanner and of the worker has a timeout, and the runtimes poll
\* what is ready.  The user owes nothing; the list is loaded by the main thread.
Fairness ==
  /\ WF_vars((CannotStart \/ StartIpScan \/ StartSniScan \/ WatchStep) /\ UNCHANGED testVars)
  /\ WF_vars(ScannerStep /\ UNCHANGED testVars)
  /\ WF_vars(RuntimeStep /\ UNCHANGED testVars)
  /\ WF_vars(WorkerStep) /\ WF_vars(DropListener) /\ WF_vars(MainStep)

FairSpec == Spec /\ Fairness

-----------------------------------------------------------------------------
(* Properties.                                                                   *)

\* The engine of one unit is down before the next is opened; only a thread that did
\* not report within two seconds may still run, and the code gave up on it.
OneEngine == engines \ late \subseteq {unit}

\* A sample counts for the method it was taken for: no unit is measured through the
\* listener of an earlier one, although all of them use LISTEN_PORT.
SamplesOwnUnit == via \subseteq {unit, Foreign}

\* Nothing that was tested is missing: a report the user did not cut short has every
\* unit whose engine came up, and every unit at all if the worker's list was taken or
\* nobody watched; the units are ranked.
ReportWhole ==
  pc \in {"view", "leaving"} /\ worker # "none" =>
    LET named == {report[i].unit : i \in DOMAIN report}
    IN  /\ \A i, j \in DOMAIN report : i < j => ~TestBefore(report[j], report[i])
        /\ Cardinality(named) = Len(report)
        /\ ~quit => {e.unit : e \in {x \in ToSet(entries) : x.ttfb # NoLatency}} \subseteq named
        /\ job.ui # "tui" \/ (~quit /\ job.then = "proxy") => named = DOMAIN units

\* The process does not end under a running test: no engine is left behind but the
\* ones that would not stop, and the root helper was shut down.
ExitIsClean ==
  pc = "exit" /\ worker # "none" =>
    /\ unit = Len(units) /\ engines \subseteq late
    /\ helper \in {"none", "down"}

\* Limits, ranking, the order of events, one engine at a time and a clean end: the
\* conjuncts above and those of Scan.
ScanInv ==
  /\ ScanTypeOK /\ ConcurrencyBounded /\ ResultRanked /\ CompletedLast
  /\ OneEngine /\ SamplesOwnUnit /\ ReportWhole /\ ExitIsClean

\* Every job comes to its report or to an error by itself, whatever the probes, the name
\* servers and the engines do: no stage waits for a permit or for room that nobody gives
\* back.  Once the view is closed the process ends, also while an aborted test is at work.
\* An aborted scan stops: its probes, its hostnames and what they were about to start.
ScansEnd ==
  /\ pc = "load" ~> pc \in {"view", "leaving", "error"}
  /\ pc = "leaving" ~> pc = "exit"
  /\ task = "abort" ~> p1 = {} /\ p2 = {} /\ Started = {}
=============================================================================
