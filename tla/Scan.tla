-------------------------------- MODULE Scan --------------------------------
(* A scan of the candidate list and the program around it.                       *)
(*                                                                               *)
(* The scanner task runs one of two pipelines.  ip_scanner.rs probes addresses   *)
(* in two stages joined by a bounded backlog; sni_scanner.rs runs a task per     *)
(* hostname that resolves it and probes its addresses under one semaphore.  Each *)
(* finished probe goes to a channel.  The main thread (main.rs, tui.rs) reads    *)
(* the channel until it closes or the user gives up, then takes the scanner's    *)
(* own list if that task has finished and the probes it saw otherwise.           *)
(*                                                                               *)
(* A probe is identified by its position in the list of addresses, or by the     *)
(* entry of the list of hostnames and the record of its answer; what is there    *)
(* twice has two names here.  The measurements of a probe are its TCP latency  *)
(* and its score.  The scan networks, files and log lines are left out.          *)
EXTENDS Integers, Sequences, FiniteSets, SequencesExt, Probe

CONSTANTS
  Jobs,        \* [list, ui, then, limits, panics, ...]: what is scanned, who watches, what
               \* follows, the concurrency settings, how many probe tasks may panic
  Ips,         \* the addresses of ip_list, as [v4, allowed, latency]
  Hosts,       \* the hostnames of sni_list, a sequence
  Answers,     \* hostname |-> what a DNS server may answer: a set of sequences of addresses
  Servers,     \* how many DNS servers are asked in turn
  Measured     \* how far a probe may get on an address that accepted a connection

Latencies == 0..(NoLatency - 1)
Addresses == UNION {ToSet(answer) : answer \in UNION {Answers[h] : h \in ToSet(Hosts)}}

ASSUME ScanAssumption ==
  /\ Servers \in Nat \ {0} /\ Measured \subseteq Phases
  /\ Jobs \subseteq [list : {"ip", "sni", "bad"}, ui : {"tui", "events", "silent"},
                     then : {"report", "methods", "proxy"}, panics : Nat,
                     limits : [p1 : Nat, p2 : Nat, sni : Nat],
                     helper : BOOLEAN, socket : BOOLEAN, foreign : BOOLEAN]
  /\ Ips \in Seq([v4 : BOOLEAN, allowed : BOOLEAN, latency : Latencies])
  /\ Hosts \in Seq(ToSet(Hosts)) /\ IsInjective(Hosts)
  /\ \A h \in ToSet(Hosts) : \A answer \in Answers[h] :
       /\ answer \in Seq(Addresses)
       /\ \A i, j \in DOMAIN answer : answer[i].ip = answer[j].ip => i = j
  /\ \A a \in Addresses : a.allowed \in BOOLEAN /\ a.latency \in Latencies

VARIABLES
  job, pc,           \* the job; where the main thread is
  task, failed,      \* the scanner task; whether its result is an error
  left, p1, pending, p2, \* scan_ip_list: addresses not started, TCP probes, backlog, TLS probes
  queue, host, permits,  \* scan_sni_list: hostnames not started, their tasks, the semaphore
  all,               \* the entries the scanner has joined
  chan, tested,      \* the progress channel; tcp_tested
  arrived, aborted,  \* the main thread's copy; the user pressed q
  result,            \* the list the program goes on with
  progress, completed, \* headless: progress events emitted, ScanCompleted emitted
  panics

ipVars == <<left, p1, pending, p2, tested>>
sniVars == <<queue, host, permits>>
mainVars == <<pc, arrived, aborted, result, progress, completed>>
scanVars == <<job, task, failed, ipVars, sniVars, all, chan, mainVars, panics>>

-----------------------------------------------------------------------------
(* Entries and their order.                                                      *)

\* IP_MAX_P1_CONCURRENT, IP_MAX_P2_CONCURRENT, SNI_MAX_CONCURRENT: zero means one.
AtLeastOne(n) == IF n = 0 THEN 1 ELSE n
P1Limit == AtLeastOne(job.limits.p1)
P2Limit == AtLeastOne(job.limits.p2)
SniLimit == AtLeastOne(job.limits.sni)

Entry(id, v4, tcp, score) == [id |-> id, v4 |-> v4, tcp |-> tcp, score |-> score]

\* The JoinError of a hostname's probe; the entries of hostnames are IPv4.
Panicked(h, a) == Entry(<<h, a.ip>>, FALSE, NoLatency, 0)

\* tcp_only_entry: nothing was measured, compute_score gives nothing.
TcpOnlyEntry(i) == Entry(i, Ips[i].v4, NoLatency, 0)

\* The second stage connects again; what it cannot measure is missing from the score.
IpEntries(i) ==
  {Entry(i, Ips[i].v4, Ips[i].latency, ComputeScore(Ips[i].latency, q)) : q \in Measured}

\* The blank entry of a refused connection, or what the phases add up to.
SniEntries(h, a) ==
  {Entry(<<h, a.ip>>, TRUE, NoLatency, 0)}
    \cup {Entry(<<h, a.ip>>, TRUE, a.latency, ComputeScore(a.latency, q)) : q \in Measured}

\* The positions in P, in the order of ahead, a set of pairs of them.
InOrder(P, ahead) ==
  [k \in 1..Cardinality(P) |->
     CHOOSE i \in P : Cardinality({j \in P : <<j, i>> \in ahead}) = k - 1]
Arranged(s, P, ahead) == [k \in 1..Cardinality(P) |-> s[InOrder(P, ahead)[k]]]

\* Score descending, then TCP latency ascending; the sort is stable.
Before(a, b) == a.score > b.score \/ (a.score = b.score /\ a.tcp < b.tcp)
EntryOrder(s) ==
  {p \in (DOMAIN s) \X (DOMAIN s) : \/ Before(s[p[1]], s[p[2]])
                                    \/ ~Before(s[p[2]], s[p[1]]) /\ p[1] < p[2]}
Ranked(s) == Arranged(s, DOMAIN s, EntryOrder(s))

\* ScanFilter::retain: the candidates outside the ranges are never started.
Positions == {i \in DOMAIN Ips : Ips[i].allowed}

-----------------------------------------------------------------------------
(* The start.                                                                    *)

Idle == [pc |-> "off", asked |-> 0, left |-> <<>>, running |-> {}, ended |-> {}, out |-> <<>>]

ScanInit ==
  /\ job \in Jobs
  /\ pc = "load" /\ task = "none" /\ failed = FALSE
  /\ left = {} /\ p1 = {} /\ pending = <<>> /\ p2 = {} /\ tested = 0
  /\ queue = <<>> /\ host = [h \in ToSet(Hosts) |-> Idle] /\ permits = 0
  /\ all = <<>> /\ chan = <<>>
  /\ arrived = <<>> /\ aborted = FALSE /\ result = <<>>
  /\ progress = 0 /\ completed = FALSE
  /\ panics = 0

\* scan_filter, load_ip_scan_input, physical_network: unusable ranges, an unreadable or
\* empty list, no uplink end the program before the scan.
CannotStart ==
  /\ pc = "load" /\ pc' = "error"
  /\ UNCHANGED <<job, task, failed, ipVars, sniVars, all, chan, arrived, aborted, result, progress,
                 completed, panics>>

StartIpScan ==
  /\ pc = "load" /\ job.list = "ip" /\ Positions # {}
  /\ pc' = "watch" /\ task' = "run" /\ left' = Positions
  /\ UNCHANGED <<job, failed, p1, pending, p2, tested, sniVars, all, chan, arrived, aborted, result,
                 progress, completed, panics>>

\* sni_scan_main: the scanner task itself reads the list.
StartSniScan ==
  /\ pc = "load" /\ job.list \in {"sni", "bad"}
  /\ pc' = "watch" /\ task' = "run" /\ queue' = Hosts /\ permits' = SniLimit
  /\ UNCHANGED <<job, failed, ipVars, host, all, chan, arrived, aborted, result, progress, completed,
                 panics>>

-----------------------------------------------------------------------------
(* scan_ip_list.                                                                 *)

Scanning(list) == task = "run" /\ job.list = list

\* The receiver lives until the main thread has taken its list.
Sent(event) ==
  chan' = IF job.ui = "silent" \/ pc \notin {"watch", "decide"} THEN chan ELSE Append(chan, event)

\* The loop fills both stages before it waits: the second from the backlog, the
\* first while the backlog has room.
MayStartP2 == pending # <<>> /\ Cardinality(p2) < P2Limit
MayStartP1 == left # {} /\ Cardinality(p1) < P1Limit /\ Len(pending) < P2Limit

StartP2 ==
  /\ Scanning("ip") /\ MayStartP2
  /\ p2' = p2 \cup {Head(pending)} /\ pending' = Tail(pending)
  /\ UNCHANGED <<job, task, failed, left, p1, tested, sniVars, all, chan, mainVars, panics>>

StartP1 ==
  /\ Scanning("ip") /\ ~MayStartP2 /\ MayStartP1
  /\ \E i \in left : /\ \A j \in left : i <= j
                    /\ p1' = p1 \cup {i} /\ left' = left \ {i}
  /\ UNCHANGED <<job, task, failed, pending, p2, tested, sniVars, all, chan, mainVars, panics>>

IpWaits == Scanning("ip") /\ ~MayStartP2 /\ ~MayStartP1

\* A TCP probe ends and is joined: into the backlog, or straight into the list.
JoinP1(i) ==
  /\ IpWaits /\ i \in p1
  /\ p1' = p1 \ {i} /\ tested' = tested + 1
  /\ Sent([kind |-> "tcp", tested |-> tested + 1])
  /\ \/ pending' = Append(pending, i) /\ UNCHANGED all
     \/ all' = Append(all, TcpOnlyEntry(i)) /\ UNCHANGED pending
  /\ UNCHANGED <<job, task, failed, left, p2, sniVars, mainVars, panics>>

JoinP2(i) ==
  /\ IpWaits /\ i \in p2
  /\ p2' = p2 \ {i}
  /\ \E e \in IpEntries(i) :
       all' = Append(all, e) /\ Sent([kind |-> "probe", entry |-> e])
  /\ UNCHANGED <<job, task, failed, left, p1, pending, tested, sniVars, mainVars, panics>>

\* A task that panicked is only warned about.
LoseProbe(i) ==
  /\ IpWaits /\ i \in p1 \cup p2 /\ panics < job.panics
  /\ p1' = p1 \ {i} /\ p2' = p2 \ {i} /\ panics' = panics + 1
  /\ UNCHANGED <<job, task, failed, left, pending, tested, sniVars, all, chan, mainVars>>

\* Everything is empty: the list is sorted, the function returns, its sender is gone.
IpScanEnds ==
  /\ IpWaits /\ p1 = {} /\ p2 = {} /\ pending = <<>> /\ left = {}
  /\ task' = "left" /\ all' = Ranked(all)
  /\ UNCHANGED <<job, failed, ipVars, sniVars, chan, mainVars, panics>>

-----------------------------------------------------------------------------
(* scan_sni_list and probe_sni.                                                  *)

Started == {h \in DOMAIN host : host[h].pc # "off"}
Upd(h, r) == host' = [host EXCEPT ![h] = r]

\* An unreadable or empty list, or unusable DNS servers, ends the scan with an error.
SniScanFails ==
  /\ Scanning("bad")
  /\ task' = "left" /\ failed' = TRUE
  /\ UNCHANGED <<job, ipVars, sniVars, all, chan, mainVars, panics>>

MayStartHost == queue # <<>> /\ Cardinality(Started) < SniLimit

StartHost ==
  /\ Scanning("sni") /\ MayStartHost
  /\ Upd(Head(queue), [Idle EXCEPT !.pc = "dns"]) /\ queue' = Tail(queue)
  /\ UNCHANGED <<job, task, failed, ipVars, permits, all, chan, mainVars, panics>>

\* lookup_ipv4: the servers in order, each with its own timeout; the first that
\* returns an IPv4 address decides, and nothing else is asked after the last.
AskServer(h) ==
  /\ host[h].pc = "dns" /\ host[h].asked < Servers
  /\ \/ Upd(h, [host[h] EXCEPT !.asked = @ + 1])
     \/ \E addrs \in Answers[h] \ {<<>>} : Upd(h, [host[h] EXCEPT !.pc = "loop", !.left = addrs])
  /\ UNCHANGED <<job, task, failed, ipVars, queue, permits, all, chan, mainVars, panics>>

DnsFails(h) ==
  /\ host[h].pc = "dns" /\ host[h].asked = Servers
  /\ Upd(h, [host[h] EXCEPT !.pc = "back"])
  /\ UNCHANGED <<job, task, failed, ipVars, queue, permits, all, chan, mainVars, panics>>

Tasks(r) == Cardinality(r.running) + Cardinality(r.ended)

\* The next address: outside the ranges it is skipped; otherwise a permit is taken
\* before the probe is spawned.
SkipAddress(h) ==
  /\ host[h].pc = "loop" /\ host[h].left # <<>> /\ ~Head(host[h].left).allowed
  /\ Upd(h, [host[h] EXCEPT !.left = Tail(@)])
  /\ UNCHANGED <<job, task, failed, ipVars, queue, permits, all, chan, mainVars, panics>>

MayTakePermit(h) ==
  host[h].pc = "loop" /\ host[h].left # <<>> /\ Head(host[h].left).allowed /\ permits > 0

SpawnProbe(h) ==
  /\ MayTakePermit(h)
  /\ permits' = permits - 1
  /\ LET r == [host[h] EXCEPT !.left = Tail(@), !.running = @ \cup {Head(host[h].left)}]
     IN  Upd(h, [r EXCEPT !.pc = IF Tasks(r) >= SniLimit THEN "full" ELSE "loop"])
  /\ UNCHANGED <<job, task, failed, ipVars, queue, all, chan, mainVars, panics>>

\* The probe task ends: it reports the entry and gives the permit back.
ProbeEnds(h, a) ==
  /\ a \in host[h].running
  /\ \E e \in SniEntries(h, a) :
       /\ Upd(h, [host[h] EXCEPT !.running = @ \ {a}, !.ended = @ \cup {e}])
       /\ Sent([kind |-> "probe", entry |-> e])
  /\ permits' = permits + 1
  /\ UNCHANGED <<job, task, failed, ipVars, queue, all, mainVars, panics>>

\* Variation: the entry joined to make room is forgotten.
JoinProbeForgetting(h) ==
  /\ host[h].pc = "full" \/ (host[h].pc = "loop" /\ host[h].left = <<>>)
  /\ \E e \in host[h].ended :
       Upd(h, [host[h] EXCEPT !.pc = "loop", !.ended = @ \ {e},
                              !.out = IF e.v4 /\ host[h].pc # "full" THEN Append(@, e) ELSE @])
  /\ UNCHANGED <<job, task, failed, ipVars, queue, permits, all, chan, mainVars, panics>>

\* The hostname's task joins a probe: when it has as many as it may, or at the end.
JoinProbe(h) ==
  /\ host[h].pc = "full" \/ (host[h].pc = "loop" /\ host[h].left = <<>>)
  /\ \E e \in host[h].ended :
       Upd(h, [host[h] EXCEPT !.pc = "loop", !.ended = @ \ {e},
                              !.out = IF e.v4 THEN Append(@, e) ELSE @])
  /\ UNCHANGED <<job, task, failed, ipVars, queue, permits, all, chan, mainVars, panics>>

HostEnds(h) ==
  /\ host[h].pc = "loop" /\ host[h].left = <<>> /\ Tasks(host[h]) = 0
  /\ Upd(h, [host[h] EXCEPT !.pc = "back"])
  /\ UNCHANGED <<job, task, failed, ipVars, queue, permits, all, chan, mainVars, panics>>

\* A probe that panics releases its permit; the join that meets it only warns.
LoseSniProbe(h, a) ==
  /\ a \in host[h].running /\ panics < job.panics
  /\ Upd(h, [host[h] EXCEPT !.running = @ \ {a}, !.ended = @ \cup {Panicked(h, a)}])
  /\ permits' = permits + 1 /\ panics' = panics + 1
  /\ UNCHANGED <<job, task, failed, ipVars, queue, all, chan, mainVars>>

JoinHost(h) ==
  /\ Scanning("sni") /\ ~MayStartHost /\ host[h].pc = "back"
  /\ all' = all \o host[h].out /\ Upd(h, Idle)
  /\ UNCHANGED <<job, task, failed, ipVars, queue, permits, chan, mainVars, panics>>

SniScanEnds ==
  /\ Scanning("sni") /\ queue = <<>> /\ Started = {}
  /\ task' = "left" /\ all' = Ranked(all)
  /\ UNCHANGED <<job, failed, ipVars, sniVars, chan, mainVars, panics>>

-----------------------------------------------------------------------------
(* The end of the task, and cancellation.                                        *)

\* The runtime marks the task finished some time after its body returned.
TaskFinishes ==
  /\ task = "left" /\ task' = "finished"
  /\ UNCHANGED <<job, failed, ipVars, sniVars, all, chan, mainVars, panics>>

\* abort: at its next await the scanner's future is dropped, and its task sets with it.
TaskCancelled ==
  /\ task = "abort" /\ task' = "gone"
  /\ left' = {} /\ pending' = <<>> /\ queue' = <<>> /\ all' = <<>> /\ tested' = 0
  /\ UNCHANGED <<job, failed, p1, p2, host, permits, chan, mainVars, panics>>

\* Each probe of the dropped sets dies on its own; a hostname's task takes its
\* probes with it, and their permits.
ReapProbe(i) ==
  /\ task = "gone" /\ i \in p1 \cup p2
  /\ p1' = p1 \ {i} /\ p2' = p2 \ {i}
  /\ UNCHANGED <<job, task, failed, left, pending, tested, sniVars, all, chan, mainVars, panics>>

ReapHost(h) ==
  /\ task = "gone" /\ host[h].pc # "off"
  /\ permits' = permits + Cardinality(host[h].running) /\ Upd(h, Idle)
  /\ UNCHANGED <<job, task, failed, ipVars, queue, all, chan, mainVars, panics>>

-----------------------------------------------------------------------------
(* The main thread.                                                              *)

SenderGone == task \in {"left", "finished", "gone"}

\* run_scan_progress, run_ip_scan_progress, the headless progress task: one event.
ReadProgress ==
  /\ pc = "watch" /\ chan # <<>> /\ job.ui # "silent"
  /\ chan' = Tail(chan)
  /\ arrived' = IF job.ui = "tui" /\ Head(chan).kind = "probe"
                THEN Append(arrived, Head(chan).entry) ELSE arrived
  /\ progress' = IF job.ui = "events" THEN progress + 1 ELSE progress
  /\ UNCHANGED <<job, task, failed, ipVars, sniVars, all, pc, aborted, result, completed, panics>>

\* The channel is closed and empty.
ProgressEnds ==
  /\ pc = "watch" /\ job.ui = "tui" /\ chan = <<>> /\ SenderGone
  /\ pc' = "decide"
  /\ UNCHANGED <<job, task, failed, ipVars, sniVars, all, chan, arrived, aborted, result, progress,
                 completed, panics>>

\* q or Esc.
UserAborts ==
  /\ pc = "watch" /\ job.ui = "tui"
  /\ pc' = "decide" /\ aborted' = TRUE
  /\ UNCHANGED <<job, task, failed, ipVars, sniVars, all, chan, arrived, result, progress, completed,
                 panics>>

\* The scanner's own list if its task has finished; otherwise it is aborted and the
\* probes that arrived are sorted here.
TakeFinished ==
  /\ pc = "decide" /\ task = "finished"
  /\ pc' = IF failed THEN "error" ELSE "scanned"
  /\ result' = IF failed THEN result ELSE all
  /\ chan' = <<>> /\ arrived' = <<>>
  /\ UNCHANGED <<job, task, failed, ipVars, sniVars, all, aborted, progress, completed,
                 panics>>

TakeArrived ==
  /\ pc = "decide" /\ task # "finished"
  /\ pc' = "scanned" /\ result' = Ranked(arrived)
  /\ task' = IF task = "run" THEN "abort" ELSE "gone"
  /\ chan' = <<>> /\ arrived' = <<>>
  /\ UNCHANGED <<job, failed, ipVars, sniVars, all, aborted, progress, completed, panics>>

\* scan_ip_list_headless, scan_sni_list_headless: the scan is awaited in place, then
\* the progress task; ScanCompleted comes after both.
HeadlessEnds ==
  /\ pc = "watch" /\ job.ui # "tui" /\ SenderGone /\ ~failed /\ chan = <<>>
  /\ pc' = "scanned" /\ result' = all /\ completed' = TRUE
  /\ UNCHANGED <<job, task, failed, ipVars, sniVars, all, chan, arrived, aborted, progress, panics>>

\* An error of the SNI scan leaves at once; the progress task is not awaited.
HeadlessFails ==
  /\ pc = "watch" /\ job.ui # "tui" /\ SenderGone /\ failed
  /\ pc' = "error"
  /\ UNCHANGED <<job, task, failed, ipVars, sniVars, all, chan, arrived, aborted, result, progress,
                 completed, panics>>

HostStep(h) ==
  \/ AskServer(h) \/ DnsFails(h) \/ SkipAddress(h) \/ SpawnProbe(h) \/ JoinProbe(h) \/ HostEnds(h)
  \/ \E a \in host[h].running : ProbeEnds(h, a)

ScannerStep ==
  \/ StartP2 \/ StartP1 \/ IpScanEnds
  \/ \E i \in p1 : JoinP1(i)
  \/ \E i \in p2 : JoinP2(i)
  \/ SniScanFails \/ StartHost \/ SniScanEnds
  \/ \E h \in DOMAIN host : HostStep(h) \/ JoinHost(h)

Faults ==
  \/ \E i \in p1 \cup p2 : LoseProbe(i)
  \/ \E h \in DOMAIN host : \E a \in host[h].running : LoseSniProbe(h, a)

RuntimeStep ==
  \/ TaskFinishes \/ TaskCancelled
  \/ \E i \in p1 \cup p2 : ReapProbe(i)
  \/ \E h \in DOMAIN host : ReapHost(h)

WatchStep == ReadProgress \/ ProgressEnds \/ TakeFinished \/ TakeArrived \/ HeadlessEnds \/ HeadlessFails

ScanNext ==
  \/ CannotStart \/ StartIpScan \/ StartSniScan
  \/ ScannerStep \/ Faults \/ RuntimeStep \/ WatchStep \/ UserAborts
-----------------------------------------------------------------------------
(* Properties.                                                                   *)

ScanTypeOK ==
  /\ job \in Jobs /\ pc \in {"load", "watch", "decide", "scanned", "test", "judge", "view", "leaving",
                             "exit", "error"}
  /\ task \in {"none", "run", "left", "finished", "abort", "gone"}
  /\ p1 \subseteq Positions /\ p2 \subseteq Positions /\ ToSet(pending) \subseteq Positions
  /\ permits \in 0..SniLimit /\ tested \in 0..Len(Ips) /\ panics \in 0..job.panics

Probing == UNION {{<<h, a>> : a \in host[h].running} : h \in DOMAIN host}

\* The concurrency settings hold whatever order probes end in, zero included: TCP
\* probes, TLS probes and hostname probes stay within their limits, and the backlog
\* between the two stages within what the TCP probes in flight can add to it.
ConcurrencyBounded ==
  /\ Cardinality(p1) <= P1Limit /\ Cardinality(p2) <= P2Limit
  /\ Len(pending) < P2Limit + P1Limit
  /\ Cardinality(Probing) <= SniLimit /\ Cardinality(Started) <= SniLimit

Ids(entries) == {entries[i].id : i \in DOMAIN entries}
Probes(events) == {events[i].entry : i \in {k \in DOMAIN events : events[k].kind = "probe"}}
Reported == ToSet(arrived) \cup Probes(chan)

\* A scan that ran to its end has one entry for every address of the list (none was
\* lost on the way through the stages), and, entry for entry, the probes the watcher
\* was sent: the two lists the program may go on with differ only in the addresses
\* that refused the connection.
NothingLost ==
  pc \in {"watch", "decide"} /\ task \in {"left", "finished"} /\ ~failed /\ panics = 0 =>
    /\ Cardinality(Ids(all)) = Len(all)
    /\ job.list = "ip" => Ids(all) = Positions
    /\ job.list = "ip" /\ job.ui = "tui" =>
         {e \in ToSet(all) : e.tcp # NoLatency} = Reported
    /\ job.list = "sni" /\ job.ui = "tui" => ToSet(all) = Reported

\* The list the program goes on with is ranked, whoever sorted it, and without an
\* abort by the user it holds every address that accepted a connection, also when the
\* channel closed before the runtime had marked the scanner's task finished.
ResultRanked ==
  pc = "scanned" =>
    /\ \A i, j \in DOMAIN result : i < j => ~Before(result[j], result[i])
    /\ ~aborted => {e \in ToSet(all) : e.tcp # NoLatency} \subseteq ToSet(result)

\* ScanCompleted is the last event of a headless scan: every probe was announced before.
CompletedLast ==
  pc = "scanned" /\ completed /\ job.ui = "events" /\ panics = 0 =>
    /\ chan = <<>>
    /\ job.list = "sni" => progress = Len(result)
    /\ job.list = "ip" =>
         progress = Len(result) + Cardinality({e \in ToSet(result) : e.tcp # NoLatency})

=============================================================================
