-------------------------------- MODULE Proxy --------------------------------
(***************************************************************************)
(* The proxy listener and its connection workers (zerodpi-core proxy.rs),  *)
(* composed with the target pool, the ping monitor                         *)
(* (target_pool/ping.rs), the interface binding (net.rs), the event        *)
(* channel, the registry of relays and the dashboard.                      *)
(*                                                                         *)
(* A worker owns a lease from the moment its connection is accepted to the *)
(* end or the abort of its future.  Its set-up is one step here: the       *)
(* intercepted one is the subject of Connection, the bytes of both are     *)
(* those of HelloPath.  The relay is modelled in full: two copy loops in   *)
(* one task, half-closes, errors, the maximum lifetime.                    *)
(***************************************************************************)
EXTENDS Naturals, Sequences, FiniteSets, TargetPool, Dashboard

CONSTANTS
  MaxConns,      \* bound: connections accepted
  V6,            \* the targets with an IPv6 address
  Pings,         \* latencies a probe may measure
  PingLimit,     \* SNI_MAX_CONCURRENT or IP_MAX_P1_CONCURRENT
  Scenarios      \* settings and bounds of a run

\* The settings of a run, and what is left of its bounds.
Settings ==
  [mode : {"intercept", "socket", "relay"}, strategy : Strategies,
   lifetime : BOOLEAN,                      \* RELAY_MAX_LIFETIME_SECS > 0
   events : BOOLEAN,                        \* is there an event_tx
   ports : {"unique", "reused", "shared"},
   available : SUBSET (Nat \ {0}),
   targets : Seq(Candidates) \ {<<>>}, found : SUBSET Seq(Candidates),
   connections : Nat, chunks : Nat, faults : Nat, cancels : Nat,
   rescans : Nat, rebinds : Nat, rounds : Nat]

ASSUME ProxyAssumption ==
  /\ V6 \subseteq Targets /\ Pings \subseteq Nat /\ PingLimit \in Nat /\ MaxConns \in Nat
  /\ Scenarios \subseteq Settings

VARIABLES
  setting,    \* the scenario: mode, strategy, lifetime and what is left of the bounds
  listener,   \* "up", or "down" once its future was dropped
  conn,       \* the workers
  binding,    \* revision of the InterfaceBinding watch channel
  monitor     \* the ping monitor

proxyVars == <<setting, listener, conn, binding, monitor>>
vars == <<poolVars, boardVars, proxyVars>>

Conns == 1..MaxConns      \* in the order they are accepted
Directions == {"c2s", "s2c"}
NoLease == [key |-> "none", counter |-> 0]
NewCopy == [n |-> 0, held |-> FALSE, done |-> FALSE]
NewConn == [pc |-> "idle", lease |-> NoLease, port |-> 0, generation |-> 0,
            c2s |-> NewCopy, s2c |-> NewCopy, reason |-> "none", aborted |-> FALSE,
            told |-> {}]

\* Where a worker is: spawned and not polled yet, inside the connect, inside the
\* set-up, through with it, copying, out of the relay, at its end, dropped.
Pcs == {"idle", "spawned", "connecting", "preparing", "starting", "relaying",
        "finished", "ending", "gone"}
\* Variation: an abort does not reach a relay.
AtAwaitSetup == {"spawned", "connecting", "preparing"}
AtAwait == {"spawned", "connecting", "preparing", "relaying"}

Mode == setting.mode
Has(what) == setting[what] > 0
Spend(what) == setting' = [setting EXCEPT ![what] = @ - 1]
At(c, pc) == conn[c].pc = pc
Leased(c) == conn[c].pc \notin {"idle", "gone"}
Bytes(c) == [c2s |-> conn[c].c2s.n, s2c |-> conn[c].s2c.n]

\* A worker moves on, and sends an event or none.
Step(c, pc) == conn' = [conn EXCEPT ![c].pc = pc]
StepTelling(c, pc, event) ==
  /\ conn' = [conn EXCEPT ![c].pc = pc, ![c].told = @ \cup {event.type}]
  /\ IF setting.events THEN Send(event) ELSE UNCHANGED queue

\* `stale` is a ghost: what has changed since the monitor looked at it.
MonitorOff == [pc |-> "off", generation |-> 0, revision |-> 0, todo |-> <<>>,
               running |-> {}, stale |-> {}]
Outdated(what) == monitor' = [monitor EXCEPT !.stale = @ \cup {what}]

Init ==
  \E s \in Scenarios :
    /\ setting = s
    /\ PoolInit(s.strategy, s.targets)
    /\ BoardInit
    /\ listener = "up"
    /\ conn = [c \in Conns |-> NewConn]
    /\ binding = 0
    /\ monitor = [MonitorOff EXCEPT !.pc =
                    IF s.strategy = "LeastPing" THEN "snapshot" ELSE "off"]

-----------------------------------------------------------------------------
(* The listener *)

\* The loop of run_*proxy_on_port: a lease for the accepted connection, and a
\* worker that owns it.  With an IPv6 target the intercepting and the
\* socket-only modes drop the lease and the client again.
Accept(c) ==
  /\ listener = "up" /\ Has("connections")
  /\ At(c, "idle") /\ \A d \in 1..(c - 1) : ~At(d, "idle")
  /\ \E i \in Selectable :
       IF Acquired(i).key \in V6 /\ Mode # "relay"
       THEN /\ pool' = [pool EXCEPT !.cursor = i % Len(pool.members)]
            /\ UNCHANGED <<counters, conn>>
       ELSE /\ AcquireMember(i)
            /\ conn' = [conn EXCEPT ![c].pc = "spawned", ![c].lease = Acquired(i)]
  /\ Spend("connections")
  /\ UNCHANGED <<boardVars, listener, binding, monitor>>

\* The future of the listener is dropped: its JoinSet aborts the workers, the
\* PingMonitor its task.
CancelListener ==
  /\ listener = "up" /\ Has("cancels")
  /\ listener' = "down"
  /\ conn' = [c \in Conns |-> [conn[c] EXCEPT !.aborted = Leased(c)]]
  /\ monitor' = MonitorOff
  /\ Spend("cancels")
  /\ UNCHANGED <<poolVars, boardVars, binding>>

-----------------------------------------------------------------------------
(* A worker before the relay *)

\* The port that names the connection: that of the outbound socket where there
\* is an interceptor, that of the client otherwise.  A socket is open until the
\* relay returns, and the end of the connection is reported after that: its port
\* can be "reused" in between, and clients of two hosts can have "shared" one all
\* the time.
PortFree(p) ==
  \A d \in Conns :
    conn[d].port = p =>
      CASE setting.ports = "unique" -> conn[d].pc \in {"ending", "gone"}
        [] setting.ports = "reused" -> conn[d].pc \in {"finished", "ending", "gone"}
        [] setting.ports = "shared" -> TRUE

Begin(c) ==
  /\ At(c, "spawned")
  /\ \E p \in setting.available :
       /\ PortFree(p)
       /\ conn' = [conn EXCEPT ![c].pc = "connecting", ![c].port = p,
                               ![c].told = {"ConnectionAccepted"}]
       /\ IF setting.events THEN Send(Event("ConnectionAccepted", c, p))
          ELSE UNCHANGED queue
  /\ UNCHANGED <<poolVars, registry, receiver, board, setting, listener, binding, monitor>>

\* No socket can be bound: the worker ends before it has announced itself.
BindFails(c) ==
  /\ Mode = "intercept" /\ At(c, "spawned") /\ Has("faults")
  /\ Step(c, "ending")
  /\ Spend("faults")
  /\ UNCHANGED <<poolVars, boardVars, listener, binding, monitor>>

\* register_flow fails behind the announcement, and nothing is said about it.
RegisterFails(c) ==
  /\ Mode = "intercept" /\ At(c, "connecting") /\ Has("faults")
  /\ Step(c, "ending")
  /\ Spend("faults")
  /\ UNCHANGED <<poolVars, boardVars, listener, binding, monitor>>

\* connect_with_timeout; ip_bypass has no set-up behind it.
Connected(c) ==
  /\ At(c, "connecting")
  /\ IF Mode = "relay"
     THEN StepTelling(c, "starting", Event("BypassComplete", c, conn[c].port))
     ELSE Step(c, "preparing") /\ UNCHANGED queue
  /\ UNCHANGED <<poolVars, registry, receiver, board, setting, listener, binding, monitor>>

ConnectFails(c) ==
  /\ At(c, "connecting") /\ Has("faults")
  /\ StepTelling(c, "ending", Event("ConnectionError", c, conn[c].port))
  /\ Spend("faults")
  /\ UNCHANGED <<poolVars, registry, receiver, board, listener, binding, monitor>>

Prepared(c) ==
  /\ At(c, "preparing")
  /\ StepTelling(c, "starting", Event("BypassComplete", c, conn[c].port))
  /\ UNCHANGED <<poolVars, registry, receiver, board, setting, listener, binding, monitor>>

\* A bypass that fails is reported; a ClientHello that the socket-only path
\* cannot read or write is not.
PrepareFails(c) ==
  /\ At(c, "preparing") /\ Has("faults")
  /\ IF Mode = "intercept"
     THEN StepTelling(c, "ending", Event("BypassFailed", c, conn[c].port))
     ELSE Step(c, "ending") /\ UNCHANGED queue
  /\ Spend("faults")
  /\ UNCHANGED <<poolVars, registry, receiver, board, listener, binding, monitor>>

-----------------------------------------------------------------------------
(* The relay: counting_relay_with_client_fragmentation *)

RelayStarts(c) ==
  /\ At(c, "starting")
  /\ IF setting.events THEN RegisterRelay(c, conn[c].port) ELSE UNCHANGED registry
  /\ conn' = [conn EXCEPT ![c].pc = "relaying", ![c].generation = registry'.generation]
  /\ UNCHANGED <<poolVars, queue, receiver, board, setting, listener, binding, monitor>>

\* A chunk is read, and counted once all of it is written.
ReadChunk(c, d) ==
  /\ At(c, "relaying") /\ Has("chunks")
  /\ ~conn[c][d].held /\ ~conn[c][d].done
  /\ conn' = [conn EXCEPT ![c][d].held = TRUE]
  /\ Spend("chunks")
  /\ UNCHANGED <<poolVars, boardVars, listener, binding, monitor>>

WriteChunk(c, d) ==
  /\ At(c, "relaying") /\ conn[c][d].held
  /\ conn' = [conn EXCEPT ![c][d].held = FALSE, ![c][d].n = @ + 1]
  /\ CountTraffic(conn[c].lease, d, 1)
  /\ UNCHANGED <<pool, boardVars, setting, listener, binding, monitor>>

\* The relay returns: its registration and the two sockets are dropped.
RelayReturns(c, reason, copies) ==
  /\ conn' = [conn EXCEPT ![c] = [copies EXCEPT !.pc = "finished", !.reason = reason]]
  /\ UnregisterRelay(conn[c].port, conn[c].generation)
  /\ UNCHANGED <<poolVars, queue, receiver, board, listener, binding, monitor>>

\* End of file in one direction shuts the other peer's write half; the relay
\* goes on until both directions are through.
Eof(c, d) ==
  LET copies == [conn[c] EXCEPT ![d].done = TRUE]
  IN  /\ At(c, "relaying") /\ ~conn[c][d].held /\ ~conn[c][d].done
      /\ IF copies.c2s.done /\ copies.s2c.done
         THEN RelayReturns(c, "Completed", copies) /\ UNCHANGED setting
         ELSE /\ conn' = [conn EXCEPT ![c] = copies]
              /\ UNCHANGED <<poolVars, boardVars, setting, listener, binding, monitor>>

\* A read or a write fails in a direction that is not through.
RelayFails(c, d) ==
  /\ At(c, "relaying") /\ ~conn[c][d].done /\ Has("faults")
  /\ RelayReturns(c, "NetworkError", conn[c])
  /\ Spend("faults")

Deadline(c) ==
  /\ At(c, "relaying") /\ setting.lifetime
  /\ RelayReturns(c, "MaxLifetime", conn[c]) /\ UNCHANGED setting

ReportFinished(c) ==
  /\ At(c, "finished")
  /\ StepTelling(c, "ending", FinishedEvent(c, conn[c].port, conn[c].reason,
                                            conn[c].c2s.n, conn[c].s2c.n))
  /\ UNCHANGED <<poolVars, registry, receiver, board, setting, listener, binding, monitor>>

\* The future returns, or the aborted future is dropped at an await: the lease
\* goes, and with the relay its registration.
EndTask(c) ==
  /\ At(c, "ending")
  /\ DropLease(conn[c].lease)
  /\ Step(c, "gone")
  /\ UNCHANGED <<pool, boardVars, setting, listener, binding, monitor>>

DropTask(c) ==
  /\ conn[c].aborted /\ conn[c].pc \in AtAwait
  /\ DropLease(conn[c].lease)
  /\ IF At(c, "relaying") THEN UnregisterRelay(conn[c].port, conn[c].generation)
     ELSE UNCHANGED registry
  /\ Step(c, "gone")
  /\ UNCHANGED <<pool, queue, receiver, board, setting, listener, binding, monitor>>

-----------------------------------------------------------------------------
(* Rescans, the binding and the ping monitor *)

Rescan ==
  /\ Has("rescans")
  /\ \E candidates \in setting.found :
       /\ Replace(candidates)
       /\ IF candidates = <<>> THEN UNCHANGED monitor ELSE Outdated("list")
  /\ Spend("rescans")
  /\ UNCHANGED <<boardVars, listener, conn, binding>>

\* InterfaceBindingHandle::set
Rebind ==
  /\ Has("rebinds")
  /\ binding' = binding + 1
  /\ Outdated("binding")
  /\ Spend("rebinds")
  /\ UNCHANGED <<poolVars, boardVars, listener, conn>>

MonitorSnapshot ==
  /\ monitor.pc = "snapshot"
  /\ monitor' = [monitor EXCEPT !.pc = "mark", !.generation = ProbeSnapshot.generation,
                                !.todo = ProbeSnapshot.targets, !.stale = {}]
  /\ UNCHANGED <<poolVars, boardVars, setting, listener, conn, binding>>

\* As many probes as the limit allows, one for each target in turn.
Filled(m) ==
  LET limit == IF PingLimit = 0 THEN 1 ELSE PingLimit
      room == limit - Cardinality(m.running)
      more == IF Len(m.todo) < room THEN Len(m.todo) ELSE room
  IN  [m EXCEPT !.running = @ \cup {m.todo[i] : i \in 1..more},
                !.todo = SubSeq(@, more + 1, Len(@))]

MonitorMark ==
  /\ monitor.pc = "mark"
  /\ monitor' = Filled([monitor EXCEPT !.pc = "round", !.revision = binding,
                                        !.stale = @ \ {"binding"}])
  /\ UNCHANGED <<poolVars, boardVars, setting, listener, conn, binding>>

\* A probe is joined; its result counts if the binding is still the round's.
MonitorJoin ==
  /\ monitor.pc = "round"
  /\ \E key \in monitor.running, ping \in Pings \cup {NoPing} :
       /\ monitor' = Filled([monitor EXCEPT !.running = @ \ {key}])
       /\ IF monitor.revision = binding THEN UpdatePing(monitor.generation, key, ping)
          ELSE UNCHANGED poolVars
  /\ UNCHANGED <<boardVars, setting, listener, conn, binding>>

\* All probes are joined; the next round comes after the interval.
MonitorSleep ==
  /\ monitor.pc = "round" /\ monitor.running = {} /\ Has("rounds")
  /\ monitor' = [MonitorOff EXCEPT !.pc = "snapshot"]
  /\ Spend("rounds")
  /\ UNCHANGED <<poolVars, boardVars, listener, conn, binding>>

-----------------------------------------------------------------------------

Worker(c) ==
  \/ Begin(c) \/ BindFails(c) \/ RegisterFails(c) \/ Connected(c) \/ ConnectFails(c)
  \/ Prepared(c) \/ PrepareFails(c) \/ RelayStarts(c)
  \/ \E d \in Directions : ReadChunk(c, d) \/ WriteChunk(c, d) \/ Eof(c, d) \/ RelayFails(c, d)
  \/ Deadline(c) \/ ReportFinished(c) \/ EndTask(c) \/ DropTask(c)

ReceiveEvent == Receive /\ UNCHANGED <<poolVars, proxyVars>>
FindNoEvent == setting.events /\ FindEmpty /\ UNCHANGED <<poolVars, proxyVars>>
SampleProgress == Sample([c \in Conns |-> Bytes(c)]) /\ UNCHANGED <<poolVars, proxyVars>>

Next ==
  \/ \E c \in Conns : Accept(c) \/ Worker(c)
  \/ CancelListener
  \/ ReceiveEvent \/ FindNoEvent \/ SampleProgress
  \/ Rescan \/ Rebind
  \/ MonitorSnapshot \/ MonitorMark \/ MonitorJoin \/ MonitorSleep

Spec == Init /\ [][Next]_vars

\* The runtime polls a task that can go on and drops one that was aborted; the
\* connect and the lifetime have timers.
Fairness ==
  \A c \in Conns :
    /\ WF_vars(RelayStarts(c)) /\ WF_vars(ReportFinished(c))
    /\ WF_vars(EndTask(c)) /\ WF_vars(DropTask(c))
    /\ WF_vars(Connected(c) \/ ConnectFails(c))
    /\ WF_vars(Deadline(c))

FairSpec == Spec /\ Fairness

-----------------------------------------------------------------------------
(* Properties *)

ProxyTypeOK ==
  /\ listener \in {"up", "down"}
  /\ \A c \in Conns :
       /\ conn[c].pc \in Pcs
       /\ Leased(c) => conn[c].lease.counter \in DOMAIN counters
  /\ \A i \in DOMAIN counters : counters[i].load \in Nat
  /\ pool.members # <<>> /\ pool.cursor < Len(pool.members)
  /\ \A i \in DOMAIN pool.members :
       /\ pool.members[i].key \in Targets
       /\ pool.members[i].ping \in Nat \cup {NoPing}
  /\ receiver \in {"idle", "empty"}
  /\ \A i \in DOMAIN board.records : board.records[i].status \in ConnStatuses

\* The load shown for a target is the number of workers that hold a lease on it,
\* also when the target left the list and came back meanwhile, and whichever way
\* the workers ended (TargetPool::replace, TargetLease::drop).
LoadIsLeases ==
  \A i \in DOMAIN pool.history :
    counters[pool.history[i].counter].load =
      Cardinality({c \in Conns : Leased(c) /\ conn[c].lease.key = pool.history[i].key})

\* The traffic shown for a target is what the relays to it have counted, over
\* rescans, cancellations and the end of the relays (snapshot: "Session counters
\* survive rescans and worker cancellation").
TrafficIsRelayed ==
  \A i \in DOMAIN pool.history, d \in Directions :
    counters[pool.history[i].counter][d] =
      SumFunction([c \in Conns |->
                     IF conn[c].lease.key = pool.history[i].key THEN conn[c][d].n ELSE 0])

\* A member and its entry in the history show the same ping, with the same source.
HistoryAgrees ==
  \A i \in DOMAIN pool.members :
    pool.members[i] = pool.history[HistoryIndex(pool.history, pool.members[i].key)]

\* A relay shows up in the registry only while it runs, and the newest relay of
\* a port is not hidden by the end of an older one (RelayRegistration::drop).
RegistryIsLive ==
  /\ \A p \in DOMAIN registry.relays : At(registry.relays[p].conn, "relaying")
  /\ \A c \in Conns :
       /\ At(c, "relaying") /\ setting.events
       /\ \A d \in Conns : conn[d].port = conn[c].port => conn[d].generation <= conn[c].generation
       => /\ conn[c].port \in DOMAIN registry.relays
          /\ registry.relays[conn[c].port].conn = c

\* What the dashboard counts as active, plus what is on its way, is the number of
\* connections that were announced and whose end was not: each ends at most once,
\* and the saturating subtraction never hides a second end (apply_event).
Queued(types) == Cardinality({i \in DOMAIN queue : queue[i].type \in types})
ActiveAccounted ==
  setting.events =>
  board.active + Queued({"ConnectionAccepted"}) =
    Cardinality({c \in Conns : "ConnectionAccepted" \in conn[c].told
                               /\ conn[c].told \cap Terminal = {}})
    + Queued(Terminal)

\* A row shown as active is that of a connection whose end was not announced or
\* is still in the queue; a row shown as ended is that of a connection that has
\* announced its end.  The row's port is a "unique connection identifier"
\* (ConnectionRecord::src_port, find_record).
PortIdentifies ==
  \A i \in DOMAIN board.records :
    LET r == board.records[i]
        ending == \E j \in DOMAIN queue : queue[j].conn = r.conn /\ queue[j].type \in Terminal
    IN  /\ IsActive(r) => \/ conn[r.conn].told \cap Terminal = {}
                          \/ ending
        /\ ~IsActive(r) => conn[r.conn].told \cap Terminal # {} /\ ~ending

\* That holds as long as a port is not used again before the end on it is
\* reported.
RowsFollow == setting.ports = "unique" => PortIdentifies

\* A relay that reports Completed has written and counted all that it read: no
\* chunk is lost in a half-close.
CompletedIsWhole ==
  \A c \in Conns :
    conn[c].reason = "Completed" =>
      \A d \in Directions : conn[c][d].done /\ ~conn[c][d].held

\* What is shown never goes back.  No probe of a round that began before the list or
\* the binding was replaced changes the pool (monitor, update_ping,
\* InterfaceBindingWatch::unchanged); and the transfer totals of the header grow, as
\* long as no two connections have had one port (live_transfer_totals).
PortsDiffer ==
  \A c, d \in Conns : c # d /\ conn[c].port = conn[d].port => conn[c].port = 0
ShownMovesOn ==
  [][/\ MonitorJoin /\ monitor.stale # {} => UNCHANGED poolVars
     /\ PortsDiffer' => \A d \in Directions : LiveTotal(d)' >= LiveTotal(d)]_vars

\* The listener's bookkeeping over all its workers: the conjuncts above.
ProxyInv ==
  /\ ProxyTypeOK
  /\ LoadIsLeases /\ TrafficIsRelayed /\ HistoryAgrees
  /\ RegistryIsLive /\ ActiveAccounted /\ CompletedIsWhole

\* Every lease is returned once the listener is cancelled (JoinSet::abort_all,
\* TargetLease::drop), and with a maximum lifetime every relay comes to its end.
WorkersEnd ==
  /\ listener = "down" ~> ActiveConnections = 0
  /\ \A c \in Conns : At(c, "relaying") /\ setting.lifetime ~> At(c, "gone")
=============================================================================
