# ZeroDPI in TLA+

ZeroDPI is a local TCP proxy that gets a TLS ClientHello past middleboxes which
inspect packets. For every accepted connection it opens an outbound one,
registers it in a flow table, and lets a packet-capture thread (NFQUEUE on
Linux, WinDivert on Windows) act on the packets of that connection: a fake
packet behind the TCP handshake, a fragmented, reordered or decoyed ClientHello.
Only when the capture thread reports that the bypass succeeded does the proxy
relay data. Around this core there are a listener with a pool of targets, scanners that fill
it, a root helper for devices where the program itself has no privileges, in-place
recovery from network changes, configuration reload and a terminal interface.

This directory holds the TLA+ specification of the program, from the command line
to the bytes on the wire, the instances TLC checks, and machine-checked proofs of
the invariants that matter most. `PROJECT.json` ties every definition to the source
lines it models, every property to a run, and every hazard to the properties that
watch it.

Paths below are relative to `src/crates/` unless they begin with `src/`.

## 1. Inventory of the system

| Component | State | Operations | Talks to |
|---|---|---|---|
| flow table, `zerodpi-core/src/flow.rs` | a `DashMap` from 4-tuple to `Arc<FlowEntry>`; per entry a mutex with `FlowState` and two `Notify` | `register_flow`, `remove_flow`, `reset`, `finish`, `signal_outcome` | shared by the capture thread and all connection tasks |
| packet handler, `handler.rs` | none of its own | `on_packet` | reads and writes flow entries, asks the bypass method, returns a verdict to the backend |
| bypass methods, `methods/*.rs` | none per flow, settings only | `on_handshake_complete_ack`, `on_first_data_packet`; `CompositeMethod` combines them | called under the entry's mutex |
| intercepted connection, `proxy.rs` (`handle_intercept_connection`) | one tokio task per connection with a drop guard | bind, register, connect, wait, write the ClientHello, relay, release | flow table, sockets |
| socket-side transforms, `methods/tcp_segmentation.rs` and others | none | cut, pad or recase the ClientHello | run inside the task |
| relay and socket-only path, `proxy.rs`, `proxy/events.rs` | byte counters, lifetimes | copy in both directions, half-close, record throughput | client and server sockets |
| configuration, `config.rs` | a parsed TOML file | validate, reload candidates | everything |
| target pool, `target_pool.rs` | targets with latencies, leases, a generation number | lease, replace, ping update | connection tasks, scanners, recovery |
| interface binding, `net.rs` | a `watch` channel | publish, read, check for change | outbound sockets, recovery |
| network monitor, `zerodpi-platform/src/netmon` | the last observation, a broadcast channel of 16 events | poll or notification, settle, probe, emit | coordinator, terminal interface |
| network recovery, `zerodpi/src/network_recovery.rs` | current binding, retry delay | probe, rebuild with backoff, verify target, rescan | monitor, data plane, binding, target pool |
| data plane, `zerodpi/src/data_plane.rs` | armed flag, shutdown handle, done channel, stop report | open, stop, rebuild, close for reload | interceptor thread, root helper |
| root helper, `zerodpi-root-helper`, `helper_client.rs` | remote flow table behind a socket | register, release, outcome, rearm, disconnect | data plane, flow controller |
| session driver and reload, `main.rs`, `reload.rs`, `manual_rescan.rs` | the running generation, the last good configuration | start, close, retry cleanup, restore, quit | all of the above |
| terminal interface, `tui.rs` | view state | draw, keys | runtime events |
| capture backends, `zerodpi-platform/src/linux.rs`, `windows.rs` | queue handle, firewall rules | open, run until asked to stop, emit | packet handler |
| packet construction, `ip_fragment.rs`, `tcp_segment.rs`, `tls_template.rs` | none | offsets and headers | methods, backends |
| uplink selection, `uplink.rs` | none | parse routes and interfaces | monitor, recovery |
| scanners, `sni_scanner.rs`, `ip_scanner.rs`, ... | progress, results | bounded concurrent probes, scoring | target pool |
| name resolution, `dns.rs` | none | resolver fall-back | scanners, start-up |
| Android application, `src/android` | service lifecycle, profiles | start, stop, supervise the native process | the program as a child process |

What is hard about it:

* **Two schedulers share a flow.** The capture thread and a tokio task read and
  decide the same entry. `on_packet` clones the `Arc` out of the table before
  it takes the mutex, and decides the flow after it has let go of it; a
  timeout, a reset of the table or a release can come in at both gaps.
* **Wakeups.** `Notify::notify_waiters` wakes only futures that exist, so a
  task must subscribe before it looks.
* **Cancellation.** A task can be dropped at any await; its guard removes the
  flow by key, after the socket has freed the port.
* **Arbitrary packets.** Retransmissions, stray segments, FIN and RST in any
  phase, sequence numbers that wrap.
* **Composition of methods.** A list of methods is sorted into stages, and
  whether a member ever acts depends on the others.
* **Bytes in disguise.** A ClientHello is padded, recased, cut into records, writes,
  segments and fragments, sent out of order, with false prefixes, by threads that
  sleep in between, over sends that fail; the server must still read the same bytes.
* **Two processes, one promise.** With the root helper, registering a flow is a
  request over a socket with a deadline; either end may be slow, hang, or die, and
  the helper's firewall rules outlive a crash.
* **Recovery under change.** The network can change, and change back, while the
  data plane is being rebuilt; a stop can time out; the report of an interceptor
  can be lost with the runtime that was to forward it; a signal or a reload can
  arrive in the middle.
* **Scans against scans.** Periodic, manual and recovery scans, and a reload, all
  want to replace the target; a scan can be aborted while its tasks wait for
  permits, and a test runs on a thread that cannot be aborted.

What makes the parts correct:

* flow table and handler: the first decision wins and is heard, a decided flow
  is let go, each stage rewrites one packet, fragment-all mode lasts as long as
  its connection, no unwrap fails;
* intercepted connection: data is relayed only on a successful bypass, no
  wakeup is lost, no entry is leaked, the fake precedes the ClientHello, the
  set-up ends, and on a quiet network it succeeds;
* methods: every method a configuration lists acts on the connection;
* recovery: rules are never installed over live ones, sockets and rules agree
  on the interface, a recovery ends, and the published status is true;
* bytes on the wire: the server's stream is the one written and its handshake the
  client's, whatever is cut, shaped, lost or sent again, and all of it arrives;
* listener, pool and dashboard: loads and traffic stay with their target, a stale
  ping changes nothing, what is shown follows the connections, an abort returns
  every lease;
* root helper: client and helper together keep the promise of a flow controller, a
  loss reaches every flow, rules follow the interceptor and rules of live helpers
  are spared;
* session: one interceptor at a time over any number of reloads, a failed reload
  brings back what was in service, target swaps do not race, nothing waits for ever;
* monitor: it settles before it probes, reports every change once, follows the
  physical uplink, and shuts down;
* scans and tests: limits hold, nothing measured is lost, an abort stops, tests do
  not overlap, every job ends;
* launch: only a validated configuration runs, privileges come first, the event
  stream tells the truth, the TTL search leaves a working value.

## 2. Modules

| Module | Role | Source |
|---|---|---|
| `Flow` | the flow table: entries, their futures, register, remove, the steps of a reset | `flow.rs` |
| `Handler` | EXTENDS `Flow`; `on_packet` against arbitrary packets, method answers and tasks; its inductive invariant | `handler.rs`, `interceptor.rs` |
| `Methods` | the lists the configuration accepts, each method's answers, `CompositeMethod` | `methods/` |
| `Connection`, `ConnectionProofs` | composes `Handler` and `Methods` with connection tasks, a capture queue and the far end; the proofs of `Handler` and, on top of them, its own | `proxy.rs` |
| `ClientHello` | the record, its parsers, padding, recasing, splitting | `methods/sni.rs`, `tls_padding.rs`, ... |
| `Emission` | EXTENDS `ClientHello`, `Methods`; what leaves for one captured packet | `tcp_segment.rs`, `ip_fragment.rs`, `linux.rs`, `windows.rs` |
| `HelloPath` | EXTENDS `Emission`; one connection's bytes from the client to the server | `proxy.rs`, `tcp_segmentation.rs` |
| `TargetPool`, `Dashboard` | the pool with its leases; the event channel, the registry and the dashboard's records | `target_pool.rs`, `proxy/events.rs`, `tui.rs` |
| `Proxy`, `ProxyProofs` | composes both with the listener, its workers, their relays and the ping monitor; the proofs | `proxy.rs`, `target_pool/ping.rs`, `net.rs` |
| `FlowPromise` | abstract: what a `FlowController` promises a connection | `flow.rs` |
| `HelperWire`, `Helper`, `HelperProofs` | the protocol; the client, the root helper and the socket between them, shown to implement `FlowPromise`; the proofs | `helper_client.rs`, `zerodpi-helper-protocol`, `zerodpi-root-helper` |
| `DataPlane` | the interceptor thread, its rules, and `LocalPlane` | `data_plane.rs` |
| `Recovery`, `RecoveryProofs` | EXTENDS `DataPlane`; monitor, coordinator, main thread; the proofs | `network_recovery.rs`, `main.rs`, `reload.rs` |
| `Detector` | abstract: what the monitor promises the coordinator | `netmon/mod.rs` |
| `Uplink`, `Monitor`, `MonitorProofs` | ranking of adapters and binding of sockets; the monitor with its three kinds of source, shown to implement `Detector`; the proofs | `uplink.rs`, `netmon/` |
| `Session`, `SessionProofs` | generations of an interactive session, reload, roll-back, rescans; the proofs | `reload.rs`, `main.rs`, `manual_rescan.rs` |
| `Probe`, `Scan`, `MethodScan`, `ScanProofs` | scores; the two scan pipelines with their watchers; the tests that follow a scan; the proofs about both | `ip_scanner.rs`, `sni_scanner.rs`, `method_scanner.rs`, `proxy_tester.rs` |
| `Options` | files, command lines and `Config::validate` | `config.rs` |
| `Discovery` | the search for a TTL | `low_ttl_discover.rs` |
| `Launch`, `LaunchProofs` | EXTENDS `Options`, `Discovery`; the process from command line to exit; the proofs about both | `main.rs`, `runtime_events.rs` |
| `MC*` | constants and scenarios for TLC | |

Operators whose comment begins with *Variation* are plausible mistakes: a
dropped guard, a forgotten wakeup, a stop taken for done. Nothing in the
specifications uses them. They are there to be put in place of the definition
that follows them, to see that a property notices; `PROJECT.json` lists which
variation breaks which property.

### Flow and Handler

`table` is the `DashMap`, `state[e]` the `FlowState` behind the mutex of entry
`e`. Left out of it are `fake_data`, the low-TTL override and other data that
the control flow never tests. `waiter[e]` holds the futures that the owner has
created (`armed`) and whether one of them fired (`woken`). A `reset` is three
kinds of step, since the code walks the shards of the map while other threads
register flows, and clears it afterwards.

`on_packet` is three kinds of step, split where the code gives up shared state:

1. `Lookup` clones the `Arc` of an entry out of the table;
2. `Handle` is everything under the mutex, one operator per branch
   (`OutboundSyn`, the handshake ACK, the staged data packet, other outbound
   packets, inbound packets), up to `drop(state)` or to the return;
3. `Deferred` is the `entry.finish` or `entry.signal_outcome` behind
   `drop(state)`, which takes the mutex again.

In `Spec` of `Handler` nothing is known about the environment: a packet is any
combination of direction, flags and numbers, the method (an `Arc<dyn
BypassMethod>`) gives any answer, and tasks register, subscribe, give up and
release whenever they like. What holds here holds for every method and every
proxy. Sequence numbers are naturals below `Modulus`, and arithmetic wraps.

`staged` and `closing` are history variables: how many packets each stage has
rewritten, and which flows have seen their FIN or RST in fragment-all mode.

### Methods

A configuration is a list of method names with the options that change control
flow (`*_COMPLETE_IMMEDIATELY`, `*_ONLY_FIRST_PACKET`, `FAKE_TLS_FORWARD_REAL`).
`ValidList` is what `Config::validate` says about lists, `HandshakeList` and
`DataList` how `build_method` sorts the names, `HandshakeAnswer` and `DataAnswer`
what each member replies, `CompositeHandshake` and `CompositeData` what the
composite makes of the replies. Bytes are not built: whether a method can work
on a packet is the one bit `usable`.

### Connection

A task is a program counter through `handle_intercept_connection` (`bound`,
`registered`, `connecting`, `subscribe`, `check`, `parked`, ..., `release`,
`relaying`, `closing`, `done`), with a `stage` (waiting for readiness or for
completion), the key of its guard and whether its socket is open. The socket is
closed before the guard runs, as the drop order of the function has it, so the
port can be used again in between.

Packets travel through one capture queue. `CaptureLookup`, `CaptureHandle` and
`CaptureDeferred` are the steps of `Handler` on the head of the queue with the
method answers of the configuration; `Forward` then lets the packet out and
appends what the other end replies (`Reply`): SYN-ACK, acknowledgments, the
repeated ACK that an out-of-window fake provokes, a kernel retransmission of
data that was replaced. Those replies are a model of TCP, not of this
repository, and marked external in the map. `applied` records which methods have
acted on a connection and `shown` freezes that set when the ClientHello leaves.

A scenario has the list of methods, the tasks, the faults that may happen (`timeout`,
`io`, `cancel`, `reset`, and `extra`: one retransmitted or unsolicited packet per unit
of `spare`), the bound on what a client sends, and whether the client is eager to send
its ClientHello.

### DataPlane and Recovery

A `Tap` is one interceptor thread with its firewall rules. `LocalPlane` is the
armed flag, the handle (`shutdown` and `done_rx`, set and taken together) and the
retained `stop_report`. A stop asks the thread, spawns the task that forwards
its result, waits for a bounded time and either disarms or fails; a failed stop
keeps the report, and the next stop waits for the same one.

The coordinator's program counter follows `handle_change`: probe, compare with
the current binding, lock, stop, open, apply, verify, rescan, with the backoff
loop and its interruption by a newer event. The event channel is its occupancy
and the `Lagged` mark. The main thread is the two shutdown paths: a signal in
headless mode stops the plane while the coordinator is alive; leaving the
dashboard or reloading first drops the service runtime, then closes the plane on
the control runtime, retries, and starts the next generation. `LockFree` is the
mutex of `DataPlaneController`. `AtAwait` says where a coordinator can be
cancelled.

The reset of the flow table inside a rebuild is modelled in `Flow`, not repeated
in `Recovery`.

Two levels of detail: the monitor of `Recovery` observes in one step, that of
`Monitor` is the real thread, and `Detector` is the contract between them. The
remote plane is `Helper`'s.

### ClientHello, Emission and HelloPath

A record is a sequence of cells: every field of fixed size is one cell with its
value, every other byte a cell of its own, and lengths count cells, so offsets and
nested lengths are computed as in the code. `HelloPath` takes a configuration and
what the client writes, reads the ClientHello as the task does, transforms it, cuts
it (`PiecesOf`), and writes piece after piece; the kernel sends segments, `Emitted`
of `Emission` turns a captured one into what the backend sends at once and what a
worker sends later, and the server reassembles fragments, segments and records.
Sends may fail, the interceptor may be asked to stop at any moment, and what is not
acknowledged is sent again. Sampled paddings, letter cases and lengths are choices.
The kernel and the server are external.

### Proxy, TargetPool and Dashboard

A worker owns a lease from accept to the end, or the abort, of its future. The relay
is two copy loops in one task: each may hold a chunk it has read and not written, end
with a half-close, fail, or be cut by the lifetime. The dashboard reads an unbounded
queue of events that name their connection by source port only; the ghost field
`conn` tells the properties whose event it was. The ping monitor takes a snapshot of
the pool and of the binding and measures under a limit while both may be replaced.

### FlowPromise and Helper

`FlowPromise` has three variables: what a connection asked, what its flow's progress
really is, and what the connection has been told. `Helper` has the socket as two
queues, the pending map with its limit, the deadlines, the reader and heartbeat
threads with the three steps of a disconnect (flag, drain, sweep), the plane's
configure, open, close and shutdown, and the helper's loop with its registered flows,
interceptor and rules. A scenario turns on one kind of trouble. The refinement
mapping is `Promise`.

### Session

The main thread starts a generation step by step, runs its dashboard, drops its
runtime, closes its plane and decides what to run next. A TTL is named after the
target it was found for, so that a mismatch shows. The background worker and the
recovery coordinator scan under `SCAN_LOCK`; the dashboard asks for scans through a
flag and hears of them through its queue. A TTL that cannot be applied leaves the method
as it was: a local one is a handle, and of a helper it is assumed that a request that
failed had no effect, although one that timed out may have had it
(`helper_client.rs:284`); what such an answer does to the client is in `Helper`.

### Uplink and Monitor

Adapters have a class, an index and metrics; conditions are what the system may
change. Time is counted in ticks. The source is a netlink socket with a backlog and
a wake pipe, a notifier thread with callbacks, a context and a message queue, or
nothing.

### Scan and MethodScan

The scanner task, its two task sets or its semaphore, the channel to the watcher, and
the three fronts (terminal, events, silent). Probes are positions in the list, since
one address may be listed twice. `MethodScan` adds the worker on its blocking thread,
engines, listeners on one port, samples, the report and the exit.

### Options, Discovery and Launch

A file is a function from fields to raw values; `Load` parses, validates, applies the
command line and validates again, and returns a set with one configuration or none.
`Launch` follows `run_config` and the headless select, and beside the main thread it has
the tasks of the runtime: the proxy, the logger of its events, the timer of the
background rescan and the recovery coordinator. The tasks live until the runtime is
dropped, so also between a signal and the exit. `out` is the event stream, and four of
them write it: main thread, logger, rescan and coordinator. Of a rescan and of a recovery
it has the steps that write a line, take the lock of the scans or touch the interceptor;
what they do to targets and bindings is in `Session` and `Recovery`. `SearchTtl` is the
search of a single target; a balanced service searches once per target, which is in
`Session`, where each TTL is kept with its target.
`Discovery` tries one TTL after the other on a route with an inspecting hop and a
server at given distances.

## 3. What is model-checked

Eleven runs pass; TLC explores each instance completely.

| Run | Instance | Distinct states | Shows |
|---|---|---|---|
| `handler` | 1 key, 1 entry, `Modulus = 3`, 7 segment shapes | 33 435 | the inductive invariant (release of decided flows, one mutation per stage, lasting fragment-all mode), no failed unwrap, decisions that are final and heard |
| `connection` | 1 task; 5 kinds of bypass with all five faults, 1 extra packet; all accepted lists of one or two methods on a quiet network; lists with `wrong_timestamp` without TCP timestamps, with timeouts and 1 extra packet | 968 659 | relay only after success, no leaked flow, no lost wakeup, fake before ClientHello, every member acts, the set-up ends and on a quiet network succeeds |
| `reuse` | 2 tasks on one port, a fake plus a rewritten ClientHello, timeout and cancel | 141 305 | a task's flow stays registered while it counts on it; the system implements `Handler` |
| `hello` | one connection per case: transforms, cuts, shapers, decoys on three backends, `Modulus = 128`, 2 failing sends | 90 116 | `HelloInv` (handshake unchanged, lengths right, cut inside the name, workers joined), the stream is the one written, all of it arrives |
| `proxy` | 9 scenarios over 2 targets and up to 3 connections, a log of 1 record | 336 343 | loads and traffic stay with their target, rows follow connections, totals grow and stale pings change nothing, aborted workers end |
| `helper` | 12 scenarios over 2 tasks, 2 keys, 2 pending requests | 245 234 | client and helper implement `FlowPromise`, a loss is noticed, rules follow the interceptor, a session beside a live helper fails closed |
| `recovery` | 2 bindings, 2 interceptors, channel of 1, 2 changes, 2 faults, 1 reload | 994 818 | rules never over live rules, sockets match rules, a recovery ends |
| `session` | 4 configurations, 3 scan results, 3 bounds on reloads, rescans and moves | 240 449 | one interceptor, no racing swap, a TTL that fits its target, a failed reload restores the service, rescans and reloads end |
| `scan` | 11 jobs: 4 addresses or 2 names, three fronts, tests of 3 methods | 281 491 | limits hold, nothing is lost between stages, an abort stops, tests do not overlap, every job ends |
| `monitor` | 3 adapters, 4 conditions, 3 platforms, settle of 2 and poll of 3 ticks, 2 changes, 1 fault | 283 216 | the monitor implements `Detector`, probes after a quiet window, follows the uplink, uses no freed context, shuts down |
| `launch` | a few hundred launches: a file at each boundary, command lines, privileges, helpers, edited files, networks that move and rescans beside them; 2 reloads; 3 routes | 280 869 | only validated configurations run, privileges come before interception, a process that succeeds leaves no interceptor unless a recovery outlived the stop, the event stream of four writers tells the truth, the TTL search leaves a working value |

`online` is the twelfth; it is expected to fail (section 5).

Why the bounds are enough to be interesting:

* *One key and one entry in `handler`.* The handler looks at one entry per
  packet and flows share nothing but the table; what two connections on one port
  do to each other is the subject of `reuse`. The proofs cover any number.
* *`Modulus = 3`.* Enough for a number that matches, one that is off by one and
  one that wraps. In `connection` the client's initial number is `Modulus - 1`,
  so the first byte of data is behind the wrap, and 8 is more than the bytes a
  connection sends. In `hello` numbers run to 128 and the first is 120, so they
  wrap inside the ClientHello.
* *Scenarios.* `connection`, `proxy`, `helper`, `session`, `scan` and `launch`
  start from one of a set of scenarios, each of which turns one kind of trouble
  up and leaves the others out; all at once would be out of TLC's reach. Every
  kind of trouble the code handles is in some scenario, next to the operations
  it can disturb.
* *Lists in `connection`.* The five with faults are one per path through the
  handler. Those on a quiet network are all lists of one or two methods, without
  the ones named `Dormant` and `Unanswered` in `MCConnection`, in which a member
  really never acts or is never answered (section 5). Lists with `wrong_timestamp`,
  two of three methods among them, are also run without TCP timestamps: that member
  aborts then, wherever it stands in the list.
* *One extra packet.* It can be any retransmission or any unsolicited segment
  at any moment, which suffices to drive each error branch; sequences of
  arbitrary packets are covered in `handler`.
* *Cells in `hello`.* A record has some twenty cells instead of hundreds of bytes;
  the fragment unit is 4, the packet limit 40. Every boundary the code tests
  (room for a header, last short fragment, an overlap longer than a segment, a name
  at the end of the list) has an input on either side.
* *A log of one record in `proxy`.* The code keeps 200; with one, the pruning of
  finished records and the sparing of active ones happen at once.
* *A channel of one event.* The code has 16. With one, the second event already
  overwrites and the receiver lags, which is the case worth looking at.
* *Two changes, two faults, one reload in `recovery`.* A change away and back
  during a failed rebuild needs two changes and one fault; the second fault allows a
  failing interceptor on top of a failed open. The reload lets a generation start
  behind a stop that had failed.
* *Ticks in `monitor`.* A settle window of 2 and a poll interval of 3 leave room
  for a notification before, inside and behind the window.
* *Files in `launch`.* Each field has the last accepted and the first refused value of
  its rule.
* *Moves and scans in `launch`.* Two network events, or one and a failed rebuild, let one
  recovery end and another be under way when the signal comes; one scan of the timer and
  one of a recovery already contend for the lock. The cases with tasks leave out what
  the other cases have, a whole connection in particular.

Deadlock is checked except in `proxy`, `helper` and `session`: a listener with no
client left, a client and a helper that are both idle or gone, and a dashboard whose
user touches no key may really wait for ever. In the others an explicit stuttering
action (`AllDone`, `Exited`, `Finished`, `Stopped`) marks the states where stopping
is right.

### Fairness

Nothing is ever assumed of the user, of the network, of signals or of faults.

* `Connection`: weak fairness of the capture thread (it drains its queue in a
  loop), of every task's own steps (tokio polls what is ready) and of timers. An
  *eager* client, that of the quiet scenarios, also sends its ClientHello; only there
  `SetupEnds` asks for success.
* `Recovery`: weak fairness of the coordinator (its retry timer fires and its
  probes return), of the monitor's poll, of the report task, of the interceptor's
  look at its shutdown flag (every 50 ms), and of the main thread inside a stop it
  has begun. Faults are bounded, so retries meet a succeeding attempt; what a failure
  that never ends does is that the coordinator retries for ever, as the design
  document intends. `RecoveryEnds` has one exception, an unconfirmable stop: the
  channel of the report is closed and each stop fails, also by design ("a failed stop
  can never reopen over live rules").
* `HelloPath`: the task goes on, and the kernel sends, sends again and delivers.
  Failing sends are bounded.
* `Proxy`: the runtime polls a task that can go on and drops an aborted one;
  connects and lifetimes have timers.
* `Helper`: the threads of a client that is alive run, deadlines pass, the helper's
  loop turns. A client that died or hangs owes nothing, and the helper has to notice.
* `Session`: the main thread and the tasks go on. The lock of the scans needs strong
  fairness, since it is free again and again while another scan takes it; tokio's
  mutex queues its waiters first-come first-served, which justifies it.
* `Scan`, `MethodScan`: each await of scanner and worker has a timeout, the runtimes
  poll, the main thread watches.
* `Monitor`: threads run, callbacks return, time passes. Of a monitor with a native
  source that was told to stop no further tick is assumed: its shutdown must not
  wait for the poll interval. One that can only poll is allowed to.
* `Launch` checks safety only.

## 4. What is proved

TLAPS proves, for every value of the constants that satisfies the assumptions:

`ConnectionProofs`, first about `Spec` of `Handler` (any number of keys and entries, any
modulus of at least 2, any set of segment shapes):

| Theorem | States |
|---|---|
| `Invariance` | `HandlerInv`, the inductive invariant |
| `TypeCorrect` | `HandlerTypeOK` |
| `NeverPanics` | `NoPanic` |
| `ReleaseOnDecision` | `DecidedIsReleased` |
| `SingleMutation` | `OneMutationPerStage` |
| `FragmentAllStays` | `FragmentAllLasts` |
| `FirstDecisionWins` | `OutcomeFinal`, an action property |
| `DecisionIsHeard` | `DecisionWakes`, an action property |

*The argument.* None of the four state properties is inductive: that a decided
flow is monitored only in fragment-all mode, for instance, is lost in the gap
between `drop(state)` and `signal_outcome`. `HandlerInv` adds that an undecided
flow is monitored, that fragment-all mode is decided or the capture thread still
owes it a successful signal, and that the tallies follow the flags of the
record. It is a conjunction of `EntryInv` over the entries, which speaks of one
record only. `LocalStep` is the lemma behind every action: a step that changes
one entry and the thread preserves `HandlerInv` if it preserves `EntryInv` of
that entry and the thread's debt. There is then one lemma per branch of
`on_packet`, and one per operation of the tasks. The two action properties rest
on `StepOutcomes`: every step leaves the outcome of an entry alone or is a
`Finish` or `SignalOutcome` of it.

*Assumptions*: the modulus is a natural above 1, `None` is neither a sequence
number nor an outcome, `NoEntry` is not an entry, the segment shapes are records
of flags and a length.

`RecoveryProofs`, about `Spec` of `Recovery` (any bindings, interceptors,
channel capacity and bounds on changes, faults and reloads):

| Theorem | States |
|---|---|
| `RecoveryInvariance` | `RecoveryInv`, the inductive invariant |
| `NoReopenOverLiveRules` | `NeverOverLiveRules` |
| `BindingAgreement` | `SocketsMatchRules` |
| `RecoveryTypeCorrect` | `RecoveryTypeOK` |

*The argument.* `NeverOverLiveRules` says that at most one interceptor is live and
that the plane holds it. `PlaneInv` makes it inductive: an armed plane has the
handle or a report, never both, a disarmed one has neither, and an interceptor
that reported success is gone. Hence a confirmed stop leaves nothing live, and
opening is safe when the plane is disarmed. That it is disarmed when somebody
opens is `LockInv`: only the coordinator between stop and open, or the main
thread behind a closed generation whose coordinator has ended, get there. For
the bindings, the invariant adds that in the short state between a successful
rebuild and the publication the interceptor has the binding that is about to be
published. The lemmas follow the modules: what each operation of the plane does to
`PlaneInv` (`PlaneOpens`, `PlaneAsks`, `PlaneStops`, ...), and what each group of
steps of monitor, coordinator, main thread and interceptor does to the rest.

*Assumptions*: `None` is not a binding, an interceptor, a result or a report;
the capacity is a positive natural, the bounds are naturals.

`LaunchProofs`, first about `DiscoverySpec` of `Discovery` alone (any largest TTL, any
configured value, any set of routes, any bound on failures):

| Theorem | States |
|---|---|
| `DiscoveryInvariance` | `DiscoveryInv`, the inductive invariant |
| `DiscoveryFinds` | `FoundTtlWorks` |
| `DiscoveryOwnsItsFlow` | `ProbesOwnTheirFlow` |

*The argument.* The values that work on a route, those that reach the inspecting hop
and not the server, are an interval (`WindowEnds`). `SearchKnows` says what
the loop has learned: `best` works, and if nothing has failed then every value below
the current one was found not to work, or `best` is the one right below it. The
first failure behind a success therefore lies behind the end of the interval, which
is what entitles the code to stop there. `ProbeJudged` is the lemma for the verdict
of a probe, `ProbeMovesOn` for the steps inside one.

*Assumptions*: the largest TTL is a positive natural, the configured value and the
bound are naturals, an inspecting hop is at least one hop away.

`ConnectionProofs`, then about `ConnSpec` of `Connection` (any number of tasks and ports,
any scenarios, any bound on extra packets and on what a client sends):

| Theorem | States |
|---|---|
| `SystemImplementsHandler` | `ImplementsHandler`, the refinement |
| `ConnInvHolds` | `ConnInv`: relay only after a bypass, no leaked flow, known owners |
| `NoWakeupIsLost` | `NoLostWakeup` |
| `FlowsStayRegistered` | `FlowStaysRegistered` |
| `FakeGoesFirst` | `FakeBeforeHello`, of every list the configuration accepts, with and without TCP timestamps |
| `BaseHolds`, `GuardsMatchTable` | `Base` and `GuardInv`, inductive invariants |

*The argument.* `Base` is `HandlerInv` with the types of tasks, sockets and queue. Every
step of the system is then a step of `Handler` or leaves it alone: the answers of a
configured list are among the answers `Handler` allows, and a packet of the queue is one
of its packets. So all that is proved of `Handler` holds of the system, and the proofs
below use it. `GuardInv` is `NoLeakedFlow` and `FlowStaysRegistered` together, neither of
which is inductive without the other: a guard is armed from registration to release,
and without a reset the table holds the flows of the armed guards and no other. That a
relaying connection was bypassed follows from `OutcomeFinal`: the outcome a task has
read stays. `Listening` is what makes `NoLostWakeup` inductive: a task that is about to
look, or parked, holds the futures of its stage, so that by `DecisionWakes` whoever
changes the state after the look fires one. For the fakes, `FakeInv` says that the fake members have acted on a connection
when its flow was acted upon, when its task is past the wait, and when a ClientHello of
it is in the queue. What remains is a fact about lists, that the composite sends on what
its members stage: `ForwardedGoFirst` takes it as its hypothesis, and `ListForwards`
proves it for every accepted list, of any length and order. The last member is the case
that needs care, since its answer is the one that is returned: `LastGivesUp` names the
lists whose last member aborts without TCP timestamps, `FakeBeforeHello` excepts exactly
those (section 5), and `LastMember` and `FakeAnswer` show that in all others the staged
fake is sent.

*Assumptions*: those of `Handler`; scenarios name existing tasks and faults; the segments
of the connection are among those of the handler; no event is called `None`.
`FakeGoesFirst` takes lists that `Config::validate` accepts (`AcceptedScenarios`).

`MonitorProofs`, about `Spec` of `Monitor` (any adapters, conditions, platforms,
intervals, queue bounds, changes and faults):

| Theorem | States |
|---|---|
| `MonitorInvHolds` | `MonitorInv`: no freed context is used, no virtual adapter followed, bound sockets leave through the uplink |
| `ProbesAreSettled` | `ProbesSettled`, an action property |
| `MonitorImplementsDetector` | `ReportsChanges`, the refinement (its safety half) |

*The argument.* `MInv` follows the three threads: where the owner, the loop and the
notifier are determines what is registered, which context is live and what may be in
the queues. `NotifierOK` is the part that carries the context: it is freed only after
every registration was cancelled and the cancelling call has waited for the callback
that runs. `LastOK` says that what the filter remembers is a binding that the ranking
gave for some condition of the machine, hence physical. The refinement maps `Detector`'s
observation to the filter's last value and its channel to `events`; every step is shown
to be a probe that changes both or to leave both.

*Assumptions*: adapters have different indices (but for 0, the index of none), usable and
unusable addresses differ, the intervals are positive and the settle window is not
longer than the poll interval (1 s and 10 s in the code), the queues have room for one.

`HelperProofs`, about `Spec` of `Helper` (any tasks, keys, scenarios and limit of pending
requests):

| Theorem | States |
|---|---|
| `HelperKeepsPromise` | `KeepsPromise`, the refinement |
| `StopIsConfirmed` | `StopConfirmed` |
| `RulesFollow` | `RulesFollowInterceptor` and `StaleRulesGone` |
| `FlowsAreReleased` | `NoOrphanFlow`, registrations that a reload cancels included |
| `ConflictFailsClosed` | `FailsClosed`: beside a live helper a session ends without an interceptor |
| `ProtocolIsKept` | `ProtocolKept` |
| `HelperInvariant` | `HelperInv`, all of the above that are invariants |

*The argument.* `Base` has the types and which request may be of which kind. `WallInv`
relates rules, interceptor and the state of the helper. `StopInv` is about the last
exchange: a `ShutdownComplete` exists, on the wire or as an answer, only when helper,
rules and interceptor are gone, and gone they stay. `FlowInv` makes the promise
inductive, in three parts: an entry and its request follow the task (`EntryInv`), a
registration is asked for once and until it is served the helper knows nothing of it
(`AskInv`), and what is on its way back is still true when it arrives (`ReportInv`:
progress only grows, and a decision stays). A late answer, a duplicate, a hang or a
crash are then all steps that tell a connection something true or nothing.

`NoOrphanFlow` and `ProtocolKept` are about the order of requests that several callers put
on one socket, and neither is inductive. `ProtocolInv` has what they need of each other.
`PhaseInv`: connections are active only while the session serves, and what is left of a
start, a reload or a stop is one of a few lists. `KeyInv`: two active connections never
have one 4-tuple and the map leads to the one that has it, so a release finds its own flow.
`IdsInv`: the plane does not give a request number twice, so an answer to an earlier
request is not taken for the one that is waited for. `TurnInv` is the heart of
`ProtocolKept`: every frame on the way is one that the helper accepts in its present state,
and a frame that changes this state is the last one, because the plane waits for its answer
and no connection is active meanwhile. `OrphanInv` and `ClashInv` are about positions: a
flow that nobody owns any more has its removal behind its registration, and in front of the
next registration of its 4-tuple. A connection that is cancelled while its registration is
under way asks for no removal; a reload cancels all of them, and `ClosedKnowsNone` is why
nothing of them is left once its `CloseInterceptor` is answered: the helper then knows no
flow and none is on its way. All of it is under `Calm`, the condition under which
`ProtocolKept` is stated (no rebuild under running connections, no early reuse of a 4-tuple); `ProtocolKept` adds that the
helper's limit is not reached. Without them the helper does end, by design.

`ClosedInv` is what `FailsClosed` rests on. Its three parts hold from the first state when the
machine has the rules of another helper that lives: they stay, whatever happens to client and
helper (`Conflict`); no answer to `ConfigureInterceptor` exists, on the wire or with the
plane, since the only step that could write one recovers first and fails on those
rules (`Unconfirmed`); and so the plane never gets past its first step (`NotStarted`), through
timeouts, late frames and crashes. Rules and interceptor of this session are
opened by later steps only.

*Assumptions*: the actors and the marks of absence differ, the limit is a natural,
scenarios have their types, there are finitely many connections (`FlowsFinite`: the helper
compares the size of its table with its limit).

`SessionProofs`, about `Spec` of `Session` (any targets, configurations, scan results,
bounds on reloads, rescans and moves):

| Theorem | States |
|---|---|
| `SessionInvHolds` | `SessionInv`: one interceptor, no racing swap, TTLs that fit, recovery scans of the new network, no generation without a target |
| `ServiceIsRestored` | `RestoresService` |

*The argument.* The start-up is a list of steps, so most facts are about how much of it
is left; `HasPool`, `HasTtl` and `Quiet` name the stages. `TapInv`: the plane is closed
before the next is due, hence one interceptor. `LockInv`: the lock names the scan that is
between taking and releasing it, no scan is left in a generation that starts, and a
scan that is about to switch still compares with the present target. `PoolInv`: the pool
has the shape of the configuration and the TTLs were searched for its own members.
`SoleInv` is about the single target whose TTL lives in three places (the handle, the
dashboard, the dashboard's queue): the value told last is the handle's, and with a
reload on its way it is the one kept. `BackupInv` says that what is kept of the last
good generation is what it served, in every phase from the key to the restart; it needs
`PendingInv`, which says in which phases a reload is on its way. `RestoresService` is the
part of it about the generation that a failed reload starts.

*Assumptions*: there is a target, "none" and "config" are none, the list has room for one,
configurations have their types, a scan ranks targets and calls a prefix of them good.

`LaunchProofs`, then about `Spec` of `Launch` (any files, command lines, privileges and lists,
any events of the connection, any routes, any bounds on reloads, network events and scans):

| Theorem | States |
|---|---|
| `LaunchInvariance` | `LInv`, the inductive invariant of configuration, stage and search |
| `LaunchIsSafe` | `LaunchInv`: overrides hold, privileges first, a clean exit but for a recovery that outlives the stop |
| `LaunchRunsValidated` | `RunsValidated`: what is in use can be run |
| `LaunchTtlWorks` | `FoundTtlWorks`, in the whole process |
| `LaunchTells` | `StreamTold`: what the lines of `--json-events` say, whichever of the four writers wrote them |

*The argument.* First a fact about `Load` alone (`LoadedRuns`): what two validations let
through is `Runnable`. Validation compares numbers, so the proof also needs that they are
numbers: a field the command line does not reach is either a default, whose type is
looked up (`DefaultsTyped`), or what the parser of its field made of the file
(`ParsedRanges`, `ParsedFields`). Then `ConfigInv` carries through the launch that the
configuration in use, *and* the one kept for a fallback, were loaded from one of the two
files and are allowed to intercept; the second half is what a fallback needs, since it
checks neither again. `GoodInv` says the same of the TTL that is kept, `StageInv` which
stages have an interceptor and which belong to which front, and `DiscoveryInv` is taken
over from the proofs of the search (`SearchAnew` for the places where a search is started over).
`StageInv` also has that a recovery needs a network event, and that an interceptor at a good
exit is a local one of a headless process whose network had changed: `Stop` and `Quit`
close it, and `TasksKeep` shows that of all tasks only a rebuild opens one, which takes
a network event and, with a helper, one that still answers.

For the stream, `Ordered` is the order of the lines and `May` says which line may come
next; `OneMore` shows that such a line keeps the order. `ToldInv` ties what has been
written to the stage and to the tasks: a rescan that is open in the stream (`Open`) has a
task between its two lines (`Rescans`), so that the lock which keeps scans apart
keeps their lines apart; a coordinator in a recovery (`Recovering`) has written that the
network changed; and who writes lines of a service was spawned behind the target
(`Spawned`). `BacklogInv` is about the events that are still on their way to the logger: an
accepted connection behind its listener, in what is written or in what is queued, and a
changed target only once a rescan was announced. Without it nothing rules out that a
connection is reported before the listener, as the writers are independent. There is one
lemma per kind of writer (`Announces` for the main thread, `Logs`, `TasksTell`).

*Assumptions*: `MaxPermits` is a natural; a file holds integers, or texts of integers,
where its fields want them (anything else fails in the TOML parser, which is not
modelled); the command line names fields of `Args`. TLC evaluates them on the cases of
the run.

`ProxyProofs`, about `Spec` of `Proxy` (any number of connections, targets, ports, rows of
the dashboard and pings, any lists found by rescans, any bounds):

| Theorem | States |
|---|---|
| `ProxyInductive` | `ProxyIndInv`, the inductive invariant |
| `ProxyIsConsistent` | `ProxyInv`: loads, traffic, history, registry, active count, whole relays |
| `RowsFollowTheirConnections` | `RowsFollow` |
| `WhatIsShownMovesOn` | `ShownMovesOn`, an action property |

*The argument.* There are more than thirty actions and a handful of things a step can do to
the shared state, so `NextIs` first sorts the steps: each is of `OneKind` (it accepts,
begins, starts, tells an event, writes a chunk, returns a lease, ends; it replaces the list,
measures, shows, or does nothing of this), and every part of the invariant is shown kind by
kind. `WorkerInv` says what a worker has done from where it is. `PoolInv` is the order of the
pool: members are entries of the history, no key is there twice, and a lease names its
target by position in the history, which only grows; this is why a target that is removed
and added again meets its old counters. `Tallied` are the sums: `load` is the number of
holders and the traffic the sum over all connections that ever held a lease; the lemmas on
sums and cardinalities at the head of the module say what one more, one less and one changed
summand do. `MonitorInv` dates a round: what was replaced since has a newer number than the
round. `RegistryInv` numbers the relays, so that the entry under a port belongs to the newest.
For the dashboard, `EventInv` orders the events of a connection in the queue and counts
`Shown`, the connections whose announcement was read and whose end was not, which is
`active`; the saturating subtraction is therefore never at zero. `RowInv` gives each row its
connection. `OwnInv` is what `RowsFollow` needs: an event finds the first row of its port, so
the invariant says that, at the moment an event is read, the row that is found is that of its
connection: it is there already and no later row has its port, or its announcement is
in the queue and no other one of this port between (`Finds`). A new row is always the first,
and pruning removes ended rows only from the other end, which is why a late reader does
no harm. `ShareInv` bounds a row by what its connection has copied; with it the
totals grow when a row takes over a final count.

*Assumptions*: an IPv6 target is a target, pings are naturals, scenarios have their types
and a list is not empty (`ProxyAssumption`), the dashboard keeps at least one row.

`ScanProofs`, about `Spec` of `MethodScan`, the scans and the tests that follow them (any
lists, answers, limits, panics, scores, methods and numbers of samples):

| Theorem | States |
|---|---|
| `ScanInductive` | `ScanIndInv`, the inductive invariant |
| `ScansAreSound` | `ScanInv`: limits, ranking, order of events, one engine, whole report, clean exit |
| `ScansLoseNothing` | `NothingLost` |

*The argument.* A position of the list of addresses is in one place: not started, in the
first stage, in the backlog, in the second, or in the entries (`IpPlaces`); without a panic
it is in one of them (`IpWhole`). The same holds of the addresses of a hostname: not
started, probed, ended, joined by its task, or in the entries (`HostOK`, `SniPlaces`). `LimitIp` is
stronger than the limits: a TCP probe is started while the backlog has room, and others may
end before it, so what is in flight counts with what is waiting, and only their sum is
bounded. `LimitSni` says that free permits and running probes add up to the limit.
`IpReports` and `SniReports` equate what the watcher has, or will read, with what was
measured; the count of progress events that `CompletedLast` is about is the same equation
in numbers. The main thread may find the channel closed before the runtime has
marked the task finished, and then goes on with its own copy instead of the scanner's list:
`PhaseInv` has that without an abort nothing is left in the channel at this moment, so
that by the reports the copy has every address that accepted a connection. That a list is
ranked rests on `InOrder`, which places each position behind as many as are ahead of it: in a
total order no two have the same number, so each number is taken, and the result is a
permutation in that order. For the tests, `WorkerInv` ties engine, listener and port to the
unit at hand, `NewsInv` says that each unit has one entry and that what was read and what is
still to be read are entries, each once; `ReportWhole` then holds of the list of the worker
and of that of the watcher.

*Assumptions*: settings are naturals and lists have their types; the entries of the list of
hostnames, and of one answer, have different names, since what is listed twice has two
names in the model (`ScanAssumption`); methods have their types and numbers are naturals
(`MethodScanAssumption`).

Only model-checked:

* every liveness property: fairness and `ENABLED` are beyond the prover; of the
  refinements the prover shows the safety part, which is all that `FlowPromise`,
  `Detector` and `Handler` state;
* `EveryMemberActs`, which holds of the lists of its run and of no class of lists that
  could be described without listing them (the `Dormant` ones are the exceptions);
* the invariants of `HelloPath`, whose operators compute on sequences.

What the algorithms on sequences (offsets, records, the ranking of adapters) compute on
every input would need an induction over the data that the prover does not offer; they are
checked over the inputs of their runs. The sorts of the scans are the exception, since
they are defined by counting and not by recursion.

## 5. Where code and documentation disagree

One has a run, `online`, which TLC ends with a counterexample: the uplink changes,
the old interceptor is stopped, the next cannot be opened, the uplink returns; the
new probe equals the binding the coordinator still calls current, so it publishes
*Online* with no interceptor open and retries nothing. The design document
(`src/docs/superpowers/specs/2026-09-21-network-disconnect-recovery-design.md`) says
"Retry forever" and "Report network state honestly".

The others were met while modelling. Where the model contains them, the properties
are stated so that they hold around them and the comment there says so.

Flows, methods and connections:

* `urg_sni_split` is put on the handshake list (`methods/mod.rs:246`) and never asked
  about the data packet; the ClientHello leaves untouched, although `src/README.md:593`
  says that it is rewritten. `mixed_case_sni` without a data stage, `ccs_prefix` with a
  data-stage method, and `tls_record_frag` with `tls_frag` are accepted too, and one
  member never acts. These lists are `Dormant`.
* A fake that the server never answers (bad checksum, MD5 option, low TTL) whose
  `*_COMPLETE_IMMEDIATELY` is off, or that is followed by `wrong_seq`, waits for an
  acknowledgment that does not come. These lists are `Unanswered`.
* When the last member of a composite aborts, a fake that another has staged is lost,
  although `composite.rs:21` says that such an abort is ignored. This happens to a list
  that ends with `wrong_timestamp` on a connection without TCP timestamps; scenarios have
  it, and `FakeBeforeHello` excepts it by name (`LastGivesUp`).
* `fake_tls` set to wait for the acknowledgment of the first data packet succeeds on
  the duplicate ACK that the decoy provokes (`handler.rs:313`; its comment at 362 says
  that it keeps waiting).
* A flow registered behind the iteration of `reset` and before its `clear` is dropped
  undecided and its waiter sleeps until its timeout (`flow.rs:238`); a registration
  that the old helper answers during a remote rebuild has the same fate
  (`data_plane.rs:192`).
* After a reset and with a reused port, the guard of the old connection removes the
  flow of the new one (`flow.rs:231`). `FlowStaysRegistered` leaves resets out.
* The task that timed out reports `UnexpectedClose` whatever outcome it lost the race
  to (`proxy.rs:576`); a stray packet that closes the flow while the task reads the
  ClientHello is not looked at again (`proxy.rs:1078`); packets that the kernel had
  accepted when the flow was released in fragment-all mode go out unshaped
  (`proxy.rs:1134`).

Bytes:

* `mixed_case_sni` re-cases bytes of the handshake transcript on the way, so the two
  ends no longer agree on it, where `mixed_case_sni.rs:7` says the handshake is
  unaffected. The model's server compares names without regard to case.
* `tls_record_frag` lengthens what the kernel counted; later bytes of the same
  connection overlap with it, where `tls_record_frag.rs:17` says the server reassembles
  the same ClientHello. `HelloPath` rewrites connections with nothing behind the packet.
* `find_sni_boundary` promises `None` for an incomplete ClientHello and indexes past a
  record that ends inside the handshake header (`sni.rs:48`); inputs have a whole header.
* With `tls_padding` and `tls_frag` in numbered-packets mode, the padded ClientHello is
  written whole and the count begins behind it (`proxy.rs:1535`), against
  `src/README.md:1125`, "pad first, then fragment".
* Padding is added even if the ClientHello has the extension, and behind a pre-shared
  key, which has to be last.

Recovery, helper and session:

* A probe that fails only in the coordinator waits for the next event of the monitor,
  which sees no change and sends none (`network_recovery.rs:140`).
* An interceptor that dies is noticed at the next stop only (`data_plane.rs:264`), and
  the report of a cancelled rebuild can be lost with its runtime, after which every
  stop fails (`reload.rs:166`).
* A headless stop holds the mutex for itself only: a coordinator that waits for it
  opens the plane again before the runtime is dropped (`main.rs:1768`), and the process
  reports success with a local interceptor open. `Launch` has it, as the one exception
  of `CleanExit`.
* The TTL found by a search is lost when the helper opens its interceptor again, since
  the method is built anew (`unix.rs:268`; `main.rs:1240`, "remains active for the
  process lifetime").
* A rescan compares with the pool whatever was pinned by `AUTO_SELECT = false`
  (`main.rs:1458`, `main.rs:3006`; `src/README.md:1733`), and the new target and its TTL
  are set one after the other (`src/README.md:972`, "become active together").

Monitor:

* A notification stream without a pause postpones the probe, the poll included.
* A real loss behind a failed probe is not reported a second time; a
  change away and back between two probes is not seen at all.
* A monitor that can only poll waits for its interval when it is told to stop.
* On Android, where `SO_BINDTODEVICE` is refused, IPv6 sockets are not tied to the
  uplink (`uplink.rs:620`).

Start, scans and exit:

* The handler of SIGTERM exists only once the headless proxy runs; during a scan or a
  TTL search with the interceptor open the signal ends the process at once, and the
  rules stay (`main.rs:1971`; `src/README.md:1633`). A monitor that cannot be started
  after a local plane has opened leaves it in the same way.
* A method scan prints its report as plain text to standard output under
  `--json-events` too (`main.rs:3615`; `main.rs:127`); lines of
  relays, rescans and the recovery may follow `graceful_shutdown`: the logger is ended
  after it, and the other tasks only with the runtime. `StreamTold` allows these lines
  and no others.
* The file is validated before the command line is applied, so `--method` cannot repair
  a file; `--sni ""` selects an empty name, the same value in the file selects none.

## 6. What is not modelled

* The Android application: a separate Kotlin program that runs this one as a child;
  its life cycle is that of the framework, which would have to be modelled with it.
* The bits of headers: falsified fields of the fakes, checksums, options, the urgent
  pointer, the template of the fake ClientHello. What the properties need of a fake is
  that the server rejects, ignores or acknowledges it.
* Framing and serialization of the helper's protocol, TOML syntax, the text of
  `/proc/net/route` and of list files: a file is its fields, a frame its message.
* The exchanges inside one probe or test (HTTP, TLS, SOCKS5, the chain of name servers):
  a probe passes, fails or times out, and has a latency.
* Drawing, sorting and scrolling of the terminal interface, logging, wording, colours.
* System calls: opening queues, raw sockets, netlink, registering notifications; they
  succeed or fail.
* In `Recovery`, two branches of the coordinator that a local plane with a target never
  takes: a disconnected helper, and no target to verify. `Launch` has them for the line
  they write.
* The TTL search of each target of a balanced service, step by step: `Launch` and
  `Discovery` have that of a single target, `Session` its result per target.
* Times, apart from their order and, in `Monitor`, ticks.

`Connection` treats the relay as one state and `Proxy` the set-up as one step; the
interceptor of `Session` and `MethodScan` is one bit, in `Launch` there is also whose it is, that of `DataPlane` a
thread with rules, that of `Handler` the packets.

## 7. Plan

Modelling has reached what TLC can check with profit; what is left is mostly proof:

1. `Recovery` on top of `Detector`, so that the composition is one theorem.
2. Lemmas on segment and fragment offsets: contiguous, complete, within the limit.
3. The Android service, if the framework's callbacks are worth a model of their own.

## 8. Running it

    tlc -config MCHandler.cfg MCHandler
    tlc -config MCConnection.cfg MCConnection
    tlc -config MCReuse.cfg MCConnection
    tlc -config MCHelloPath.cfg MCHelloPath
    tlc -config MCProxy.cfg MCProxy
    tlc -config MCHelper.cfg MCHelper
    tlc -config MCRecovery.cfg Recovery
    tlc -config MCSession.cfg MCSession
    tlc -config MCScan.cfg MCScan
    tlc -config MCMonitor.cfg MCMonitor
    tlc -config MCLaunch.cfg MCLaunch
    tlc -config FindingOnline.cfg Recovery
    tlapm RecoveryProofs.tla
    tlapm ConnectionProofs.tla
    tlapm MonitorProofs.tla
    tlapm HelperProofs.tla
    tlapm SessionProofs.tla
    tlapm LaunchProofs.tla
    tlapm ProxyProofs.tla
    tlapm ScanProofs.tla

The longest run takes about three minutes with two workers, the proofs from
a minute to a quarter of an hour each.
