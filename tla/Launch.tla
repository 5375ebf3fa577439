-------------------------------- MODULE Launch --------------------------------
(* The process from its command line to its exit (main.rs, runtime_events.rs,    *)
(* the reload of reload.rs): configuration, helper, access check, target,        *)
(* interceptor, TTL search, background tasks, monitor, listener, and then either *)
(* the headless select of run_headless_proxy or the dashboard.                   *)
(*                                                                               *)
(* A case is what the outside decides: files, command line, privileges.  `out`   *)
(* is standard output under --json-events: the main thread, the logger of the    *)
(* proxy's events, the background rescan and the recovery coordinator write it.  *)
(* The tasks have the steps that write a line or touch the interceptor and live  *)
(* until the runtime is dropped; what a rescan or a recovery does to targets and *)
(* bindings is Session's and Recovery's, the scans themselves are Scan's, the    *)
(* rules of an interceptor Helper's.  Signals other than SIGTERM are logged and  *)
(* ignored by the headless proxy, and left out.                                  *)
EXTENDS Options, Discovery

CONSTANTS
  Cases,       \* [file, edited, overrides, json, no_tui, bootstrap, uid, access, lists], and
               \* bounds: moves (network events and failed rebuilds), scans (of the timer),
               \* conn (events of the connection)
  MaxReloads,  \* bound: reloads the user asks for
  ConnEvents   \* the events of the one connection that is made, in their order

ASSUME LaunchAssumption ==
  \A c \in Cases : \A config \in Load(c.file, c.overrides) :
     Discovers(config) => /\ Effective(config).LOW_TTL_DISCOVER_MAX = MaxTtl
                          /\ Effective(config).LOW_TTL_VALUE = LowTtlValue

ASSUME CasesAssumption ==
  /\ MaxReloads \in Nat /\ ConnEvents \in Seq(STRING \ {"target_changed"})
  /\ \A c \in Cases : /\ TypedFile(c.file) /\ TypedFile(c.edited)
                      /\ c.moves \in Nat /\ c.scans \in Nat /\ c.conn \in 0..Len(ConnEvents)
                      /\ DOMAIN c.overrides \subseteq CommandLine

VARIABLES
  case, disk,     \* the case; config.toml as it is now
  pc, exit,       \* where the main thread is; how the process ended
  cfg, good,      \* the configuration in use; the last that served: [cfg, ttl, restoring]
  helper,         \* the root helper's connection
  capture,        \* who captures packets
  task,           \* the background rescan's timer and the recovery coordinator
  moves, scans,   \* network events and failed rebuilds so far; scans of the timer
  proxy, backlog, \* the proxy task; events the logger has not read
  sent,           \* events the connection has sent
  out,            \* the lines on standard output
  term, reloads

taskVars == <<task, moves, scans>>
launchVars ==
  <<case, disk, pc, exit, cfg, good, helper, capture, proxy, backlog, sent, out, term, reloads, taskVars>>
vars == <<launchVars, discoveryVars>>

NoConfig == <<>>
Mode == Effective(cfg).MODE
Headless == case.no_tui \/ case.json

\* RuntimeEventEmitter: a line each, and none without --json-events.
Lines(events) == IF case.json THEN out \o events ELSE out

\* No runtime, no tasks.
NoTasks == [timer |-> "off", recovery |-> "off"]

\* main prints the startup line before anything can fail.
Init ==
  /\ case \in Cases
  /\ disk = case.file
  /\ pc = "load" /\ exit = "none" /\ cfg = NoConfig
  /\ good = [cfg |-> NoConfig, ttl |-> LowTtlValue, restoring |-> FALSE]
  /\ helper = "none" /\ capture = "off" /\ proxy = "none" /\ backlog = <<>> /\ sent = 0
  /\ out = IF case.json THEN <<"startup">> ELSE <<>>
  /\ term = FALSE /\ reloads = 0 /\ task = NoTasks /\ moves = 0 /\ scans = 0
  /\ InitDiscovery

\* The TTL handle belongs to the interceptor's method: a new one starts over.
NewSearch == search' = Idle /\ flow' = "none" /\ handle' = LowTtlValue /\ UNCHANGED <<path, faults>>

-----------------------------------------------------------------------------
(* Errors *)

\* run returns an error: the runtime is gone, main prints the last line.
Fails(events) ==
  /\ exit' = "err" /\ pc' = "exit"
  /\ out' = Lines(Append(events, "fatal_error"))

\* A generation of an interactive session fails: its tasks are gone with its runtime,
\* its interceptor is closed, and the last configuration that served is started again,
\* with its targets and their TTL and without a search.  When that fails too the user
\* is asked.  An interceptor that is not confirmed closed ends the session.
FallsBack ==
  \/ /\ capture # "off"
     /\ Fails(<<>>) /\ UNCHANGED <<cfg, good, capture, proxy, task, discoveryVars>>
  \/ /\ capture' = "off" /\ proxy' = "none" /\ task' = NoTasks
     /\ \/ /\ good.cfg = NoConfig
           /\ Fails(<<>>) /\ UNCHANGED <<cfg, good, discoveryVars>>
        \/ /\ good.cfg # NoConfig /\ ~good.restoring
           /\ cfg' = good.cfg /\ good' = [good EXCEPT !.restoring = TRUE] /\ pc' = "plane"
           /\ search' = [Idle EXCEPT !.pc = "end"] /\ flow' = "none" /\ handle' = good.ttl
           /\ UNCHANGED <<path, faults, exit, out>>
        \/ /\ good.restoring
           /\ pc' = "retry" /\ UNCHANGED <<exit, out, cfg, good, discoveryVars>>

\* A step of the start-up fails.  Without a session nobody owns the interceptor.
StartFails ==
  /\ IF Headless \/ Mode \in ScanModes
     THEN Fails(<<>>) /\ UNCHANGED <<cfg, good, capture, proxy, task, discoveryVars>>
     ELSE FallsBack
  /\ UNCHANGED <<case, disk, helper, backlog, sent, term, reloads, moves, scans>>

Stays == UNCHANGED <<case, disk, good, backlog, sent, term, reloads, taskVars, discoveryVars>>

-----------------------------------------------------------------------------
(* run *)

LoadConfig ==
  /\ pc = "load"
  /\ \E loaded \in {Load(disk, case.overrides)} :
       IF loaded = {} THEN Fails(<<>>) /\ UNCHANGED cfg
       ELSE /\ cfg' \in loaded /\ pc' = "helper" /\ UNCHANGED <<exit, out>>
  /\ UNCHANGED <<helper, capture, proxy>> /\ Stays

\* connect_external_helper: not for a rootless mode, under the expected UID, and it
\* has to answer.  The arguments come together or not at all.
ConnectHelper ==
  /\ pc = "helper"
  /\ \/ ~case.bootstrap /\ pc' = "access" /\ UNCHANGED <<exit, out, helper>>
     \/ /\ case.bootstrap /\ RequiresInterception(cfg) /\ case.uid
        /\ helper' = "up" /\ pc' = "access" /\ out' = Lines(<<"helper_authenticated">>)
        /\ UNCHANGED exit
     \/ case.bootstrap /\ Fails(<<>>) /\ UNCHANGED helper
  /\ UNCHANGED <<cfg, capture, proxy>> /\ Stays

\* Variation: access is only checked in an interactive run.
CheckAccessInteractive ==
  /\ pc = "access"
  /\ IF ~Headless /\ RequiresInterception(cfg) /\ helper = "none" /\ ~case.access
     THEN Fails(<<"config_loaded", "root_required">>)
     ELSE /\ pc' = IF Mode \in ScanModes THEN "scan" ELSE "select"
          /\ out' = Lines(<<"config_loaded">>) /\ UNCHANGED exit
  /\ UNCHANGED <<cfg, helper, capture, proxy>> /\ Stays

\* The configuration is announced, then the privileges it needs are looked at.
CheckAccess ==
  /\ pc = "access"
  /\ IF RequiresInterception(cfg) /\ helper = "none" /\ ~case.access
     THEN Fails(<<"config_loaded", "root_required">>)
     ELSE /\ pc' = IF Mode \in ScanModes THEN "scan" ELSE "select"
          /\ out' = Lines(<<"config_loaded">>) /\ UNCHANGED exit
  /\ UNCHANGED <<cfg, helper, capture, proxy>> /\ Stays

\* A scan mode ends the process.  A headless method scan prints its report as text.
ScanEnds ==
  /\ pc = "scan"
  /\ exit' = "ok" /\ pc' = "exit"
  /\ helper' = IF helper = "up" THEN "down" ELSE helper
  /\ out' = Lines(<<"scan_started", "scan_completed">>
                    \o IF Mode \in {"sni_method_scan", "ip_method_scan"} THEN <<"text">> ELSE <<>>)
  /\ UNCHANGED <<cfg, capture, proxy>> /\ Stays
ScanFails == pc = "scan" /\ StartFails

-----------------------------------------------------------------------------
(* run_config, ip_bypass_main, ip_bypass_plus_main *)

Pinned == IF Mode = "sni_spoof" THEN Effective(cfg).SELECTED_SNI # None
          ELSE Effective(cfg).SELECTED_IP # None

\* A pinned target is resolved, otherwise the list is scanned.
SelectTarget ==
  /\ pc = "select" /\ ListNeeded(cfg) \subseteq case.lists
  /\ pc' = "plane"
  /\ out' = Lines((IF Pinned THEN <<>> ELSE <<"scan_started", "scan_completed">>)
                    \o <<"selected_target">>)
  /\ UNCHANGED <<exit, cfg, helper, capture, proxy>> /\ Stays
NoTarget == pc = "select" /\ StartFails

\* A local interceptor, the helper's, or none.
Interceptor ==
  IF ~RequiresInterception(cfg) THEN "off" ELSE IF helper = "none" THEN "local" ELSE "remote"

OpenPlane ==
  /\ pc = "plane"
  /\ RequiresInterception(cfg) => helper = "up" \/ (helper = "none" /\ case.access)
  /\ capture' = Interceptor
  /\ pc' = "ttl"
  /\ UNCHANGED <<exit, out, cfg, helper, proxy>> /\ Stays
PlaneFails == pc = "plane" /\ RequiresInterception(cfg) /\ StartFails

\* LOW_TTL_DISCOVER, before anything listens.
Searching == capture # "off" /\ Discovers(cfg)
SearchTtl == pc = "ttl" /\ Searching /\ DiscoveryNext /\ UNCHANGED launchVars

\* The background rescan is spawned first.  Without an interval only the dashboard has
\* one, and it writes no lines.
SpawnRescan ==
  /\ pc = "ttl" /\ (Searching => search.pc = "end")
  /\ pc' = "monitor"
  /\ task' = [task EXCEPT !.timer =
                IF Headless /\ Effective(cfg).RESCAN_INTERVAL_SECS > 0 THEN "schedule" ELSE "off"]
  /\ UNCHANGED <<case, disk, exit, cfg, good, helper, capture, proxy, backlog, sent, out, term, reloads,
                 moves, scans, discoveryVars>>

\* The monitor is started, the coordinator and the proxy task are spawned.
StartMonitor ==
  /\ pc = "monitor"
  /\ pc' = "serve" /\ proxy' = "starting" /\ task' = [task EXCEPT !.recovery = "wait"]
  /\ UNCHANGED <<case, disk, exit, cfg, good, helper, capture, backlog, sent, out, term, reloads,
                 moves, scans, discoveryVars>>
MonitorFails == pc = "monitor" /\ StartFails

-----------------------------------------------------------------------------
(* The proxy task and the connection *)

Serving == pc \in {"serve", "dash"}

\* LISTEN_HOST is parsed, and LISTEN_PORT bound, by the task.
Listen ==
  /\ Serving /\ proxy = "starting" /\ Effective(cfg).LISTEN_HOST = "address"
  /\ proxy' = "listening" /\ backlog' = Append(backlog, "listener_started")
  /\ UNCHANGED <<case, disk, pc, exit, cfg, good, helper, capture, sent, out, term, reloads, taskVars, discoveryVars>>
ProxyEnds ==
  /\ Serving /\ proxy \in {"starting", "listening"}
  /\ proxy' = "failed"
  /\ UNCHANGED <<case, disk, pc, exit, cfg, good, helper, capture, backlog, sent, out, term, reloads,
                 taskVars, discoveryVars>>
Connect ==
  /\ Serving /\ proxy = "listening" /\ Headless /\ sent < case.conn
  /\ sent' = sent + 1 /\ backlog' = Append(backlog, ConnEvents[sent + 1])
  /\ UNCHANGED <<case, disk, pc, exit, cfg, good, helper, capture, proxy, out, term, reloads, taskVars,
                 discoveryVars>>

\* log_headless_proxy_events: the lines an event of the channel becomes.
Translate(event) ==
  CASE event = "listener_started" -> <<"listener_started">>
    [] event = "accepted" -> <<"connection_accepted">>
    [] event \in {"bypassed", "bypass_failed", "error"} -> <<"bypass_finished">>
    [] event \in {"progress", "finished"} -> <<"relay_bytes">>
    [] event = "target_changed" -> <<"active_target_changed">>
    [] OTHER -> <<>>

LogEvent ==
  /\ pc \in {"serve", "stopping", "stopped"} /\ Headless /\ backlog # <<>>
  /\ out' = Lines(Translate(Head(backlog))) /\ backlog' = Tail(backlog)
  /\ UNCHANGED <<case, disk, pc, exit, cfg, good, helper, capture, proxy, sent, term, reloads, taskVars,
                 discoveryVars>>

-----------------------------------------------------------------------------
(* The tasks of the runtime *)

\* They run until the runtime is dropped: also while the main thread shuts down.
Alive == pc \in {"monitor", "serve", "dash", "stopping", "stopped"}
Does(t, step, next) == Alive /\ task[t] = step /\ task' = [task EXCEPT ![t] = next]

\* What a step of a task leaves alone; it may write, and send to the logger.
Others == UNCHANGED <<case, disk, pc, exit, cfg, good, helper, proxy, sent, term, reloads, discoveryVars>>
Writes(lines) == out' = Lines(lines) /\ UNCHANGED <<capture, backlog>> /\ Others

\* background_rescan: the next scan is announced, then waited for.
ScheduleScan ==
  /\ scans < case.scans
  /\ Does("timer", "schedule", "wait")
  /\ scans' = scans + 1
  /\ Writes(<<"next_scan_scheduled">>) /\ UNCHANGED moves

\* rescan_sni_once and rescan_ip_once, of the timer and of the coordinator: one scan
\* at a time (SCAN_LOCK).  A pinned target of a balanced service is kept without a scan.
Balanced == Effective(cfg).LOAD_BALANCE_ENABLED
Scanning(t) == task[t] \in {"scan", "switched"}
RescanStarts(t) ==
  /\ Does(t, IF t = "timer" THEN "wait" ELSE "queued", "scan")
  /\ ~(Balanced /\ Pinned) /\ \A u \in DOMAIN task : ~Scanning(u)
  /\ Writes(<<"rescan_started">>) /\ UNCHANGED <<moves, scans>>
RescanSpared ==
  /\ Does("timer", "wait", "schedule")
  /\ Balanced /\ Pinned
  /\ Writes(<<"rescan_finished">>) /\ UNCHANGED <<moves, scans>>

\* The new target goes to the logger, the end of the scan straight to the output.
SwitchTarget(t) ==
  /\ Does(t, "scan", "switched")
  /\ backlog' = Append(backlog, "target_changed")
  /\ UNCHANGED <<capture, out, moves, scans>> /\ Others
RescanEnds(t) ==
  /\ Scanning(t)
  /\ Does(t, task[t], CASE t = "timer" -> "schedule"
                        [] t = "recovery" /\ task[t] = "switched" -> "report"
                        [] OTHER -> "rescanned")
  /\ Writes(<<"rescan_finished">>) /\ UNCHANGED <<moves, scans>>

\* handle_change: the helper is gone or no target can be probed; the binding is the one
\* in use, which has no line; or it is another.  An event ends a backoff.
NetworkEvent ==
  /\ moves < case.moves /\ moves' = moves + 1 /\ UNCHANGED scans
  /\ \E step \in {"wait", "backoff"} :
       \/ Does("recovery", step, "wait") /\ Writes(<<"network_unavailable">>)
       \/ Does("recovery", step, "wait") /\ Writes(<<>>)
       \/ helper # "dead" /\ Does("recovery", step, "rebuild") /\ Writes(<<"network_changed">>)

\* rebuild, which has the plane's mutex from its stop to its open: the mutex is all that
\* keeps it apart from the stop of the main thread, whichever gets it first.
Rebuild ==
  /\ Does("recovery", "rebuild", "verify") /\ helper \in {"none", "up"}
  /\ capture' = Interceptor
  /\ UNCHANGED <<backlog, out, moves, scans>> /\ Others
RebuildFails ==
  /\ moves < case.moves /\ moves' = moves + 1
  /\ Does("recovery", "rebuild", "backoff") /\ RequiresInterception(cfg)
  /\ capture' \in {"off", capture} /\ out' = Lines(<<"network_recovery_failed">>)
  /\ UNCHANGED <<backlog, scans>> /\ Others
Retry == Does("recovery", "backoff", "rebuild") /\ Writes(<<>>) /\ UNCHANGED <<moves, scans>>

\* The target still answers, or another one is looked for, or there is none.
NotVerified ==
  /\ Does("recovery", "verify", "queued")
  /\ (Effective(cfg).AUTO_SELECT \/ Balanced) /\ ~Pinned
  /\ Writes(<<>>) /\ UNCHANGED <<moves, scans>>
FoundNone ==
  /\ Does("recovery", "rescanned", "report")
  /\ Writes(<<"network_unavailable">>) /\ UNCHANGED <<moves, scans>>
Recovered ==
  /\ \E step \in {"verify", "rescanned", "report"} : Does("recovery", step, "wait")
  /\ Writes(<<"network_recovered">>) /\ UNCHANGED <<moves, scans>>

Tasks ==
  \/ ScheduleScan \/ RescanSpared
  \/ \E t \in DOMAIN task : RescanStarts(t) \/ SwitchTarget(t) \/ RescanEnds(t)
  \/ NetworkEvent \/ Rebuild \/ RebuildFails \/ Retry \/ NotVerified \/ FoundNone \/ Recovered

-----------------------------------------------------------------------------
(* run_headless_proxy *)

\* SIGTERM: handled once the headless proxy runs, fatal before that.
Terminate ==
  /\ pc # "exit" /\ ~term
  /\ term' = TRUE
  /\ IF Headless /\ pc \in {"serve", "stopping", "stopped"}
     THEN UNCHANGED <<pc, exit>> ELSE exit' = "killed" /\ pc' = "exit"
  /\ UNCHANGED <<case, disk, cfg, good, helper, capture, proxy, backlog, sent, out, reloads, taskVars, discoveryVars>>

HelperDies ==
  /\ helper = "up" /\ pc # "exit"
  /\ helper' = "dead"
  /\ UNCHANGED <<case, disk, pc, exit, cfg, good, capture, proxy, backlog, sent, out, term, reloads,
                 taskVars, discoveryVars>>

TakeSignal ==
  /\ pc = "serve" /\ Headless /\ term
  /\ pc' = "stopping" /\ proxy' = "aborted"
  /\ UNCHANGED <<exit, cfg, helper, capture, out>> /\ Stays

\* Variation: the shutdown is announced whatever became of the interceptor.
StopFailsGracefully ==
  /\ pc = "stopping" /\ (capture # "off" \/ helper # "none")
  /\ Fails(<<"graceful_shutdown">>)
  /\ UNCHANGED <<cfg, helper, capture, proxy>> /\ Stays

\* DataPlane::stop: a helper is told to close and to end, so it has to answer.
Closes ==
  /\ helper # "dead"
  /\ capture' = "off" /\ helper' = IF helper = "up" THEN "down" ELSE helper

\* data_plane.stop after a signal.  The logger is only aborted afterwards, and the
\* other tasks not at all.
Stop ==
  /\ pc = "stopping" /\ Closes
  /\ pc' = "stopped" /\ out' = Lines(<<"graceful_shutdown">>)
  /\ UNCHANGED <<exit, cfg, proxy>> /\ Stays
StopFails ==
  /\ pc = "stopping" /\ (capture # "off" \/ helper # "none")
  /\ Fails(<<>>)
  /\ UNCHANGED <<cfg, helper, capture, proxy>> /\ Stays
Leave ==
  /\ pc = "stopped"
  /\ pc' = "exit" /\ exit' = "ok"
  /\ UNCHANGED <<cfg, helper, capture, proxy, out>> /\ Stays

\* The proxy task ended with an error: the interceptor is stopped, or not.
ProxyEnded ==
  /\ pc = "serve" /\ Headless /\ proxy = "failed"
  /\ Closes \/ UNCHANGED <<capture, helper>>
  /\ Fails(<<>>)
  /\ UNCHANGED <<cfg, proxy>> /\ Stays

\* wait_fatal: the helper is gone, and with it what there was to stop.
HelperLost ==
  /\ pc = "serve" /\ Headless /\ helper = "dead" /\ RequiresInterception(cfg)
  /\ Fails(<<>>)
  /\ UNCHANGED <<cfg, helper, capture, proxy>> /\ Stays

-----------------------------------------------------------------------------
(* The dashboard *)

\* wait_listener.
Ready ==
  /\ pc = "serve" /\ ~Headless /\ proxy = "listening"
  /\ pc' = "dash" /\ backlog' = <<>>
  /\ good' = [good EXCEPT !.cfg = cfg, !.ttl = handle]
  /\ UNCHANGED <<case, disk, exit, cfg, helper, capture, proxy, sent, out, term, reloads, taskVars, discoveryVars>>
NotReady == pc = "serve" /\ ~Headless /\ proxy = "failed" /\ StartFails

Edit ==
  /\ pc \in {"dash", "retry"} /\ disk # case.edited
  /\ disk' = case.edited
  /\ UNCHANGED <<case, pc, exit, cfg, good, helper, capture, proxy, backlog, sent, out, term, reloads,
                 taskVars, discoveryVars>>

Privileged == IF helper = "none" THEN case.access ELSE helper = "up"

\* Session::candidate and what a new generation starts from.
Reloads(active) ==
  \E next \in Candidate(disk, case.overrides, active, Privileged, case.lists) :
    /\ cfg' = next /\ pc' = "select" /\ capture' = "off" /\ proxy' = "none" /\ task' = NoTasks
    /\ good' = [good EXCEPT !.restoring = FALSE]
    /\ NewSearch
    /\ UNCHANGED <<exit, out>>

\* L on the dashboard: the new generation starts once the old one is closed.
Reload ==
  /\ pc = "dash" /\ reloads < MaxReloads
  /\ reloads' = reloads + 1
  /\ \/ Reloads(cfg)
     \/ /\ Candidate(disk, case.overrides, cfg, Privileged, case.lists) # {} /\ capture # "off"
        /\ Fails(<<>>) /\ UNCHANGED <<cfg, good, capture, proxy, task, discoveryVars>>
  /\ UNCHANGED <<case, disk, helper, backlog, sent, term, moves, scans>>

\* L on the screen that says the service stopped.
RetryLoad ==
  /\ pc = "retry" /\ reloads < MaxReloads
  /\ reloads' = reloads + 1
  /\ Reloads(NoConfig)
  /\ UNCHANGED <<case, disk, helper, backlog, sent, term, moves, scans>>

\* q: the runtime is dropped, close_generation, then the helper is told to end.  Either
\* can fail; a helper that is gone is not asked.
Quit ==
  /\ pc \in {"dash", "retry"}
  /\ \/ /\ capture' = "off" /\ exit' = "ok" /\ pc' = "exit" /\ UNCHANGED out
        /\ helper' = IF helper = "up" THEN "down" ELSE helper
     \/ capture # "off" /\ Fails(<<>>) /\ UNCHANGED <<capture, helper>>
     \/ helper = "up" /\ capture' = "off" /\ Fails(<<>>) /\ UNCHANGED helper
  /\ UNCHANGED <<cfg, proxy>> /\ Stays

Finished == pc = "exit" /\ UNCHANGED vars

StartUp ==
  \/ LoadConfig \/ ConnectHelper \/ CheckAccess \/ ScanEnds \/ ScanFails \/ SelectTarget \/ NoTarget
  \/ OpenPlane \/ PlaneFails \/ SearchTtl \/ SpawnRescan \/ StartMonitor
  \/ MonitorFails
Shutdown == TakeSignal \/ Stop \/ StopFails \/ Leave \/ ProxyEnded \/ HelperLost

Next ==
  \/ StartUp \/ Shutdown \/ Tasks
  \/ Listen \/ ProxyEnds \/ Connect \/ LogEvent \/ Terminate \/ HelperDies
  \/ Ready \/ NotReady \/ Edit \/ Reload \/ RetryLoad \/ Quit \/ Finished

Spec == Init /\ [][Next]_vars

-----------------------------------------------------------------------------

TaskTypeOK ==
  /\ task \in [timer : {"off", "schedule", "wait", "scan", "switched"},
               recovery : {"off", "wait", "rebuild", "backoff", "verify", "queued", "scan", "switched",
                           "rescanned", "report"}]
  /\ moves \in Nat /\ scans \in Nat
LaunchTypeOK ==
  /\ case \in Cases /\ disk \in {case.file, case.edited}
  /\ pc \in {"load", "helper", "access", "scan", "select", "plane", "ttl", "monitor", "serve", "dash",
             "retry", "stopping", "stopped", "exit"}
  /\ exit \in {"none", "ok", "err", "killed"}
  /\ helper \in {"none", "up", "down", "dead"} /\ capture \in {"off", "local", "remote"}
  /\ proxy \in {"none", "starting", "listening", "failed", "aborted"}
  /\ sent \in 0..Len(ConnEvents) /\ term \in BOOLEAN /\ reloads \in 0..MaxReloads
  /\ TaskTypeOK /\ DiscoveryTypeOK

InUse == pc \notin {"load", "exit"}

\* Args::apply comes after the file on every load: what the command line says holds
\* for the first configuration and for every one a reload brings.
OverridesHold == InUse => \A f \in DOMAIN case.overrides : cfg[f] = Apply(case.overrides, <<>>)[f]

\* Nothing that needs packet interception gets past the access check, at the start
\* or by a reload: a missing privilege is reported before a target is scanned for.
PrivilegedFirst ==
  InUse /\ pc \notin {"helper", "access"} /\ RequiresInterception(cfg) => helper # "none" \/ case.access

\* A process that says it succeeded leaves no interceptor behind, with one exception:
\* nothing ends the coordinator before the runtime is dropped, so a headless process
\* without helper whose network changed may have it rebuilt after data_plane.stop.
CleanExit == exit = "ok" /\ capture # "off" => Headless /\ capture = "local" /\ moves > 0

\* The launch keeps the overrides, asks for privileges first, and leaves neither an
\* interceptor (when it ends well, and no recovery runs) nor a flow of a TTL probe behind.
LaunchInv ==
  /\ LaunchTypeOK /\ OverridesHold /\ PrivilegedFirst /\ CleanExit
  /\ SearchKnows /\ ProbesOwnTheirFlow

\* What the consumers of a configuration need: Semaphore::new panics above its limit
\* and a scan without permits never ends, gen_range panics on an empty range, chunks
\* on a size of zero, a fragment offset counts units of eight bytes, a decoy has a
\* TTL of one byte that is not zero, dispatch knows the mode and build_method the
\* methods.
Runnable(c) ==
  /\ \A f \in {"SNI_MAX_CONCURRENT", "IP_MAX_P1_CONCURRENT", "IP_MAX_P2_CONCURRENT"} :
       0 < c[f] /\ c[f] <= MaxPermits
  /\ \A f \in RangeFields : 0 <= c[f].min /\ c[f].min <= c[f].max
  /\ 0 < FragLength(c).min /\ FragLength(c).min <= FragLength(c).max
  /\ 0 < c.TLS_RECORD_FRAG_SIZE
  /\ 0 < c.IP_FRAG_SIZE /\ c.IP_FRAG_SIZE % 8 = 0
  /\ c.LOW_TTL_VALUE \in 1..255 /\ c.LOW_TTL_DISCOVER_MAX \in 1..255
  /\ 0 < c.SCAN_TIMEOUT_SECS /\ 0 < c.BYPASS_TIMEOUT_SECS
  /\ c.MODE \in ProxyModes \cup ScanModes
  /\ c.BYPASS_METHOD # <<>> /\ M!Listed(MethodConfig(c)) \subseteq M!BaseBypassMethods

\* Whatever the file and the command line say, and however they changed since, the
\* configuration that is used is one its consumers can run (ConfigSource::load
\* validates the file, applies the overrides and validates again).
RunsValidated == InUse => Runnable(Effective(cfg))

\* The lines a service writes while it runs: of the logger, of the rescans, of the
\* coordinator.
ServiceLines ==
  {"listener_started", "connection_accepted", "bypass_finished", "relay_bytes", "active_target_changed",
   "next_scan_scheduled", "rescan_started", "rescan_finished", "network_unavailable", "network_changed",
   "network_recovery_failed", "network_recovered"}

Count(line) == Cardinality({i \in DOMAIN out : out[i] = line})
Before(a, b) == \A j \in DOMAIN out : out[j] = b => \E i \in 1..j - 1 : out[i] = a

\* The lines of --json-events, which four writers put there: Startup first, ConfigLoaded
\* once and before everything but the helper's; nothing of the service before its
\* target, nothing accepted before something listens, no change of target without a
\* rescan, no two rescans at once, no recovery without a change of the network; an error
\* ends the stream with the one FatalError and no GracefulShutdown; a proxy that ends
\* well has announced it once, and after that only tasks that still run write.
StreamTold ==
  case.json =>
    /\ out[1] = "startup" /\ Count("config_loaded") <= 1
    /\ \A i \in 2..Len(out) :
         out[i] \notin {"config_loaded", "helper_authenticated", "fatal_error"} =>
           \E j \in 1..i - 1 : out[j] = "config_loaded"
    /\ \A line \in ServiceLines : Before("selected_target", line)
    /\ Before("listener_started", "connection_accepted") /\ Before("rescan_started", "active_target_changed")
    /\ Before("network_changed", "network_recovered") /\ Before("network_changed", "network_recovery_failed")
    /\ \A i, j \in DOMAIN out : i < j /\ out[i] = "rescan_started" /\ out[j] = "rescan_started" =>
         \E k \in i..j : out[k] = "rescan_finished"
    /\ exit = "err" <=> Last(out) = "fatal_error"
    /\ exit = "err" => Count("fatal_error") = 1 /\ Count("graceful_shutdown") = 0
    /\ exit = "ok" /\ Mode \in ProxyModes => Count("graceful_shutdown") = 1
    /\ \A i, j \in DOMAIN out : i < j /\ out[i] = "graceful_shutdown" => out[j] \in ServiceLines
=============================================================================
