------------------------------- MODULE Session -------------------------------
(* An interactive session: generations of the proxy service, one configuration   *)
(* after the other, and the target changes inside a generation.                  *)
(*                                                                               *)
(* The main thread (reload.rs, main.rs) starts a generation step by step, runs   *)
(* its dashboard, drops its runtime, closes its data plane and decides what to   *)
(* run next: the new configuration, the last good one again, or nothing.  Inside *)
(* a generation two tasks may rescan and change the targets: the background      *)
(* worker (periodic or on request) and the recovery coordinator.  They take      *)
(* SCAN_LOCK, talk to the dashboard through its event queue and to the user      *)
(* through a selection.                                                          *)
(*                                                                               *)
(* A TTL value is named after the target it was discovered for.  The event       *)
(* channel of a running generation always has a sender, so channel_closed does   *)
(* not occur.  Status lines, scores beyond "good enough" and connections         *)
(* (Proxy, Connection) are left out.                                             *)
EXTENDS Naturals, Sequences, FiniteSets

CONSTANTS
  Targets,
  Configs,        \* [mode, balanced, pinned, auto, periodic, discover, plane]
  Results,        \* what a scan may return: [list, good], see Scanned
  ListSize,       \* LOAD_BALANCE_TARGET_COUNT
  Bounds,         \* how often the user reloads, targets are rescanned, the network moves
  NoConfig

ASSUME SessionAssumption ==
  /\ NoConfig \notin Configs
  /\ {"none", "config"} \cap Targets = {} /\ Targets # {}
  /\ ListSize \in Nat \ {0}
  /\ Configs \subseteq [mode : {"sni", "ip", "plus"}, plane : {"none", "local", "remote"},
                        balanced : BOOLEAN, pinned : BOOLEAN, auto : BOOLEAN,
                        periodic : BOOLEAN, discover : BOOLEAN]
  /\ \A r \in Results : r.list \in Seq(Targets) /\ r.good \in 0..Len(r.list)

VARIABLES
  cfg, todo,        \* the running configuration; the start-up steps that are left
  phase, result,    \* where the main thread is; what execute returned
  pending, ready, discovered, restore, \* fields of Session
  lastGood, restoring,                 \* locals of run_loop
  plane, taps,      \* the plane the session owns; interceptors that are running
  watched,          \* the session owns a running network monitor
  pool, handle,     \* the targets; the TTL the interceptor stamps
  binding,          \* the published interface binding
  worker, scan, lock, request,         \* the rescan tasks, SCAN_LOCK, the R channel
  board, inbox,     \* the dashboard and the events it has not read
  bound, reloads, rescans, \* how often, for the bounds
  ended             \* what the last good generation was serving when it ended

mainVars == <<cfg, todo, phase, result, pending, ready, discovered, restore, lastGood, restoring>>
ownVars == <<plane, taps, watched>>
poolVars == <<pool, handle, binding>>
scanVars == <<worker, scan, lock, request>>
boardVars == <<board, inbox>>
boundVars == <<bound, reloads, rescans, ended>>
vars == <<mainVars, ownVars, poolVars, scanVars, boardVars, boundVars>>

Scanners == {"worker", "recovery"}
NoTargets == <<>>
NoBackup == [config |-> NoConfig, targets |-> NoTargets]
Resting == [pc |-> "idle", manual |-> FALSE, seen |-> 0, list |-> <<>>, good |-> 0,
            pick |-> "none", from |-> "none"]
NewBoard == [running |-> FALSE, ttl |-> "none"]

\* Target::from_sni, Target::from_ip: a target of its own brings no TTL.
Member(t) == [id |-> t, ttl |-> "none"]
Ids(targets) == [i \in DOMAIN targets |-> targets[i].id]
Representative == pool[1]

\* The TTL a new flow to member i gets: its own, or the one in the interceptor.
TtlOf(i) == IF pool[i].ttl # "none" THEN pool[i].ttl ELSE handle

\* sni_candidates, ip_candidates: the best targets that passed.
Candidates(r) ==
  LET n == IF r.good < ListSize THEN r.good ELSE ListSize
  IN  [i \in 1..n |-> Member(r.list[i])]

\* The positions in P, in their order.
InOrder(P) ==
  CHOOSE f \in [1..Cardinality(P) -> P] : \A i, j \in 1..Cardinality(P) : i < j => f[i] < f[j]

\* discover_pool_ttls: a found TTL, the TTL the target had, the fallback, or out.
Admitted(candidates, previous, fallback, found) ==
  LET Had(t) == {i \in DOMAIN previous : previous[i].id = t}
      Ttl(t) == IF t \in found THEN t
                ELSE IF Had(t) # {} THEN previous[CHOOSE i \in Had(t) : TRUE].ttl
                ELSE fallback
      kept == {i \in DOMAIN candidates :
                 candidates[i].id \in found \/ Had(candidates[i].id) # {} \/ fallback # "none"}
  IN  [i \in 1..Cardinality(kept) |->
         LET t == candidates[InOrder(kept)[i]].id IN [id |-> t, ttl |-> Ttl(t)]]

-----------------------------------------------------------------------------
(* One generation, step by step.                                                 *)

\* The order of the steps: run_config discovers the TTL between the interceptor and
\* the worker, ip_bypass_main has no interceptor, ip_bypass_plus_main spawns the
\* worker first.
SniSteps == <<"pool", "plane", "ttl", "worker", "monitor", "listen">>
IpSteps == <<"pool", "worker", "monitor", "listen">>
PlusSteps == <<"pool", "worker", "plane", "monitor", "listen">>

\* run_config dispatches on MODE.
Steps(mode) ==
  CASE mode = "sni" -> SniSteps [] mode = "ip" -> IpSteps [] mode = "plus" -> PlusSteps

At(step) == phase = "start" /\ todo # <<>> /\ Head(todo) = step
Advance == todo' = Tail(todo) /\ UNCHANGED <<phase, result>>
Fail == phase' = "ended" /\ result' = "err" /\ UNCHANGED todo

Init ==
  /\ cfg \in Configs /\ todo = Steps(cfg.mode) /\ phase = "start" /\ result = "none"
  /\ pending = NoConfig /\ ready = FALSE /\ discovered = "none" /\ restore = NoTargets
  /\ lastGood = NoBackup /\ restoring = FALSE
  /\ plane = "none" /\ taps = 0 /\ watched = FALSE
  /\ pool = <<>> /\ handle = "config" /\ binding = 0
  /\ worker = FALSE /\ scan = [a \in Scanners |-> Resting] /\ lock = "free" /\ request = FALSE
  /\ board = NewBoard /\ inbox = <<>>
  /\ bound \in Bounds /\ reloads = 0 /\ rescans = 0
  /\ ended = [config |-> NoConfig, ids |-> <<>>, ttl |-> "none", seen |-> TRUE]

\* restore_pool: the cached targets, no scan and no name resolution.
PoolRestored ==
  /\ At("pool") /\ restore # NoTargets
  /\ pool' = restore /\ restore' = NoTargets
  /\ Advance
  /\ UNCHANGED <<cfg, pending, ready, discovered, lastGood, restoring, ownVars, handle, binding,
                 scanVars, boardVars, boundVars>>

\* One target: the first of the ranking, or the user's choice.
OneOf(list) == {<<Member(list[i])>> : i \in IF cfg.auto THEN {1} ELSE DOMAIN list}

\* SELECTED_SNI, SELECTED_IP: one fixed target.
Pinned == CHOOSE t \in Targets : TRUE

\* run_config: SELECTED_SNI, the best targets, or one of the ranking.  Without a
\* target that passed there is nothing to balance.
SniPools(r) ==
  IF cfg.pinned THEN {<<Member(Pinned)>>}
  ELSE IF cfg.balanced THEN {Candidates(r)} \ {<<>>}
  ELSE OneOf(r.list)

\* ip_bypass_main: the ranking is cut to the candidates before it is looked at.
IpPools(r) ==
  LET left == IF cfg.balanced THEN Ids(Candidates(r)) ELSE r.list
  IN  IF cfg.pinned THEN {<<Member(Pinned)>>}
      ELSE IF left = <<>> THEN {}
      ELSE IF cfg.balanced THEN {Candidates(r)}
      ELSE OneOf(left)

\* ip_bypass_plus_main: as ip_bypass_main, for IPv4 addresses.
PlusPools(r) == IpPools(r)

\* SELECTED_*, or a scan and a choice.
PoolChosen ==
  /\ At("pool") /\ restore = NoTargets
  /\ \E r \in {q \in Results : q.list # <<>>} :
       pool' \in (CASE cfg.mode = "sni" -> SniPools(r) [] cfg.mode = "ip" -> IpPools(r)
                    [] cfg.mode = "plus" -> PlusPools(r))
  /\ Advance
  /\ UNCHANGED <<cfg, pending, ready, discovered, restore, lastGood, restoring, ownVars, handle,
                 binding, scanVars, boardVars, boundVars>>

\* DataPlaneController::none, ::local: the session owns it once it is open.
PlaneOpens ==
  /\ At("plane")
  /\ IF cfg.plane = "none" THEN UNCHANGED <<plane, taps>>
     ELSE plane' = cfg.plane /\ taps' = taps + 1
  /\ handle' = "config"
  /\ Advance
  /\ UNCHANGED <<cfg, pending, ready, discovered, restore, lastGood, restoring, watched, pool,
                 binding, scanVars, boardVars, boundVars>>

\* A remote plane is owned before it is prepared: the helper may have opened it.
RemotePlaneFails ==
  /\ At("plane") /\ cfg.plane = "remote"
  /\ plane' = "remote" /\ taps' \in {taps, taps + 1}
  /\ Fail
  /\ UNCHANGED <<cfg, pending, ready, discovered, restore, lastGood, restoring, watched, poolVars,
                 scanVars, boardVars, boundVars>>

\* A step fails before anything is owned; a restored pool needs no scan.
StepFails ==
  /\ \/ At("pool") \/ At("monitor") \/ At("listen")
     \/ At("plane") /\ cfg.plane = "local"
     \/ At("ttl") /\ restoring /\ cfg.plane = "remote"
  /\ Fail
  /\ restore' = IF At("pool") THEN NoTargets ELSE restore
  /\ UNCHANGED <<cfg, pending, ready, discovered, lastGood, restoring, ownVars, poolVars, scanVars,
                 boardVars, boundVars>>

\* A restored generation takes over the TTL its target had, without probing.
TtlRestored ==
  /\ At("ttl") /\ restoring
  /\ handle' = IF cfg.plane # "none" /\ Representative.ttl # "none"
               THEN Representative.ttl ELSE handle
  /\ Advance
  /\ UNCHANGED <<cfg, pending, ready, discovered, restore, lastGood, restoring, ownVars, pool,
                 binding, scanVars, boardVars, boundVars>>

\* LOW_TTL_DISCOVER before the listener: per member, or for the one target.
TtlDiscovered ==
  /\ At("ttl") /\ ~restoring
  /\ \E found \in SUBSET Targets :
       IF cfg.discover /\ cfg.balanced
       THEN pool' = Admitted(pool, <<>>, "config", found) /\ UNCHANGED <<handle, inbox>>
       ELSE IF cfg.discover /\ Representative.id \in found
       THEN handle' = Representative.id /\ inbox' = Append(inbox, <<"ttl", handle'>>)
            /\ UNCHANGED pool
       ELSE UNCHANGED <<pool, handle, inbox>>
  /\ Advance
  /\ UNCHANGED <<cfg, pending, ready, discovered, restore, lastGood, restoring, ownVars, binding,
                 scanVars, board, boundVars>>

WorkerSpawned ==
  /\ At("worker")
  /\ worker' = TRUE
  /\ Advance
  /\ UNCHANGED <<cfg, pending, ready, discovered, restore, lastGood, restoring, ownVars, poolVars,
                 scan, lock, request, boardVars, boundVars>>

MonitorStarted ==
  /\ At("monitor")
  /\ watched' = TRUE
  /\ Advance
  /\ UNCHANGED <<cfg, pending, ready, discovered, restore, lastGood, restoring, plane, taps, poolVars,
                 scanVars, boardVars, boundVars>>

\* wait_listener: only a bound listener makes the generation ready.
ListenerReady ==
  /\ At("listen")
  /\ ready' = TRUE /\ phase' = "dash" /\ todo' = <<>>
  /\ board' = NewBoard
  /\ UNCHANGED <<cfg, result, pending, discovered, restore, lastGood, restoring, ownVars, poolVars,
                 scanVars, inbox, boundVars>>

-----------------------------------------------------------------------------
(* The dashboard.                                                                *)

\* apply_event
Drain ==
  /\ phase = "dash" /\ inbox # <<>>
  /\ inbox' = Tail(inbox)
  /\ board' = CASE Head(inbox)[1] = "started"  -> [board EXCEPT !.running = TRUE]
                [] Head(inbox)[1] = "finished" -> [board EXCEPT !.running = FALSE]
                [] Head(inbox)[1] = "ttl"      -> [board EXCEPT !.ttl = Head(inbox)[2]]
  /\ UNCHANGED <<mainVars, ownVars, poolVars, scanVars, boundVars>>

\* R: one request fits in the channel.
KeyRescan ==
  /\ phase = "dash" /\ ~board.running /\ ~request /\ rescans < bound.rescans
  /\ request' = TRUE /\ board' = [board EXCEPT !.running = TRUE]
  /\ rescans' = rescans + 1
  /\ UNCHANGED <<mainVars, ownVars, poolVars, worker, scan, lock, inbox, bound, reloads, ended>>

\* L with a valid, changed configuration, and no scan at this moment.
KeyReload(next) ==
  /\ phase = "dash" /\ ~board.running /\ lock = "free"
  /\ next # cfg /\ reloads < bound.reloads
  /\ discovered' = board.ttl /\ pending' = next /\ result' = "ok" /\ phase' = "ended"
  /\ reloads' = reloads + 1
  /\ UNCHANGED <<cfg, todo, ready, restore, lastGood, restoring, ownVars, poolVars, scanVars,
                 boardVars, bound, rescans, ended>>

\* q, or the terminal fails.
DashboardEnds ==
  /\ phase = "dash"
  /\ phase' = "ended" /\ result' \in {"ok", "err"}
  /\ UNCHANGED <<cfg, todo, pending, ready, discovered, restore, lastGood, restoring, ownVars,
                 poolVars, scanVars, boardVars, boundVars>>

\* run_selection, run_ip_selection: the user picks a target or leaves.
AnswerSelection ==
  /\ phase = "dash" /\ scan["worker"].pc = "ask"
  /\ \E pick \in {"none"} \cup {scan["worker"].list[i] : i \in DOMAIN scan["worker"].list} :
       scan' = [scan EXCEPT !["worker"].pc = "picked", !["worker"].pick = pick]
  /\ UNCHANGED <<mainVars, ownVars, poolVars, worker, lock, request, boardVars, boundVars>>

-----------------------------------------------------------------------------
(* Rescans.                                                                      *)

Alive == phase \in {"start", "dash"}
Tell(events) == inbox' = inbox \o events

\* The targets stay; the summary is sent and the lock released.
Rest(a) == scan' = [scan EXCEPT ![a] = Resting] /\ lock' = "free"

\* A pinned balanced pool is never scanned, and the lock not taken.
Woken(a, manual) ==
  IF cfg.balanced /\ cfg.pinned
  THEN Tell(<<<<"finished">>>>) /\ UNCHANGED scan
  ELSE /\ scan' = [scan EXCEPT ![a] = [Resting EXCEPT !.pc = "lock", !.manual = manual,
                                                      !.seen = binding]]
       /\ UNCHANGED inbox

\* wait_for_rescan: the interval has passed, or R was pressed.  The binding is
\* looked at before the lock is.
WorkerWakes(manual) ==
  /\ Alive /\ worker /\ scan["worker"].pc = "idle"
  /\ IF manual THEN request /\ UNCHANGED rescans
     ELSE cfg.periodic /\ rescans < bound.rescans /\ rescans' = rescans + 1
  /\ request' = IF manual THEN FALSE ELSE request
  /\ Woken("worker", manual)
  /\ UNCHANGED <<mainVars, ownVars, poolVars, worker, lock, board, bound, reloads, ended>>

\* The coordinator may replace a target that fails verification.
AutoRescan == (cfg.auto \/ cfg.balanced) /\ ~cfg.pinned

\* The network moved: the coordinator publishes the binding, verifies, rescans.
\* It does one thing at a time.
NetworkMoves ==
  /\ Alive /\ watched /\ scan["recovery"].pc = "idle" /\ binding < bound.moves
  /\ binding' = binding + 1
  /\ \/ UNCHANGED <<scan, inbox>>
     \/ /\ AutoRescan
        /\ scan' = [scan EXCEPT !["recovery"] = [Resting EXCEPT !.pc = "lock", !.seen = binding']]
        /\ UNCHANGED inbox
  /\ UNCHANGED <<mainVars, ownVars, pool, handle, worker, lock, request, board, boundVars>>

\* Variation: scans are not serialized.
TakeNoLock(a) ==
  /\ Alive /\ scan[a].pc = "lock"
  /\ lock' = a /\ scan' = [scan EXCEPT ![a].pc = "scan"]
  /\ Tell(<<<<"started">>>>)
  /\ UNCHANGED <<mainVars, ownVars, poolVars, worker, request, board, boundVars>>

TakeLock(a) ==
  /\ Alive /\ scan[a].pc = "lock" /\ lock = "free"
  /\ lock' = a /\ scan' = [scan EXCEPT ![a].pc = "scan"]
  /\ Tell(<<<<"started">>>>)
  /\ UNCHANGED <<mainVars, ownVars, poolVars, worker, request, board, boundVars>>

\* Variation: the early return keeps the lock.
ScanFailsHolding(a) ==
  /\ Alive /\ scan[a].pc = "scan"
  /\ scan' = [scan EXCEPT ![a] = Resting] /\ Tell(<<<<"finished">>>>)
  /\ UNCHANGED <<lock, mainVars, ownVars, poolVars, worker, request, board, boundVars>>

\* An empty list, an unreadable file or a scan without a result.
ScanFails(a) ==
  /\ Alive /\ scan[a].pc = "scan"
  /\ Rest(a) /\ Tell(<<<<"finished">>>>)
  /\ UNCHANGED <<mainVars, ownVars, poolVars, worker, request, board, boundVars>>

\* The ranked list: the pool is taken from it, or one target is picked.
Scanned(a) ==
  /\ Alive /\ scan[a].pc = "scan"
  /\ \E r \in {q \in Results : q.list # <<>>} :
       scan' = [scan EXCEPT ![a].list = r.list, ![a].good = r.good, ![a].pick = r.list[1],
                 ![a].pc = IF cfg.balanced THEN "pool"
                           ELSE IF scan[a].manual /\ ~cfg.auto THEN "ask" ELSE "picked"]
  /\ UNCHANGED <<mainVars, ownVars, poolVars, worker, lock, request, boardVars, boundVars>>

\* rescan_ip_once: the candidates of the ranking.
IpNext(a) == Candidates([list |-> scan[a].list, good |-> scan[a].good])

\* rescan_sni_once: the same, and each is probed first where TTLs are discovered.
SniNext(a, found) ==
  IF cfg.discover THEN Admitted(IpNext(a), pool, "none", found) ELSE IpNext(a)

\* The whole pool at once; the old pool stays when nobody is left.
PoolRefreshed(a) ==
  /\ Alive /\ scan[a].pc = "pool"
  /\ \E found \in SUBSET Targets :
       LET next == IF cfg.mode = "sni" THEN SniNext(a, found) ELSE IpNext(a)
       IN  pool' = IF next = <<>> THEN pool ELSE next
  /\ Rest(a) /\ Tell(<<<<"finished">>>>)
  /\ UNCHANGED <<mainVars, ownVars, handle, binding, worker, request, board, boundVars>>

IsGood(a) == \E i \in 1..scan[a].good : scan[a].list[i] = scan[a].pick

\* rescan_sni_once: a request switches to the pick; otherwise the pick must be
\* another target with the minimum score.
WantsSni(a) == scan[a].manual \/ (scan[a].pick # Representative.id /\ IsGood(a))
\* rescan_ip_once: any other address.
WantsIp(a) == scan[a].pick # Representative.id

\* The pick is compared with the target of this moment.
Compared(a) ==
  /\ Alive /\ scan[a].pc = "picked"
  /\ IF scan[a].pick # "none" /\ (IF cfg.mode = "sni" THEN WantsSni(a) ELSE WantsIp(a))
     THEN /\ scan' = [scan EXCEPT ![a].from = Representative.id,
                       ![a].pc = IF cfg.mode = "sni" /\ cfg.discover THEN "probe" ELSE "switch"]
          /\ UNCHANGED <<lock, inbox>>
     ELSE Rest(a) /\ Tell(<<<<"finished">>>>)
  /\ UNCHANGED <<mainVars, ownVars, poolVars, worker, request, board, boundVars>>

\* LowTtlDiscoveryState::run: a TTL that is found is applied here; without one the
\* target stays.
Probed(a) ==
  /\ Alive /\ scan[a].pc = "probe"
  /\ \/ /\ handle' = scan[a].pick
        /\ scan' = [scan EXCEPT ![a].pc = "switch"]
        /\ UNCHANGED <<lock, inbox>>
     \/ /\ Rest(a) /\ Tell(<<<<"finished">>>>)
        /\ UNCHANGED handle
  /\ UNCHANGED <<mainVars, ownVars, pool, binding, worker, request, board, boundVars>>

\* The target follows.
Switched(a) ==
  /\ scan[a].pc = "switch"
  /\ pool' = <<Member(scan[a].pick)>>
  /\ Rest(a)
  /\ Tell((IF cfg.mode = "sni" /\ cfg.discover THEN <<<<"ttl", handle>>>> ELSE <<>>)
          \o <<<<"finished">>>>)
  /\ UNCHANGED <<mainVars, ownVars, handle, binding, worker, request, board, boundVars>>

-----------------------------------------------------------------------------
(* run_loop.                                                                     *)

\* A task is cancelled where it waits: not between the local TTL and the target.
Cancellable == \A a \in Scanners : scan[a].pc = "switch" => cfg.plane = "remote" /\ cfg.discover

\* Backup: what to restore, with the TTL the dashboard knew of.
Backup ==
  [config |-> cfg,
   targets |-> IF cfg.balanced \/ pool = <<>> \/ discovered = "none" THEN pool
               ELSE [pool EXCEPT ![1].ttl = discovered]]

\* execute returns: its runtime is gone with every task and its pool, and a
\* generation that was ready is the one to go back to.
GenerationEnds ==
  /\ phase = "ended" /\ Cancellable
  /\ phase' = "close"
  /\ worker' = FALSE /\ scan' = [a \in Scanners |-> Resting] /\ lock' = "free" /\ request' = FALSE
  /\ inbox' = <<>> /\ board' = NewBoard
  /\ pool' = <<>> /\ handle' = "config" /\ discovered' = "none"
  /\ IF ready
     THEN /\ lastGood' = Backup
          /\ ended' = [config |-> cfg, ids |-> Ids(pool), ttl |-> TtlOf(1),
                       seen |-> inbox = <<>> /\ (restoring => ended.seen)]
     ELSE UNCHANGED <<lastGood, ended>>
  /\ UNCHANGED <<cfg, todo, result, pending, ready, restore, restoring, ownVars, binding,
                 bound, reloads, rescans>>

\* Variation: a failed close is repeated without asking the user.
CloseForever ==
  /\ phase = "close"
  /\ \/ /\ plane' = "none" /\ taps' = (IF plane = "none" THEN taps ELSE 0)
        /\ watched' = FALSE /\ phase' = "decide"
     \/ plane # "none" /\ watched' = ~watched /\ UNCHANGED <<plane, taps, phase>>
  /\ UNCHANGED <<cfg, todo, result, pending, ready, discovered, restore, lastGood, restoring,
                 poolVars, scanVars, boardVars, boundVars>>

\* close_generation: a plane that does not confirm stays owned and is asked again.
CloseGeneration ==
  /\ phase = "close"
  /\ watched' = FALSE
  /\ \/ plane' = "none" /\ taps' = (IF plane = "none" THEN taps ELSE 0) /\ phase' = "decide"
     \/ plane # "none" /\ phase' = "cleanup" /\ UNCHANGED <<plane, taps>>
  /\ UNCHANGED <<cfg, todo, result, pending, ready, discovered, restore, lastGood, restoring,
                 poolVars, scanVars, boardVars, boundVars>>

\* run_reload_error after an unconfirmed clean-up: again, or give up.
CleanupScreen ==
  /\ phase = "cleanup"
  /\ \/ phase' = "close" /\ UNCHANGED result
     \/ phase' = "final" /\ result' = "err"
  /\ UNCHANGED <<cfg, todo, pending, ready, discovered, restore, lastGood, restoring, ownVars, poolVars,
                 scanVars, boardVars, boundVars>>

\* The next generation starts from scratch.
Launch(next, targets, again) ==
  /\ cfg' = next /\ todo' = Steps(next.mode) /\ phase' = "start" /\ result' = "none"
  /\ restore' = targets /\ restoring' = again
  /\ pending' = NoConfig /\ ready' = FALSE
  /\ UNCHANGED <<discovered, lastGood, ownVars, poolVars, scanVars, boardVars, boundVars>>

Leave(how) ==
  /\ phase' = "final" /\ result' = how
  /\ UNCHANGED <<cfg, todo, pending, ready, discovered, restore, lastGood, restoring, ownVars, poolVars,
                 scanVars, boardVars, boundVars>>

\* Variation: a failed reload starts the last good configuration without its targets.
DecideRescan ==
  /\ phase = "decide"
  /\ CASE result = "ok" /\ pending # NoConfig -> Launch(pending, NoTargets, FALSE)
       [] result = "ok" /\ pending = NoConfig -> Leave("ok")
       [] result = "err" /\ (ready \/ lastGood = NoBackup) -> Leave("err")
       [] result = "err" /\ ~ready /\ lastGood # NoBackup /\ ~restoring ->
            Launch(lastGood.config, NoTargets, TRUE)
       [] OTHER -> /\ phase' = "stopped"
                   /\ UNCHANGED <<cfg, todo, result, pending, ready, discovered, restore, lastGood,
                        restoring, ownVars, poolVars, scanVars, boardVars, boundVars>>

\* What comes next: the reloaded configuration, the end, the last good generation,
\* or the screen that says the service is stopped.
Decide ==
  /\ phase = "decide"
  /\ CASE result = "ok" /\ pending # NoConfig -> Launch(pending, NoTargets, FALSE)
       [] result = "ok" /\ pending = NoConfig -> Leave("ok")
       [] result = "err" /\ (ready \/ lastGood = NoBackup) -> Leave("err")
       [] result = "err" /\ ~ready /\ lastGood # NoBackup /\ ~restoring ->
            Launch(lastGood.config, lastGood.targets, TRUE)
       [] OTHER -> /\ phase' = "stopped"
                   /\ UNCHANGED <<cfg, todo, result, pending, ready, discovered, restore, lastGood,
                        restoring, ownVars, poolVars, scanVars, boardVars, boundVars>>

\* retry_screen: any configuration that loads, or quit.
RetryScreen ==
  /\ phase = "stopped"
  /\ \/ \E next \in Configs : reloads < bound.reloads /\ Launch(next, NoTargets, FALSE)
     \/ Leave("ok")

\* run_with: the plane once more, then the helper, which removes what it has open.
Finish ==
  /\ phase = "final"
  /\ phase' = "exit"
  /\ watched' = FALSE
  /\ \/ plane' = "none" /\ taps' = IF plane = "none" THEN taps ELSE 0
     \/ plane # "none" /\ UNCHANGED <<plane, taps>>
  /\ result' = IF plane' # "none" THEN "err" ELSE result
  /\ UNCHANGED <<cfg, todo, pending, ready, discovered, restore, lastGood, restoring, poolVars,
                 scanVars, boardVars, boundVars>>

-----------------------------------------------------------------------------
StartStep ==
  \/ PoolRestored \/ PoolChosen \/ PlaneOpens \/ RemotePlaneFails \/ StepFails \/ TtlRestored
  \/ TtlDiscovered \/ WorkerSpawned \/ MonitorStarted \/ ListenerReady
UserStep ==
  \/ KeyRescan \/ DashboardEnds \/ AnswerSelection \/ CleanupScreen \/ RetryScreen
  \/ \E next \in Configs : KeyReload(next)
ScanStep(a) ==
  \/ TakeLock(a) \/ ScanFails(a) \/ Scanned(a) \/ PoolRefreshed(a) \/ Compared(a) \/ Probed(a)
  \/ Switched(a)
LoopStep == GenerationEnds \/ CloseGeneration \/ Decide \/ Finish

Next ==
  \/ StartStep \/ UserStep \/ LoopStep \/ Drain
  \/ WorkerWakes(TRUE) \/ WorkerWakes(FALSE) \/ NetworkMoves
  \/ \E a \in Scanners : ScanStep(a)

Spec == Init /\ [][Next]_vars

\* The main thread and the tasks go on; nothing is assumed of the user, of the
\* network or of the interval timer.
FairSpec ==
  /\ Spec
  /\ WF_vars(StartStep) /\ WF_vars(LoopStep) /\ WF_vars(Drain) /\ WF_vars(WorkerWakes(TRUE))
  /\ \A a \in Scanners : SF_vars(TakeLock(a)) /\ WF_vars(ScanStep(a))

-----------------------------------------------------------------------------
(* Properties.                                                                   *)

Ttls == {"none", "config"} \cup Targets
TargetLists == UNION {[1..n -> [id : Targets, ttl : Ttls]] : n \in 0..ListSize}
Phases == {"start", "dash", "ended", "close", "cleanup", "decide", "stopped", "final", "exit"}

\* Every variable keeps its type.
SessionTypeOK ==
  /\ cfg \in Configs /\ phase \in Phases /\ result \in {"none", "ok", "err"}
  /\ pending \in Configs \cup {NoConfig} /\ ready \in BOOLEAN /\ discovered \in Ttls
  /\ restore \in TargetLists /\ pool \in TargetLists /\ handle \in Ttls
  /\ lastGood.config \in Configs \cup {NoConfig} /\ lastGood.targets \in TargetLists
  /\ plane \in {"none", "local", "remote"} /\ taps \in 0..1 /\ binding \in Nat
  /\ lock \in {"free"} \cup Scanners

\* Nothing is opened over an interceptor whose end was not confirmed, over any
\* number of reloads, failed starts, failed closes and retries, and a process that
\* reports success has none left.
OneInterceptor ==
  /\ taps <= 1
  /\ At("plane") => taps = 0
  /\ phase = "exit" /\ result = "ok" => taps = 0
  /\ taps = 1 => plane # "none"

\* "Serialize periodic, recovery, and manual scans through selection and TTL
\* discovery so they cannot race a target swap" (manual_rescan.rs): from the
\* comparison to the swap the target that was compared with is in the pool.
SwapsDoNotRace ==
  \A a \in Scanners : scan[a].pc \in {"probe", "switch"} => scan[a].from = Representative.id

\* A failed reload brings back the configuration, the targets and, when the
\* dashboard had read every event before the reload, the TTL that were in service.
RestoresService ==
  (restoring /\ At("worker")) =>
    /\ cfg = ended.config /\ Ids(pool) = ended.ids
    /\ (ended.seen /\ cfg.mode = "sni" /\ cfg.plane # "none") => TtlOf(1) = ended.ttl

\* No target is used with a TTL that was discovered for another one, whatever
\* rescans, discovery failures, reloads and restarts came before.
TtlFitsTarget ==
  (phase = "dash" /\ (restoring => ended.seen) /\ \A a \in Scanners : scan[a].pc # "switch")
    => \A i \in DOMAIN pool : TtlOf(i) \in {"config", pool[i].id}

\* The rescan of a recovery measures over the binding the recovery has published,
\* however long it waited for another scan.
RecoveryScansNewNetwork == scan["recovery"].pc # "idle" => scan["recovery"].seen = binding

\* A generation that serves has a target: no rescan result empties the pool, and a
\* balanced pool of one pinned target stays as it is.
PoolSurvives ==
  /\ phase = "dash" => pool # <<>>
  /\ (phase = "dash" /\ cfg.balanced /\ cfg.pinned) => Ids(pool) = <<Pinned>>

\* One interceptor, one swap at a time, a TTL that fits and a pool that serves: the
\* conjuncts above.
SessionInv ==
  /\ SessionTypeOK /\ OneInterceptor /\ SwapsDoNotRace
  /\ TtlFitsTarget /\ RecoveryScansNewNetwork /\ PoolSurvives

\* A rescan ends, however many wait for the lock, unless it is the user's turn to
\* choose or the generation is over; and the keys R and L come back: the dashboard
\* does not show a running rescan for ever.
RescansEnd ==
  /\ \A a \in Scanners :
       (scan[a].pc # "idle") ~> (scan[a].pc = "idle" \/ scan["worker"].pc = "ask")
  /\ (phase = "dash" /\ board.running)
       ~> (~board.running \/ phase # "dash" \/ scan["worker"].pc = "ask")

\* A reload, good or bad, ends with a serving dashboard, a screen that waits for
\* the user, or the end of the process.
ReloadSettles ==
  (pending # NoConfig) ~> (phase \in {"dash", "cleanup", "stopped", "exit"})
=============================================================================
