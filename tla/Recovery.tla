------------------------------- MODULE Recovery -------------------------------
(***************************************************************************)
(* In-place network recovery.  The network monitor (netmon/mod.rs) probes  *)
(* the uplink and emits an event when what it sees differs from what it    *)
(* saw last; the coordinator (network_recovery.rs) answers an event by     *)
(* probing the uplink itself, rebuilding the data plane for a new binding, *)
(* with retries, and publishing the binding that outbound sockets use; the *)
(* main thread stops the data plane on a signal, or drops the service      *)
(* runtime and closes the data plane before it starts a new generation     *)
(* (reload.rs, main.rs).  Rebuild and stop exclude each other by the mutex *)
(* of DataPlaneController.                                                 *)
(*                                                                         *)
(* Left out: the coalescing of raw ticks (it only delays a probe), the     *)
(* wording of a status, the contents of a rescan, and a probe target that  *)
(* is not set (an intercepting mode always has one).                       *)
(***************************************************************************)
EXTENDS DataPlane

CONSTANTS Capacity,        \* of the event channel, 16 in the code
          MaxChanges,      \* bound: changes of the uplink
          MaxFaults,       \* bound: failed probes, opens and interceptors
          MaxGenerations   \* bound: reloads

ASSUME CapacityAssumption == Capacity \in Nat \ {0}
ASSUME BoundAssumption == MaxChanges \in Nat /\ MaxFaults \in Nat /\ MaxGenerations \in Nat

VARIABLES
  uplink,    \* the binding a probe finds, None when there is no route
  seen,      \* ChangeFilter::last
  events,    \* the broadcast channel as the coordinator's receiver sees it
  co,        \* the coordinator
  handle,    \* the InterfaceBinding that outbound sockets are bound with
  status,    \* the last NetworkStatus published
  main,      \* the main thread
  budget     \* what is left of each bound

recoveryVars == <<uplink, seen, events, co, handle, status, main, budget>>
vars == <<planeVars, recoveryVars>>

Statuses == {"Online", "Unavailable", "Changing", "Recovering", "Recovered"}

\* Where the coordinator is; in "waiting", "opening" and "applying" it is inside
\* a rebuild or right behind one, and in the first two it holds the mutex.
CoordinatorPcs ==
  {"idle", "probing", "locking", "waiting", "opening", "applying", "verifying",
   "rescanning", "backoff", "ended"}

\* Where the main thread is; in "stopping" and "closing" it holds the mutex.
MainPcs ==
  {"running", "signalled", "stopping", "stopped", "dropped", "closing", "failed",
   "closed", "exited"}

LockFree == co.pc \notin {"waiting", "opening"} /\ main \notin {"stopping", "closing"}

At(pc) == co.pc = pc
Go(pc) == co' = [co EXCEPT !.pc = pc]
Publish(s) == status' = s
CanFail == budget.faults > 0
Spend(what) == budget' = [budget EXCEPT ![what] = @ - 1]

\* What a generation starts with: DataPlaneController::local has opened
\* interceptor i, RecoveryCoordinator::new knows the binding it was opened for.
FreshPlane(i) == [armed |-> TRUE, handle |-> i, stop_report |-> None]
FreshCoordinator(b) == [pc |-> "idle", current |-> b, binding |-> b]
NoEvents == [pending |-> 0, lagged |-> FALSE]

Init ==
  \E b \in Bindings, i \in Taps :
    /\ uplink = b /\ seen = b /\ handle = b
    /\ tap = [j \in Taps |->
                IF j = i THEN Opened(b)
                ELSE [Opened(b) EXCEPT !.running = FALSE, !.rules = FALSE]]
    /\ plane = FreshPlane(i)
    /\ co = FreshCoordinator(b)
    /\ events = NoEvents
    /\ status = "Online"
    /\ main = "running"
    /\ budget = [changes |-> MaxChanges, faults |-> MaxFaults,
                 generations |-> MaxGenerations]

(***************************************************************************)
(* The network and the monitor.                                            *)
(***************************************************************************)
UplinkChanges ==
  /\ budget.changes > 0
  /\ \E b \in (Bindings \cup {None}) \ {uplink} : uplink' = b
  /\ Spend("changes")
  /\ UNCHANGED <<planeVars, seen, events, co, handle, status, main>>

\* Sending into a full broadcast channel overwrites the oldest event; the
\* receiver then gets Lagged once.
Emit ==
  events' = [events EXCEPT
    !.pending = IF @ < Capacity THEN @ + 1 ELSE @,
    !.lagged = @ \/ events.pending = Capacity]

\* run_loop: the wait timed out; probe and let ChangeFilter::observe decide.  A
\* probe can fail although there is a route.
Observe ==
  /\ ~At("ended")
  /\ \/ seen' = uplink /\ UNCHANGED budget
     \/ seen' = None /\ uplink # None /\ CanFail /\ Spend("faults")
  /\ seen' # seen
  /\ Emit
  /\ UNCHANGED <<planeVars, uplink, co, handle, status, main>>

(***************************************************************************)
(* The coordinator.                                                        *)
(***************************************************************************)
\* rx.recv(): an event, or Lagged, which counts as one.
HasEvent == events.lagged \/ events.pending > 0
TakeEvent ==
  IF events.lagged
    THEN events' = [events EXCEPT !.lagged = FALSE]
    ELSE events' = [events EXCEPT !.pending = @ - 1]

CoReceive ==
  /\ At("idle")
  /\ HasEvent
  /\ TakeEvent
  /\ Go("probing")
  /\ UNCHANGED <<planeVars, uplink, seen, handle, status, main, budget>>

\* The probe fails: Unavailable, and the current binding is forgotten.
CoUnavailable ==
  /\ At("probing")
  /\ \/ uplink = None /\ UNCHANGED budget
     \/ uplink # None /\ CanFail /\ Spend("faults")
  /\ co' = [co EXCEPT !.pc = "idle", !.current = None]
  /\ Publish("Unavailable")
  /\ UNCHANGED <<planeVars, uplink, seen, events, handle, main>>

\* The probe finds the current binding: nothing to do.
CoUnchanged ==
  /\ At("probing")
  /\ uplink # None /\ uplink = co.current
  /\ Go("idle")
  /\ Publish("Online")
  /\ UNCHANGED <<planeVars, uplink, seen, events, handle, main, budget>>

\* The probe finds another binding: rebuild for it.
CoChanging ==
  /\ At("probing")
  /\ uplink # None /\ uplink # co.current
  /\ co' = [co EXCEPT !.pc = "locking", !.binding = uplink]
  /\ Publish("Changing")
  /\ UNCHANGED <<planeVars, uplink, seen, events, handle, main, budget>>

\* rebuild has the mutex: stop_local up to its wait.
CoStop ==
  /\ At("locking")
  /\ LockFree
  /\ \/ NothingToStop /\ UNCHANGED planeVars /\ Go("opening")
     \/ AskToStop("service") /\ Go("waiting")
  /\ UNCHANGED <<uplink, seen, events, handle, status, main, budget>>

\* The stop is confirmed; the flow table is reset (Flow, ResetBegin).
CoStopped ==
  /\ At("waiting")
  /\ StopConfirmed
  /\ Go("opening")
  /\ UNCHANGED <<uplink, seen, events, handle, status, main, budget>>

CoStopFails ==
  /\ At("waiting")
  /\ StopFails
  /\ Go("backoff")
  /\ Publish("Recovering")
  /\ UNCHANGED <<uplink, seen, events, handle, main, budget>>

CoOpen ==
  /\ At("opening")
  /\ Open(co.binding)
  /\ Go("applying")
  /\ UNCHANGED <<uplink, seen, events, handle, status, main, budget>>

CoOpenFails ==
  /\ At("opening")
  /\ CanFail /\ Spend("faults")
  /\ OpenFails
  /\ Go("backoff")
  /\ Publish("Recovering")
  /\ UNCHANGED <<uplink, seen, events, handle, main>>

\* Variation: only a newer event ends the backoff.
CoRetryOnEvent ==
  /\ At("backoff") /\ HasEvent
  /\ TakeEvent
  /\ Go("locking")
  /\ UNCHANGED <<planeVars, uplink, seen, handle, status, main, budget>>

\* The backoff is over: try again.
CoRetry ==
  /\ At("backoff")
  /\ Go("locking")
  /\ UNCHANGED <<planeVars, uplink, seen, events, handle, status, main, budget>>

\* A newer event interrupts the backoff: probe again.
CoReprobe ==
  /\ At("backoff")
  /\ HasEvent
  /\ TakeEvent
  /\ Go("probing")
  /\ UNCHANGED <<planeVars, uplink, seen, handle, status, main, budget>>

\* Variation: the coordinator remembers the binding and does not publish it.
CoApplySilently ==
  /\ At("applying")
  /\ co' = [co EXCEPT !.pc = "verifying", !.current = co.binding]
  /\ UNCHANGED <<planeVars, uplink, seen, events, handle, status, main, budget>>

\* The rebuild succeeded: only now do outbound sockets get the new binding.
CoApply ==
  /\ At("applying")
  /\ co' = [co EXCEPT !.pc = "verifying", !.current = co.binding]
  /\ handle' = co.binding
  /\ UNCHANGED <<planeVars, uplink, seen, events, status, main, budget>>

\* The active target answers, or it does not and no rescan is due.
CoVerified ==
  /\ At("verifying")
  /\ Go("idle")
  /\ Publish("Recovered")
  /\ UNCHANGED <<planeVars, uplink, seen, events, handle, main, budget>>

\* It does not answer and a rescan is allowed.
CoRescan ==
  /\ At("verifying")
  /\ Go("rescanning")
  /\ UNCHANGED <<planeVars, uplink, seen, events, handle, status, main, budget>>

\* Whatever the rescan found (Unavailable first, when it found nothing).
CoRescanned ==
  /\ At("rescanning")
  /\ Go("idle")
  /\ Publish("Recovered")
  /\ UNCHANGED <<planeVars, uplink, seen, events, handle, main, budget>>

Coordinator ==
  \/ CoReceive \/ CoUnavailable \/ CoUnchanged \/ CoChanging
  \/ CoStop \/ CoStopped \/ CoStopFails \/ CoOpen \/ CoOpenFails
  \/ CoRetry \/ CoReprobe
  \/ CoApply \/ CoVerified \/ CoRescan \/ CoRescanned

(***************************************************************************)
(* The main thread.                                                        *)
(***************************************************************************)
\* Without the dashboard: a signal.  run_headless_proxy stops the data plane
\* while the coordinator is still alive.
Signal ==
  /\ main = "running"
  /\ main' = "signalled"
  /\ UNCHANGED <<planeVars, uplink, seen, events, co, handle, status, budget>>

MainStop ==
  /\ main = "signalled"
  /\ LockFree
  /\ \/ NothingToStop /\ UNCHANGED planeVars /\ main' = "stopped"
     \/ AskToStop("service") /\ main' = "stopping"
  /\ UNCHANGED <<uplink, seen, events, co, handle, status, budget>>

MainStopEnds ==
  /\ main = "stopping"
  /\ StopConfirmed \/ StopFails
  /\ main' = "stopped"
  /\ UNCHANGED <<uplink, seen, events, co, handle, status, budget>>

\* The coordinator can only be cancelled where it awaits.
AtAwait == co.pc \notin {"probing", "opening", "applying"}

\* run_config returns, after a signal or when the user leaves the dashboard or
\* reloads: the service runtime is dropped with every task on it.
DropRuntime ==
  /\ main \in {"running", "stopped"}
  /\ AtAwait
  /\ main' = IF main = "running" THEN "dropped" ELSE "exited"
  /\ Go("ended")
  /\ ReportTaskDropped("service")
  /\ UNCHANGED <<uplink, seen, events, handle, status, budget>>

\* Session::close_generation: the monitor is stopped, which nobody listens to
\* any more, then close_for_reload.
CloseGeneration ==
  /\ main = "dropped"
  /\ \/ NothingToStop /\ UNCHANGED planeVars /\ main' = "closed"
     \/ AskToStop("control") /\ main' = "closing"
  /\ UNCHANGED <<uplink, seen, events, co, handle, status, budget>>

GenerationClosed ==
  /\ main = "closing"
  /\ StopConfirmed
  /\ main' = "closed"
  /\ UNCHANGED <<uplink, seen, events, co, handle, status, budget>>

CloseFails ==
  /\ main = "closing"
  /\ StopFails
  /\ main' = "failed"
  /\ UNCHANGED <<uplink, seen, events, co, handle, status, budget>>

\* The user retries the cleanup, or quits.  (Quitting tries once more first,
\* like a retry.)
RetryClose ==
  /\ main = "failed"
  /\ main' \in {"dropped", "exited"}
  /\ UNCHANGED <<planeVars, uplink, seen, events, co, handle, status, budget>>

\* The next generation: a plane of its own, opened for the binding of the day.
\* A start that fails leaves the session where it was.
NewGeneration ==
  /\ main = "closed"
  /\ budget.generations > 0 /\ Spend("generations")
  /\ uplink # None
  /\ \E i \in Taps :
       /\ Free(i)
       /\ tap' = [tap EXCEPT ![i] = Opened(uplink)]
       /\ plane' = FreshPlane(i)
  /\ seen' = uplink /\ handle' = uplink
  /\ co' = FreshCoordinator(uplink)
  /\ events' = NoEvents
  /\ Publish("Online")
  /\ main' = "running"
  /\ UNCHANGED uplink

Quit ==
  /\ main = "closed"
  /\ main' = "exited"
  /\ UNCHANGED <<planeVars, uplink, seen, events, co, handle, status, budget>>

Main ==
  \/ Signal \/ MainStop \/ MainStopEnds \/ DropRuntime \/ CloseGeneration
  \/ GenerationClosed \/ CloseFails \/ RetryClose \/ NewGeneration \/ Quit

(***************************************************************************)
(* The interceptor and its report.                                         *)
(***************************************************************************)
\* A task on the control runtime runs only while the session blocks on it.
Report ==
  /\ ForwardReport
  /\ plane.stop_report.runtime = "control" => main = "closing"
  /\ UNCHANGED recoveryVars

TapEnds ==
  /\ \E i \in Taps : TapStops(i)
  /\ UNCHANGED recoveryVars

TapBreaks ==
  /\ CanFail /\ Spend("faults")
  /\ \E i \in Taps : TapFails(i)
  /\ UNCHANGED <<uplink, seen, events, co, handle, status, main>>

Exited == main = "exited" /\ UNCHANGED vars

Next ==
  \/ UplinkChanges \/ Observe \/ Coordinator \/ Main
  \/ Report \/ TapEnds \/ TapBreaks \/ Exited

Spec == Init /\ [][Next]_vars

\* The service runtime polls a coordinator that can move, the interceptor looks
\* at its shutdown flag every 50 ms, a report is forwarded, the monitor polls.
Fairness ==
  /\ WF_vars(Coordinator) /\ WF_vars(Observe) /\ WF_vars(Report) /\ WF_vars(TapEnds)
  /\ WF_vars(MainStop) /\ WF_vars(MainStopEnds)

FairSpec == Spec /\ Fairness

(***************************************************************************)
(* Properties.                                                             *)
(***************************************************************************)
RecoveryTypeOK ==
  /\ PlaneTypeOK
  /\ uplink \in Bindings \cup {None} /\ seen \in Bindings \cup {None}
  /\ events \in [pending : 0 .. Capacity, lagged : BOOLEAN]
  /\ co \in [pc : CoordinatorPcs, current : Bindings \cup {None}, binding : Bindings]
  /\ handle \in Bindings
  /\ status \in Statuses
  /\ main \in MainPcs
  /\ budget \in [changes : 0 .. MaxChanges, faults : 0 .. MaxFaults,
                 generations : 0 .. MaxGenerations]

\* Outbound sockets and firewall rules agree: an interceptor that has not been
\* asked to stop works for the binding that sockets get, except between the
\* rebuild and the publication of the binding right behind it.
SocketsMatchRules ==
  \A i \in Taps :
    tap[i].running /\ ~tap[i].asked /\ ~At("applying") => tap[i].binding = handle

\* What the mutex and the cancellation of the coordinator guarantee: whoever
\* waits for a report has one, nobody opens over an armed plane, and the main
\* thread closes a generation only after its coordinator has gone.
LockInv ==
  /\ At("opening") => ~plane.armed
  /\ At("waiting") \/ main \in {"stopping", "closing"} => plane.stop_report # None
  /\ ~(co.pc \in {"waiting", "opening"} /\ main \in {"stopping", "closing"})
  /\ main \in {"dropped", "closing", "failed", "closed", "exited"} => At("ended")
  /\ main = "closed" => ~plane.armed

\* The inductive invariant: the plane, the lock, and which binding the running
\* interceptor works for on either side of the publication.
RecoveryInv ==
  /\ RecoveryTypeOK
  /\ PlaneInv
  /\ LockInv
  /\ SocketsMatchRules
  /\ \A i \in Taps :
       At("applying") /\ tap[i].running /\ ~tap[i].asked => tap[i].binding = co.binding

\* An unconfirmable stop: the channel the report was to come through is closed.
Unconfirmable == plane.stop_report # None /\ plane.stop_report.state = "closed"

\* A recovery ends: whatever fails on the way, the coordinator is back at its
\* channel in the end, unless the old interceptor can never be confirmed stopped.
RecoveryEnds == ~At("idle") ~> At("idle") \/ At("ended") \/ Unconfirmable

\* Online means intercepting: when the coordinator publishes that the binding
\* is unchanged, the data plane is armed (network-disconnect-recovery-design.md
\* 52, "Report network state honestly"; 253, "Rebuild open/configure failure |
\* Retry forever").
OnlineIsIntercepting ==
  [][CoUnchanged /\ main = "running" => plane.armed]_vars
=============================================================================
