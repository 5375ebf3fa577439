------------------------------ MODULE DataPlane ------------------------------
(***************************************************************************)
(* The local data plane of the command-line program (data_plane.rs): the   *)
(* packet-interceptor thread with the firewall rules it owns, and          *)
(* LocalPlane, which opens it for an interface binding and stops it.  A    *)
(* stop is a request to the thread and a wait of bounded length for its    *)
(* report; a stop that was not confirmed keeps the plane armed, and a      *)
(* later stop waits for the same report.                                   *)
(*                                                                         *)
(* A Tap is one opened interceptor; the identity of one that is gone can   *)
(* be used again.  The helper-backed plane (RemotePlane) is not modelled.  *)
(***************************************************************************)
EXTENDS Naturals

CONSTANTS Bindings,   \* interface bindings (address and interface)
          Taps,       \* identities of interceptor threads
          None        \* Option::None

ASSUME TapAssumption == None \notin Taps
ASSUME BindingAssumption == None \notin Bindings

VARIABLES
  tap,     \* each interceptor thread, and whether its rules are installed
  plane    \* LocalPlane

planeVars == <<tap, plane>>

\* The runtimes a report task can be spawned on: the service runtime dies with
\* its generation, the control runtime belongs to the session.
Runtimes == {"service", "control"}

\* done: what run_until returned, or None while the thread runs.
TapStates ==
  [binding : Bindings, running : BOOLEAN, asked : BOOLEAN,
   rules : BOOLEAN, done : {"ok", "error", None}]

Reports ==
  [of : Taps, runtime : Runtimes, state : {"waiting", "ready", "closed"}]

ASSUME NoneAssumption == None \notin {"ok", "error"} /\ None \notin Reports

\* handle: shutdown and done_rx, which are set and taken together.
Planes ==
  [armed : BOOLEAN, handle : Taps \cup {None}, stop_report : Reports \cup {None}]

\* An interceptor that may still act on packets or have rules installed.
Live(i) == tap[i].running \/ tap[i].rules

\* The interceptor the plane can still stop or hear of.
Holds(i) ==
  \/ plane.handle = i
  \/ plane.stop_report # None /\ plane.stop_report.of = i

\* An identity that can stand for a new interceptor.
Free(i) == ~Live(i) /\ ~Holds(i)

Opened(b) ==
  [binding |-> b, running |-> TRUE, asked |-> FALSE, rules |-> TRUE, done |-> None]

\* LocalPlane::open that succeeds: rules installed, thread spawned, armed.
Open(b) ==
  \E i \in Taps :
    /\ Free(i)
    /\ tap' = [tap EXCEPT ![i] = Opened(b)]
    /\ plane' = [plane EXCEPT !.armed = TRUE, !.handle = i]

\* LocalPlane::open that fails: the interceptor that was being opened is
\* dropped, and its rules with it; nothing is armed.  (A roll-back of rules that
\* fails as well is only logged, and left out.)
OpenFails == UNCHANGED planeVars

\* stop_local finds nothing armed, or has first to ask the thread to stop and
\* to spawn the task that forwards its report, or finds that task's channel.
\* (Armed with neither is an error in the code; no step leads there.)
NothingToStop == ~plane.armed
AskToStop(runtime) ==
  /\ plane.armed
  /\ IF plane.stop_report = None
       THEN /\ plane.handle # None
            /\ tap' = [tap EXCEPT ![plane.handle].asked = TRUE]
            /\ plane' = [plane EXCEPT
                 !.handle = None,
                 !.stop_report = [of |-> plane.handle, runtime |-> runtime,
                                  state |-> "waiting"]]
       ELSE UNCHANGED planeVars

\* wait_for_interceptor_shutdown returns Ok: stop_local disarms the plane.
StopConfirmed ==
  /\ plane.stop_report.state = "ready"
  /\ tap[plane.stop_report.of].done = "ok"
  /\ plane' = [plane EXCEPT !.stop_report = None, !.armed = FALSE]
  /\ UNCHANGED tap

\* Variation: a stop that timed out is taken as done.
StopForgotten ==
  /\ plane.stop_report.state # "ready"
  /\ plane' = [plane EXCEPT !.stop_report = None, !.armed = FALSE]
  /\ UNCHANGED tap

\* It returns an error: the interceptor reported one (the channel is closed
\* from then on), the channel is closed, or nothing came in time.
StopFails ==
  /\ \/ /\ plane.stop_report.state = "ready"
        /\ tap[plane.stop_report.of].done = "error"
        /\ plane' = [plane EXCEPT !.stop_report.state = "closed"]
     \/ /\ plane.stop_report.state \in {"closed", "waiting"}
        /\ UNCHANGED plane
  /\ UNCHANGED tap

\* The task of spawn_interceptor_report passes the result on.
ForwardReport ==
  /\ plane.stop_report # None
  /\ plane.stop_report.state = "waiting"
  /\ tap[plane.stop_report.of].done # None
  /\ plane' = [plane EXCEPT !.stop_report.state = "ready"]
  /\ UNCHANGED tap

\* The runtime is dropped and with it the report task, if it runs there.
ReportTaskDropped(runtime) ==
  /\ plane' =
       IF /\ plane.stop_report # None
          /\ plane.stop_report.runtime = runtime
          /\ plane.stop_report.state = "waiting"
         THEN [plane EXCEPT !.stop_report.state = "closed"]
         ELSE plane
  /\ UNCHANGED tap

\* run_until sees the request, removes its rules and returns.
TapStops(i) ==
  /\ tap[i].running /\ tap[i].asked
  /\ tap' = [tap EXCEPT ![i].running = FALSE, ![i].rules = FALSE, ![i].done = "ok"]
  /\ UNCHANGED plane

\* run_until ends with an error, asked to stop or not: the queue failed, or the
\* rules could not be removed and are still there.
TapFails(i) ==
  /\ tap[i].running
  /\ \E left \in BOOLEAN :
       tap' = [tap EXCEPT ![i].running = FALSE, ![i].rules = left, ![i].done = "error"]
  /\ UNCHANGED plane

(***************************************************************************)
(* Properties.                                                             *)
(***************************************************************************)
PlaneTypeOK == tap \in [Taps -> TapStates] /\ plane \in Planes

\* A failed stop never leads to an interceptor over live rules: at most one
\* interceptor runs or has rules installed, and the plane knows it (data_plane.rs
\* 72, "a failed stop can never reopen over live rules").
NeverOverLiveRules ==
  \A i \in Taps :
    Live(i) => plane.armed /\ Holds(i) /\ \A j \in Taps : Live(j) => j = i

\* What makes it inductive: an armed plane has either the handle or a report of
\* the interceptor, never both, a disarmed one neither, and an interceptor that
\* reported success is gone.
PlaneInv ==
  /\ PlaneTypeOK
  /\ plane.handle # None => plane.armed /\ plane.stop_report = None
  /\ plane.stop_report # None => plane.armed
  /\ \A i \in Taps : Live(i) => plane.armed /\ Holds(i)
  /\ \A i \in Taps : tap[i].done = "ok" => ~Live(i)
=============================================================================
