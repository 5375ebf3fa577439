---------------------------- MODULE RecoveryProofs ----------------------------
(***************************************************************************)
(* Proofs about Recovery, for any bindings, any interceptor identities,    *)
(* any capacity of the event channel and any bounds: no interceptor is     *)
(* ever opened over the rules of another, and outbound sockets are bound   *)
(* to the address the rules match.                                         *)
(***************************************************************************)
EXTENDS Recovery, TLAPS

(***************************************************************************)
(* Every operation of the plane preserves PlaneInv.                        *)
(***************************************************************************)
\* Opening an interceptor when nothing is armed.
LEMMA OpenStep ==
  ASSUME PlaneInv, ~plane.armed, NEW b \in Bindings, NEW i \in Taps, Free(i),
         tap' = [tap EXCEPT ![i] = Opened(b)],
         plane'.armed = TRUE, plane'.handle = i, plane'.stop_report = None,
         plane' \in Planes
  PROVE  PlaneInv'
<1>1. Opened(b) \in TapStates
  BY DEF Opened, TapStates
<1>2. PlaneTypeOK'
  BY <1>1 DEF PlaneInv, PlaneTypeOK
<1>3. \A j \in Taps : j # i => ~Live(j)'
  BY DEF PlaneInv, PlaneTypeOK, Live
<1>4. \A j \in Taps : Live(j)' => plane'.armed /\ Holds(j)'
  BY <1>3 DEF Holds
<1>5. tap'[i].done = None /\ \A j \in Taps : j # i => tap'[j] = tap[j]
  BY DEF PlaneInv, PlaneTypeOK, Opened
<1>6. \A j \in Taps : tap'[j].done = "ok" => ~Live(j)'
  BY <1>3, <1>5, NoneAssumption
<1> QED
  BY <1>2, <1>4, <1>6, TapAssumption DEF PlaneInv

\* LocalPlane::open, as the rebuild calls it.
LEMMA PlaneOpens ==
  ASSUME PlaneInv, ~plane.armed, NEW b \in Bindings, Open(b)
  PROVE  /\ PlaneInv' /\ plane'.armed
         /\ \A j \in Taps : tap'[j].running => tap'[j].binding = b
<1>1. PICK i \in Taps :
        /\ Free(i)
        /\ tap' = [tap EXCEPT ![i] = Opened(b)]
        /\ plane' = [plane EXCEPT !.armed = TRUE, !.handle = i]
  BY DEF Open
<1>2. plane.stop_report = None
  BY DEF PlaneInv
<1>3. /\ plane'.armed = TRUE /\ plane'.handle = i /\ plane'.stop_report = None
      /\ plane' \in Planes
  BY <1>1, <1>2 DEF PlaneInv, PlaneTypeOK, Planes
<1>4. PlaneInv'
  BY <1>1, <1>3, OpenStep
<1>5. ASSUME NEW j \in Taps, tap'[j].running
      PROVE  tap'[j].binding = b
  <2>1. CASE j = i
    BY <1>1, <2>1 DEF PlaneInv, PlaneTypeOK, Opened
  <2>2. CASE j # i
    BY <1>1, <1>5, <2>2 DEF PlaneInv, PlaneTypeOK, Live
  <2> QED
    BY <2>1, <2>2
<1> QED
  BY <1>3, <1>4, <1>5

\* stop_local up to its wait: nothing runs unasked afterwards.
LEMMA PlaneAsks ==
  ASSUME PlaneInv, NEW runtime \in Runtimes, AskToStop(runtime)
  PROVE  /\ PlaneInv' /\ plane'.armed /\ plane'.stop_report # None
         /\ \A j \in Taps :
              tap'[j].running /\ ~tap'[j].asked
              => tap[j].running /\ ~tap[j].asked /\ tap'[j].binding = tap[j].binding
<1>1. CASE plane.stop_report # None
  <2>1. UNCHANGED planeVars
    BY <1>1 DEF AskToStop
  <2> QED
    BY <1>1, <2>1 DEF planeVars, PlaneInv, PlaneTypeOK, AskToStop, Live, Holds
<1>2. CASE plane.stop_report = None
  <2> DEFINE h == plane.handle
             r == [of |-> h, runtime |-> runtime, state |-> "waiting"]
  <2>1. /\ h \in Taps
        /\ tap' = [tap EXCEPT ![h].asked = TRUE]
        /\ plane' = [plane EXCEPT !.handle = None, !.stop_report = r]
        /\ plane \in Planes /\ plane.armed
    BY <1>2 DEF AskToStop, PlaneInv, PlaneTypeOK, Planes
  <2>2. r \in Reports /\ r # None /\ r.of = h
    BY <2>1, NoneAssumption DEF Reports
  <2>3. /\ plane' \in Planes /\ plane'.armed /\ plane'.handle = None
        /\ plane'.stop_report = r
    BY <2>1, <2>2 DEF Planes
  <2>4. /\ tap \in [Taps -> TapStates]
        /\ \A j \in Taps : j # h => tap'[j] = tap[j]
        /\ tap'[h] = [tap[h] EXCEPT !.asked = TRUE]
        /\ tap' \in [Taps -> TapStates]
    BY <2>1 DEF PlaneInv, PlaneTypeOK, TapStates
  <2>5. \A j \in Taps : /\ Live(j)' <=> Live(j)
                        /\ tap'[j].done = tap[j].done
                        /\ tap'[j].binding = tap[j].binding
                        /\ tap'[j].running = tap[j].running
                        /\ ~tap'[j].asked => ~tap[j].asked
    BY <2>1, <2>4 DEF Live, TapStates
  <2>6. \A j \in Taps : Live(j)' => Holds(j)'
    BY <1>2, <2>2, <2>3, <2>5 DEF PlaneInv, Holds
  <2> QED
    BY <2>2, <2>3, <2>4, <2>5, <2>6 DEF PlaneInv, PlaneTypeOK
<1> QED
  BY <1>1, <1>2

\* The stop is confirmed: nothing is live any more.
LEMMA PlaneStops ==
  ASSUME PlaneInv, plane.stop_report # None, StopConfirmed
  PROVE  PlaneInv' /\ ~plane'.armed /\ tap' = tap
<1>1. /\ plane \in Planes /\ plane.stop_report \in Reports
      /\ plane.stop_report.of \in Taps
      /\ plane.handle = None
  BY DEF PlaneInv, PlaneTypeOK, Planes, Reports
<1>2. /\ plane' \in Planes /\ ~plane'.armed /\ plane'.handle = None
      /\ plane'.stop_report = None
  BY <1>1 DEF StopConfirmed, Planes
<1>3. \A i \in Taps : ~Live(i)
  BY <1>1, TapAssumption DEF PlaneInv, Holds, StopConfirmed
<1> QED
  BY <1>2, <1>3 DEF PlaneInv, PlaneTypeOK, StopConfirmed, Live

\* A report changes its state only: it failed, was passed on or was dropped.
LEMMA ReportStep ==
  ASSUME PlaneInv, plane.stop_report # None, NEW s \in {"waiting", "ready", "closed"},
         plane' = [plane EXCEPT !.stop_report.state = s], tap' = tap
  PROVE  PlaneInv' /\ plane'.stop_report # None /\ plane'.armed
<1>1. /\ plane \in Planes /\ plane.stop_report \in Reports /\ plane.armed
      /\ plane.handle = None
  BY DEF PlaneInv, PlaneTypeOK, Planes
<1>2. /\ [plane.stop_report EXCEPT !.state = s] \in Reports
      /\ [plane.stop_report EXCEPT !.state = s].of = plane.stop_report.of
  BY <1>1 DEF Reports
<1>3. /\ plane'.stop_report = [plane.stop_report EXCEPT !.state = s]
      /\ plane' \in Planes /\ plane'.armed /\ plane'.handle = None
  BY <1>1, <1>2 DEF Planes
<1>4. plane'.stop_report # None
  BY <1>2, <1>3, NoneAssumption
<1>5. \A i \in Taps : (Holds(i) => Holds(i)') /\ (Live(i)' <=> Live(i))
  BY <1>1, <1>2, <1>3, <1>4, TapAssumption DEF Holds, Live
<1> QED
  BY <1>3, <1>4, <1>5 DEF PlaneInv, PlaneTypeOK, Live

\* A stop that fails leaves the plane armed.
LEMMA PlaneStopFails ==
  ASSUME PlaneInv, plane.stop_report # None, StopFails
  PROVE  PlaneInv' /\ plane'.stop_report # None /\ plane'.armed /\ tap' = tap
<1>1. tap' = tap
  BY DEF StopFails
<1>2. CASE plane' = plane
  BY <1>1, <1>2 DEF PlaneInv, PlaneTypeOK, Live, Holds
<1>3. CASE plane' = [plane EXCEPT !.stop_report.state = "closed"]
  BY <1>1, <1>3, ReportStep
<1> QED
  BY <1>1, <1>2, <1>3 DEF StopFails

\* The report task passes the result on.
LEMMA PlaneReports ==
  ASSUME PlaneInv, ForwardReport
  PROVE  PlaneInv' /\ plane'.stop_report # None /\ plane'.armed /\ tap' = tap
         /\ plane.armed
  BY ReportStep DEF ForwardReport, PlaneInv

\* The runtime of the report task is dropped.
LEMMA PlaneDropsReport ==
  ASSUME PlaneInv, NEW runtime, ReportTaskDropped(runtime)
  PROVE  PlaneInv' /\ plane'.armed = plane.armed /\ tap' = tap
         /\ (plane.stop_report # None => plane'.stop_report # None)
<1>1. tap' = tap
  BY DEF ReportTaskDropped
<1>2. CASE plane' = plane
  BY <1>1, <1>2 DEF PlaneInv, PlaneTypeOK, Live, Holds
<1>3. CASE plane.stop_report # None /\ plane' = [plane EXCEPT !.stop_report.state = "closed"]
  BY <1>1, <1>3, ReportStep DEF PlaneInv, PlaneTypeOK, Planes
<1> QED
  BY <1>1, <1>2, <1>3 DEF ReportTaskDropped

\* An interceptor thread ends, well or badly.
LEMMA TapEnding ==
  ASSUME PlaneInv, NEW i \in Taps, tap[i].running, NEW left \in BOOLEAN,
         NEW d \in {"ok", "error"}, d = "ok" => ~left, plane' = plane,
         tap' = [tap EXCEPT ![i].running = FALSE, ![i].rules = left, ![i].done = d]
  PROVE  PlaneInv' /\ \A j \in Taps : tap'[j].running => tap'[j] = tap[j]
<1>1. /\ tap \in [Taps -> TapStates]
      /\ \A j \in Taps : j # i => tap'[j] = tap[j]
      /\ tap'[i] = [tap[i] EXCEPT !.running = FALSE, !.rules = left, !.done = d]
      /\ tap' \in [Taps -> TapStates]
  BY DEF PlaneInv, PlaneTypeOK, TapStates
<1>2. ~tap'[i].running /\ tap'[i].rules = left /\ tap'[i].done = d
  BY <1>1 DEF TapStates
<1>3. \A j \in Taps : Live(j)' => Live(j)
  BY <1>1, <1>2 DEF Live
<1>4. \A j \in Taps : tap'[j].done = "ok" => ~Live(j)'
  BY <1>1, <1>2 DEF PlaneInv, Live
<1> QED
  BY <1>1, <1>2, <1>3, <1>4 DEF PlaneInv, PlaneTypeOK, Holds

(***************************************************************************)
(* The steps of the network, the coordinator, the main thread and the      *)
(* interceptor preserve RecoveryInv.                                       *)
(***************************************************************************)
\* Typing of what is outside the plane.
RestTypeOK ==
  /\ uplink \in Bindings \cup {None} /\ seen \in Bindings \cup {None}
  /\ events \in [pending : 0 .. Capacity, lagged : BOOLEAN]
  /\ co \in [pc : CoordinatorPcs, current : Bindings \cup {None}, binding : Bindings]
  /\ handle \in Bindings
  /\ status \in Statuses
  /\ main \in MainPcs
  /\ budget \in [changes : 0 .. MaxChanges, faults : 0 .. MaxFaults,
                 generations : 0 .. MaxGenerations]

LEMMA TypeSplit ==
  /\ RecoveryTypeOK <=> PlaneTypeOK /\ RestTypeOK
  /\ RecoveryTypeOK' <=> PlaneTypeOK' /\ RestTypeOK'
  BY DEF RecoveryTypeOK, RestTypeOK

\* A step that leaves the plane alone keeps everything said about the plane.
LEMMA PlaneStutters ==
  ASSUME PlaneInv, UNCHANGED planeVars
  PROVE  PlaneInv'
  BY DEF planeVars, PlaneInv, PlaneTypeOK, Live, Holds

\* The bounds are only ever spent.
LEMMA Spending ==
  ASSUME BoundAssumption, RestTypeOK, NEW w \in {"changes", "faults", "generations"},
         budget[w] > 0, Spend(w)
  PROVE  budget' \in [changes : 0 .. MaxChanges, faults : 0 .. MaxFaults,
                      generations : 0 .. MaxGenerations]
  BY DEF RestTypeOK, Spend

\* The event channel stays within its capacity, whatever is sent into it.
LEMMA Emitting ==
  ASSUME events \in [pending : 0 .. Capacity, lagged : BOOLEAN], Emit
  PROVE  events' \in [pending : 0 .. Capacity, lagged : BOOLEAN]
<1> DEFINE n == IF events.pending < Capacity THEN events.pending + 1 ELSE events.pending
           l == events.lagged \/ events.pending = Capacity
<1>1. n \in 0 .. Capacity
  BY CapacityAssumption
<1>2. l \in BOOLEAN
  OBVIOUS
<1>3. events' = [events EXCEPT !.pending = n, !.lagged = l]
  BY DEF Emit
<1> HIDE DEF n, l
<1> QED
  BY <1>1, <1>2, <1>3

\* Receiving takes an event that is there.
LEMMA Receiving ==
  ASSUME events \in [pending : 0 .. Capacity, lagged : BOOLEAN], HasEvent, TakeEvent
  PROVE  events' \in [pending : 0 .. Capacity, lagged : BOOLEAN]
<1>1. CASE events.lagged
  BY <1>1 DEF TakeEvent
<1>2. CASE ~events.lagged
  <2>1. events.pending - 1 \in 0 .. Capacity
    BY <1>2, CapacityAssumption DEF HasEvent
  <2>2. events' = [events EXCEPT !.pending = events.pending - 1]
    BY <1>2 DEF TakeEvent
  <2> QED
    BY <2>1, <2>2
<1> QED
  BY <1>1, <1>2

\* What the network and the monitor do.
LEMMA NetworkSteps ==
  ASSUME RecoveryInv, UplinkChanges \/ Observe
  PROVE  RecoveryInv'
<1>1. RestTypeOK /\ PlaneInv /\ UNCHANGED <<planeVars, co, handle, main>>
  BY TypeSplit DEF RecoveryInv, UplinkChanges, Observe
<1>2. PlaneInv'
  BY <1>1, PlaneStutters
<1>3. RestTypeOK'
  <2>1. CASE UplinkChanges
    BY <1>1, <2>1, BoundAssumption, Spending DEF UplinkChanges, RestTypeOK
  <2>2. CASE Observe
    <3>1. budget' \in [changes : 0 .. MaxChanges, faults : 0 .. MaxFaults,
                       generations : 0 .. MaxGenerations]
      BY <1>1, <2>2, BoundAssumption, Spending DEF Observe, CanFail, RestTypeOK
    <3>2. events' \in [pending : 0 .. Capacity, lagged : BOOLEAN]
      <4>1. Emit /\ events \in [pending : 0 .. Capacity, lagged : BOOLEAN]
        BY <1>1, <2>2 DEF Observe, RestTypeOK
      <4> QED
        BY <4>1, Emitting
    <3> QED
      BY <1>1, <2>2, <3>1, <3>2 DEF Observe, RestTypeOK
  <2> QED
    BY <2>1, <2>2
<1> QED
  BY <1>1, <1>2, <1>3, TypeSplit
  DEF RecoveryInv, PlaneInv, LockInv, SocketsMatchRules, At, planeVars

\* The coordinator outside the data plane: events, probes, backoff, verification.
LEMMA CoordinatorElsewhere ==
  ASSUME RecoveryInv,
         \/ CoReceive \/ CoUnavailable \/ CoUnchanged \/ CoChanging \/ CoRetry
         \/ CoReprobe \/ CoVerified \/ CoRescan \/ CoRescanned
  PROVE  RecoveryInv'
<1>1. RestTypeOK /\ PlaneInv /\ LockInv /\ UNCHANGED <<planeVars, handle, main, uplink, seen>>
  BY TypeSplit DEF RecoveryInv, CoReceive, CoUnavailable, CoUnchanged, CoChanging,
       CoRetry, CoReprobe, CoVerified, CoRescan, CoRescanned
<1>2. PlaneInv'
  BY <1>1, PlaneStutters
<1>3. events' \in [pending : 0 .. Capacity, lagged : BOOLEAN]
  BY <1>1, Receiving
  DEF RestTypeOK, CoReceive, CoUnavailable, CoUnchanged, CoChanging,
      CoRetry, CoReprobe, CoVerified, CoRescan, CoRescanned
<1>4. budget' \in [changes : 0 .. MaxChanges, faults : 0 .. MaxFaults,
                   generations : 0 .. MaxGenerations]
  BY <1>1, BoundAssumption, Spending
  DEF RestTypeOK, CanFail, CoReceive, CoUnavailable, CoUnchanged, CoChanging,
      CoRetry, CoReprobe, CoVerified, CoRescan, CoRescanned
<1>5. /\ co' \in [pc : CoordinatorPcs, current : Bindings \cup {None}, binding : Bindings]
      /\ co.pc \notin {"applying", "ended"}
      /\ co'.pc \notin {"waiting", "opening", "applying", "ended"}
  BY <1>1
  DEF RestTypeOK, CoordinatorPcs, At, Go, CoReceive, CoUnavailable, CoUnchanged,
      CoChanging, CoRetry, CoReprobe, CoVerified, CoRescan, CoRescanned
<1>6. status' \in Statuses
  BY <1>1
  DEF RestTypeOK, Statuses, Publish, CoReceive, CoUnavailable, CoUnchanged,
      CoChanging, CoRetry, CoReprobe, CoVerified, CoRescan, CoRescanned
<1>7. RestTypeOK'
  BY <1>1, <1>3, <1>4, <1>5, <1>6 DEF RestTypeOK
<1> QED
  BY <1>1, <1>2, <1>5, <1>7, TypeSplit
  DEF RecoveryInv, PlaneInv, LockInv, SocketsMatchRules, At, planeVars

\* The coordinator inside a rebuild and right behind it.
LEMMA CoordinatorRebuilds ==
  ASSUME RecoveryInv,
         CoStop \/ CoStopped \/ CoStopFails \/ CoOpen \/ CoOpenFails \/ CoApply
  PROVE  RecoveryInv'
<1>1. RestTypeOK /\ PlaneInv /\ LockInv /\ UNCHANGED <<uplink, seen, events, main>>
  BY TypeSplit DEF RecoveryInv, CoStop, CoStopped, CoStopFails, CoOpen, CoOpenFails, CoApply
<1>2. RestTypeOK' /\ co'.binding = co.binding /\ ~At("ended")
  <2>1. /\ co' \in [pc : CoordinatorPcs, current : Bindings \cup {None}, binding : Bindings]
        /\ co'.binding = co.binding /\ ~At("ended")
    BY <1>1
    DEF RestTypeOK, CoordinatorPcs, At, Go, CoStop, CoStopped, CoStopFails, CoOpen,
        CoOpenFails, CoApply
  <2>2. budget' \in [changes : 0 .. MaxChanges, faults : 0 .. MaxFaults,
                     generations : 0 .. MaxGenerations]
    BY <1>1, BoundAssumption, Spending
    DEF RestTypeOK, CanFail, CoStop, CoStopped, CoStopFails, CoOpen, CoOpenFails, CoApply
  <2>3. status' \in Statuses /\ handle' \in Bindings
    BY <1>1
    DEF RestTypeOK, Statuses, Publish, CoStop, CoStopped, CoStopFails, CoOpen,
        CoOpenFails, CoApply
  <2> QED
    BY <1>1, <2>1, <2>2, <2>3 DEF RestTypeOK
<1>3. main \notin {"dropped", "closing", "failed", "closed", "exited"}
  BY <1>1, <1>2 DEF LockInv
<1>4. CASE CoStop
  <2>1. At("locking") /\ UNCHANGED handle /\ LockFree
    BY <1>4 DEF CoStop
  <2>2. CASE NothingToStop /\ UNCHANGED planeVars /\ Go("opening")
    <3>1. co'.pc = "opening"
      BY <1>1, <2>2 DEF Go, RestTypeOK
    <3> QED
      BY <1>1, <1>2, <1>3, <2>1, <2>2, <3>1, PlaneStutters, TypeSplit
      DEF RecoveryInv, PlaneInv, LockInv, SocketsMatchRules, At, planeVars, LockFree, NothingToStop
  <2>3. CASE AskToStop("service") /\ Go("waiting")
    <3>1. co'.pc = "waiting"
      BY <1>1, <2>3 DEF Go, RestTypeOK
    <3>2. /\ PlaneInv' /\ plane'.armed /\ plane'.stop_report # None
          /\ \A j \in Taps :
               tap'[j].running /\ ~tap'[j].asked
               => tap[j].running /\ ~tap[j].asked /\ tap'[j].binding = tap[j].binding
      BY <1>1, <2>3, PlaneAsks DEF Runtimes
    <3> QED
      BY <1>1, <1>2, <1>3, <2>1, <3>1, <3>2, TypeSplit
      DEF RecoveryInv, PlaneInv, LockInv, SocketsMatchRules, At, LockFree
  <2> QED
    BY <1>4, <2>2, <2>3 DEF CoStop
<1>5. CASE CoStopped
  <2>1. /\ At("waiting") /\ co'.pc = "opening" /\ UNCHANGED handle
        /\ plane.stop_report # None
    BY <1>1, <1>5 DEF CoStopped, Go, RestTypeOK, LockInv
  <2>2. PlaneInv' /\ ~plane'.armed /\ tap' = tap
    BY <1>1, <1>5, <2>1, PlaneStops DEF CoStopped
  <2> QED
    BY <1>1, <1>2, <1>3, <2>1, <2>2, TypeSplit
    DEF RecoveryInv, PlaneInv, LockInv, SocketsMatchRules, At
<1>6. CASE CoStopFails
  <2>1. /\ At("waiting") /\ co'.pc = "backoff" /\ UNCHANGED handle
        /\ plane.stop_report # None
    BY <1>1, <1>6 DEF CoStopFails, Go, RestTypeOK, LockInv
  <2>2. PlaneInv' /\ plane'.stop_report # None /\ tap' = tap
    BY <1>1, <1>6, <2>1, PlaneStopFails DEF CoStopFails
  <2> QED
    BY <1>1, <1>2, <1>3, <2>1, <2>2, TypeSplit
    DEF RecoveryInv, PlaneInv, LockInv, SocketsMatchRules, At
<1>7. CASE CoOpen
  <2>1. /\ At("opening") /\ co'.pc = "applying" /\ ~plane.armed
        /\ co.binding \in Bindings
    BY <1>1, <1>7 DEF CoOpen, Go, RestTypeOK, LockInv
  <2>2. PlaneInv' /\ \A j \in Taps : tap'[j].running => tap'[j].binding = co.binding
    BY <1>1, <1>7, <2>1, PlaneOpens DEF CoOpen
  <2> QED
    BY <1>1, <1>2, <1>3, <2>1, <2>2, TypeSplit
    DEF RecoveryInv, PlaneInv, LockInv, SocketsMatchRules, At
<1>8. CASE CoOpenFails
  <2>1. At("opening") /\ co'.pc = "backoff" /\ UNCHANGED <<handle, planeVars>>
    BY <1>1, <1>8 DEF CoOpenFails, Go, RestTypeOK, OpenFails
  <2> QED
    BY <1>1, <1>2, <1>3, <2>1, PlaneStutters, TypeSplit
    DEF RecoveryInv, PlaneInv, LockInv, SocketsMatchRules, At, planeVars
<1>9. CASE CoApply
  <2>1. /\ At("applying") /\ co'.pc = "verifying" /\ handle' = co.binding
        /\ UNCHANGED planeVars
    BY <1>1, <1>9 DEF CoApply, RestTypeOK
  <2> QED
    BY <1>1, <1>2, <1>3, <2>1, PlaneStutters, TypeSplit
    DEF RecoveryInv, PlaneInv, LockInv, SocketsMatchRules, At, planeVars
<1> QED
  BY <1>4, <1>5, <1>6, <1>7, <1>8, <1>9

\* The main thread outside the data plane.
LEMMA MainElsewhere ==
  ASSUME RecoveryInv, Signal \/ RetryClose \/ Quit
  PROVE  RecoveryInv'
<1>1. /\ RestTypeOK /\ PlaneInv /\ LockInv
      /\ UNCHANGED <<planeVars, uplink, seen, events, co, handle, status, budget>>
  BY TypeSplit DEF RecoveryInv, Signal, RetryClose, Quit
<1>2. RestTypeOK'
  BY <1>1 DEF RestTypeOK, MainPcs, Signal, RetryClose, Quit
<1>3. main' \in {"signalled", "dropped", "exited"} /\ (main' # "signalled" => At("ended"))
  BY <1>1 DEF LockInv, Signal, RetryClose, Quit
<1> QED
  BY <1>1, <1>2, <1>3, PlaneStutters, TypeSplit
  DEF RecoveryInv, PlaneInv, LockInv, SocketsMatchRules, At, planeVars

\* The main thread stops the plane or closes a generation.
LEMMA MainStops ==
  ASSUME RecoveryInv,
         \/ MainStop \/ MainStopEnds \/ DropRuntime
         \/ CloseGeneration \/ GenerationClosed \/ CloseFails
  PROVE  RecoveryInv'
<1>1. /\ RestTypeOK /\ PlaneInv /\ LockInv
      /\ UNCHANGED <<uplink, seen, events, handle, status, budget>>
  BY TypeSplit DEF RecoveryInv, MainStop, MainStopEnds, DropRuntime, CloseGeneration,
       GenerationClosed, CloseFails
<1>2. RestTypeOK'
  BY <1>1
  DEF RestTypeOK, MainPcs, CoordinatorPcs, Go, MainStop, MainStopEnds, DropRuntime,
      CloseGeneration, GenerationClosed, CloseFails
<1>3. CASE MainStop \/ CloseGeneration
  <2>1. UNCHANGED co /\ LockFree /\ (CloseGeneration => At("ended"))
    BY <1>1, <1>3 DEF MainStop, CloseGeneration, LockInv, LockFree, At
  <2>2. CASE NothingToStop /\ UNCHANGED planeVars
             /\ main' \in {"stopped", "closed"} /\ (main' = "closed" => At("ended"))
    BY <1>1, <1>2, <2>1, <2>2, PlaneStutters, TypeSplit
    DEF RecoveryInv, PlaneInv, LockInv, SocketsMatchRules, At, planeVars, NothingToStop
  <2>3. CASE (AskToStop("service") \/ AskToStop("control"))
             /\ main' \in {"stopping", "closing"} /\ (main' = "closing" => At("ended"))
    <3>1. /\ PlaneInv' /\ plane'.armed /\ plane'.stop_report # None
          /\ \A j \in Taps :
               tap'[j].running /\ ~tap'[j].asked
               => tap[j].running /\ ~tap[j].asked /\ tap'[j].binding = tap[j].binding
      BY <1>1, <2>3, PlaneAsks DEF Runtimes
    <3> QED
      BY <1>1, <1>2, <2>1, <2>3, <3>1, TypeSplit
      DEF RecoveryInv, PlaneInv, LockInv, SocketsMatchRules, At, LockFree
  <2>4. CASE MainStop
    <3>1. \/ NothingToStop /\ UNCHANGED planeVars /\ main' = "stopped"
          \/ AskToStop("service") /\ main' = "stopping"
      BY <2>4 DEF MainStop
    <3>2. CASE NothingToStop /\ UNCHANGED planeVars /\ main' = "stopped"
      BY <2>2, <3>2
    <3>3. CASE AskToStop("service") /\ main' = "stopping"
      BY <2>3, <3>3
    <3> QED
      BY <3>1, <3>2, <3>3
  <2>5. CASE CloseGeneration
    BY <2>1, <2>2, <2>3, <2>5 DEF CloseGeneration
  <2> QED
    BY <1>3, <2>4, <2>5
<1>4. CASE MainStopEnds \/ GenerationClosed \/ CloseFails
  <2>1. /\ UNCHANGED co /\ plane.stop_report # None
        /\ co.pc \notin {"waiting", "opening"}
        /\ StopConfirmed \/ StopFails
        /\ \/ main' = "stopped"
           \/ main' = "closed" /\ At("ended") /\ StopConfirmed
           \/ main' = "failed" /\ At("ended")
    BY <1>1, <1>4 DEF MainStopEnds, GenerationClosed, CloseFails, LockInv
  <2>2. PlaneInv' /\ tap' = tap /\ (StopConfirmed => ~plane'.armed)
    BY <1>1, <2>1, PlaneStops, PlaneStopFails
  <2> QED
    BY <1>1, <1>2, <2>1, <2>2, TypeSplit
    DEF RecoveryInv, PlaneInv, LockInv, SocketsMatchRules, At
<1>5. CASE DropRuntime
  <2>1. /\ co'.pc = "ended" /\ co'.binding = co.binding /\ ~At("applying")
        /\ main' \in {"dropped", "exited"}
    BY <1>1, <1>5 DEF DropRuntime, Go, RestTypeOK, AtAwait, At
  <2>2. PlaneInv' /\ tap' = tap
    BY <1>1, <1>5, PlaneDropsReport DEF DropRuntime
  <2> QED
    BY <1>1, <1>2, <2>1, <2>2, TypeSplit
    DEF RecoveryInv, PlaneInv, LockInv, SocketsMatchRules, At
<1> QED
  BY <1>3, <1>4, <1>5

\* A new generation starts only over a plane whose stop was confirmed.
LEMMA MainRestarts ==
  ASSUME RecoveryInv, NewGeneration
  PROVE  RecoveryInv'
<1>1. RestTypeOK /\ PlaneInv /\ LockInv /\ ~plane.armed /\ uplink \in Bindings
  BY TypeSplit DEF RecoveryInv, NewGeneration, LockInv, RestTypeOK
<1>2. PICK i \in Taps : /\ Free(i)
                       /\ tap' = [tap EXCEPT ![i] = Opened(uplink)]
                       /\ plane' = FreshPlane(i)
  BY DEF NewGeneration
<1>3. PlaneInv'
  <2>1. /\ plane'.armed = TRUE /\ plane'.handle = i /\ plane'.stop_report = None
        /\ plane' \in Planes
    BY <1>2 DEF FreshPlane, Planes
  <2> QED
    BY <1>1, <1>2, <2>1, OpenStep
<1>4. RestTypeOK'
  <2>1. budget' \in [changes : 0 .. MaxChanges, faults : 0 .. MaxFaults,
                     generations : 0 .. MaxGenerations]
    BY <1>1, BoundAssumption, Spending DEF NewGeneration
  <2>2. events' \in [pending : 0 .. Capacity, lagged : BOOLEAN]
    BY CapacityAssumption DEF NewGeneration, NoEvents
  <2>3. co' \in [pc : CoordinatorPcs, current : Bindings \cup {None}, binding : Bindings]
    BY <1>1 DEF NewGeneration, FreshCoordinator, CoordinatorPcs
  <2> QED
    BY <1>1, <2>1, <2>2, <2>3 DEF NewGeneration, RestTypeOK, MainPcs, Publish, Statuses
<1>5. co'.pc = "idle" /\ main' = "running" /\ handle' = uplink
  BY DEF NewGeneration, FreshCoordinator
<1>6. \A j \in Taps : tap'[j].running => tap'[j].binding = uplink
  BY <1>1, <1>2 DEF PlaneInv, PlaneTypeOK, Opened, Live
<1> QED
  BY <1>3, <1>4, <1>5, <1>6, TypeSplit
  DEF RecoveryInv, PlaneInv, LockInv, SocketsMatchRules, At

\* The report task and the interceptor thread.
LEMMA InterceptorSteps ==
  ASSUME RecoveryInv, Report \/ TapEnds \/ TapBreaks
  PROVE  RecoveryInv'
<1>1. /\ RestTypeOK /\ PlaneInv /\ LockInv
      /\ UNCHANGED <<uplink, seen, events, co, handle, status, main>>
  BY TypeSplit DEF RecoveryInv, Report, TapEnds, TapBreaks, recoveryVars
<1>2. RestTypeOK'
  <2>1. budget' \in [changes : 0 .. MaxChanges, faults : 0 .. MaxFaults,
                     generations : 0 .. MaxGenerations]
    BY <1>1, BoundAssumption, Spending
    DEF RestTypeOK, Report, TapEnds, TapBreaks, recoveryVars, CanFail
  <2> QED
    BY <1>1, <2>1 DEF RestTypeOK
<1>3. CASE Report
  <2>1. /\ PlaneInv' /\ plane'.stop_report # None /\ plane'.armed /\ tap' = tap
        /\ plane.armed
    BY <1>1, <1>3, PlaneReports DEF Report
  <2> QED
    BY <1>1, <1>2, <2>1, TypeSplit
    DEF RecoveryInv, PlaneInv, LockInv, SocketsMatchRules, At
<1>4. CASE TapEnds \/ TapBreaks
  <2>1. PICK i \in Taps, left \in BOOLEAN, d \in {"ok", "error"} :
          /\ tap[i].running /\ (d = "ok" => ~left) /\ plane' = plane
          /\ tap' = [tap EXCEPT ![i].running = FALSE, ![i].rules = left, ![i].done = d]
    BY <1>4 DEF TapEnds, TapBreaks, TapStops, TapFails
  <2>2. PlaneInv' /\ \A j \in Taps : tap'[j].running => tap'[j] = tap[j]
    BY <1>1, <2>1, TapEnding
  <2> QED
    BY <1>1, <1>2, <2>1, <2>2, TypeSplit
    DEF RecoveryInv, PlaneInv, LockInv, SocketsMatchRules, At
<1> QED
  BY <1>3, <1>4

\* The invariant holds of the first generation.
LEMMA Start ==
  ASSUME Init
  PROVE  RecoveryInv
<1>1. PICK b \in Bindings, i \in Taps :
        /\ uplink = b /\ seen = b /\ handle = b
        /\ tap = [j \in Taps |->
                    IF j = i THEN Opened(b)
                    ELSE [Opened(b) EXCEPT !.running = FALSE, !.rules = FALSE]]
        /\ plane = FreshPlane(i)
        /\ co = FreshCoordinator(b)
        /\ events = NoEvents
        /\ status = "Online"
        /\ main = "running"
        /\ budget = [changes |-> MaxChanges, faults |-> MaxFaults,
                     generations |-> MaxGenerations]
  BY DEF Init
<1>2. RestTypeOK
  BY <1>1, CapacityAssumption, BoundAssumption
  DEF RestTypeOK, FreshCoordinator, NoEvents, CoordinatorPcs, MainPcs, Statuses
<1>3. /\ plane \in Planes /\ plane.armed /\ plane.handle = i /\ plane.stop_report = None
  BY <1>1 DEF FreshPlane, Planes
<1>4. \A j \in Taps : /\ tap[j] \in TapStates /\ tap[j].binding = b
                      /\ tap[j].done = None /\ (Live(j) => j = i)
  BY <1>1 DEF Opened, TapStates, Live
<1>5. PlaneInv
  BY <1>1, <1>3, <1>4, NoneAssumption DEF PlaneInv, PlaneTypeOK, Holds
<1> QED
  BY <1>1, <1>2, <1>5, <1>4, TypeSplit
  DEF RecoveryInv, PlaneInv, LockInv, SocketsMatchRules, At, FreshCoordinator

\* RecoveryInv is inductive: it holds in every behaviour of network recovery.
THEOREM RecoveryInvariance == Spec => []RecoveryInv
<1>1. Init => RecoveryInv
  BY Start
<1>2. RecoveryInv /\ [Next]_vars => RecoveryInv'
  <2> SUFFICES ASSUME RecoveryInv, [Next]_vars
               PROVE  RecoveryInv'
    OBVIOUS
  <2>1. CASE UNCHANGED vars
    <3>1. RestTypeOK' /\ PlaneInv'
      BY <2>1, PlaneStutters, TypeSplit DEF RecoveryInv, RestTypeOK, vars, recoveryVars
    <3> QED
      BY <2>1, <3>1, TypeSplit
      DEF RecoveryInv, PlaneInv, LockInv, SocketsMatchRules, At, vars, recoveryVars, planeVars
  <2>2. CASE Next
    BY <2>1, <2>2, NetworkSteps, CoordinatorElsewhere, CoordinatorRebuilds, MainElsewhere,
       MainStops, MainRestarts, InterceptorSteps
    DEF Next, Coordinator, Main, Exited
  <2> QED
    BY <2>1, <2>2
<1> QED
  BY <1>1, <1>2, PTL DEF Spec

\* No interceptor is ever opened over the rules of another, whatever stop fails,
\* times out or is cancelled, in this generation or the next.
THEOREM NoReopenOverLiveRules == Spec => []NeverOverLiveRules
<1>1. RecoveryInv => NeverOverLiveRules
  BY TapAssumption DEF RecoveryInv, PlaneInv, NeverOverLiveRules, Holds
<1> QED
  BY <1>1, RecoveryInvariance, PTL

\* Sockets are bound to the address that the rules in force match.
THEOREM BindingAgreement == Spec => []SocketsMatchRules
<1>1. RecoveryInv => SocketsMatchRules
  BY DEF RecoveryInv
<1> QED
  BY <1>1, RecoveryInvariance, PTL

\* Every variable of the model keeps its type.
THEOREM RecoveryTypeCorrect == Spec => []RecoveryTypeOK
<1>1. RecoveryInv => RecoveryTypeOK
  BY DEF RecoveryInv
<1> QED
  BY <1>1, RecoveryInvariance, PTL
=============================================================================
