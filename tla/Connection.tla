------------------------------ MODULE Connection ------------------------------
(***************************************************************************)
(* handle_intercept_connection (proxy.rs): one proxy task per accepted     *)
(* client, each with the flow entry it registers, running against the      *)
(* capture thread of Handler, the method list of Methods and a small TCP   *)
(* network.                                                                *)
(*                                                                         *)
(* A task is its own FlowEntry (Entries are the tasks).  Its pc names the  *)
(* await it is at or the statement it is about to run:                     *)
(*   idle, bound, registered, connecting   bind, register_flow, connect    *)
(*   subscribe, check, parked              the two wait_for_* loops        *)
(*   prefix, reading, writing, rest        the ReadyForData arm            *)
(*   unconnected, expired                  the error arms                  *)
(*   release, relaying                     after the bypass                *)
(*   closing, guard, done                  drops at the end of the scope   *)
(*                                                                         *)
(* External and kept small: the client's kernel (SYN, handshake ACK, data, *)
(* FIN), the server (SYN-ACK, bare ACKs), the capture queue they share.    *)
(***************************************************************************)
EXTENDS Handler, Methods

CONSTANT
  Scenarios  \* what a behaviour may meet:
             \*   config    the configuration
             \*   clients   the connections that are made
             \*   stamped   do the client's segments carry a TCP timestamp option
             \*   faults    which of FaultKinds may happen
             \*   spare     how many extra packets (retransmitted or stray) there may be
             \*   sent      how many data segments a connection sends
             \*   eager     does every client send its ClientHello

FaultKinds == {"timeout", "io", "extra", "reset", "cancel"}

ASSUME ScenariosAssumption ==
  \A x \in Scenarios : /\ x.clients \subseteq Entries /\ x.faults \subseteq FaultKinds
                       /\ x.spare \in Nat /\ x.sent \in Nat
                       /\ x.stamped \in BOOLEAN /\ x.eager \in BOOLEAN

\* No event is the absence of an event.
ASSUME NoReportAssumption == None \notin {"ConnectionError", "RelayFinished"}

VARIABLES
  scenario, \* one of Scenarios
  task,     \* the proxy tasks
  conn,     \* the client kernel's end of each connection
  queue,    \* packets the capture thread has still to take, oldest first
  verdict,  \* its verdict on the first one, None while undecided
  spare,    \* extra packets left
  applied,  \* history: the members that acted on each connection so far
  shown     \* history: what had acted when its ClientHello left, or None

connVars == <<scenario, task, conn, queue, verdict, spare, applied, shown>>
allVars == <<vars, connVars>>

cfg == scenario.config
Faults == scenario.faults
Stamped == scenario.stamped

Pcs == {"idle", "bound", "registered", "connecting", "subscribe", "check",
        "parked", "prefix", "reading", "writing", "rest", "unconnected",
        "expired", "release", "relaying", "closing", "guard", "done"}

\* From register_flow to the end of the relay.
WithFlow == Pcs \ {"idle", "bound", "closing", "guard", "done"}

\* The last event the task sent about its bypass.
Reports == Outcomes \cup {"ConnectionError", "RelayFinished", None}

Tasks == [pc : Pcs,
          stage : {"initial", "completion"},   \* which of the two waits
          key : Keys \cup {None},              \* its FlowKey, once bound
          open : BOOLEAN,                      \* the upstream socket exists
          guard : BOOLEAN,                     \* the scopeguard is armed
          report : Reports]

Payloads == {"none", "prefix", "hello", "rest", "more"}

Queued == [owner : Entries, payload : Payloads, packet : Packets]

ConnTypeOK ==
  /\ HandlerTypeOK
  /\ task \in [Entries -> Tasks]
  /\ \A t \in Entries : task[t].pc # "idle" => task[t].key \in Keys
  /\ conn \in [Entries -> [up : BOOLEAN, sent : Nat]]
  /\ queue \in Seq(Queued)
  /\ verdict \in Verdicts \cup {None}
  /\ spare \in 0 .. scenario.spare
  /\ applied \in [Entries -> SUBSET BaseBypassMethods]
  /\ shown \in [Entries -> {None} \cup SUBSET BaseBypassMethods]

IdleTask == [pc |-> "idle", stage |-> "initial", key |-> None, open |-> FALSE,
             guard |-> FALSE, report |-> None]

ConnInit ==
  /\ HandlerInit
  /\ scenario \in Scenarios
  /\ task = [t \in Entries |-> IdleTask]
  /\ conn = [t \in Entries |-> [up |-> FALSE, sent |-> 0]]
  /\ queue = <<>>
  /\ verdict = None
  /\ spare = scenario.spare
  /\ applied = [t \in Entries |-> {}]
  /\ shown = [t \in Entries |-> None]

-----------------------------------------------------------------------------
(* The network (external) *)

\* Initial sequence numbers; the client's wraps around on its first byte.
ClientIsn == Modulus - 1
ServerIsn == 1

Flag(syn, ack, fin, rst, len) ==
  [syn |-> syn, ack |-> ack, fin |-> fin, rst |-> rst, len |-> len]
SynFlags == Flag(TRUE, FALSE, FALSE, FALSE, 0)
SynAckFlags == Flag(TRUE, TRUE, FALSE, FALSE, 0)
AckFlags == Flag(FALSE, TRUE, FALSE, FALSE, 0)
DataFlags == Flag(FALSE, TRUE, FALSE, FALSE, 1)
FinFlags == Flag(FALSE, TRUE, TRUE, FALSE, 0)
RstFlags == Flag(FALSE, FALSE, FALSE, TRUE, 0)

ConnSegments == {SynFlags, SynAckFlags, AckFlags, DataFlags, FinFlags, RstFlags}

ASSUME ConnSegmentsAssumption == ConnSegments \subseteq Segments

Packet(t, payload, direction, flags, seq, ack) ==
  [owner |-> t, payload |-> payload,
   packet |-> [direction |-> direction, flags |-> flags, seq |-> seq, ack |-> ack]]

\* Bytes a sender has put on the wire after its SYN.
After(isn, n) == (isn + 1 + n) % Modulus

FromClient(t, payload, flags) ==
  Packet(t, payload, "Outbound", flags,
         After(ClientIsn, conn[t].sent), After(ServerIsn, 0))
Syn(t) == Packet(t, "none", "Outbound", SynFlags, ClientIsn, 0)
SynAck(t) == Packet(t, "none", "Inbound", SynAckFlags, ServerIsn, After(ClientIsn, 0))
ServerSends(t, flags, n) ==
  Packet(t, "none", "Inbound", flags, After(ServerIsn, 0), After(ClientIsn, n))

Send(p) == queue' = Append(queue, p)

\* The client's kernel sends a payload, one byte long.
SendData(t, payload) ==
  /\ Send(FromClient(t, payload, DataFlags))
  /\ conn' = [conn EXCEPT ![t].sent = @ + 1]

\* fake_tls acts on the ClientHello: its decoy goes first, and unless the real
\* packet is forwarded behind it, it takes its place.
Decoy(p) ==
  p.payload = "hello" /\ verdict = "AcceptModified" /\ "fake_tls" \in Listed(cfg)
Replaced(p) == Decoy(p) /\ ~cfg.forward

\* A fake with a bad checksum, an MD5 option or a short TTL is dropped on the
\* way or by the server's kernel without an answer.
SilentFakes == {"wrong_checksum", "wrong_md5", "low_ttl"}
FakeAnswered == Staging(cfg, Stamped) # {} /\ Listed(cfg) \cap SilentFakes = {}

\* What the other end sends when a packet reaches it.  Any other fake, and the
\* decoy, is outside the server's window: it repeats its last ACK.  Data is
\* acknowledged by a bare ACK; data that was replaced is retransmitted by the
\* client's kernel.
Reply(p) ==
  LET t == p.owner
      repeat == <<ServerSends(t, AckFlags, 0)>>
      acknowledge == <<ServerSends(t, AckFlags, WrappingSub(p.packet.seq + 1, After(ClientIsn, 0)))>>
      fake == verdict = "AcceptModified" /\ FakeAnswered
  IN
  CASE p.packet.direction = "Outbound" /\ p.packet.flags.syn -> <<SynAck(t)>>
    [] p.packet.direction = "Inbound" ->
         IF p.packet.flags.syn /\ task[t].open
         THEN <<FromClient(t, "none", AckFlags)>> ELSE <<>>
    [] p.payload # "none" ->
         IF Replaced(p) THEN Append(repeat, p)
         ELSE IF Decoy(p) THEN repeat \o acknowledge ELSE acknowledge
    [] OTHER -> IF fake THEN repeat ELSE <<>>

\* The packet leaves with the thread's verdict: it arrives and is answered.
Forward ==
  LET p == Head(queue)
      t == p.owner
      ends == p.packet.flags.syn /\ p.packet.direction = "Inbound"
  IN
  /\ queue # <<>> /\ verdict # None /\ thread.step = "idle"
  /\ queue' = Tail(queue) \o Reply(p)
  /\ verdict' = None
  /\ conn' = IF ends /\ task[t].open THEN [conn EXCEPT ![t].up = TRUE] ELSE conn
  /\ shown' = IF p.payload = "hello" /\ shown[t] = None /\ ~Replaced(p)
              THEN [shown EXCEPT ![t] = applied[t]] ELSE shown
  /\ UNCHANGED <<vars, scenario, task, spare, applied>>

\* An extra packet: a retransmission of the SYN, the SYN-ACK or of data, or a
\* segment the server sends on its own.
Extra ==
  /\ "extra" \in Faults /\ spare > 0
  /\ spare' = spare - 1
  /\ \E t \in Entries :
       /\ task[t].open
       /\ \/ task[t].pc = "connecting" /\ Send(Syn(t))
          \/ conn[t].up /\ Send(SynAck(t))
          \/ conn[t].up /\ \E flags \in {AckFlags, DataFlags, FinFlags, RstFlags} :
                             Send(ServerSends(t, flags, conn[t].sent))
          \/ conn[t].sent > 0
             /\ Send([FromClient(t, "more", DataFlags)
                        EXCEPT !.packet.seq = After(ClientIsn, conn[t].sent - 1)])
  /\ UNCHANGED <<vars, scenario, task, conn, verdict, applied, shown>>

-----------------------------------------------------------------------------
(* The capture thread: Handler on the packets of the queue *)

\* Is the payload a sequence of complete TLS records?  tls_frag cuts the
\* ClientHello record itself.
WholeRecords(payload) ==
  payload = "prefix" \/ (payload = "hello" /\ SocketCut(cfg) # {"tls_frag"})

\* The members that stage a mutation on this packet.
Acting(s, p) ==
  IF IsStagedData(s, p.packet)
  THEN {cfg.list[i] : i \in {j \in DataMembers(cfg) :
          p.payload \in {"hello", "more"}
          /\ Emits(DataAnswer(cfg.list[j], cfg, WholeRecords(p.payload),
                              s.first_data_modified))}}
  ELSE {cfg.list[i] : i \in Staging(cfg, Stamped)}

\* flows.get of a flow that is not tracked: the packet is accepted.
CaptureUnknown ==
  /\ queue # <<>> /\ verdict = None /\ thread.step = "idle"
  /\ table[task[Head(queue).owner].key] = NoEntry
  /\ verdict' = "Accept"
  /\ UNCHANGED <<vars, scenario, task, conn, queue, spare, applied, shown>>

CaptureLookup ==
  /\ queue # <<>> /\ verdict = None
  /\ Lookup(task[Head(queue).owner].key)
  /\ UNCHANGED connVars

CaptureHandle ==
  LET p == Head(queue)
      s == state[thread.entry]
  IN
  /\ queue # <<>> /\ verdict = None
  /\ \E v \in Verdicts :
       /\ Handle(p.packet, {CompositeHandshake(cfg, Stamped)},
                 {CompositeData(cfg, WholeRecords(p.payload), s.first_data_modified)}, v)
       /\ verdict' = v
       /\ applied' = IF v = "AcceptModified"
                     THEN [applied EXCEPT ![thread.entry] = @ \cup Acting(s, p)]
                     ELSE applied
  /\ UNCHANGED <<scenario, task, conn, queue, spare, shown>>

CaptureDeferred == Deferred /\ UNCHANGED connVars

CaptureStep ==
  CaptureUnknown \/ CaptureLookup \/ CaptureHandle \/ CaptureDeferred \/ Forward

-----------------------------------------------------------------------------
(* The proxy task: up to the upstream connection *)

Goto(t, pc) == task' = [task EXCEPT ![t].pc = pc]

\* The socket is bound: its source port is not that of another open socket.
\* ConnectionAccepted is sent.
Accept(t) ==
  /\ t \in scenario.clients /\ task[t].pc = "idle"
  /\ \E k \in Keys :
       /\ \A u \in Entries : task[u].open => task[u].key # k
       /\ task' = [task EXCEPT ![t].pc = "bound", ![t].key = k, ![t].open = TRUE]
  /\ UNCHANGED <<vars, scenario, conn, queue, verdict, spare, applied, shown>>

\* register_flow succeeds and the scopeguard is armed.
TaskRegister(t) ==
  /\ task[t].pc = "bound"
  /\ RegisterFlow(task[t].key, t)
  /\ task' = [task EXCEPT ![t].pc = "registered", ![t].guard = TRUE]
  /\ UNCHANGED <<handlerVars, scenario, conn, queue, verdict, spare, applied, shown>>

\* register_flow fails: the slot is still taken.
TaskRefused(t) ==
  /\ task[t].pc = "bound"
  /\ table[task[t].key] # NoEntry
  /\ Goto(t, "closing")
  /\ UNCHANGED <<vars, scenario, conn, queue, verdict, spare, applied, shown>>

Connect(t) ==
  /\ task[t].pc = "registered"
  /\ Goto(t, "connecting")
  /\ Send(Syn(t))
  /\ UNCHANGED <<vars, scenario, conn, verdict, spare, applied, shown>>

Connected(t) ==
  /\ task[t].pc = "connecting" /\ conn[t].up
  /\ task' = [task EXCEPT ![t].pc = "subscribe", ![t].stage = "initial"]
  /\ UNCHANGED <<vars, scenario, conn, queue, verdict, spare, applied, shown>>

-----------------------------------------------------------------------------
(* wait_for_initial_bypass_progress and wait_for_bypass_completion *)

\* Variation: the first wait listens to `notify` only.
SubscribeToDecision(t) ==
  /\ task[t].pc = "subscribe"
  /\ Subscribe(t, {"notify"})
  /\ Goto(t, "check")
  /\ UNCHANGED <<table, born, state, sweep, handlerVars>>
  /\ UNCHANGED <<scenario, conn, queue, verdict, spare, applied, shown>>

\* Fresh Notified futures, created before the state is looked at.
TaskSubscribe(t) ==
  /\ task[t].pc = "subscribe"
  /\ Subscribe(t, IF task[t].stage = "initial" THEN Channels ELSE {"notify"})
  /\ Goto(t, "check")
  /\ UNCHANGED <<table, born, state, sweep, handlerVars>>
  /\ UNCHANGED <<scenario, conn, queue, verdict, spare, applied, shown>>

\* What current_bypass_progress, or the completion wait, sees of the state.
Progress(t) ==
  IF state[t].outcome # None THEN "Complete"
  ELSE IF task[t].stage = "initial" /\ state[t].waiting_for_data THEN "ReadyForData"
  ELSE "Pending"

\* finish_bypass_or_error with a decided outcome.
Reported(t, outcome) ==
  task' = [task EXCEPT ![t].report = outcome,
                       ![t].pc = IF outcome = "FakeDataAcked" THEN "release"
                                 ELSE "closing"]

TaskCheck(t) ==
  /\ task[t].pc = "check"
  /\ \/ Progress(t) = "Complete" /\ Reported(t, state[t].outcome)
     \/ Progress(t) = "ReadyForData"
        /\ Goto(t, IF "ccs_prefix" \in Listed(cfg) THEN "prefix" ELSE "reading")
     \/ Progress(t) = "Pending" /\ Goto(t, "parked")
  /\ UNCHANGED <<vars, scenario, conn, queue, verdict, spare, applied, shown>>

\* A future fired while the task slept: the loop starts over.
TaskWake(t) ==
  /\ task[t].pc = "parked" /\ waiter[t].woken
  /\ Goto(t, "subscribe")
  /\ UNCHANGED <<vars, scenario, conn, queue, verdict, spare, applied, shown>>

-----------------------------------------------------------------------------
(* The ReadyForData arm *)

WritePrefix(t) ==
  /\ task[t].pc = "prefix"
  /\ SendData(t, "prefix")
  /\ applied' = [applied EXCEPT ![t] = @ \cup {"ccs_prefix"}]
  /\ Goto(t, "reading")
  /\ UNCHANGED <<vars, scenario, verdict, spare, shown>>

\* The client's ClientHello arrives and is read.
ReadHello(t) ==
  /\ task[t].pc = "reading"
  /\ Goto(t, "writing")
  /\ UNCHANGED <<vars, scenario, conn, queue, verdict, spare, applied, shown>>

\* On to wait_for_bypass_completion.
AwaitCompletion(t) ==
  task' = [task EXCEPT ![t].pc = "subscribe", ![t].stage = "completion"]

\* The transforms, then the write: the whole ClientHello, or its first segment
\* when the list cuts it.
WriteHello(t) ==
  /\ task[t].pc = "writing"
  /\ SendData(t, "hello")
  /\ applied' = [applied EXCEPT ![t] = @ \cup SocketTransforms(cfg) \cup SocketCut(cfg)]
  /\ IF SocketCut(cfg) = {} THEN AwaitCompletion(t) ELSE Goto(t, "rest")
  /\ UNCHANGED <<vars, scenario, verdict, spare, shown>>

\* The second segment of a cut ClientHello, after the configured delay.
WriteRest(t) ==
  /\ task[t].pc = "rest"
  /\ SendData(t, "rest")
  /\ AwaitCompletion(t)
  /\ UNCHANGED <<vars, scenario, verdict, spare, applied, shown>>

-----------------------------------------------------------------------------
(* Timeouts, I/O errors, cancellation *)

\* A failed connect has dropped its socket; any other failure happens with the
\* upstream socket open.
Failed(t) ==
  task' = [task EXCEPT ![t].pc = IF @ = "connecting" THEN "unconnected" ELSE "expired",
                       ![t].open = @ /\ task[t].pc # "connecting"]

\* Variation: reading the ClientHello has no deadline.
TimeOutOfWaits(t) ==
  /\ "timeout" \in Faults
  /\ \/ task[t].pc = "connecting" /\ ~conn[t].up
     \/ task[t].pc = "parked" /\ ~waiter[t].woken
  /\ Failed(t)
  /\ UNCHANGED <<vars, scenario, conn, queue, verdict, spare, applied, shown>>

\* tokio::time::timeout: the inner future is polled first, so a wait that is
\* about to be woken does not expire; a decision may still come in between the
\* expiry and the entry.finish of GiveUpOn.
TimeOut(t) ==
  /\ "timeout" \in Faults
  /\ \/ task[t].pc = "connecting" /\ ~conn[t].up
     \/ task[t].pc = "parked" /\ ~waiter[t].woken
     \/ task[t].pc = "reading"
  /\ Failed(t)
  /\ UNCHANGED <<vars, scenario, conn, queue, verdict, spare, applied, shown>>

\* A refused connect, a client that closes before its ClientHello, a failed
\* upstream write.
IoError(t) ==
  /\ "io" \in Faults
  /\ \/ task[t].pc = "connecting" /\ ~conn[t].up
     \/ task[t].pc \in {"prefix", "reading", "writing", "rest"}
  /\ Failed(t)
  /\ UNCHANGED <<vars, scenario, conn, queue, verdict, spare, applied, shown>>

\* Variation: the error arms overwrite the outcome.
GiveUpOverwriting(t) ==
  /\ task[t].pc \in {"unconnected", "expired"}
  /\ state' = [state EXCEPT ![t].outcome = "UnexpectedClose", ![t].monitor = FALSE]
  /\ task' = [task EXCEPT ![t].pc = "closing", ![t].report = "UnexpectedClose"]
  /\ UNCHANGED <<table, born, waiter, sweep, handlerVars>>
  /\ UNCHANGED <<scenario, conn, queue, verdict, spare, applied, shown>>

\* The error arms: entry.finish(UnexpectedClose), the event, the early return.
GiveUpOn(t) ==
  /\ task[t].pc \in {"unconnected", "expired"}
  /\ Finish(t, "UnexpectedClose")
  /\ task' = [task EXCEPT ![t].pc = "closing",
                          ![t].report = IF task[t].pc = "unconnected"
                                        THEN "ConnectionError" ELSE "UnexpectedClose"]
  /\ UNCHANGED <<table, born, sweep, handlerVars>>
  /\ UNCHANGED <<scenario, conn, queue, verdict, spare, applied, shown>>

\* The listener is dropped and its JoinSet aborts the task at an await.
Cancel(t) ==
  /\ "cancel" \in Faults
  /\ task[t].pc \in {"connecting", "parked", "prefix", "reading", "writing", "rest",
                     "relaying"}
  /\ Goto(t, "closing")
  /\ UNCHANGED <<vars, scenario, conn, queue, verdict, spare, applied, shown>>

-----------------------------------------------------------------------------
(* After the bypass, and the end of the scope *)

\* `if !settings.fragment_all_data { drop(cleanup) }`.
TaskRelease(t) ==
  /\ task[t].pc = "release"
  /\ IF FragmentAllData(cfg)
     THEN Goto(t, "relaying") /\ UNCHANGED flowVars
     ELSE /\ RemoveFlow(task[t].key)
          /\ task' = [task EXCEPT ![t].pc = "relaying", ![t].guard = FALSE]
  /\ UNCHANGED <<handlerVars, scenario, conn, queue, verdict, spare, applied, shown>>

\* The relay passes client data on: the ClientHello if it was not sent yet,
\* then one more segment.
RelayData(t) ==
  /\ task[t].pc = "relaying"
  /\ conn[t].sent < scenario.sent
  /\ \/ task[t].stage = "initial" /\ conn[t].sent = 0 /\ SendData(t, "hello")
     \/ conn[t].sent > 0 /\ SendData(t, "more")
  /\ UNCHANGED <<vars, scenario, task, verdict, spare, applied, shown>>

RelayEnds(t) ==
  /\ task[t].pc = "relaying"
  /\ task' = [task EXCEPT ![t].pc = "closing", ![t].report = "RelayFinished"]
  /\ UNCHANGED <<vars, scenario, conn, queue, verdict, spare, applied, shown>>

\* Variation: the scope ends without a guard.
CloseWithoutGuard(t) ==
  /\ task[t].pc = "closing"
  /\ task' = [task EXCEPT ![t].pc = "done", ![t].open = FALSE, ![t].guard = FALSE]
  /\ IF conn[t].up THEN Send(FromClient(t, "none", FinFlags)) ELSE UNCHANGED queue
  /\ UNCHANGED <<vars, scenario, conn, verdict, spare, applied, shown>>

\* `outgoing` is declared after the guard, so it is dropped first; its kernel
\* says goodbye with a FIN and frees the port.
CloseSocket(t) ==
  /\ task[t].pc = "closing"
  /\ task' = [task EXCEPT ![t].pc = "guard", ![t].open = FALSE]
  /\ IF conn[t].up THEN Send(FromClient(t, "none", FinFlags)) ELSE UNCHANGED queue
  /\ UNCHANGED <<vars, scenario, conn, verdict, spare, applied, shown>>

\* The scopeguard runs remove_flow if it is still armed.
DropGuard(t) ==
  /\ task[t].pc = "guard"
  /\ IF task[t].guard THEN RemoveFlow(task[t].key) ELSE UNCHANGED flowVars
  /\ task' = [task EXCEPT ![t].pc = "done", ![t].guard = FALSE]
  /\ UNCHANGED <<handlerVars, scenario, conn, queue, verdict, spare, applied, shown>>

-----------------------------------------------------------------------------
(* The whole *)

\* flow_controller.reset() after the data plane was rebuilt.
ResetFlows == "reset" \in Faults /\ ResetStep /\ UNCHANGED <<handlerVars, connVars>>

\* The statements a task runs by itself once it is scheduled.
TaskStep(t) ==
  \/ TaskRegister(t) \/ TaskRefused(t) \/ Connect(t) \/ Connected(t)
  \/ TaskSubscribe(t) \/ TaskCheck(t) \/ TaskWake(t)
  \/ WritePrefix(t) \/ WriteHello(t) \/ WriteRest(t) \/ GiveUpOn(t)
  \/ TaskRelease(t) \/ CloseSocket(t) \/ DropGuard(t)

\* What its environment does to it.
Environment(t) ==
  \/ Accept(t) \/ ReadHello(t) \/ RelayData(t) \/ RelayEnds(t)
  \/ TimeOut(t) \/ IoError(t) \/ Cancel(t)

\* Every connection is over and the network is quiet.
AllDone ==
  /\ \A t \in scenario.clients : task[t].pc = "done"
  /\ queue = <<>>
  /\ UNCHANGED allVars

ConnNext ==
  \/ CaptureStep
  \/ Extra
  \/ ResetFlows
  \/ \E t \in Entries : TaskStep(t) \/ Environment(t)
  \/ AllDone

ConnSpec == ConnInit /\ [][ConnNext]_allVars

\* The runtime polls every task that is ready, timers fire, and the capture
\* thread keeps draining its queue.  An eager client does send its ClientHello;
\* nothing else is assumed of a client, of the server's extra packets or of the
\* faults.
EagerHello(t) == scenario.eager /\ ReadHello(t)
FairSpec ==
  /\ ConnSpec
  /\ WF_allVars(CaptureStep)
  /\ \A t \in Entries :
       WF_allVars(TaskStep(t)) /\ WF_allVars(TimeOut(t)) /\ WF_allVars(EagerHello(t))

-----------------------------------------------------------------------------
(* Properties *)

\* Bytes are relayed only on a flow whose bypass succeeded, and the success
\* the task acts on is still the flow's outcome, whatever the capture thread,
\* a timeout or a reset decide meanwhile.
RelayOnlyAfterBypass ==
  \A t \in Entries :
    task[t].pc \in {"release", "relaying"} \/ task[t].report = "RelayFinished"
    => state[t].outcome = "FakeDataAcked"

\* Every visible flow has a live owner that will release it: the guard of the
\* task that registered it, under that key.  No exit path leaks an entry.
NoLeakedFlow ==
  \A k \in Keys :
    table[k] # NoEntry => task[table[k]].guard /\ task[table[k]].key = k

\* A packet in the queue belongs to a connection that has a port, so the capture
\* thread can look its flow up; a task past register_flow has allocated its entry,
\* and only such a task has an armed guard.
OwnersKnown ==
  /\ \A i \in DOMAIN queue : task[queue[i].owner].key \in Keys
  /\ \A t \in Entries :
       /\ task[t].pc \in WithFlow \/ task[t].guard => t \in born
       /\ task[t].pc \in {"idle", "bound"} => ~task[t].guard

\* What a set-up keeps at every step, however it ends.
ConnInv == ConnTypeOK /\ OwnersKnown /\ RelayOnlyAfterBypass /\ NoLeakedFlow

\* No lost wakeup: a task does not sleep on a decided or ready flow unless one
\* of its futures has fired (proxy.rs 515, "Subscribe before checking state:
\* the intercept thread may signal notify_waiters between the check and the
\* first await").
NoLostWakeup ==
  \A t \in Entries :
    task[t].pc = "parked" /\ Progress(t) # "Pending" => waiter[t].woken

\* While a task counts on its flow and no reset sweeps the table, the flow is
\* there: nobody else's release removes it, even when two connections use the
\* same port one after the other.
FlowStaysRegistered ==
  "reset" \notin Faults => \A t \in Entries : task[t].guard => table[task[t].key] = t

\* The fake packet goes first: when a ClientHello leaves, every fake-packet
\* method that had something to stage has acted on that connection, whether the
\* others staged theirs or gave up (composite.rs 22, "otherwise the abort is
\* ignored").  The exception is a last member that gives up: its answer, complete
\* and accept, sends the ACK without the fake (181, 467).
FakeBeforeHello ==
  \A t \in Entries :
    shown[t] # None /\ ~LastGivesUp(cfg, Stamped) =>
      {cfg.list[i] : i \in Staging(cfg, Stamped)} \subseteq shown[t]

\* On an undisturbed network every listed method has acted on the connection when
\* its ClientHello leaves, and both sides agree on fragment-all mode: when the relay
\* starts, the handler still rewrites the flow exactly when the task kept it
\* registered.  Behind an SNI-boundary cut, tls_frag is for later writes only
\* (proxy.rs 964).
Calm == Faults = {}
EveryMemberActs ==
  LET later == IF SocketCut(cfg) = {"tls_frag"} THEN {} ELSE {"tls_frag"} IN
  Calm => \A t \in Entries :
            /\ shown[t] # None => Listed(cfg) \ later \subseteq shown[t]
            /\ task[t].pc = "relaying" => (task[t].guard <=> state[t].fragment_all_data)

\* The behaviour of the handler inside the whole system is one that Handler
\* allows, so what is proved about Handler holds here.
ImplementsHandler == Spec

\* Setting a connection up ends: where timers run, no interleaving of packets,
\* wakeups, resets and timeouts leaves the client hanging; on an undisturbed network,
\* with a client that sends its ClientHello, the connection reaches the relay.
SetupEnds ==
  \A t \in Entries :
    (task[t].pc = "bound" /\ ("timeout" \in Faults \/ (Calm /\ scenario.eager)))
      ~> (task[t].pc = "relaying" \/ (task[t].pc = "done" /\ ~Calm))
=============================================================================
