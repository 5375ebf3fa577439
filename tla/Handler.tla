------------------------------- MODULE Handler -------------------------------
(***************************************************************************)
(* The packet handler (handler.rs) run by the capture thread for every     *)
(* TCP/IPv4 packet of the target, on the entries of the flow table that    *)
(* the proxy tasks register, finish and release concurrently.              *)
(*                                                                         *)
(* on_packet is three kinds of step of the capture thread, because two     *)
(* points of it let go of shared state:                                    *)
(*   Lookup    clones the Arc out of the table;                            *)
(*   Handle    takes the entry's mutex and runs to `drop(state)` or to the *)
(*             return;                                                     *)
(*   Deferred  is entry.finish / entry.signal_outcome called after         *)
(*             `drop(state)`, which takes the mutex again.                 *)
(* Packets are arbitrary: any flags, sequence and acknowledgment numbers,  *)
(* in any order.  The bypass method is arbitrary too (Arc<dyn              *)
(* BypassMethod>): it may answer each packet with any MethodAction.        *)
(***************************************************************************)
EXTENDS Flow

CONSTANT Segments   \* the flag combinations and payload lengths considered

SegmentShapes == [syn : BOOLEAN, ack : BOOLEAN, fin : BOOLEAN, rst : BOOLEAN,
                  len : Nat]

ASSUME SegmentsAssumption == Segments \subseteq SegmentShapes

VARIABLES
  thread,   \* what the capture thread is about to do
  staged,   \* history: mutations the handler had emitted, per stage
  closing   \* history: flows whose FIN or RST was seen in fragment-all mode

handlerVars == <<thread, staged, closing>>
vars == <<flowVars, handlerVars>>

Directions == {"Outbound", "Inbound"}
Verdicts == {"Accept", "AcceptModified"}

Packets == [direction : Directions, flags : Segments, seq : SeqNum, ack : SeqNum]

MethodActions ==
  [kind : {"EmitFakeAndAccept"}, complete_immediately : BOOLEAN,
   continue_with_data : BOOLEAN]
  \cup
  [kind : {"CompleteAndAccept", "PassThrough", "AbortAndAccept"},
   complete_immediately : {FALSE}, continue_with_data : {FALSE}]

ThreadStates ==
  [step : {"idle", "hold", "finish", "signal"},
   entry : Entries \cup {NoEntry},
   outcome : Outcomes \cup {None}]

IdleThread == [step |-> "idle", entry |-> NoEntry, outcome |-> None]

\* How often a stage emitted a mutation: never, once, more than once.
Tally == 0 .. 2
Bump(n) == IF n < 2 THEN n + 1 ELSE n

HandlerTypeOK ==
  /\ FlowTypeOK
  /\ thread \in ThreadStates
  /\ thread.step # "idle" => thread.entry \in Entries
  /\ thread.step \in {"finish", "signal"} => thread.outcome \in Outcomes
  /\ staged \in [Entries -> [fake : Tally, data : Tally]]
  /\ closing \in SUBSET Entries

HandlerInit ==
  /\ FlowInit
  /\ thread = IdleThread
  /\ staged = [e \in Entries |-> [fake |-> 0, data |-> 0]]
  /\ closing = {}

-----------------------------------------------------------------------------
(* PacketView predicates and wrapping arithmetic *)

IsBareSyn(p) ==
  p.flags.syn /\ ~p.flags.ack /\ ~p.flags.rst /\ ~p.flags.fin /\ p.flags.len = 0
IsBareAck(p) ==
  p.flags.ack /\ ~p.flags.syn /\ ~p.flags.rst /\ ~p.flags.fin /\ p.flags.len = 0
IsSynAck(p) ==
  p.flags.syn /\ p.flags.ack /\ ~p.flags.rst /\ ~p.flags.fin /\ p.flags.len = 0

WrappingInc(n) == (n + 1) % Modulus
WrappingSub(m, n) == (m + Modulus - n) % Modulus

-----------------------------------------------------------------------------
(* How a step of on_packet ends *)

\* The lock is released by the return; the packet gets this verdict.
Return(e, s, verdict, v) ==
  /\ v = verdict
  /\ state' = [state EXCEPT ![e] = s]
  /\ thread' = IdleThread

\* drop(state), with entry.finish or entry.signal_outcome still to come.
ThenDecide(e, s, step, outcome, verdict, v) ==
  /\ v = verdict
  /\ state' = [state EXCEPT ![e] = s]
  /\ thread' = [step |-> step, entry |-> e, outcome |-> outcome]

\* Handler::unexpected: the packet is forwarded, the flow is closed.
Unexpected(e, v) ==
  /\ v = "Accept"
  /\ Finish(e, "UnexpectedClose")
  /\ thread' = IdleThread
  /\ UNCHANGED <<staged, closing>>

\* The packet is forwarded and nothing changes.
Pass(v) ==
  /\ v = "Accept"
  /\ thread' = IdleThread
  /\ UNCHANGED <<state, waiter, staged, closing>>

CountFake(e) == staged' = [staged EXCEPT ![e].fake = Bump(@)]
CountData(e) == staged' = [staged EXCEPT ![e].data = Bump(@)]

-----------------------------------------------------------------------------
(* Outbound packets *)

OutboundSyn(e, p, v) ==
  LET s == state[e] IN
  /\ p.direction = "Outbound" /\ IsBareSyn(p)
  /\ \/ /\ p.ack # 0 \/ s.syn_seq \notin {None, p.seq}
        /\ Unexpected(e, v)
     \/ /\ p.ack = 0 /\ s.syn_seq \in {None, p.seq}
        /\ Return(e, [s EXCEPT !.syn_seq = p.seq], "Accept", v)
        /\ UNCHANGED <<waiter, staged, closing>>

\* Variation: the ACK is not compared with the server's SYN-ACK.
CompletesWithoutSynAck(s, p) ==
  /\ ~s.fake_sent /\ ~s.waiting_for_data
  /\ s.syn_seq # None
  /\ p.seq = WrappingInc(s.syn_seq)

\* The ACK that ends the three-way handshake of a flow not yet acted on.
CompletesHandshake(s, p) ==
  /\ ~s.fake_sent /\ ~s.waiting_for_data
  /\ s.syn_seq # None /\ s.syn_ack_seq # None
  /\ p.seq = WrappingInc(s.syn_seq)
  /\ p.ack = WrappingInc(s.syn_ack_seq)

\* The method's answer to the handshake-complete ACK.
OnHandshakeCompleteAck(e, act, v) ==
  LET s == state[e] IN
  \/ /\ act.kind = "EmitFakeAndAccept"
     /\ CountFake(e)
     /\ IF act.continue_with_data
        THEN /\ Return(e, [s EXCEPT !.fake_sent = TRUE, !.waiting_for_data = TRUE],
                       "AcceptModified", v)
             /\ waiter' = [waiter EXCEPT ![e] = Notified(@, "ready_for_data")]
        ELSE /\ UNCHANGED waiter
             /\ IF act.complete_immediately
                THEN ThenDecide(e, [s EXCEPT !.fake_sent = TRUE], "finish",
                                "FakeDataAcked", "AcceptModified", v)
                ELSE Return(e, [s EXCEPT !.fake_sent = TRUE], "AcceptModified", v)
  \/ /\ act.kind = "PassThrough"
     /\ Return(e, [s EXCEPT !.waiting_for_data = TRUE], "Accept", v)
     /\ waiter' = [waiter EXCEPT ![e] = Notified(@, "ready_for_data")]
     /\ UNCHANGED staged
  \/ /\ act.kind = "CompleteAndAccept"
     /\ ThenDecide(e, s, "finish", "FakeDataAcked", "Accept", v)
     /\ UNCHANGED <<waiter, staged>>
  \/ /\ act.kind = "AbortAndAccept"
     /\ ThenDecide(e, s, "finish", "UnexpectedClose", "Accept", v)
     /\ UNCHANGED <<waiter, staged>>

OutboundAck(e, p, answers, v) ==
  LET s == state[e] IN
  /\ p.direction = "Outbound" /\ IsBareAck(p)
  /\ \/ s.fragment_all_data /\ Pass(v)
     \/ ~s.fragment_all_data /\ ~CompletesHandshake(s, p) /\ Unexpected(e, v)
     \/ /\ ~s.fragment_all_data /\ CompletesHandshake(s, p)
        /\ \E act \in answers : OnHandshakeCompleteAck(e, act, v)
        /\ UNCHANGED closing

\* A data packet that is offered to the method.
IsStagedData(s, p) ==
  /\ p.flags.len > 0
  /\ (s.waiting_for_data /\ ~s.first_data_modified) \/ s.fragment_all_data

\* The method's answer to the first data packet, or in fragment-all mode to
\* any data packet.
OnFirstDataPacket(e, act, v) ==
  LET s == state[e]
      done == [s EXCEPT !.first_data_modified = TRUE, !.waiting_for_data = FALSE]
  IN
  \/ /\ act.kind = "EmitFakeAndAccept"
     /\ CountData(e)
     /\ IF act.continue_with_data
        THEN ThenDecide(e, [done EXCEPT !.fragment_all_data = TRUE], "signal",
                        "FakeDataAcked", "AcceptModified", v)
        ELSE IF act.complete_immediately
        THEN ThenDecide(e, done, "finish", "FakeDataAcked", "AcceptModified", v)
        ELSE Return(e, [done EXCEPT !.waiting_for_first_data_ack = TRUE],
                    "AcceptModified", v)
  \/ /\ act.kind = "CompleteAndAccept"
     /\ IF s.fragment_all_data
        THEN Return(e, done, "Accept", v)
        ELSE ThenDecide(e, done, "finish", "FakeDataAcked", "Accept", v)
     /\ UNCHANGED staged
  \/ /\ act.kind = "PassThrough"
     /\ Return(e, s, "Accept", v)
     /\ UNCHANGED staged
  \/ /\ act.kind = "AbortAndAccept"
     /\ IF s.fragment_all_data
        THEN Return(e, [done EXCEPT !.fragment_all_data = FALSE, !.monitor = FALSE],
                    "Accept", v)
        ELSE ThenDecide(e, done, "finish", "UnexpectedClose", "Accept", v)
     /\ UNCHANGED staged

OutboundData(e, p, answers, v) ==
  /\ p.direction = "Outbound" /\ ~IsBareSyn(p) /\ ~IsBareAck(p)
  /\ IsStagedData(state[e], p)
  /\ \E act \in answers : OnFirstDataPacket(e, act, v)
  /\ UNCHANGED <<waiter, closing>>

\* Every other outbound packet: retransmissions, FIN, RST, anything else.
OutboundOther(e, p, v) ==
  LET s == state[e] IN
  /\ p.direction = "Outbound" /\ ~IsBareSyn(p) /\ ~IsBareAck(p)
  /\ ~IsStagedData(s, p)
  /\ \/ s.waiting_for_first_data_ack /\ Pass(v)
     \/ /\ ~s.waiting_for_first_data_ack /\ s.fragment_all_data
        /\ LET ends == p.flags.fin \/ p.flags.rst IN
           /\ Return(e, [s EXCEPT !.monitor = @ /\ ~ends], "Accept", v)
           /\ closing' = IF ends THEN closing \cup {e} ELSE closing
        /\ UNCHANGED <<waiter, staged>>
     \/ ~s.waiting_for_first_data_ack /\ ~s.fragment_all_data /\ Unexpected(e, v)

-----------------------------------------------------------------------------
(* Inbound packets *)

InboundSynAck(e, p, v) ==
  LET s == state[e]
      expected == /\ p.ack = WrappingInc(s.syn_seq)
                  /\ s.syn_ack_seq \in {None, p.seq}
  IN
  /\ IsSynAck(p)
  /\ \/ ~expected /\ Unexpected(e, v)
     \/ /\ expected
        /\ Return(e, [s EXCEPT !.syn_ack_seq = p.seq], "Accept", v)
        /\ UNCHANGED <<waiter, staged, closing>>

\* A bare ACK after the fake was sent: it must not acknowledge anything new.
InboundPostFakeAck(e, p, v) ==
  LET s == state[e]
      expected == /\ p.seq = WrappingInc(s.syn_ack_seq)
                  /\ p.ack = WrappingInc(s.syn_seq)
  IN
  /\ IsBareAck(p) /\ s.fake_sent
  /\ \/ ~expected /\ Unexpected(e, v)
     \/ expected /\ s.waiting_for_data /\ Pass(v)
     \/ /\ expected /\ ~s.waiting_for_data
        /\ ThenDecide(e, s, "finish", "FakeDataAcked", "Accept", v)
        /\ UNCHANGED <<waiter, staged, closing>>

\* A bare ACK while the server's ACK of the first data packet is awaited.
InboundFirstDataAck(e, p, v) ==
  LET s == state[e]
      inOrder == p.seq = WrappingInc(s.syn_ack_seq)
      advances == WrappingSub(p.ack, WrappingInc(s.syn_seq)) > 0
  IN
  /\ IsBareAck(p) /\ ~s.fake_sent /\ s.waiting_for_first_data_ack
  /\ \/ ~inOrder /\ Unexpected(e, v)
     \/ inOrder /\ ~advances /\ Pass(v)
     \/ /\ inOrder /\ advances
        /\ ThenDecide(e, [s EXCEPT !.waiting_for_first_data_ack = FALSE],
                      "finish", "FakeDataAcked", "Accept", v)
        /\ UNCHANGED <<waiter, staged, closing>>

Inbound(e, p, v) ==
  LET s == state[e] IN
  /\ p.direction = "Inbound"
  /\ \/ s.syn_seq = None /\ Unexpected(e, v)
     \/ s.syn_seq # None /\ s.fragment_all_data /\ Pass(v)
     \/ /\ s.syn_seq # None /\ ~s.fragment_all_data
        /\ \/ InboundSynAck(e, p, v)
           \/ InboundPostFakeAck(e, p, v)
           \/ InboundFirstDataAck(e, p, v)
           \/ /\ ~IsSynAck(p)
              /\ ~(IsBareAck(p) /\ (s.fake_sent \/ s.waiting_for_first_data_ack))
              /\ Unexpected(e, v)

-----------------------------------------------------------------------------
(* The capture thread *)

\* self.flows.get(&key).map(|e| e.clone()): the thread now holds the Arc.
\* A packet of an unknown flow is accepted, which changes nothing here.
Lookup(k) ==
  /\ thread.step = "idle"
  /\ table[k] # NoEntry
  /\ thread' = [IdleThread EXCEPT !.step = "hold", !.entry = table[k]]
  /\ UNCHANGED <<flowVars, staged, closing>>

\* From `entry.state.lock()` to the end of the critical section.
Handle(p, handshakeAnswers, dataAnswers, v) ==
  LET e == thread.entry IN
  /\ thread.step = "hold"
  /\ IF state[e].monitor
     THEN \/ OutboundSyn(e, p, v)
          \/ OutboundAck(e, p, handshakeAnswers, v)
          \/ OutboundData(e, p, dataAnswers, v)
          \/ OutboundOther(e, p, v)
          \/ Inbound(e, p, v)
     ELSE Pass(v)
  /\ UNCHANGED <<table, born, sweep>>

\* entry.finish / entry.signal_outcome after drop(state).
Deferred ==
  /\ \/ thread.step = "finish" /\ Finish(thread.entry, thread.outcome)
     \/ thread.step = "signal" /\ SignalOutcome(thread.entry, thread.outcome)
  /\ thread' = IdleThread
  /\ UNCHANGED <<table, born, sweep, staged, closing>>

-----------------------------------------------------------------------------
(* The proxy tasks and the data plane, as the handler meets them: any task  *)
(* may register, subscribe, give up or release at any moment.               *)

Register == \E k \in Keys, e \in Entries : RegisterFlow(k, e) /\ UNCHANGED handlerVars

Release == \E k \in Keys : RemoveFlow(k) /\ UNCHANGED handlerVars

GiveUp ==
  \E e \in born :
    /\ Finish(e, "UnexpectedClose")
    /\ UNCHANGED <<table, born, sweep, handlerVars>>

Await ==
  \E e \in born, channels \in {{"notify"}, Channels} :
    /\ Subscribe(e, channels)
    /\ UNCHANGED <<table, born, state, sweep, handlerVars>>

Reset == ResetStep /\ UNCHANGED handlerVars

Capture ==
  \/ \E k \in Keys : Lookup(k)
  \/ \E p \in Packets, v \in Verdicts : Handle(p, MethodActions, MethodActions, v)
  \/ Deferred

Next == Register \/ Release \/ GiveUp \/ Await \/ Reset \/ Capture

Spec == HandlerInit /\ [][Next]_vars

-----------------------------------------------------------------------------
(* Properties *)

\* The sequence numbers behind every `expect` and `unwrap` are there: once the
\* handler has acted on a flow, or waits for its data, both ISNs are known, so
\* no packet and no answer of a method makes the capture thread panic
\* (handler.rs 314, 343, 352; wrong_seq.rs 48; wrong_ack.rs 50; fake_tls.rs 106).
NoPanic ==
  \A e \in Entries :
    LET s == state[e] IN
    \/ s.fake_sent \/ s.waiting_for_data
    \/ s.waiting_for_first_data_ack \/ s.fragment_all_data
    => s.syn_seq # None /\ s.syn_ack_seq # None

\* A decision about a flow is final.  The capture thread decides after it let
\* go of the lock, so its decision races with the task's timeout and with a
\* reset; whoever is second must change nothing (flow.rs 123-143, "only the
\* first call sets `outcome`").
OutcomeFinal ==
  [][\A e \in Entries :
       state[e].outcome # None => state'[e].outcome = state[e].outcome]_vars

\* A flow is still tracked after its decision only when it succeeded in
\* fragment-all mode; every other decided flow passes through untouched.
DecidedIsReleased ==
  \A e \in Entries :
    state[e].outcome # None /\ state[e].monitor
    => state[e].fragment_all_data /\ state[e].outcome = "FakeDataAcked"

\* Each stage rewrites at most one packet of a flow, whatever is retransmitted
\* or duplicated and whatever the method answers; only fragment-all mode
\* rewrites further data packets.
OneMutationPerStage ==
  \A e \in Entries :
    /\ staged[e].fake <= 1
    /\ staged[e].data <= 1 \/ state[e].fragment_all_data \/ ~state[e].monitor

\* Fragment-all mode lasts: a flow that succeeded in it is monitored until its
\* own FIN or RST, no matter which answers and packets come in between
\* (ip_frag.rs 35, "keep rewriting every outbound data packet until the
\* connection closes").
FragmentAllLasts ==
  \A e \in Entries :
    state[e].fragment_all_data /\ state[e].outcome = "FakeDataAcked"
    => state[e].monitor \/ e \in closing

\* A waiter that subscribed before the decision is woken by it: no decision of
\* either thread reaches the entry without firing `notify`.
DecisionWakes ==
  [][\A e \in Entries :
       state[e].outcome = None /\ state'[e].outcome # None
         /\ "notify" \in waiter[e].armed
       => waiter'[e].woken]_vars

-----------------------------------------------------------------------------
(* The inductive invariant.  What a flow's record may look like, given its   *)
(* history and whether the capture thread still owes it a signal_outcome.    *)

SignalPending(e) == thread.step = "signal" /\ thread.entry = e

EntryInv(s, g, closed, pending) ==
  /\ s.fake_sent \/ s.waiting_for_data
       \/ s.waiting_for_first_data_ack \/ s.fragment_all_data
     => s.syn_seq # None /\ s.syn_ack_seq # None
  /\ s.outcome = None => s.monitor
  /\ s.outcome # None /\ s.monitor
     => s.fragment_all_data /\ s.outcome = "FakeDataAcked"
  /\ s.fragment_all_data => s.outcome # None \/ pending
  /\ s.fragment_all_data /\ s.outcome = "FakeDataAcked" => s.monitor \/ closed
  /\ ~s.fake_sent => g.fake = 0
  /\ g.fake <= 1
  /\ ~s.first_data_modified => g.data = 0
  /\ g.data <= 1 \/ s.fragment_all_data \/ ~s.monitor

\* NoPanic, DecidedIsReleased, FragmentAllLasts and OneMutationPerStage with
\* what makes them inductive: an undecided flow is monitored, fragment-all mode
\* is decided or about to be, and the tallies follow the flags of the record.
HandlerInv ==
  /\ HandlerTypeOK
  /\ thread.step = "signal"
     => state[thread.entry].fragment_all_data /\ thread.outcome = "FakeDataAcked"
  /\ \A e \in Entries :
       EntryInv(state[e], staged[e], e \in closing, SignalPending(e))

=============================================================================
