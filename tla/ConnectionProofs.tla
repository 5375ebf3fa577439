--------------------------- MODULE ConnectionProofs ---------------------------
(***************************************************************************)
(* Proofs about Handler, for every number of flows and keys, every         *)
(* sequence-number space, every packet and every answer of a method; and   *)
(* about Connection, for every number of tasks and ports, every list of    *)
(* methods and every combination of faults.                                *)
(***************************************************************************)
EXTENDS Connection, SequenceTheorems, WellFoundedInduction, TLAPS

(***************************************************************************)
(* Handler.                                                                *)
(*                                                                         *)
(* Every step of the model rewrites at most one flow record.  LocalStep    *)
(* reduces a step of the capture thread to that record: it is enough that  *)
(* the new record satisfies EntryInv.  The rest of the proof computes the  *)
(* new record for each branch of on_packet.                                *)
(***************************************************************************)

Tallies == [fake : Tally, data : Tally]

Finished(s, o) ==
  IF s.outcome = None THEN [s EXCEPT !.outcome = o, !.monitor = FALSE] ELSE s

-----------------------------------------------------------------------------
(* One record *)

LEMMA FinishedType ==
  ASSUME NEW s \in FlowStates, NEW o \in Outcomes
  PROVE  Finished(s, o) \in FlowStates
BY DEF FlowStates, Finished

LEMMA NotifiedType ==
  ASSUME NEW w \in Waiters, NEW channel
  PROVE  Notified(w, channel) \in Waiters
BY DEF Waiters, Notified

LEMMA BumpType ==
  ASSUME NEW n \in Tally
  PROVE  Bump(n) \in Tally /\ (n = 0 => Bump(n) = 1)
BY DEF Tally, Bump

\* FlowEntry::finish rewrites one record and leaves the types alone.
LEMMA FinishEffect ==
  ASSUME FlowTypeOK, NEW e \in Entries, NEW o \in Outcomes, Finish(e, o)
  PROVE  /\ state' = [state EXCEPT ![e] = Finished(state[e], o)]
         /\ waiter' \in [Entries -> Waiters]
<1>1. CASE state[e].outcome = None
  <2>1. Notified(waiter[e], "notify") \in Waiters
    BY NotifiedType DEF FlowTypeOK
  <2> QED BY <1>1, <2>1 DEF Finish, Finished, FlowTypeOK
<1>2. CASE state[e].outcome # None
  BY <1>2 DEF Finish, Finished, FlowTypeOK
<1> QED BY <1>1, <1>2

-----------------------------------------------------------------------------
(* One step *)

\* A step of the capture thread, which holds entry e, is safe when the record
\* it leaves behind is.
LEMMA LocalStep ==
  ASSUME HandlerInv,
         NEW e \in Entries, thread.step = "hold", thread.entry = e,
         NEW r \in FlowStates, NEW g \in Tallies, NEW c \in SUBSET Entries,
         c = closing \/ c = closing \cup {e},
         state' = [state EXCEPT ![e] = r],
         staged' = [staged EXCEPT ![e] = g],
         closing' = c,
         waiter' \in [Entries -> Waiters],
         UNCHANGED <<table, born, sweep>>,
         thread' \in ThreadStates,
         \/ thread' = IdleThread
         \/ /\ thread'.step \in {"finish", "signal"}
            /\ thread'.entry = e
            /\ thread'.outcome \in Outcomes,
         thread'.step = "signal"
           => r.fragment_all_data /\ thread'.outcome = "FakeDataAcked",
         EntryInv(r, g, e \in c, thread'.step = "signal")
  PROVE  HandlerInv'
<1>1. HandlerTypeOK'
  <2>1. /\ state' \in [Entries -> FlowStates]
        /\ staged' \in [Entries -> Tallies]
    BY DEF HandlerInv, HandlerTypeOK, FlowTypeOK, Tallies
  <2>2. /\ thread'.step # "idle" => thread'.entry \in Entries
        /\ thread'.step \in {"finish", "signal"} => thread'.outcome \in Outcomes
    BY DEF IdleThread
  <2>3. /\ table' \in [Keys -> Entries \cup {NoEntry}]
        /\ born' \in SUBSET Entries
        /\ sweep' \in [active : BOOLEAN, todo : SUBSET Keys]
    BY DEF HandlerInv, HandlerTypeOK, FlowTypeOK
  <2> QED BY <2>1, <2>2, <2>3 DEF HandlerTypeOK, FlowTypeOK, Tallies
<1>2. state'[e] = r /\ staged'[e] = g
  BY DEF HandlerInv, HandlerTypeOK, FlowTypeOK, Tallies
<1>3. (thread.step = "signal"
         => state[thread.entry].fragment_all_data /\ thread.outcome = "FakeDataAcked")'
  BY <1>2 DEF IdleThread
<1>4. ASSUME NEW f \in Entries
      PROVE  EntryInv(state[f], staged[f], f \in closing, SignalPending(f))'
  <2>1. CASE f = e
    <3>1. SignalPending(e)' = (thread'.step = "signal")
      BY DEF SignalPending, IdleThread
    <3> QED BY <1>2, <2>1, <3>1
  <2>2. CASE f # e
    <3>1. state'[f] = state[f] /\ staged'[f] = staged[f]
      BY <2>2 DEF HandlerInv, HandlerTypeOK, FlowTypeOK, Tallies
    <3>2. (f \in closing') = (f \in closing)
      BY <2>2
    <3>3. ~SignalPending(f) /\ ~SignalPending(f)'
      BY <2>2 DEF SignalPending, IdleThread
    <3> QED BY <3>1, <3>2, <3>3 DEF HandlerInv, EntryInv
  <2> QED BY <2>1, <2>2
<1> QED BY <1>1, <1>3, <1>4 DEF HandlerInv

\* What the invariant says about the record the thread holds.
LEMMA HeldEntry ==
  ASSUME HandlerInv, NEW e \in Entries, thread.step = "hold", thread.entry = e
  PROVE  /\ state[e] \in FlowStates
         /\ waiter \in [Entries -> Waiters]
         /\ waiter[e] \in Waiters
         /\ staged[e] \in Tallies
         /\ staged = [staged EXCEPT ![e] = staged[e]]
         /\ state = [state EXCEPT ![e] = state[e]]
         /\ closing \in SUBSET Entries
         /\ IdleThread \in ThreadStates
         /\ EntryInv(state[e], staged[e], e \in closing, FALSE)
<1>1. EntryInv(state[e], staged[e], e \in closing, SignalPending(e))
  BY DEF HandlerInv
<1>2. SignalPending(e) = FALSE
  BY DEF SignalPending
<1>3. IdleThread \in ThreadStates
  BY DEF IdleThread, ThreadStates
<1> QED BY <1>1, <1>2, <1>3 DEF HandlerInv, HandlerTypeOK, FlowTypeOK, Tallies

LEMMA PassStep ==
  ASSUME HandlerInv, NEW e \in Entries, thread.step = "hold", thread.entry = e,
         NEW v, Pass(v), UNCHANGED <<table, born, sweep>>
  PROVE  HandlerInv'
<1> /\ state' = state /\ waiter' = waiter /\ staged' = staged
    /\ closing' = closing /\ thread' = IdleThread
  BY DEF Pass
<1> DEFINE r == state[e]  g == staged[e]
<1>1. thread'.step # "signal" /\ (thread'.step = "signal") = FALSE
  BY DEF IdleThread
<1> HIDE DEF r, g
<1> QED BY HeldEntry, LocalStep, <1>1 DEF r, g

LEMMA UnexpectedStep ==
  ASSUME HandlerInv, NEW e \in Entries, thread.step = "hold", thread.entry = e,
         NEW v, Unexpected(e, v), UNCHANGED <<table, born, sweep>>
  PROVE  HandlerInv'
<1> DEFINE r == Finished(state[e], "UnexpectedClose")
<1>1. "UnexpectedClose" \in Outcomes
  BY DEF Outcomes
<1>2. /\ state' = [state EXCEPT ![e] = r]
      /\ waiter' \in [Entries -> Waiters]
  BY <1>1, FinishEffect DEF Unexpected, HandlerInv, HandlerTypeOK
<1>3. staged' = staged /\ closing' = closing /\ thread' = IdleThread
  BY DEF Unexpected
<1>4. r \in FlowStates
  BY <1>1, HeldEntry, FinishedType
<1>5. EntryInv(r, staged[e], e \in closing, FALSE)
  BY HeldEntry, NoneAssumption DEF EntryInv, Finished, FlowStates, Outcomes
<1>6. (thread'.step = "signal") = FALSE
  BY <1>3 DEF IdleThread
<1> HIDE DEF r
<1> QED BY HeldEntry, LocalStep, <1>2, <1>3, <1>4, <1>5, <1>6

-----------------------------------------------------------------------------
(* Outbound packets *)

LEMMA OutboundSynStep ==
  ASSUME HandlerInv, NEW e \in Entries, thread.step = "hold", thread.entry = e,
         NEW p \in Packets, NEW v, OutboundSyn(e, p, v),
         UNCHANGED <<table, born, sweep>>
  PROVE  HandlerInv'
<1>1. CASE Unexpected(e, v)
  BY <1>1, UnexpectedStep
<1>2. CASE /\ Return(e, [state[e] EXCEPT !.syn_seq = p.seq], "Accept", v)
           /\ UNCHANGED <<waiter, staged, closing>>
  <2> DEFINE r == [state[e] EXCEPT !.syn_seq = p.seq]
  <2>1. p.seq \in SeqNum /\ p.seq # None
    BY NoneAssumption DEF Packets
  <2>2. r \in FlowStates
    BY <2>1, HeldEntry DEF FlowStates
  <2>3. EntryInv(r, staged[e], e \in closing, FALSE)
    BY <2>1, HeldEntry DEF EntryInv, FlowStates
  <2>4. state' = [state EXCEPT ![e] = r] /\ thread' = IdleThread
    BY <1>2 DEF Return
  <2>5. (thread'.step = "signal") = FALSE
    BY <2>4 DEF IdleThread
  <2> HIDE DEF r
  <2> QED BY HeldEntry, LocalStep, <1>2, <2>2, <2>3, <2>4, <2>5
<1> QED BY <1>1, <1>2 DEF OutboundSyn

\* The thread goes idle, leaving record r and tallies g behind.
LEMMA ReturnStep ==
  ASSUME HandlerInv, NEW e \in Entries, thread.step = "hold", thread.entry = e,
         NEW r \in FlowStates, NEW g \in Tallies, NEW answer, NEW v,
         Return(e, r, answer, v),
         staged' = [staged EXCEPT ![e] = g],
         closing' = closing \/ closing' = closing \cup {e},
         waiter' \in [Entries -> Waiters],
         UNCHANGED <<table, born, sweep>>,
         EntryInv(r, g, e \in closing', FALSE)
  PROVE  HandlerInv'
<1>1. state' = [state EXCEPT ![e] = r] /\ thread' = IdleThread
  BY DEF Return
<1>2. (thread'.step = "signal") = FALSE
  BY <1>1 DEF IdleThread
<1>3. closing' \in SUBSET Entries
  BY HeldEntry
<1> QED BY HeldEntry, LocalStep, <1>1, <1>2, <1>3

\* The thread lets go of the lock with a decision still to make.
LEMMA ThenDecideStep ==
  ASSUME HandlerInv, NEW e \in Entries, thread.step = "hold", thread.entry = e,
         NEW r \in FlowStates, NEW g \in Tallies, NEW answer, NEW v,
         NEW step \in {"finish", "signal"}, NEW o \in Outcomes,
         ThenDecide(e, r, step, o, answer, v),
         step = "signal" => r.fragment_all_data /\ o = "FakeDataAcked",
         staged' = [staged EXCEPT ![e] = g],
         UNCHANGED <<waiter, closing, table, born, sweep>>,
         EntryInv(r, g, e \in closing, step = "signal")
  PROVE  HandlerInv'
<1>1. /\ state' = [state EXCEPT ![e] = r]
      /\ thread' = [step |-> step, entry |-> e, outcome |-> o]
  BY DEF ThenDecide
<1>2. thread' \in ThreadStates
  BY <1>1 DEF ThreadStates
<1>3. thread'.step = step /\ thread'.entry = e /\ thread'.outcome = o
  BY <1>1
<1>4. closing \in SUBSET Entries /\ waiter' \in [Entries -> Waiters]
  BY HeldEntry
<1> QED BY LocalStep, <1>1, <1>2, <1>3, <1>4

LEMMA HandshakeAckStep ==
  ASSUME HandlerInv, NEW e \in Entries, thread.step = "hold", thread.entry = e,
         NEW p \in Packets, NEW v, NEW act \in MethodActions,
         CompletesHandshake(state[e], p), state[e].monitor, ~state[e].fragment_all_data,
         OnHandshakeCompleteAck(e, act, v),
         UNCHANGED <<closing, table, born, sweep>>
  PROVE  HandlerInv'
<1> DEFINE s == state[e]
           emitted == [staged[e] EXCEPT !.fake = Bump(@)]
           sent == [s EXCEPT !.fake_sent = TRUE]
           ready == [s EXCEPT !.fake_sent = TRUE, !.waiting_for_data = TRUE]
           defer == [s EXCEPT !.waiting_for_data = TRUE]
<1>1. /\ sent \in FlowStates /\ ready \in FlowStates /\ defer \in FlowStates
      /\ s \in FlowStates
  BY HeldEntry DEF FlowStates
<1>2. staged[e].fake = 0
  BY HeldEntry DEF EntryInv, CompletesHandshake
<1>3. emitted \in Tallies /\ emitted.fake = 1 /\ emitted.data = staged[e].data
  BY <1>2, HeldEntry, BumpType DEF Tallies
<1>4. waiter' \in [Entries -> Waiters]
  <2>1. \/ waiter' = waiter
        \/ waiter' = [waiter EXCEPT ![e] = Notified(waiter[e], "ready_for_data")]
    BY DEF OnHandshakeCompleteAck
  <2>2. Notified(waiter[e], "ready_for_data") \in Waiters
    BY HeldEntry, NotifiedType
  <2> QED BY <2>1, <2>2, HeldEntry
<1>5. /\ EntryInv(sent, emitted, e \in closing, FALSE)
      /\ EntryInv(ready, emitted, e \in closing, FALSE)
      /\ EntryInv(defer, staged[e], e \in closing, FALSE)
  <2>1. s.syn_seq # None /\ s.syn_ack_seq # None
    BY DEF CompletesHandshake
  <2>2. /\ EntryInv(s, staged[e], e \in closing, FALSE)
        /\ s \in FlowStates /\ emitted.fake = 1 /\ emitted.data = staged[e].data
    BY <1>3, HeldEntry
  <2> HIDE DEF emitted
  <2>3. EntryInv(sent, emitted, e \in closing, FALSE)
    BY <2>1, <2>2 DEF EntryInv, FlowStates
  <2>4. EntryInv(ready, emitted, e \in closing, FALSE)
    BY <2>1, <2>2 DEF EntryInv, FlowStates
  <2>5. EntryInv(defer, staged[e], e \in closing, FALSE)
    BY <2>1, <2>2 DEF EntryInv, FlowStates
  <2> QED BY <2>3, <2>4, <2>5
<1>6. "FakeDataAcked" \in Outcomes /\ "UnexpectedClose" \in Outcomes
  BY DEF Outcomes
<1>7. CASE act.kind = "EmitFakeAndAccept"
  <2>1. staged' = [staged EXCEPT ![e] = emitted]
    BY <1>7 DEF OnHandshakeCompleteAck, CountFake
  <2>2. CASE act.continue_with_data
    <3>1. Return(e, ready, "AcceptModified", v)
      BY <1>7, <2>2 DEF OnHandshakeCompleteAck
    <3> HIDE DEF ready, emitted
    <3> QED BY <1>1, <1>3, <1>4, <1>5, <2>1, <3>1, ReturnStep
  <2>3. CASE ~act.continue_with_data /\ act.complete_immediately
    <3>1. /\ ThenDecide(e, sent, "finish", "FakeDataAcked", "AcceptModified", v)
          /\ UNCHANGED waiter
      BY <1>7, <2>3 DEF OnHandshakeCompleteAck
    <3>2. EntryInv(sent, emitted, e \in closing, "finish" = "signal")
      BY <1>5 DEF EntryInv
    <3> HIDE DEF sent, emitted
    <3> QED BY <1>1, <1>3, <1>6, <2>1, <3>1, <3>2, ThenDecideStep
  <2>4. CASE ~act.continue_with_data /\ ~act.complete_immediately
    <3>1. Return(e, sent, "AcceptModified", v)
      BY <1>7, <2>4 DEF OnHandshakeCompleteAck
    <3> HIDE DEF sent, emitted
    <3> QED BY <1>1, <1>3, <1>4, <1>5, <2>1, <3>1, ReturnStep
  <2> QED BY <2>2, <2>3, <2>4
<1>8. CASE act.kind = "PassThrough"
  <2>1. Return(e, defer, "Accept", v) /\ staged' = staged
    BY <1>8 DEF OnHandshakeCompleteAck
  <2> HIDE DEF defer
  <2> QED BY <1>1, <1>4, <1>5, <2>1, HeldEntry, ReturnStep
<1>9. CASE act.kind \in {"CompleteAndAccept", "AbortAndAccept"}
  <2>1. PICK o \in Outcomes : ThenDecide(e, s, "finish", o, "Accept", v)
    BY <1>6, <1>9 DEF OnHandshakeCompleteAck
  <2>2. UNCHANGED <<waiter, staged>>
    BY <1>9 DEF OnHandshakeCompleteAck
  <2>3. EntryInv(s, staged[e], e \in closing, "finish" = "signal")
    BY HeldEntry DEF EntryInv
  <2> HIDE DEF s
  <2> QED BY <1>1, <2>1, <2>2, <2>3, HeldEntry, ThenDecideStep
<1> QED BY <1>7, <1>8, <1>9 DEF OnHandshakeCompleteAck

LEMMA OutboundAckStep ==
  ASSUME HandlerInv, NEW e \in Entries, thread.step = "hold", thread.entry = e,
         NEW p \in Packets, NEW v, NEW answers \in SUBSET MethodActions,
         state[e].monitor, OutboundAck(e, p, answers, v),
         UNCHANGED <<table, born, sweep>>
  PROVE  HandlerInv'
<1>1. CASE Pass(v)
  BY <1>1, PassStep
<1>2. CASE Unexpected(e, v)
  BY <1>2, UnexpectedStep
<1>3. CASE /\ ~state[e].fragment_all_data /\ CompletesHandshake(state[e], p)
           /\ \E act \in answers : OnHandshakeCompleteAck(e, act, v)
           /\ UNCHANGED closing
  <2>1. PICK act \in answers : OnHandshakeCompleteAck(e, act, v)
    BY <1>3
  <2> QED BY <1>3, <2>1, HandshakeAckStep
<1> QED BY <1>1, <1>2, <1>3 DEF OutboundAck

LEMMA DataPacketStep ==
  ASSUME HandlerInv, NEW e \in Entries, thread.step = "hold", thread.entry = e,
         NEW p \in Packets, NEW v, NEW act \in MethodActions,
         IsStagedData(state[e], p), state[e].monitor,
         OnFirstDataPacket(e, act, v),
         UNCHANGED <<waiter, closing, table, born, sweep>>
  PROVE  HandlerInv'
<1> DEFINE s == state[e]
           done == [s EXCEPT !.first_data_modified = TRUE, !.waiting_for_data = FALSE]
           all == [done EXCEPT !.fragment_all_data = TRUE]
           await == [done EXCEPT !.waiting_for_first_data_ack = TRUE]
           stop == [done EXCEPT !.fragment_all_data = FALSE, !.monitor = FALSE]
           emitted == [staged[e] EXCEPT !.data = Bump(@)]
<1>1. s \in FlowStates /\ EntryInv(s, staged[e], e \in closing, FALSE)
  BY HeldEntry
<1>2. done \in FlowStates
  BY <1>1 DEF FlowStates
<1>3. all \in FlowStates /\ await \in FlowStates /\ stop \in FlowStates
  <2> HIDE DEF done
  <2>1. all \in FlowStates
    BY <1>2 DEF FlowStates
  <2>2. await \in FlowStates
    BY <1>2 DEF FlowStates
  <2>3. stop \in FlowStates
    BY <1>2 DEF FlowStates
  <2> QED BY <2>1, <2>2, <2>3
<1>4. /\ emitted \in Tallies /\ emitted.fake = staged[e].fake
      /\ s.fragment_all_data \/ emitted.data = 1
  <2>1. s.fragment_all_data \/ staged[e].data = 0
    BY <1>1 DEF EntryInv, IsStagedData
  <2> QED BY <2>1, HeldEntry, BumpType DEF Tallies
<1>5. s.syn_seq # None /\ s.syn_ack_seq # None
  BY <1>1 DEF EntryInv, IsStagedData
<1>6. "FakeDataAcked" \in Outcomes /\ "UnexpectedClose" \in Outcomes
  BY DEF Outcomes
<1>7. waiter' \in [Entries -> Waiters]
  BY HeldEntry
<1>8. CASE act.kind = "EmitFakeAndAccept"
  <2>1. staged' = [staged EXCEPT ![e] = emitted]
    BY <1>8 DEF OnFirstDataPacket, CountData
  <2>2. CASE act.continue_with_data
    <3>1. ThenDecide(e, all, "signal", "FakeDataAcked", "AcceptModified", v)
      BY <1>8, <2>2 DEF OnFirstDataPacket
    <3>2. EntryInv(all, emitted, e \in closing, "signal" = "signal")
      <4> HIDE DEF emitted
      <4> QED BY <1>1, <1>4, <1>5 DEF EntryInv, FlowStates
    <3>3. all.fragment_all_data
      BY <1>1 DEF FlowStates
    <3> HIDE DEF all, emitted
    <3> QED BY <1>3, <1>4, <1>6, <2>1, <3>1, <3>2, <3>3, ThenDecideStep
  <2>3. CASE ~act.continue_with_data /\ act.complete_immediately
    <3>1. ThenDecide(e, done, "finish", "FakeDataAcked", "AcceptModified", v)
      BY <1>8, <2>3 DEF OnFirstDataPacket
    <3>2. EntryInv(done, emitted, e \in closing, "finish" = "signal")
      <4> HIDE DEF emitted
      <4> QED BY <1>1, <1>4, <1>5 DEF EntryInv, FlowStates
    <3> HIDE DEF done, emitted
    <3> QED BY <1>2, <1>4, <1>6, <2>1, <3>1, <3>2, ThenDecideStep
  <2>4. CASE ~act.continue_with_data /\ ~act.complete_immediately
    <3>1. Return(e, await, "AcceptModified", v)
      BY <1>8, <2>4 DEF OnFirstDataPacket
    <3>2. EntryInv(await, emitted, e \in closing, FALSE)
      <4> HIDE DEF emitted
      <4> QED BY <1>1, <1>4, <1>5 DEF EntryInv, FlowStates
    <3> HIDE DEF await, emitted
    <3> QED BY <1>3, <1>4, <1>7, <2>1, <3>1, <3>2, ReturnStep
  <2> QED BY <2>2, <2>3, <2>4
<1>9. EntryInv(done, staged[e], e \in closing, FALSE)
  BY <1>1, <1>5 DEF EntryInv, FlowStates
<1>10. CASE act.kind = "CompleteAndAccept"
  <2>1. CASE s.fragment_all_data
    <3>1. Return(e, done, "Accept", v) /\ staged' = staged
      BY <1>10, <2>1 DEF OnFirstDataPacket
    <3> HIDE DEF done
    <3> QED BY <1>2, <1>7, <1>9, <3>1, HeldEntry, ReturnStep
  <2>2. CASE ~s.fragment_all_data
    <3>1. /\ ThenDecide(e, done, "finish", "FakeDataAcked", "Accept", v)
          /\ staged' = staged
      BY <1>10, <2>2 DEF OnFirstDataPacket
    <3>2. EntryInv(done, staged[e], e \in closing, "finish" = "signal")
      BY <1>9 DEF EntryInv
    <3> HIDE DEF done
    <3> QED BY <1>2, <1>6, <3>1, <3>2, HeldEntry, ThenDecideStep
  <2> QED BY <2>1, <2>2
<1>11. CASE act.kind = "PassThrough"
  <2>1. Return(e, s, "Accept", v) /\ staged' = staged
    BY <1>11 DEF OnFirstDataPacket
  <2> HIDE DEF s
  <2> QED BY <1>1, <1>7, <2>1, HeldEntry, ReturnStep
<1>12. CASE act.kind = "AbortAndAccept"
  <2>1. CASE s.fragment_all_data
    <3>1. Return(e, stop, "Accept", v) /\ staged' = staged
      BY <1>12, <2>1 DEF OnFirstDataPacket
    <3>2. EntryInv(stop, staged[e], e \in closing, FALSE)
      BY <1>1, <1>5, <2>1 DEF EntryInv, FlowStates
    <3> HIDE DEF stop
    <3> QED BY <1>3, <1>7, <3>1, <3>2, HeldEntry, ReturnStep
  <2>2. CASE ~s.fragment_all_data
    <3>1. /\ ThenDecide(e, done, "finish", "UnexpectedClose", "Accept", v)
          /\ staged' = staged
      BY <1>12, <2>2 DEF OnFirstDataPacket
    <3>2. EntryInv(done, staged[e], e \in closing, "finish" = "signal")
      BY <1>9 DEF EntryInv
    <3> HIDE DEF done
    <3> QED BY <1>2, <1>6, <3>1, <3>2, HeldEntry, ThenDecideStep
  <2> QED BY <2>1, <2>2
<1> QED BY <1>8, <1>10, <1>11, <1>12 DEF OnFirstDataPacket

LEMMA OutboundDataStep ==
  ASSUME HandlerInv, NEW e \in Entries, thread.step = "hold", thread.entry = e,
         NEW p \in Packets, NEW v, NEW answers \in SUBSET MethodActions,
         state[e].monitor, OutboundData(e, p, answers, v),
         UNCHANGED <<table, born, sweep>>
  PROVE  HandlerInv'
<1>1. PICK act \in answers : OnFirstDataPacket(e, act, v)
  BY DEF OutboundData
<1> QED BY <1>1, DataPacketStep DEF OutboundData

LEMMA OutboundOtherStep ==
  ASSUME HandlerInv, NEW e \in Entries, thread.step = "hold", thread.entry = e,
         NEW p \in Packets, NEW v, state[e].monitor, OutboundOther(e, p, v),
         UNCHANGED <<table, born, sweep>>
  PROVE  HandlerInv'
<1>1. CASE Pass(v)
  BY <1>1, PassStep
<1>2. CASE Unexpected(e, v)
  BY <1>2, UnexpectedStep
<1> DEFINE ends == p.flags.fin \/ p.flags.rst
           r == [state[e] EXCEPT !.monitor = @ /\ ~ends]
<1>3. CASE /\ state[e].fragment_all_data
           /\ Return(e, r, "Accept", v)
           /\ closing' = IF ends THEN closing \cup {e} ELSE closing
           /\ UNCHANGED <<waiter, staged>>
  <2>1. state[e] \in FlowStates /\ EntryInv(state[e], staged[e], e \in closing, FALSE)
    BY HeldEntry
  <2>2. r \in FlowStates
    BY <2>1 DEF FlowStates
  <2>3. EntryInv(r, staged[e], e \in closing', FALSE)
    <3>1. CASE ends
      <4>1. e \in closing'
        BY <1>3, <3>1
      <4>2. r = [state[e] EXCEPT !.monitor = FALSE]
        BY <3>1
      <4> HIDE DEF ends
      <4> QED BY <1>3, <2>1, <4>1, <4>2 DEF EntryInv, FlowStates
    <3>2. CASE ~ends
      <4>1. closing' = closing
        BY <1>3, <3>2
      <4>2. r = state[e]
        BY <2>1, <3>2 DEF FlowStates
      <4> QED BY <2>1, <4>1, <4>2
    <3> QED BY <3>1, <3>2
  <2>4. closing' = closing \/ closing' = closing \cup {e}
    BY <1>3
  <2> HIDE DEF r
  <2> QED BY <1>3, <2>2, <2>3, <2>4, HeldEntry, ReturnStep
<1> QED BY <1>1, <1>2, <1>3 DEF OutboundOther

-----------------------------------------------------------------------------
(* Inbound packets *)

LEMMA InboundStep ==
  ASSUME HandlerInv, NEW e \in Entries, thread.step = "hold", thread.entry = e,
         NEW p \in Packets, NEW v, state[e].monitor, Inbound(e, p, v),
         UNCHANGED <<table, born, sweep>>
  PROVE  HandlerInv'
<1>0. /\ state[e] \in FlowStates
      /\ EntryInv(state[e], staged[e], e \in closing, FALSE)
      /\ "FakeDataAcked" \in Outcomes
  BY HeldEntry DEF Outcomes
<1>1. CASE Pass(v)
  BY <1>1, PassStep
<1>2. CASE Unexpected(e, v)
  BY <1>2, UnexpectedStep
<1>3. CASE /\ Return(e, [state[e] EXCEPT !.syn_ack_seq = p.seq], "Accept", v)
           /\ UNCHANGED <<waiter, staged, closing>>
  <2> DEFINE r == [state[e] EXCEPT !.syn_ack_seq = p.seq]
  <2>1. p.seq \in SeqNum /\ p.seq # None
    BY NoneAssumption DEF Packets
  <2>2. r \in FlowStates
    BY <1>0, <2>1 DEF FlowStates
  <2>3. EntryInv(r, staged[e], e \in closing, FALSE)
    BY <1>0, <2>1 DEF EntryInv, FlowStates
  <2>4. Return(e, r, "Accept", v)
    BY <1>3
  <2> HIDE DEF r
  <2> QED BY <1>3, <2>2, <2>3, <2>4, HeldEntry, ReturnStep
<1>4. CASE /\ ThenDecide(e, state[e], "finish", "FakeDataAcked", "Accept", v)
           /\ UNCHANGED <<waiter, staged, closing>>
  <2>1. EntryInv(state[e], staged[e], e \in closing, "finish" = "signal")
    BY <1>0 DEF EntryInv
  <2> QED BY <1>0, <1>4, <2>1, HeldEntry, ThenDecideStep
<1>5. CASE /\ ThenDecide(e, [state[e] EXCEPT !.waiting_for_first_data_ack = FALSE],
                         "finish", "FakeDataAcked", "Accept", v)
           /\ UNCHANGED <<waiter, staged, closing>>
  <2> DEFINE r == [state[e] EXCEPT !.waiting_for_first_data_ack = FALSE]
  <2>1. r \in FlowStates
    BY <1>0 DEF FlowStates
  <2>2. EntryInv(r, staged[e], e \in closing, "finish" = "signal")
    BY <1>0 DEF EntryInv, FlowStates
  <2>3. ThenDecide(e, r, "finish", "FakeDataAcked", "Accept", v)
    BY <1>5
  <2> HIDE DEF r
  <2> QED BY <1>0, <1>5, <2>1, <2>2, <2>3, HeldEntry, ThenDecideStep
<1>6. CASE InboundSynAck(e, p, v)
  BY <1>2, <1>3, <1>6 DEF InboundSynAck
<1>7. CASE InboundPostFakeAck(e, p, v)
  BY <1>1, <1>2, <1>4, <1>7 DEF InboundPostFakeAck
<1>8. CASE InboundFirstDataAck(e, p, v)
  BY <1>1, <1>2, <1>5, <1>8 DEF InboundFirstDataAck
<1> QED BY <1>1, <1>2, <1>6, <1>7, <1>8 DEF Inbound

-----------------------------------------------------------------------------
(* The steps outside the handler, and the thread's late decision *)

\* finish and signal_outcome called from anywhere: the other records, the
\* tallies and a pending signal are untouched.
LEMMA DecideStep ==
  ASSUME HandlerInv, NEW e \in Entries, NEW r \in FlowStates,
         state' = [state EXCEPT ![e] = r],
         waiter' \in [Entries -> Waiters],
         table' \in [Keys -> Entries \cup {NoEntry}],
         sweep' \in [active : BOOLEAN, todo : SUBSET Keys],
         UNCHANGED <<born, staged, closing>>,
         thread' = thread \/ (thread' = IdleThread /\ thread.entry = e),
         r.fragment_all_data = state[e].fragment_all_data,
         thread'.step = "signal" /\ thread'.entry = e
           => EntryInv(r, staged[e], e \in closing, TRUE),
         ~(thread'.step = "signal" /\ thread'.entry = e)
           => EntryInv(r, staged[e], e \in closing, FALSE)
  PROVE  HandlerInv'
<1>1. HandlerTypeOK'
  <2>1. thread' \in ThreadStates
    BY DEF HandlerInv, HandlerTypeOK, ThreadStates, IdleThread
  <2>2. /\ thread'.step # "idle" => thread'.entry \in Entries
        /\ thread'.step \in {"finish", "signal"} => thread'.outcome \in Outcomes
    BY DEF HandlerInv, HandlerTypeOK, IdleThread
  <2>3. state' \in [Entries -> FlowStates]
    BY DEF HandlerInv, HandlerTypeOK, FlowTypeOK
  <2> QED BY <2>1, <2>2, <2>3 DEF HandlerInv, HandlerTypeOK, FlowTypeOK
<1>2. \A f \in Entries : state'[f].fragment_all_data = state[f].fragment_all_data
  BY DEF HandlerInv, HandlerTypeOK, FlowTypeOK
<1>3. (thread.step = "signal"
         => state[thread.entry].fragment_all_data /\ thread.outcome = "FakeDataAcked")'
  <2>1. CASE thread' = IdleThread
    BY <2>1 DEF IdleThread
  <2>2. CASE thread' = thread
    <3> SUFFICES ASSUME thread.step = "signal"
                 PROVE  /\ state'[thread.entry].fragment_all_data
                        /\ thread.outcome = "FakeDataAcked"
      BY <2>2
    <3>1. thread.entry \in Entries
      BY DEF HandlerInv, HandlerTypeOK
    <3> QED BY <1>2, <3>1 DEF HandlerInv
  <2> QED BY <2>1, <2>2
<1>4. ASSUME NEW f \in Entries
      PROVE  EntryInv(state[f], staged[f], f \in closing, SignalPending(f))'
  <2>1. CASE f = e
    <3>1. state'[e] = r
      BY DEF HandlerInv, HandlerTypeOK, FlowTypeOK
    <3> QED BY <2>1, <3>1 DEF EntryInv, SignalPending
  <2>2. CASE f # e
    <3>1. state'[f] = state[f]
      BY <2>2 DEF HandlerInv, HandlerTypeOK, FlowTypeOK
    <3>2. SignalPending(f)' = SignalPending(f)
      BY <2>2 DEF SignalPending, IdleThread
    <3> QED BY <3>1, <3>2 DEF HandlerInv
  <2> QED BY <2>1, <2>2
<1> QED BY <1>1, <1>3, <1>4 DEF HandlerInv

LEMMA ProxyFinishStep ==
  ASSUME HandlerInv, NEW e \in Entries, Finish(e, "UnexpectedClose"),
         table' = table,
         sweep' \in [active : BOOLEAN, todo : SUBSET Keys],
         UNCHANGED <<born, thread, staged, closing>>
  PROVE  HandlerInv'
<1> DEFINE r == Finished(state[e], "UnexpectedClose")
<1>1. /\ "UnexpectedClose" \in Outcomes /\ FlowTypeOK
      /\ state[e] \in FlowStates
      /\ EntryInv(state[e], staged[e], e \in closing, SignalPending(e))
      /\ table' \in [Keys -> Entries \cup {NoEntry}]
  BY DEF Outcomes, HandlerInv, HandlerTypeOK, FlowTypeOK
<1>2. /\ state' = [state EXCEPT ![e] = r]
      /\ waiter' \in [Entries -> Waiters]
  BY <1>1, FinishEffect
<1>3. r \in FlowStates /\ r.fragment_all_data = state[e].fragment_all_data
  BY <1>1, FinishedType DEF Finished, FlowStates
<1>4. /\ SignalPending(e) => EntryInv(r, staged[e], e \in closing, TRUE)
      /\ ~SignalPending(e) => EntryInv(r, staged[e], e \in closing, FALSE)
  BY <1>1, NoneAssumption DEF EntryInv, Finished, FlowStates
<1> HIDE DEF r
<1>5. CASE SignalPending(e)
  <2>1. /\ thread'.step = "signal" /\ thread'.entry = e
        /\ EntryInv(r, staged[e], e \in closing, TRUE)
    BY <1>4, <1>5 DEF SignalPending
  <2> QED BY <1>1, <1>2, <1>3, <2>1, DecideStep
<1>6. CASE ~SignalPending(e)
  <2>1. /\ ~(thread'.step = "signal" /\ thread'.entry = e)
        /\ EntryInv(r, staged[e], e \in closing, FALSE)
    BY <1>4, <1>6 DEF SignalPending
  <2> QED BY <1>1, <1>2, <1>3, <2>1, DecideStep
<1> QED BY <1>5, <1>6

LEMMA DeferredStep ==
  ASSUME HandlerInv, Deferred
  PROVE  HandlerInv'
<1> DEFINE e == thread.entry
           s == state[e]
           o == thread.outcome
<1>1. thread.step \in {"finish", "signal"} /\ thread' = IdleThread
  BY DEF Deferred
<1>2. /\ e \in Entries /\ o \in Outcomes /\ s \in FlowStates /\ FlowTypeOK
      /\ EntryInv(s, staged[e], e \in closing, SignalPending(e))
      /\ table' \in [Keys -> Entries \cup {NoEntry}]
      /\ sweep' \in [active : BOOLEAN, todo : SUBSET Keys]
      /\ waiter[e] \in Waiters /\ waiter \in [Entries -> Waiters]
      /\ state = [state EXCEPT ![e] = s]
  BY <1>1 DEF HandlerInv, HandlerTypeOK, FlowTypeOK, Deferred
<1>3. SignalPending(e)' = FALSE
  BY <1>1 DEF SignalPending, IdleThread
<1>6. UNCHANGED <<born, staged, closing>>
  BY DEF Deferred
<1>4. CASE thread.step = "finish"
  <2> DEFINE r == Finished(s, o)
  <2>1. /\ state' = [state EXCEPT ![e] = r]
        /\ waiter' \in [Entries -> Waiters]
    BY <1>2, <1>4, FinishEffect DEF Deferred
  <2>2. r \in FlowStates /\ r.fragment_all_data = s.fragment_all_data
    BY <1>2, FinishedType DEF Finished, FlowStates
  <2>3. SignalPending(e) = FALSE
    BY <1>4 DEF SignalPending
  <2>4. EntryInv(r, staged[e], e \in closing, FALSE)
    BY <1>2, <2>3, NoneAssumption DEF EntryInv, Finished, FlowStates
  <2> HIDE DEF r, s, o, e
  <2> QED BY <1>1, <1>2, <1>3, <1>6, <2>1, <2>2, <2>4, DecideStep DEF s, e, SignalPending
<1>5. CASE thread.step = "signal"
  <2> DEFINE r == IF s.outcome = None THEN [s EXCEPT !.outcome = o] ELSE s
  <2>1. s.fragment_all_data /\ o = "FakeDataAcked"
    BY <1>5 DEF HandlerInv
  <2>2. /\ state' = [state EXCEPT ![e] = r]
        /\ waiter' \in [Entries -> Waiters]
    <3>1. Notified(waiter[e], "notify") \in Waiters
      BY <1>2, NotifiedType
    <3> QED BY <1>2, <1>5, <3>1 DEF Deferred, SignalOutcome
  <2>3. r \in FlowStates /\ r.fragment_all_data = s.fragment_all_data
    BY <1>2 DEF FlowStates
  <2>4. EntryInv(r, staged[e], e \in closing, FALSE)
    BY <1>2, <2>1, NoneAssumption DEF EntryInv, FlowStates
  <2> HIDE DEF r, s, o, e
  <2> QED BY <1>1, <1>2, <1>3, <1>6, <2>2, <2>3, <2>4, DecideStep DEF s, e, SignalPending
<1> QED BY <1>1, <1>4, <1>5

LEMMA HandleStep ==
  ASSUME HandlerInv, NEW p \in Packets, NEW v,
         NEW first \in SUBSET MethodActions, NEW second \in SUBSET MethodActions,
         Handle(p, first, second, v)
  PROVE  HandlerInv'
<1> DEFINE e == thread.entry
<1>1. /\ e \in Entries /\ thread.step = "hold"
      /\ UNCHANGED <<table, born, sweep>>
  BY DEF Handle, HandlerInv, HandlerTypeOK
<1>2. CASE state[e].monitor
  <2>1. CASE OutboundSyn(e, p, v)
    BY <1>1, <2>1, OutboundSynStep
  <2>2. CASE OutboundAck(e, p, first, v)
    BY <1>1, <1>2, <2>2, OutboundAckStep
  <2>3. CASE OutboundData(e, p, second, v)
    BY <1>1, <1>2, <2>3, OutboundDataStep
  <2>4. CASE OutboundOther(e, p, v)
    BY <1>1, <1>2, <2>4, OutboundOtherStep
  <2>5. CASE Inbound(e, p, v)
    BY <1>1, <1>2, <2>5, InboundStep
  <2> QED BY <1>2, <2>1, <2>2, <2>3, <2>4, <2>5 DEF Handle
<1>3. CASE ~state[e].monitor
  BY <1>1, <1>3, PassStep DEF Handle
<1> QED BY <1>2, <1>3

-----------------------------------------------------------------------------
(* Theorems *)

\* The invariant holds initially.
LEMMA HandlerStarts == HandlerInit => HandlerInv
<1> SUFFICES ASSUME HandlerInit PROVE HandlerInv
  OBVIOUS
<1>1. HandlerTypeOK
  BY ModulusAssumption, NoEntryAssumption
     DEF HandlerInit, FlowInit, HandlerTypeOK, FlowTypeOK, FlowStates, NewFlowState,
         Waiters, ThreadStates, IdleThread, Tally, Channels
<1>2. ASSUME NEW e \in Entries
      PROVE  EntryInv(state[e], staged[e], e \in closing, SignalPending(e))
  BY DEF HandlerInit, FlowInit, EntryInv, NewFlowState
<1> QED BY <1>1, <1>2 DEF HandlerInv, HandlerInit, IdleThread

\* Every step of the thread, of a task or of a reset keeps it.
LEMMA HandlerSteps == HandlerInv /\ [Next]_vars => HandlerInv'
<1> SUFFICES ASSUME HandlerInv, [Next]_vars PROVE HandlerInv'
  OBVIOUS
<1>1. CASE Register \/ Release \/ Await \/ UNCHANGED vars
  <2>1. UNCHANGED <<state, thread, staged, closing>>
    BY <1>1 DEF Register, RegisterFlow, Release, RemoveFlow, Await, handlerVars, vars, flowVars
  <2>2. /\ table' \in [Keys -> Entries \cup {NoEntry}]
        /\ born' \in SUBSET Entries
        /\ waiter' \in [Entries -> Waiters]
        /\ sweep' \in [active : BOOLEAN, todo : SUBSET Keys]
    <3> USE DEF HandlerInv, HandlerTypeOK, FlowTypeOK
    <3>1. CASE Register
      BY <3>1 DEF Register, RegisterFlow
    <3>2. CASE Release
      BY <3>2 DEF Release, RemoveFlow
    <3>3. CASE Await
      BY <3>3 DEF Await, Subscribe, Waiters, Channels
    <3>4. CASE UNCHANGED vars
      BY <3>4 DEF vars, flowVars
    <3> QED BY <1>1, <3>1, <3>2, <3>3, <3>4
  <2> QED BY <2>1, <2>2 DEF HandlerInv, HandlerTypeOK, FlowTypeOK, SignalPending
<1>2. CASE GiveUp
  <2>1. PICK e \in born : Finish(e, "UnexpectedClose")
    BY <1>2 DEF GiveUp
  <2>2. e \in Entries /\ sweep \in [active : BOOLEAN, todo : SUBSET Keys]
    BY DEF HandlerInv, HandlerTypeOK, FlowTypeOK
  <2> QED BY <1>2, <2>1, <2>2, ProxyFinishStep DEF GiveUp, handlerVars
<1>3. CASE Reset
  <2>1. CASE ResetBegin \/ ResetClear
    <3>1. /\ UNCHANGED <<state, thread, staged, closing, born, waiter>>
          /\ table' \in [Keys -> Entries \cup {NoEntry}]
          /\ sweep' \in [active : BOOLEAN, todo : SUBSET Keys]
      <4> USE DEF HandlerInv, HandlerTypeOK, FlowTypeOK
      <4>1. CASE ResetBegin
        BY <1>3, <4>1 DEF Reset, ResetBegin, handlerVars
      <4>2. CASE ResetClear
        BY <1>3, <4>2 DEF Reset, ResetClear, handlerVars
      <4> QED BY <2>1, <4>1, <4>2
    <3> QED BY <3>1 DEF HandlerInv, HandlerTypeOK, FlowTypeOK, SignalPending
  <2>2. ASSUME NEW k \in Keys, ResetVisit(k) PROVE HandlerInv'
    <3>1. /\ sweep' \in [active : BOOLEAN, todo : SUBSET Keys]
          /\ UNCHANGED <<table, born, thread, staged, closing>>
          /\ table[k] \in Entries \cup {NoEntry}
      BY <1>3, <2>2 DEF Reset, ResetVisit, handlerVars, HandlerInv, HandlerTypeOK, FlowTypeOK
    <3>2. CASE table[k] = NoEntry
      <4>1. UNCHANGED <<state, waiter>>
        BY <2>2, <3>2 DEF ResetVisit
      <4> QED BY <3>1, <4>1 DEF HandlerInv, HandlerTypeOK, FlowTypeOK, SignalPending
    <3>3. CASE table[k] # NoEntry
      BY <2>2, <3>1, <3>3, ProxyFinishStep DEF ResetVisit
    <3> QED BY <3>2, <3>3
  <2> QED BY <1>3, <2>1, <2>2 DEF Reset, ResetStep
<1>4. ASSUME NEW k \in Keys, Lookup(k) PROVE HandlerInv'
  <2>1. /\ UNCHANGED <<table, born, state, waiter, sweep, staged, closing>>
        /\ thread.step = "idle" /\ table[k] \in Entries
        /\ thread' = [step |-> "hold", entry |-> table[k], outcome |-> None]
    BY <1>4 DEF Lookup, flowVars, HandlerInv, HandlerTypeOK, FlowTypeOK, IdleThread
  <2>2. HandlerTypeOK'
    BY <2>1 DEF HandlerInv, HandlerTypeOK, FlowTypeOK, ThreadStates
  <2>3. \A e \in Entries : SignalPending(e)' = FALSE /\ SignalPending(e) = FALSE
    BY <2>1 DEF SignalPending
  <2> QED BY <2>1, <2>2, <2>3 DEF HandlerInv
<1>5. ASSUME NEW p \in Packets, NEW v \in Verdicts,
             Handle(p, MethodActions, MethodActions, v)
      PROVE  HandlerInv'
  BY <1>5, HandleStep
<1>6. CASE Deferred
  BY <1>6, DeferredStep
<1> QED BY <1>1, <1>2, <1>3, <1>4, <1>5, <1>6 DEF Next, Capture

\* The invariant holds initially and every step keeps it.
THEOREM Invariance == Spec => []HandlerInv
BY HandlerStarts, HandlerSteps, PTL DEF Spec

\* Every variable keeps its type; an idle thread holds no entry, and a late
\* decision always has an entry and an outcome.
THEOREM TypeCorrect == Spec => []HandlerTypeOK
<1>1. HandlerInv => HandlerTypeOK
  BY DEF HandlerInv
<1> QED BY <1>1, Invariance, PTL

\* No `expect` or `unwrap` on an ISN can fail in the capture thread.
THEOREM NeverPanics == Spec => []NoPanic
<1>1. HandlerInv => NoPanic
  BY DEF HandlerInv, EntryInv, NoPanic
<1> QED BY <1>1, Invariance, PTL

\* A decided flow is untracked, unless it succeeded in fragment-all mode.
THEOREM ReleaseOnDecision == Spec => []DecidedIsReleased
<1>1. HandlerInv => DecidedIsReleased
  BY DEF HandlerInv, EntryInv, DecidedIsReleased
<1> QED BY <1>1, Invariance, PTL

\* Retransmissions and duplicates never trigger a second mutation of a stage.
THEOREM SingleMutation == Spec => []OneMutationPerStage
<1>1. HandlerInv => OneMutationPerStage
  BY DEF HandlerInv, EntryInv, OneMutationPerStage
<1> QED BY <1>1, Invariance, PTL

\* Only the flow's own FIN or RST ends fragment-all mode.
THEOREM FragmentAllStays == Spec => []FragmentAllLasts
<1>1. HandlerInv => FragmentAllLasts
  BY DEF HandlerInv, EntryInv, FragmentAllLasts
<1> QED BY <1>1, Invariance, PTL

-----------------------------------------------------------------------------
(* Action properties: what no step may do to a decision *)

\* The steps of the capture thread before its late decision leave every
\* outcome alone, or are Finish.
LEMMA HandleOutcomes ==
  ASSUME HandlerInv, NEW p \in Packets, NEW v,
         NEW first \in SUBSET MethodActions, NEW second \in SUBSET MethodActions,
         Handle(p, first, second, v)
  PROVE  \/ Finish(thread.entry, "UnexpectedClose")
         \/ \A e \in Entries : state'[e].outcome = state[e].outcome
<1> DEFINE e == thread.entry  s == state[e]
<1>1. e \in Entries /\ s \in FlowStates /\ thread.step = "hold"
      /\ state \in [Entries -> FlowStates]
  BY DEF Handle, HandlerInv, HandlerTypeOK, FlowTypeOK
<1> SUFFICES ASSUME ~Finish(e, "UnexpectedClose"), NEW f \in Entries
             PROVE  state'[f].outcome = state[f].outcome
  OBVIOUS
<1>2. ~Unexpected(e, v)
  BY DEF Unexpected
<1>3. CASE Pass(v)
  BY <1>3 DEF Pass
<1>4. ASSUME NEW r, r.outcome = s.outcome,
             \/ \E answer : Return(e, r, answer, v)
             \/ \E step, o, answer : ThenDecide(e, r, step, o, answer, v)
      PROVE  state'[f].outcome = state[f].outcome
  <2>1. state' = [state EXCEPT ![e] = r]
    BY <1>4 DEF Return, ThenDecide
  <2> QED BY <1>1, <1>4, <2>1
<1>5. CASE OutboundSyn(e, p, v)
  <2> DEFINE r == [s EXCEPT !.syn_seq = p.seq]
  <2>1. Return(e, r, "Accept", v)
    BY <1>2, <1>5 DEF OutboundSyn
  <2>2. r.outcome = s.outcome
    BY <1>1 DEF FlowStates
  <2> HIDE DEF r
  <2> QED BY <1>4, <2>1, <2>2
<1>6. CASE OutboundAck(e, p, first, v)
  <2>1. CASE \E act \in first : OnHandshakeCompleteAck(e, act, v)
    <3> DEFINE a == [s EXCEPT !.fake_sent = TRUE, !.waiting_for_data = TRUE]
               b == [s EXCEPT !.fake_sent = TRUE]
               c == [s EXCEPT !.waiting_for_data = TRUE]
    <3>1. \E r \in {a, b, c, s} : \/ \E answer : Return(e, r, answer, v)
                                  \/ \E step, o, answer : ThenDecide(e, r, step, o, answer, v)
      BY <2>1 DEF OnHandshakeCompleteAck
    <3>2. \A r \in {a, b, c, s} : r.outcome = s.outcome
      BY <1>1 DEF FlowStates
    <3> HIDE DEF a, b, c
    <3> QED BY <1>4, <3>1, <3>2
  <2> QED BY <1>2, <1>3, <1>6, <2>1 DEF OutboundAck
<1>7. CASE OutboundData(e, p, second, v)
  <2>1. \E act \in second : OnFirstDataPacket(e, act, v)
    BY <1>7 DEF OutboundData
  <2> DEFINE done == [s EXCEPT !.first_data_modified = TRUE, !.waiting_for_data = FALSE]
             a == [done EXCEPT !.fragment_all_data = TRUE]
             b == [done EXCEPT !.waiting_for_first_data_ack = TRUE]
             c == [done EXCEPT !.fragment_all_data = FALSE, !.monitor = FALSE]
  <2>2. \E r \in {done, a, b, c, s} :
           \/ \E answer : Return(e, r, answer, v)
           \/ \E step, o, answer : ThenDecide(e, r, step, o, answer, v)
    BY <2>1 DEF OnFirstDataPacket
  <2>3. \A r \in {done, a, b, c, s} : r.outcome = s.outcome
    BY <1>1 DEF FlowStates
  <2> HIDE DEF done, a, b, c
  <2> QED BY <1>4, <2>2, <2>3
<1>8. CASE OutboundOther(e, p, v)
  <2> DEFINE r == [s EXCEPT !.monitor = @ /\ ~(p.flags.fin \/ p.flags.rst)]
  <2>1. Pass(v) \/ Return(e, r, "Accept", v)
    BY <1>2, <1>8 DEF OutboundOther
  <2>2. r.outcome = s.outcome
    BY <1>1 DEF FlowStates
  <2> HIDE DEF r
  <2> QED BY <1>3, <1>4, <2>1, <2>2
<1>9. CASE Inbound(e, p, v)
  <2> DEFINE a == [s EXCEPT !.syn_ack_seq = p.seq]
             b == [s EXCEPT !.waiting_for_first_data_ack = FALSE]
  <2>1. \/ Pass(v)
        \/ \E r \in {a, b, s} :
             \/ \E answer : Return(e, r, answer, v)
             \/ \E step, o, answer : ThenDecide(e, r, step, o, answer, v)
    BY <1>2, <1>9 DEF Inbound, InboundSynAck, InboundPostFakeAck, InboundFirstDataAck
  <2>2. \A r \in {a, b, s} : r.outcome = s.outcome
    BY <1>1 DEF FlowStates
  <2> HIDE DEF a, b
  <2> QED BY <1>3, <1>4, <2>1, <2>2
<1> QED BY <1>3, <1>5, <1>6, <1>7, <1>8, <1>9 DEF Handle

\* What a step may do to an outcome, and to whom it tells it.
LEMMA StepOutcomes ==
  ASSUME HandlerInv, [Next]_vars
  PROVE  \/ \E e \in Entries, o \in Outcomes : Finish(e, o) \/ SignalOutcome(e, o)
         \/ \A e \in Entries : state'[e].outcome = state[e].outcome
<1>1. "UnexpectedClose" \in Outcomes
  BY DEF Outcomes
<1>2. CASE Register \/ Release \/ Await \/ UNCHANGED vars
  BY <1>2 DEF Register, RegisterFlow, Release, RemoveFlow, Await, vars, flowVars
<1>3. CASE GiveUp
  BY <1>1, <1>3 DEF GiveUp, HandlerInv, HandlerTypeOK, FlowTypeOK
<1>4. CASE Reset
  <2>1. CASE ResetBegin \/ ResetClear
    BY <2>1 DEF ResetBegin, ResetClear
  <2>2. ASSUME NEW k \in Keys, ResetVisit(k)
        PROVE  \/ \E e \in Entries, o \in Outcomes : Finish(e, o)
               \/ state' = state
    BY <1>1, <2>2 DEF ResetVisit, HandlerInv, HandlerTypeOK, FlowTypeOK
  <2> QED BY <1>4, <2>1, <2>2 DEF Reset, ResetStep
<1>5. ASSUME NEW k \in Keys, Lookup(k) PROVE state' = state
  BY <1>5 DEF Lookup, flowVars
<1>6. ASSUME NEW p \in Packets, NEW v \in Verdicts,
             Handle(p, MethodActions, MethodActions, v)
      PROVE  \/ \E e \in Entries, o \in Outcomes : Finish(e, o)
             \/ \A e \in Entries : state'[e].outcome = state[e].outcome
  <2>1. thread.entry \in Entries
    BY <1>6 DEF Handle, HandlerInv, HandlerTypeOK
  <2> QED BY <1>1, <1>6, <2>1, HandleOutcomes
<1>7. CASE Deferred
  <2>1. thread.entry \in Entries /\ thread.outcome \in Outcomes
    BY <1>7 DEF Deferred, HandlerInv, HandlerTypeOK
  <2> QED BY <1>7, <2>1 DEF Deferred
<1> QED BY <1>2, <1>3, <1>4, <1>5, <1>6, <1>7 DEF Next, Capture

\* finish and signal_outcome write the outcome of an undecided flow only, and
\* fire `notify` in the same critical section.
LEMMA DecisionEffect ==
  ASSUME HandlerInv, NEW e \in Entries, NEW o \in Outcomes,
         Finish(e, o) \/ SignalOutcome(e, o), NEW f \in Entries
  PROVE  /\ state[f].outcome # None => state'[f].outcome = state[f].outcome
         /\ state[f].outcome = None /\ state'[f].outcome # None
              /\ "notify" \in waiter[f].armed
            => waiter'[f].woken
<1>1. state \in [Entries -> FlowStates] /\ waiter \in [Entries -> Waiters]
      /\ state[f] \in FlowStates /\ waiter[f] \in Waiters
  BY DEF HandlerInv, HandlerTypeOK, FlowTypeOK
<1>2. CASE f # e \/ state[e].outcome # None
  <2>1. state'[f] = state[f]
    BY <1>1, <1>2 DEF Finish, SignalOutcome
  <2> QED BY <2>1
<1>3. CASE f = e /\ state[e].outcome = None
  <2>1. waiter'[f] = Notified(waiter[f], "notify")
    BY <1>1, <1>3 DEF Finish, SignalOutcome
  <2>2. "notify" \in waiter[f].armed => waiter'[f].woken
    BY <1>1, <2>1 DEF Notified, Waiters
  <2> QED BY <1>3, <2>2
<1> QED BY <1>2, <1>3

\* The first decision about a flow is the only one, whoever takes it: the
\* capture thread, the task's timeout or a reset.
THEOREM FirstDecisionWins == Spec => OutcomeFinal
<1>1. HandlerInv /\ [Next]_vars
      => [\A e \in Entries :
            state[e].outcome # None => state'[e].outcome = state[e].outcome]_vars
  BY StepOutcomes, DecisionEffect
<1> QED BY <1>1, Invariance, PTL DEF Spec, OutcomeFinal

\* Whoever decides a flow wakes the task that subscribed before.
THEOREM DecisionIsHeard == Spec => DecisionWakes
<1>1. HandlerInv /\ [Next]_vars
      => [\A e \in Entries :
            state[e].outcome = None /\ state'[e].outcome # None
              /\ "notify" \in waiter[e].armed
            => waiter'[e].woken]_vars
  BY StepOutcomes, DecisionEffect
<1> QED BY <1>1, Invariance, PTL DEF Spec, DecisionWakes

-----------------------------------------------------------------------------
(* What a step does to the futures of a task that sleeps *)

\* The futures stay, a future that fired stays fired, and a flow that becomes
\* ready for data fires `ready_for_data`.
WakeKept(f) ==
  /\ waiter'[f].armed = waiter[f].armed
  /\ waiter[f].woken => waiter'[f].woken
  /\ ~state[f].waiting_for_data /\ state'[f].waiting_for_data
       /\ "ready_for_data" \in waiter[f].armed
     => waiter'[f].woken

LEMMA NotifiedKeeps ==
  ASSUME NEW w \in Waiters, NEW channel
  PROVE  /\ Notified(w, channel).armed = w.armed
         /\ w.woken => Notified(w, channel).woken
         /\ channel \in w.armed => Notified(w, channel).woken
BY DEF Notified, Waiters

LEMMA DecisionWakeKept ==
  ASSUME HandlerInv, NEW e \in Entries, NEW o,
         Finish(e, o) \/ SignalOutcome(e, o), NEW f \in Entries
  PROVE  WakeKept(f)
<1>1. /\ state \in [Entries -> FlowStates] /\ waiter \in [Entries -> Waiters]
      /\ state[f] \in FlowStates /\ waiter[f] \in Waiters
  BY DEF HandlerInv, HandlerTypeOK, FlowTypeOK
<1>2. CASE f # e \/ state[e].outcome # None
  <2>1. state'[f] = state[f] /\ waiter'[f] = waiter[f]
    BY <1>1, <1>2 DEF Finish, SignalOutcome
  <2> QED BY <2>1 DEF WakeKept
<1>3. CASE f = e /\ state[e].outcome = None
  <2>1. /\ waiter'[f] = Notified(waiter[f], "notify")
        /\ state'[f].waiting_for_data = state[f].waiting_for_data
    BY <1>1, <1>3 DEF Finish, SignalOutcome, FlowStates
  <2> QED BY <1>1, <2>1, NotifiedKeeps DEF WakeKept
<1> QED BY <1>2, <1>3

LEMMA HandleWakeKept ==
  ASSUME HandlerInv, NEW p \in Packets, NEW v,
         NEW first \in SUBSET MethodActions, NEW second \in SUBSET MethodActions,
         Handle(p, first, second, v), NEW f \in Entries
  PROVE  WakeKept(f)
<1> DEFINE e == thread.entry
           s == state[e]
<1>1. /\ e \in Entries /\ s \in FlowStates /\ state \in [Entries -> FlowStates]
      /\ waiter \in [Entries -> Waiters] /\ waiter[f] \in Waiters
  BY DEF Handle, HandlerInv, HandlerTypeOK, FlowTypeOK
<1> HIDE DEF e, s
<1>2. CASE Unexpected(e, v)
  BY <1>1, <1>2, DecisionWakeKept DEF Unexpected
<1>3. CASE Pass(v)
  BY <1>3 DEF Pass, WakeKept
<1>4. ASSUME NEW r, r.waiting_for_data => s.waiting_for_data, UNCHANGED waiter,
             \/ \E answer : Return(e, r, answer, v)
             \/ \E step, o, answer : ThenDecide(e, r, step, o, answer, v)
      PROVE  WakeKept(f)
  <2>1. state' = [state EXCEPT ![e] = r]
    BY <1>4 DEF Return, ThenDecide
  <2>2. state'[f] = IF f = e THEN r ELSE state[f]
    BY <1>1, <2>1
  <2>3. state'[f].waiting_for_data => state[f].waiting_for_data
    BY <1>4, <2>2 DEF s
  <2> QED BY <1>4, <2>3 DEF WakeKept
<1>5. CASE OutboundSyn(e, p, v)
  <2> DEFINE r == [s EXCEPT !.syn_seq = p.seq]
  <2>1. Unexpected(e, v) \/ (Return(e, r, "Accept", v) /\ UNCHANGED waiter)
    BY <1>5 DEF OutboundSyn, s
  <2>2. r.waiting_for_data => s.waiting_for_data
    BY <1>1 DEF FlowStates
  <2> HIDE DEF r
  <2> QED BY <1>2, <1>4, <2>1, <2>2
<1>6. CASE OutboundAck(e, p, first, v)
  <2>1. ASSUME NEW act \in first, OnHandshakeCompleteAck(e, act, v)
        PROVE  WakeKept(f)
    <3>1. CASE waiter' = [waiter EXCEPT ![e] = Notified(@, "ready_for_data")]
      <4>1. \E r : state' = [state EXCEPT ![e] = r]
        BY <2>1 DEF OnHandshakeCompleteAck, Return, ThenDecide
      <4>2. f # e => state'[f] = state[f] /\ waiter'[f] = waiter[f]
        BY <1>1, <3>1, <4>1
      <4>3. f = e => waiter'[f] = Notified(waiter[f], "ready_for_data")
        BY <1>1, <3>1
      <4> QED BY <1>1, <4>2, <4>3, NotifiedKeeps DEF WakeKept
    <3>2. CASE /\ waiter' # [waiter EXCEPT ![e] = Notified(@, "ready_for_data")]
               /\ UNCHANGED waiter
      <4> DEFINE r == [s EXCEPT !.fake_sent = TRUE]
      <4>1. \E n \in {r, s} : \/ \E answer : Return(e, n, answer, v)
                              \/ \E step, o, answer : ThenDecide(e, n, step, o, answer, v)
        BY <2>1, <3>2 DEF OnHandshakeCompleteAck, s
      <4>2. \A n \in {r, s} : n.waiting_for_data => s.waiting_for_data
        BY <1>1 DEF FlowStates
      <4> HIDE DEF r
      <4> QED BY <1>4, <3>2, <4>1, <4>2
    <3> QED BY <2>1, <3>1, <3>2 DEF OnHandshakeCompleteAck
  <2> QED BY <1>2, <1>3, <1>6, <2>1 DEF OutboundAck
<1>7. CASE OutboundData(e, p, second, v)
  <2>1. UNCHANGED waiter /\ \E act \in second : OnFirstDataPacket(e, act, v)
    BY <1>7 DEF OutboundData
  <2> DEFINE done == [s EXCEPT !.first_data_modified = TRUE, !.waiting_for_data = FALSE]
             a == [done EXCEPT !.fragment_all_data = TRUE]
             b == [done EXCEPT !.waiting_for_first_data_ack = TRUE]
             c == [done EXCEPT !.fragment_all_data = FALSE, !.monitor = FALSE]
  <2>2. \E r \in {done, a, b, c, s} :
           \/ \E answer : Return(e, r, answer, v)
           \/ \E step, o, answer : ThenDecide(e, r, step, o, answer, v)
    BY <2>1 DEF OnFirstDataPacket, s
  <2>3. \A r \in {done, a, b, c, s} : r.waiting_for_data => s.waiting_for_data
    BY <1>1 DEF FlowStates
  <2> HIDE DEF done, a, b, c
  <2> QED BY <1>4, <2>1, <2>2, <2>3
<1>8. CASE OutboundOther(e, p, v)
  <2> DEFINE r == [s EXCEPT !.monitor = @ /\ ~(p.flags.fin \/ p.flags.rst)]
  <2>1. Unexpected(e, v) \/ Pass(v) \/ (Return(e, r, "Accept", v) /\ UNCHANGED waiter)
    BY <1>8 DEF OutboundOther, s
  <2>2. r.waiting_for_data => s.waiting_for_data
    BY <1>1 DEF FlowStates
  <2> HIDE DEF r
  <2> QED BY <1>2, <1>3, <1>4, <2>1, <2>2
<1>9. CASE Inbound(e, p, v)
  <2> DEFINE a == [s EXCEPT !.syn_ack_seq = p.seq]
             b == [s EXCEPT !.waiting_for_first_data_ack = FALSE]
  <2>1. ASSUME ~Unexpected(e, v), ~Pass(v)
        PROVE  /\ UNCHANGED waiter
               /\ \/ Return(e, a, "Accept", v)
                  \/ ThenDecide(e, s, "finish", "FakeDataAcked", "Accept", v)
                  \/ ThenDecide(e, b, "finish", "FakeDataAcked", "Accept", v)
    <3>1. InboundSynAck(e, p, v) \/ InboundPostFakeAck(e, p, v) \/ InboundFirstDataAck(e, p, v)
      BY <1>9, <2>1 DEF Inbound
    <3> QED BY <2>1, <3>1 DEF InboundSynAck, InboundPostFakeAck, InboundFirstDataAck, s
  <2>2. \A r \in {a, b, s} : r.waiting_for_data => s.waiting_for_data
    BY <1>1 DEF FlowStates
  <2> HIDE DEF a, b
  <2> QED BY <1>2, <1>3, <1>4, <2>1, <2>2
<1> QED BY <1>3, <1>5, <1>6, <1>7, <1>8, <1>9 DEF Handle, e

\* Only the task itself drops its futures, when it creates fresh ones.
LEMMA StepWakes ==
  ASSUME HandlerInv, NEW f \in Entries,
         Register \/ Release \/ GiveUp \/ Reset \/ Capture \/ UNCHANGED vars
  PROVE  WakeKept(f)
<1>1. CASE Register \/ Release \/ UNCHANGED vars
  BY <1>1 DEF Register, RegisterFlow, Release, RemoveFlow, vars, flowVars, WakeKept
<1>2. CASE GiveUp
  BY <1>2, DecisionWakeKept DEF GiveUp, HandlerInv, HandlerTypeOK, FlowTypeOK
<1>3. CASE Reset
  <2>1. CASE UNCHANGED <<state, waiter>>
    BY <2>1 DEF WakeKept
  <2>2. UNCHANGED <<state, waiter>> \/ \E e \in Entries : Finish(e, "UnexpectedClose")
    BY <1>3 DEF Reset, ResetStep, ResetBegin, ResetClear, ResetVisit, HandlerInv,
                HandlerTypeOK, FlowTypeOK
  <2> QED BY <2>1, <2>2, DecisionWakeKept
<1>4. ASSUME NEW k \in Keys, Lookup(k) PROVE WakeKept(f)
  BY <1>4 DEF Lookup, flowVars, WakeKept
<1>5. ASSUME NEW p \in Packets, NEW v \in Verdicts,
             Handle(p, MethodActions, MethodActions, v)
      PROVE  WakeKept(f)
  BY <1>5, HandleWakeKept
<1>6. CASE Deferred
  BY <1>6, DecisionWakeKept DEF Deferred, HandlerInv, HandlerTypeOK
<1> QED BY <1>1, <1>2, <1>3, <1>4, <1>5, <1>6 DEF Capture

(***************************************************************************)
(* Connection.                                                             *)
(***************************************************************************)

-----------------------------------------------------------------------------
(* The composite answers the handler with one of MethodActions. *)

LEMMA HandshakeAnswerType ==
  ASSUME NEW c, NEW u
  PROVE  CompositeHandshake(c, u) \in MethodActions
BY DEF CompositeHandshake, MethodActions, EmitAndWaitForData, CompleteAndAccept,
       EmitAndComplete, EmitAndWaitForAck, AbortAndAccept, Emit, Plain

LEMMA DataAnswerType ==
  ASSUME NEW c, NEW u, NEW again
  PROVE  CompositeData(c, u, again) \in MethodActions
BY DEF CompositeData, MethodActions, CompleteAndAccept, AbortAndAccept, Emit, Plain

\* The handler does with these answers what it does with any.
LEMMA HandleMonotonic ==
  ASSUME NEW p, NEW v, NEW h \in MethodActions, NEW d \in MethodActions,
         Handle(p, {h}, {d}, v)
  PROVE  Handle(p, MethodActions, MethodActions, v)
BY DEF Handle, OutboundAck, OutboundData

-----------------------------------------------------------------------------
(* The state of the tasks and of the network around the handler *)

TasksOK ==
  /\ task \in [Entries -> Tasks]
  /\ \A t \in Entries :
       /\ task[t].pc # "idle" => task[t].key \in Keys
       /\ task[t].pc \in WithFlow \/ task[t].guard => t \in born
       /\ task[t].pc \in {"idle", "bound"} => ~task[t].guard
       /\ task[t].pc = "idle" => ~task[t].open

KnownPackets == {q \in Queued : task[q.owner].key \in Keys}

NetOK ==
  /\ scenario \in Scenarios
  /\ conn \in [Entries -> [up : BOOLEAN, sent : Nat]]
  /\ queue \in Seq(KnownPackets)
  /\ verdict \in Verdicts \cup {None}
  /\ spare \in 0 .. scenario.spare
  /\ applied \in [Entries -> SUBSET BaseBypassMethods]
  /\ shown \in [Entries -> {None} \cup SUBSET BaseBypassMethods]

Base == HandlerInv /\ TasksOK /\ NetOK

LEMMA BaseGives == Base => ConnTypeOK /\ OwnersKnown
<1> SUFFICES ASSUME Base PROVE ConnTypeOK /\ OwnersKnown
  OBVIOUS
<1>1. queue \in Seq(Queued)
  BY SeqMonotonic DEF Base, NetOK, KnownPackets
<1>2. \A i \in DOMAIN queue : task[queue[i].owner].key \in Keys
  BY ElementOfSeq DEF Base, NetOK, KnownPackets
<1> QED BY <1>1, <1>2 DEF Base, TasksOK, NetOK, ConnTypeOK, OwnersKnown, HandlerInv

LEMMA BaseStarts == ConnInit => Base
<1> SUFFICES ASSUME ConnInit PROVE Base
  OBVIOUS
<1>1. HandlerInv
  BY HandlerStarts DEF ConnInit
<1>2. TasksOK
  BY DEF ConnInit, IdleTask, TasksOK, Tasks, Pcs, Reports, WithFlow
<1>3. NetOK
  BY ScenariosAssumption DEF ConnInit, NetOK
<1> QED BY <1>1, <1>2, <1>3 DEF Base

\* A task moves on, with a port, and behind register_flow with its entry.
Moves(t, r) ==
  /\ r \in Tasks
  /\ task' = [task EXCEPT ![t] = r]
  /\ r.pc # "idle" /\ r.key \in Keys
  /\ r.pc \in WithFlow \/ r.guard => t \in born'
  /\ r.pc = "bound" => ~r.guard

LEMMA MovesKeep ==
  ASSUME TasksOK, NEW t \in Entries, NEW r, Moves(t, r), born \subseteq born'
  PROVE  TasksOK' /\ KnownPackets \subseteq KnownPackets'
<1>1. /\ task' \in [Entries -> Tasks] /\ task'[t] = r
      /\ \A u \in Entries : u # t => task'[u] = task[u]
  BY DEF TasksOK, Moves
<1>2. TasksOK'
  BY <1>1 DEF TasksOK, Moves
<1>3. ASSUME NEW q \in Queued, task[q.owner].key \in Keys
      PROVE  task'[q.owner].key \in Keys
  BY <1>1, <1>3 DEF Queued, Moves
<1> QED BY <1>2, <1>3 DEF KnownPackets

\* A task that stays where it is.
LEMMA StaysKeep ==
  ASSUME TasksOK, UNCHANGED task, born \subseteq born'
  PROVE  TasksOK' /\ KnownPackets = KnownPackets'
BY DEF TasksOK, KnownPackets

-----------------------------------------------------------------------------
(* Packets *)

LEMMA AfterType ==
  ASSUME NEW isn \in Nat, NEW n \in Nat
  PROVE  After(isn, n) \in SeqNum
BY ModulusAssumption DEF After, SeqNum

LEMMA PacketType ==
  ASSUME NEW t \in Entries, NEW payload \in Payloads, NEW d \in Directions,
         NEW flags \in ConnSegments, NEW seq \in SeqNum, NEW ack \in SeqNum
  PROVE  Packet(t, payload, d, flags, seq, ack) \in Queued
BY ConnSegmentsAssumption DEF Packet, Queued, Packets

LEMMA SentTypes ==
  ASSUME NetOK, NEW t \in Entries
  PROVE  /\ Syn(t) \in Queued /\ Syn(t).owner = t
         /\ SynAck(t) \in Queued /\ SynAck(t).owner = t
         /\ \A flags \in ConnSegments, payload \in Payloads :
              /\ FromClient(t, payload, flags) \in Queued
              /\ FromClient(t, payload, flags).owner = t
         /\ \A flags \in ConnSegments, n \in Nat :
              /\ ServerSends(t, flags, n) \in Queued
              /\ ServerSends(t, flags, n).owner = t
         /\ Syn(t).payload = "none" /\ SynAck(t).payload = "none"
         /\ \A flags, n : ServerSends(t, flags, n).payload = "none"
         /\ \A flags, payload : FromClient(t, payload, flags).payload = payload
<1>1. /\ ClientIsn \in SeqNum /\ ServerIsn \in SeqNum /\ 0 \in SeqNum
      /\ ClientIsn \in Nat /\ ServerIsn \in Nat
  BY ModulusAssumption DEF ClientIsn, ServerIsn, SeqNum
<1>2. conn[t].sent \in Nat
  BY DEF NetOK
<1>3. \A isn \in Nat, n \in Nat : After(isn, n) \in SeqNum
  BY AfterType
<1>4. /\ SynFlags \in ConnSegments /\ SynAckFlags \in ConnSegments
      /\ "Outbound" \in Directions /\ "Inbound" \in Directions /\ "none" \in Payloads
  BY DEF ConnSegments, Directions, Payloads
<1>5. \A payload, d, flags, seq, ack : Packet(t, payload, d, flags, seq, ack).owner = t
  BY DEF Packet
<1> HIDE DEF ClientIsn, ServerIsn, SynFlags, SynAckFlags, ConnSegments, Payloads, Directions
<1>6. /\ Syn(t).payload = "none" /\ SynAck(t).payload = "none"
      /\ \A flags, n : ServerSends(t, flags, n).payload = "none"
      /\ \A flags, payload : FromClient(t, payload, flags).payload = payload
  BY DEF Packet, Syn, SynAck, FromClient, ServerSends
<1>7. /\ Syn(t) \in Queued /\ Syn(t).owner = t
      /\ SynAck(t) \in Queued /\ SynAck(t).owner = t
  BY <1>1, <1>2, <1>3, <1>4, <1>5, PacketType DEF Syn, SynAck
<1>8. \A flags \in ConnSegments, payload \in Payloads :
        /\ FromClient(t, payload, flags) \in Queued
        /\ FromClient(t, payload, flags).owner = t
  BY <1>1, <1>2, <1>3, <1>4, <1>5, PacketType DEF FromClient
<1>9. \A flags \in ConnSegments, n \in Nat :
        /\ ServerSends(t, flags, n) \in Queued
        /\ ServerSends(t, flags, n).owner = t
  BY <1>1, <1>2, <1>3, <1>4, <1>5, PacketType DEF ServerSends
<1> QED BY <1>6, <1>7, <1>8, <1>9

-----------------------------------------------------------------------------
(* A step of the system is a step of Handler or leaves its state alone. *)

\* The packet at the head of the queue, and what is behind it.
LEMMA HeadKnown ==
  ASSUME NetOK, queue # <<>>
  PROVE  /\ Head(queue) \in KnownPackets
         /\ Tail(queue) \in Seq(KnownPackets)
BY HeadTailProperties DEF NetOK

LEMMA CaptureSteps ==
  ASSUME Base, CaptureStep
  PROVE  Capture \/ UNCHANGED vars
<1>1. CASE CaptureUnknown \/ Forward
  BY <1>1 DEF CaptureUnknown, Forward
<1>2. CASE CaptureLookup
  <2>1. task[Head(queue).owner].key \in Keys
    BY <1>2, HeadKnown DEF CaptureLookup, Base, KnownPackets
  <2> QED BY <1>2, <2>1 DEF CaptureLookup, Capture
<1>3. CASE CaptureHandle
  <2>1. Head(queue).packet \in Packets
    BY <1>3, HeadKnown DEF CaptureHandle, Base, KnownPackets, Queued
  <2> DEFINE h == CompositeHandshake(cfg, Stamped)
             d == CompositeData(cfg, WholeRecords(Head(queue).payload),
                                state[thread.entry].first_data_modified)
  <2>2. h \in MethodActions /\ d \in MethodActions
    BY HandshakeAnswerType, DataAnswerType
  <2>3. PICK v \in Verdicts : Handle(Head(queue).packet, {h}, {d}, v)
    BY <1>3 DEF CaptureHandle
  <2> HIDE DEF h, d
  <2>4. Handle(Head(queue).packet, MethodActions, MethodActions, v)
    BY <2>2, <2>3, HandleMonotonic
  <2> QED BY <2>1, <2>4 DEF Capture
<1>4. CASE CaptureDeferred
  BY <1>4 DEF CaptureDeferred, Capture
<1> QED BY <1>1, <1>2, <1>3, <1>4 DEF CaptureStep

LEMMA TaskSteps ==
  ASSUME Base, NEW t \in Entries, TaskStep(t)
  PROVE  \/ Register \/ Release \/ GiveUp \/ UNCHANGED vars
         \/ TaskSubscribe(t) /\ Await
<1>1. CASE TaskRegister(t)
  <2>1. task[t].key \in Keys
    BY <1>1 DEF TaskRegister, Base, TasksOK
  <2> QED BY <1>1, <2>1 DEF TaskRegister, Register
<1>2. CASE \/ TaskRefused(t) \/ Connect(t) \/ Connected(t) \/ TaskCheck(t) \/ TaskWake(t)
           \/ WritePrefix(t) \/ WriteHello(t) \/ WriteRest(t) \/ CloseSocket(t)
  BY <1>2 DEF TaskRefused, Connect, Connected, TaskCheck, TaskWake,
              WritePrefix, WriteHello, WriteRest, CloseSocket
<1>3. CASE TaskSubscribe(t)
  <2>1. t \in born
    BY <1>3 DEF TaskSubscribe, Base, TasksOK, WithFlow, Pcs
  <2> QED BY <1>3, <2>1 DEF TaskSubscribe, Await
<1>4. CASE GiveUpOn(t)
  <2>1. t \in born
    BY <1>4 DEF GiveUpOn, Base, TasksOK, WithFlow, Pcs
  <2> QED BY <1>4, <2>1 DEF GiveUpOn, GiveUp
<1>5. CASE TaskRelease(t) \/ DropGuard(t)
  <2>1. task[t].key \in Keys
    BY <1>5 DEF TaskRelease, DropGuard, Base, TasksOK
  <2>2. /\ RemoveFlow(task[t].key) \/ UNCHANGED flowVars
        /\ UNCHANGED handlerVars
    BY <1>5 DEF TaskRelease, DropGuard
  <2> QED BY <2>1, <2>2 DEF Release, vars
<1> QED BY <1>1, <1>2, <1>3, <1>4, <1>5 DEF TaskStep

LEMMA ConnStepIsHandlerStep ==
  ASSUME Base, [ConnNext]_allVars
  PROVE  [Next]_vars
<1>1. CASE Extra \/ AllDone \/ UNCHANGED allVars
  BY <1>1 DEF Extra, AllDone, allVars
<1>2. CASE ResetFlows
  BY <1>2 DEF ResetFlows, Next, Reset
<1>3. ASSUME NEW t \in Entries, Environment(t)
      PROVE  [Next]_vars
  BY <1>3 DEF Environment, Accept, ReadHello, RelayData, RelayEnds, TimeOut, IoError, Cancel
<1> QED BY <1>1, <1>2, <1>3, CaptureSteps, TaskSteps DEF ConnNext, Next

-----------------------------------------------------------------------------
(* Base is kept *)

LEMMA BornGrows ==
  ASSUME [Next]_vars
  PROVE  born \subseteq born'
BY DEF Next, Register, RegisterFlow, Release, RemoveFlow, GiveUp, Await, Reset, ResetStep,
       ResetBegin, ResetVisit, ResetClear, Capture, Lookup, Handle, Deferred, vars, flowVars

\* A statement of a task, or what happens to it, moves that task alone.
LEMMA TaskMoves ==
  ASSUME Base, NEW t \in Entries, TaskStep(t) \/ Environment(t), born \subseteq born'
  PROVE  Moves(t, task'[t])
<1> DEFINE r == task[t]
<1>1. /\ task \in [Entries -> Tasks] /\ r \in Tasks
      /\ r.pc # "idle" => r.key \in Keys
      /\ r.pc \in WithFlow \/ r.guard => t \in born'
      /\ r.pc \in {"idle", "bound"} => ~r.guard
  BY DEF Base, TasksOK
<1>2. ASSUME NEW n \in Tasks, task' = [task EXCEPT ![t] = n],
             n.pc # "idle", n.key \in Keys, n.pc \in WithFlow \/ n.guard => t \in born',
             n.pc = "bound" => ~n.guard
      PROVE  Moves(t, task'[t])
  BY <1>1, <1>2 DEF Moves
<1>3. ASSUME NEW pc \in Pcs \ {"idle", "bound"}, Goto(t, pc),
             r.pc # "idle", pc \in WithFlow => t \in born'
      PROVE  Moves(t, task'[t])
  <2> DEFINE n == [r EXCEPT !.pc = pc]
  <2>1. n \in Tasks /\ n.pc = pc /\ n.key = r.key /\ n.guard = r.guard
    BY <1>1 DEF Tasks
  <2>2. task' = [task EXCEPT ![t] = n]
    BY <1>1, <1>3 DEF Goto
  <2> HIDE DEF n
  <2> QED BY <1>1, <1>2, <1>3, <2>1, <2>2
<1>4. r.pc \in WithFlow \/ r.pc \in {"idle", "bound", "closing", "guard", "done"}
  BY <1>1 DEF Tasks, Pcs, WithFlow
<1>5. CASE Accept(t)
  <2>1. PICK k \in Keys :
          task' = [task EXCEPT ![t].pc = "bound", ![t].key = k, ![t].open = TRUE]
    BY <1>5 DEF Accept
  <2>2. r.pc = "idle"
    BY <1>5 DEF Accept
  <2> DEFINE n == [r EXCEPT !.pc = "bound", !.key = k, !.open = TRUE]
  <2>3. n \in Tasks /\ n.pc = "bound" /\ n.key = k /\ n.guard = r.guard
    BY <1>1 DEF Tasks, Pcs
  <2>4. task' = [task EXCEPT ![t] = n]
    BY <1>1, <2>1
  <2> HIDE DEF n
  <2> QED BY <1>1, <1>2, <2>2, <2>3, <2>4 DEF WithFlow
<1>6. CASE TaskRegister(t)
  <2> DEFINE n == [r EXCEPT !.pc = "registered", !.guard = TRUE]
  <2>1. n \in Tasks /\ n.pc = "registered" /\ n.key = r.key /\ r.pc = "bound"
    BY <1>1, <1>6 DEF Tasks, Pcs, TaskRegister
  <2>2. task' = [task EXCEPT ![t] = n] /\ t \in born'
    BY <1>1, <1>6 DEF TaskRegister, RegisterFlow
  <2> HIDE DEF n
  <2> QED BY <1>1, <1>2, <2>1, <2>2
<1>7. CASE Connected(t) \/ WriteRest(t) \/ WriteHello(t)
  <2>1. r.pc \in WithFlow /\ r.pc # "idle"
    BY <1>7 DEF Connected, WriteRest, WriteHello, WithFlow, Pcs
  <2>2. CASE Goto(t, "rest")
    BY <1>1, <1>3, <2>1, <2>2 DEF Pcs
  <2>3. ASSUME NEW st \in {"initial", "completion"},
               task' = [task EXCEPT ![t].pc = "subscribe", ![t].stage = st]
        PROVE  Moves(t, task'[t])
    <3> DEFINE n == [r EXCEPT !.pc = "subscribe", !.stage = st]
    <3>1. n \in Tasks /\ n.pc = "subscribe" /\ n.key = r.key
      BY <1>1 DEF Tasks, Pcs
    <3>2. task' = [task EXCEPT ![t] = n]
      BY <1>1, <2>3
    <3> HIDE DEF n
    <3> QED BY <1>1, <1>2, <2>1, <3>1, <3>2
  <2> QED BY <1>7, <2>2, <2>3 DEF Connected, WriteRest, WriteHello, AwaitCompletion
<1>8. CASE TaskCheck(t)
  <2>1. r.pc \in WithFlow /\ r.pc # "idle"
    BY <1>8 DEF TaskCheck, WithFlow, Pcs
  <2>2. CASE Progress(t) = "Complete" /\ Reported(t, state[t].outcome)
    <3>1. state[t].outcome \in Outcomes
      BY <2>2 DEF Progress, Base, HandlerInv, HandlerTypeOK, FlowTypeOK, FlowStates
    <3> DEFINE o == state[t].outcome
               pc == IF o = "FakeDataAcked" THEN "release" ELSE "closing"
               n == [r EXCEPT !.report = o, !.pc = pc]
    <3>2. n \in Tasks /\ n.key = r.key /\ n.pc \in {"release", "closing"}
      BY <1>1, <3>1 DEF Tasks, Pcs, Reports
    <3>3. task' = [task EXCEPT ![t] = n]
      BY <1>1, <2>2 DEF Reported
    <3> HIDE DEF n
    <3> QED BY <1>1, <1>2, <2>1, <3>2, <3>3
  <2> QED BY <1>1, <1>3, <1>8, <2>1, <2>2 DEF TaskCheck, Pcs
<1>9. CASE TimeOut(t) \/ IoError(t)
  <2>1. r.pc \in WithFlow /\ Failed(t)
    BY <1>9 DEF TimeOut, IoError, WithFlow, Pcs
  <2> DEFINE pc == IF r.pc = "connecting" THEN "unconnected" ELSE "expired"
             n == [r EXCEPT !.pc = pc, !.open = r.open /\ r.pc # "connecting"]
  <2>2. n \in Tasks /\ n.key = r.key /\ n.pc \in {"unconnected", "expired"}
    BY <1>1 DEF Tasks, Pcs
  <2>3. task' = [task EXCEPT ![t] = n]
    BY <1>1, <2>1 DEF Failed
  <2> HIDE DEF n
  <2> QED BY <1>1, <1>2, <2>1, <2>2, <2>3 DEF WithFlow, Pcs
<1>10. CASE GiveUpOn(t) \/ RelayEnds(t)
  <2>1. r.pc \in WithFlow
    BY <1>10 DEF GiveUpOn, RelayEnds, WithFlow, Pcs
  <2>2. PICK report \in Reports :
          task' = [task EXCEPT ![t].pc = "closing", ![t].report = report]
    BY <1>10 DEF GiveUpOn, RelayEnds, Reports, Outcomes
  <2> DEFINE n == [r EXCEPT !.pc = "closing", !.report = report]
  <2>3. n \in Tasks /\ n.key = r.key /\ n.pc = "closing"
    BY <1>1 DEF Tasks, Pcs
  <2>4. task' = [task EXCEPT ![t] = n]
    BY <1>1, <2>2
  <2> HIDE DEF n
  <2> QED BY <1>1, <1>2, <2>1, <2>3, <2>4 DEF WithFlow, Pcs
<1>11. CASE TaskRelease(t) \/ DropGuard(t) \/ CloseSocket(t)
  <2>1. CASE Goto(t, "relaying") /\ r.pc = "release"
    BY <1>1, <1>3, <2>1 DEF Pcs, WithFlow
  <2>2. CASE /\ r.pc = "release"
             /\ task' = [task EXCEPT ![t].pc = "relaying", ![t].guard = FALSE]
    <3> DEFINE n == [r EXCEPT !.pc = "relaying", !.guard = FALSE]
    <3>1. n \in Tasks /\ n.key = r.key /\ n.pc = "relaying"
      BY <1>1 DEF Tasks, Pcs
    <3>2. task' = [task EXCEPT ![t] = n]
      BY <1>1, <2>2
    <3> HIDE DEF n
    <3> QED BY <1>1, <1>2, <2>2, <3>1, <3>2 DEF WithFlow, Pcs
  <2>3. CASE r.pc = "guard" /\ task' = [task EXCEPT ![t].pc = "done", ![t].guard = FALSE]
    <3> DEFINE n == [r EXCEPT !.pc = "done", !.guard = FALSE]
    <3>1. n \in Tasks /\ n.key = r.key /\ n.pc = "done" /\ n.guard = FALSE
      BY <1>1 DEF Tasks, Pcs
    <3>2. task' = [task EXCEPT ![t] = n]
      BY <1>1, <2>3
    <3> HIDE DEF n
    <3> QED BY <1>1, <1>2, <2>3, <3>1, <3>2 DEF WithFlow
  <2>4. CASE r.pc = "closing" /\ task' = [task EXCEPT ![t].pc = "guard", ![t].open = FALSE]
    <3> DEFINE n == [r EXCEPT !.pc = "guard", !.open = FALSE]
    <3>1. n \in Tasks /\ n.key = r.key /\ n.pc = "guard" /\ n.guard = r.guard
      BY <1>1 DEF Tasks, Pcs
    <3>2. task' = [task EXCEPT ![t] = n]
      BY <1>1, <2>4
    <3> HIDE DEF n
    <3> QED BY <1>1, <1>2, <2>4, <3>1, <3>2 DEF WithFlow
  <2> QED BY <1>11, <2>1, <2>2, <2>3, <2>4 DEF TaskRelease, DropGuard, CloseSocket
<1>12. CASE RelayData(t)
  <2>1. r.pc = "relaying" /\ task' = [task EXCEPT ![t] = r]
    BY <1>1, <1>12 DEF RelayData
  <2> QED BY <1>1, <1>2, <2>1 DEF WithFlow, Pcs
<1>13. CASE \/ TaskRefused(t) \/ Connect(t) \/ TaskSubscribe(t) \/ TaskWake(t)
            \/ WritePrefix(t) \/ ReadHello(t) \/ Cancel(t)
  <2>1. \E pc \in Pcs \ {"idle", "bound"} :
          Goto(t, pc) /\ (pc \in WithFlow => r.pc \in WithFlow) /\ r.pc # "idle"
    BY <1>13 DEF TaskRefused, Connect, TaskSubscribe, TaskWake, WritePrefix, ReadHello,
                 Cancel, Pcs, WithFlow
  <2> QED BY <1>1, <1>3, <2>1
<1> QED BY <1>5, <1>6, <1>7, <1>8, <1>9, <1>10, <1>11, <1>12, <1>13
        DEF TaskStep, Environment

\* What a task's step may do to the network: it may send one packet of its own,
\* and it adds members of the list to the history.
LEMMA TaskNet ==
  ASSUME Base, NEW t \in Entries, TaskStep(t) \/ Environment(t)
  PROVE  /\ UNCHANGED <<scenario, verdict, spare, shown>>
         /\ conn' \in [Entries -> [up : BOOLEAN, sent : Nat]]
         /\ applied' \in [Entries -> SUBSET BaseBypassMethods]
         /\ \/ UNCHANGED queue
            \/ \E p \in Queued :
                 /\ p.owner = t /\ queue' = Append(queue, p)
                 /\ p.payload = "hello" => task[t].pc \in {"writing", "relaying"}
         /\ applied[t] \subseteq applied'[t]
         /\ \A u \in Entries : u # t => applied'[u] = applied[u]
<1>1. /\ conn \in [Entries -> [up : BOOLEAN, sent : Nat]]
      /\ applied \in [Entries -> SUBSET BaseBypassMethods]
      /\ NetOK
  BY DEF Base, NetOK
<1>2. /\ Syn(t) \in Queued /\ Syn(t).owner = t /\ Syn(t).payload = "none"
      /\ \A flags \in {DataFlags, FinFlags},
            payload \in {"none", "prefix", "hello", "rest", "more"} :
           /\ FromClient(t, payload, flags) \in Queued
           /\ FromClient(t, payload, flags).owner = t
           /\ FromClient(t, payload, flags).payload = payload
  <2>1. DataFlags \in ConnSegments /\ FinFlags \in ConnSegments
    BY DEF ConnSegments
  <2> HIDE DEF DataFlags, FinFlags, ConnSegments
  <2> QED BY <1>1, <2>1, SentTypes DEF Payloads
<1>3. ASSUME NEW payload \in {"prefix", "hello", "rest", "more"}, SendData(t, payload)
      PROVE  /\ conn' \in [Entries -> [up : BOOLEAN, sent : Nat]]
             /\ \E p \in Queued :
                  p.owner = t /\ p.payload = payload /\ queue' = Append(queue, p)
  <2>1. \E p \in Queued : p.owner = t /\ p.payload = payload /\ queue' = Append(queue, p)
    <3> HIDE DEF DataFlags
    <3> QED BY <1>2, <1>3 DEF SendData, Send
  <2>2. conn' \in [Entries -> [up : BOOLEAN, sent : Nat]]
    BY <1>1, <1>3 DEF SendData
  <2> QED BY <2>1, <2>2
<1>4. ASSUME NEW more \in SUBSET BaseBypassMethods,
             applied' = [applied EXCEPT ![t] = @ \cup more]
      PROVE  /\ applied' \in [Entries -> SUBSET BaseBypassMethods]
             /\ applied[t] \subseteq applied'[t]
             /\ \A u \in Entries : u # t => applied'[u] = applied[u]
  BY <1>1, <1>4
<1>5. CASE WritePrefix(t)
  <2>1. {"ccs_prefix"} \in SUBSET BaseBypassMethods
    BY DEF BaseBypassMethods, SocketMethods
  <2> QED BY <1>3, <1>4, <1>5, <2>1 DEF WritePrefix
<1>6. CASE WriteHello(t)
  <2> DEFINE more == SocketTransforms(cfg) \cup SocketCut(cfg)
  <2>1. more \in SUBSET BaseBypassMethods
    BY DEF SocketTransforms, SocketCut, BaseBypassMethods, SocketMethods
  <2>2. applied' = [applied EXCEPT ![t] = @ \cup more]
    BY <1>1, <1>6 DEF WriteHello
  <2> HIDE DEF more
  <2> QED BY <1>3, <1>4, <1>6, <2>1, <2>2 DEF WriteHello
<1>7. CASE WriteRest(t) \/ RelayData(t)
  BY <1>1, <1>3, <1>7 DEF WriteRest, RelayData
<1>8. CASE Connect(t) \/ CloseSocket(t)
  <2> HIDE DEF FinFlags
  <2> QED BY <1>1, <1>2, <1>8 DEF Connect, CloseSocket, Send
<1>9. CASE \/ TaskRegister(t) \/ TaskRefused(t) \/ Connected(t) \/ TaskSubscribe(t)
           \/ TaskCheck(t) \/ TaskWake(t) \/ GiveUpOn(t) \/ TaskRelease(t) \/ DropGuard(t)
  BY <1>1, <1>9 DEF TaskRegister, TaskRefused, Connected, TaskSubscribe, TaskCheck, TaskWake,
                    GiveUpOn, TaskRelease, DropGuard
<1>10. CASE \/ Accept(t) \/ ReadHello(t) \/ RelayEnds(t) \/ TimeOut(t) \/ IoError(t) \/ Cancel(t)
  BY <1>1, <1>10 DEF Accept, ReadHello, RelayEnds, TimeOut, IoError, Cancel
<1> QED BY <1>5, <1>6, <1>7, <1>8, <1>9, <1>10 DEF TaskStep, Environment

LEMMA TaskKeepsBase ==
  ASSUME Base, NEW t \in Entries, TaskStep(t) \/ Environment(t), HandlerInv',
         born \subseteq born'
  PROVE  Base'
<1>1. Moves(t, task'[t])
  BY TaskMoves
<1>2. TasksOK' /\ KnownPackets \subseteq KnownPackets'
  BY <1>1, MovesKeep DEF Base
<1>3. queue' \in Seq(KnownPackets')
  <2>1. queue \in Seq(KnownPackets')
    BY <1>2, SeqMonotonic DEF Base, NetOK
  <2>2. ASSUME NEW p \in Queued, p.owner = t, queue' = Append(queue, p)
        PROVE  queue' \in Seq(KnownPackets')
    <3>1. p \in KnownPackets'
      BY <1>1, <2>2 DEF KnownPackets, Moves
    <3> QED BY <2>1, <2>2, <3>1, AppendProperties
  <2> QED BY <2>1, <2>2, TaskNet
<1>4. NetOK'
  BY <1>3, TaskNet DEF Base, NetOK
<1> QED BY <1>2, <1>4 DEF Base

\* The members that act on a packet are members of the list.
LEMMA ActingType ==
  ASSUME NEW s, NEW p
  PROVE  Acting(s, p) \in SUBSET BaseBypassMethods
BY DEF Acting, DataMembers, Staging, HandshakeMembers, Positions, BaseBypassMethods

\* The answer of the other end belongs to the connection of the packet; a
\* ClientHello is in it only if the packet is sent again.
LEMMA ReplyType ==
  ASSUME Base, NEW p \in KnownPackets, NEW S, p \in S,
         \A q \in KnownPackets : q.payload = "none" => q \in S
  PROVE  Reply(p) \in Seq(S)
<1> DEFINE t == p.owner
           repeat == <<ServerSends(t, AckFlags, 0)>>
           upto == WrappingSub(p.packet.seq + 1, After(ClientIsn, 0))
           acknowledge == <<ServerSends(t, AckFlags, upto)>>
<1>1. t \in Entries /\ task[t].key \in Keys /\ p.packet.seq \in SeqNum
  BY DEF KnownPackets, Queued, Packets
<1>2. upto \in Nat
  <2>1. ClientIsn \in Nat
    BY ModulusAssumption DEF ClientIsn
  <2>2. After(ClientIsn, 0) \in SeqNum
    BY <2>1, AfterType
  <2> HIDE DEF ClientIsn
  <2> QED BY <1>1, <2>2, ModulusAssumption DEF WrappingSub, SeqNum
<1>3. AckFlags \in ConnSegments /\ "none" \in Payloads
  BY DEF ConnSegments, Payloads
<1> HIDE DEF upto, AckFlags, ConnSegments, Payloads
<1>4. /\ ServerSends(t, AckFlags, 0) \in S
      /\ ServerSends(t, AckFlags, upto) \in S
      /\ SynAck(t) \in S
      /\ FromClient(t, "none", AckFlags) \in S
  BY <1>1, <1>2, <1>3, SentTypes DEF KnownPackets, Base
<1>5. /\ repeat \in Seq(S) /\ acknowledge \in Seq(S)
      /\ <<SynAck(t)>> \in Seq(S)
      /\ <<FromClient(t, "none", AckFlags)>> \in Seq(S)
      /\ << >> \in Seq(S)
  BY <1>4
<1>6. Append(repeat, p) \in Seq(S)
  BY <1>5, AppendProperties
<1>7. repeat \o acknowledge \in Seq(S)
  BY <1>5, ConcatProperties
<1>8. Reply(p) \in {<<SynAck(t)>>, <<FromClient(t, "none", AckFlags)>>, <<>>, repeat,
                    acknowledge, Append(repeat, p), repeat \o acknowledge}
  BY DEF Reply, upto
<1> QED BY <1>5, <1>6, <1>7, <1>8

LEMMA CaptureKeepsBase ==
  ASSUME Base, CaptureStep, HandlerInv', born \subseteq born'
  PROVE  Base'
<1>1. UNCHANGED task
  BY DEF CaptureStep, CaptureUnknown, CaptureLookup, CaptureHandle, CaptureDeferred, Forward,
         connVars
<1>2. TasksOK' /\ KnownPackets' = KnownPackets
  BY <1>1, StaysKeep DEF Base
<1>3. NetOK'
  <2>1. CASE CaptureUnknown
    BY <1>2, <2>1 DEF CaptureUnknown, Base, NetOK, Verdicts
  <2>2. CASE CaptureLookup \/ CaptureDeferred
    BY <1>2, <2>2 DEF CaptureLookup, CaptureDeferred, Base, NetOK, connVars
  <2>3. CASE CaptureHandle
    <3>1. thread.entry \in Entries
      BY <2>3 DEF CaptureHandle, Handle, Base, HandlerInv, HandlerTypeOK
    <3>2. applied' \in [Entries -> SUBSET BaseBypassMethods]
      <4> DEFINE a == Acting(state[thread.entry], Head(queue))
      <4>1. a \in SUBSET BaseBypassMethods
        BY ActingType
      <4>2. applied' \in {applied, [applied EXCEPT ![thread.entry] = @ \cup a]}
        BY <2>3 DEF CaptureHandle
      <4> HIDE DEF a
      <4> QED BY <3>1, <4>1, <4>2 DEF Base, NetOK
    <3>3. verdict' \in Verdicts /\ UNCHANGED <<scenario, task, conn, queue, spare, shown>>
      BY <2>3 DEF CaptureHandle
    <3> QED BY <1>2, <3>2, <3>3 DEF Base, NetOK
  <2>4. CASE Forward
    <3>1. Head(queue) \in KnownPackets /\ Tail(queue) \in Seq(KnownPackets)
      BY <2>4, HeadKnown DEF Forward, Base
    <3>2. queue' \in Seq(KnownPackets)
      BY <2>4, <3>1, ReplyType, ConcatProperties DEF Forward
    <3>3. Head(queue).owner \in Entries
      BY <3>1 DEF KnownPackets, Queued
    <3>4. conn' \in [Entries -> [up : BOOLEAN, sent : Nat]]
      BY <2>4, <3>3 DEF Forward, Base, NetOK
    <3>5. shown' \in [Entries -> {None} \cup SUBSET BaseBypassMethods]
      BY <2>4, <3>3 DEF Forward, Base, NetOK
    <3>6. verdict' = None /\ UNCHANGED <<scenario, spare, applied>>
      BY <2>4 DEF Forward
    <3> QED BY <1>2, <3>2, <3>4, <3>5, <3>6 DEF Base, NetOK
  <2> QED BY <2>1, <2>2, <2>3, <2>4 DEF CaptureStep
<1> QED BY <1>2, <1>3 DEF Base

LEMMA ExtraKeepsBase ==
  ASSUME Base, Extra, HandlerInv'
  PROVE  /\ Base'
         /\ \E p \in KnownPackets : p.payload # "hello" /\ queue' = Append(queue, p)
<1>1. UNCHANGED <<born, scenario, task, conn, verdict, applied, shown>>
  BY DEF Extra, vars, flowVars
<1>2. TasksOK' /\ KnownPackets' = KnownPackets
  BY <1>1, StaysKeep DEF Base
<1>3. spare' \in 0 .. scenario.spare
  <2>1. scenario.spare \in Nat /\ spare \in 0 .. scenario.spare
    BY ScenariosAssumption DEF Base, NetOK
  <2> QED BY <2>1 DEF Extra
<1>4. \E p \in KnownPackets : p.payload # "hello" /\ queue' = Append(queue, p)
  <2>1. PICK t \in Entries :
          /\ task[t].open
          /\ \/ Send(Syn(t))
             \/ Send(SynAck(t))
             \/ \E flags \in {AckFlags, DataFlags, FinFlags, RstFlags} :
                  Send(ServerSends(t, flags, conn[t].sent))
             \/ /\ conn[t].sent > 0
                /\ Send([FromClient(t, "more", DataFlags)
                           EXCEPT !.packet.seq = After(ClientIsn, conn[t].sent - 1)])
    BY DEF Extra
  <2>2. task[t].key \in Keys /\ conn[t].sent \in Nat
    BY <2>1 DEF Base, TasksOK, NetOK
  <2>3. {AckFlags, DataFlags, FinFlags, RstFlags} \subseteq ConnSegments /\ "more" \in Payloads
    BY DEF ConnSegments, Payloads
  <2> HIDE DEF AckFlags, DataFlags, FinFlags, RstFlags, ConnSegments, Payloads
  <2>4. /\ Syn(t) \in KnownPackets /\ SynAck(t) \in KnownPackets
        /\ \A flags \in {AckFlags, DataFlags, FinFlags, RstFlags} :
             /\ ServerSends(t, flags, conn[t].sent) \in KnownPackets
             /\ ServerSends(t, flags, conn[t].sent).payload = "none"
        /\ Syn(t).payload = "none" /\ SynAck(t).payload = "none"
    BY <2>2, <2>3, SentTypes DEF KnownPackets, Base
  <2>5. ASSUME conn[t].sent > 0
        PROVE  \E p \in KnownPackets :
                 /\ p.payload = "more"
                 /\ p = [FromClient(t, "more", DataFlags)
                           EXCEPT !.packet.seq = After(ClientIsn, conn[t].sent - 1)]
    <3> DEFINE q == FromClient(t, "more", DataFlags)
               n == After(ClientIsn, conn[t].sent - 1)
    <3>1. ClientIsn \in Nat
      BY ModulusAssumption DEF ClientIsn
    <3> HIDE DEF ClientIsn
    <3>2. n \in SeqNum
      BY <2>2, <2>5, <3>1, AfterType
    <3>3. q \in Queued /\ q.owner = t /\ q.payload = "more"
      BY <2>3, SentTypes DEF Base
    <3> HIDE DEF q, n
    <3> QED BY <2>2, <3>2, <3>3 DEF KnownPackets, Queued, Packets, q, n
  <2> QED BY <2>1, <2>4, <2>5 DEF Send
<1>5. queue' \in Seq(KnownPackets)
  BY <1>4, AppendProperties DEF Base, NetOK
<1>6. NetOK'
  BY <1>1, <1>2, <1>3, <1>5 DEF Base, NetOK
<1> QED BY <1>2, <1>4, <1>6 DEF Base

LEMMA BaseSteps ==
  ASSUME Base, [ConnNext]_allVars
  PROVE  Base'
<1>1. [Next]_vars
  BY ConnStepIsHandlerStep
<1>2. HandlerInv' /\ born \subseteq born'
  BY <1>1, HandlerSteps, BornGrows DEF Base
<1>3. CASE ResetFlows \/ AllDone \/ UNCHANGED allVars
  <2>1. UNCHANGED connVars
    BY <1>3 DEF ResetFlows, AllDone, allVars
  <2>2. TasksOK' /\ KnownPackets' = KnownPackets
    BY <1>2, <2>1, StaysKeep DEF Base, connVars
  <2> QED BY <1>2, <2>1, <2>2 DEF Base, NetOK, connVars
<1> QED BY <1>2, <1>3, CaptureKeepsBase, ExtraKeepsBase, TaskKeepsBase DEF ConnNext

-----------------------------------------------------------------------------
(* The handler inside the system *)

\* Base holds in every state of the system, so ConnTypeOK and OwnersKnown do.
THEOREM BaseHolds == ConnSpec => []Base
<1>1. ConnInit => Base
  BY BaseStarts
<1>2. Base /\ [ConnNext]_allVars => Base'
  BY BaseSteps
<1> QED BY <1>1, <1>2, PTL DEF ConnSpec

\* The proxy tasks, the network and the list of methods drive the handler through
\* behaviours of Handler only, so what is proved of Handler holds in the system.
THEOREM SystemImplementsHandler == ConnSpec => ImplementsHandler
<1>1. ConnInit => HandlerInit
  BY DEF ConnInit
<1>2. Base /\ [ConnNext]_allVars => [Next]_vars
  BY ConnStepIsHandlerStep
<1> QED BY <1>1, <1>2, BaseHolds, PTL DEF ConnSpec, ImplementsHandler, Spec

-----------------------------------------------------------------------------
(* Guards, ports and the flow table *)

\* The statements between which a task counts on its flow.
Guarded == WithFlow \ {"relaying"}

\* A task's step keeps its guard and its port and leaves the table alone, unless
\* it binds, registers or lets go of its flow.
LEMMA QuietSteps ==
  ASSUME Base, NEW t \in Entries, TaskStep(t) \/ Environment(t),
         ~Accept(t), ~TaskRegister(t), ~TaskRelease(t), ~DropGuard(t)
  PROVE  /\ task'[t].guard = task[t].guard /\ task'[t].key = task[t].key
         /\ table' = table
         /\ task'[t].pc \in Guarded => task[t].pc \in Guarded
<1> DEFINE r == task[t]
<1>1. task \in [Entries -> Tasks] /\ r \in Tasks
  BY DEF Base, TasksOK
<1>2. ASSUME NEW pc, Goto(t, pc)
      PROVE  task'[t].guard = r.guard /\ task'[t].key = r.key /\ task'[t].pc = pc
  BY <1>1, <1>2 DEF Goto, Tasks
<1>3. CASE \/ TaskRefused(t) \/ Connect(t) \/ TaskSubscribe(t) \/ TaskWake(t)
           \/ WritePrefix(t) \/ ReadHello(t) \/ Cancel(t)
  BY <1>2, <1>3 DEF TaskRefused, Connect, TaskSubscribe, TaskWake, WritePrefix, ReadHello,
                    Cancel, vars, flowVars, Guarded, WithFlow, Pcs
<1>4. CASE Connected(t) \/ WriteRest(t) \/ WriteHello(t)
  <2>1. /\ r.pc \in Guarded /\ table' = table
        /\ \/ Goto(t, "rest")
           \/ \E st : task' = [task EXCEPT ![t].pc = "subscribe", ![t].stage = st]
    BY <1>4 DEF Connected, WriteRest, WriteHello, AwaitCompletion, vars, flowVars, Guarded,
                WithFlow, Pcs
  <2> QED BY <1>1, <1>2, <2>1 DEF Tasks
<1>5. CASE TaskCheck(t)
  <2>1. r.pc \in Guarded /\ table' = table
    BY <1>5 DEF TaskCheck, vars, flowVars, Guarded, WithFlow, Pcs
  <2>2. ASSUME NEW o, Reported(t, o)
        PROVE  task'[t].guard = r.guard /\ task'[t].key = r.key
    BY <1>1, <2>2 DEF Reported, Tasks
  <2> QED BY <1>2, <1>5, <2>1, <2>2 DEF TaskCheck
<1>6. CASE TimeOut(t) \/ IoError(t)
  <2>1. r.pc \in Guarded /\ table' = table /\ Failed(t)
    BY <1>6 DEF TimeOut, IoError, vars, flowVars, Guarded, WithFlow, Pcs
  <2> QED BY <1>1, <2>1 DEF Failed, Tasks
<1>7. CASE GiveUpOn(t) \/ RelayEnds(t)
  <2>1. /\ table' = table
        /\ \E report : task' = [task EXCEPT ![t].pc = "closing", ![t].report = report]
    BY <1>7 DEF GiveUpOn, RelayEnds, vars, flowVars
  <2> QED BY <1>1, <2>1 DEF Tasks, Guarded, WithFlow
<1>8. CASE CloseSocket(t)
  <2>1. /\ table' = table
        /\ task' = [task EXCEPT ![t].pc = "guard", ![t].open = FALSE]
    BY <1>8 DEF CloseSocket, vars, flowVars
  <2> QED BY <1>1, <2>1 DEF Tasks, Guarded, WithFlow
<1>9. CASE RelayData(t)
  BY <1>9 DEF RelayData, vars, flowVars
<1> QED BY <1>3, <1>4, <1>5, <1>6, <1>7, <1>8, <1>9 DEF TaskStep, Environment

\* register_flow puts the task in the table under its own port; letting go takes
\* that port's slot out.
LEMMA FlowSteps ==
  ASSUME Base, NEW t \in Entries
  PROVE  /\ Accept(t) => /\ ~task[t].guard /\ ~task'[t].guard /\ table' = table
                         /\ task'[t].pc = "bound"
         /\ TaskRegister(t) =>
              /\ task'[t].guard /\ task'[t].key = task[t].key
              /\ task[t].key \in Keys /\ table[task[t].key] = NoEntry
              /\ table' = [table EXCEPT ![task[t].key] = t]
         /\ TaskRelease(t) =>
              /\ task'[t].key = task[t].key /\ task'[t].pc = "relaying"
              /\ task[t].pc = "release" /\ task[t].key \in Keys
              /\ \/ task'[t].guard = task[t].guard /\ table' = table
                 \/ ~task'[t].guard /\ table' = [table EXCEPT ![task[t].key] = NoEntry]
         /\ DropGuard(t) =>
              /\ task'[t].key = task[t].key /\ task'[t].pc = "done" /\ ~task'[t].guard
              /\ task[t].key \in Keys
              /\ \/ ~task[t].guard /\ table' = table
                 \/ task[t].guard /\ table' = [table EXCEPT ![task[t].key] = NoEntry]
<1>1. /\ task \in [Entries -> Tasks] /\ task[t] \in Tasks
      /\ task[t].pc # "idle" => task[t].key \in Keys
      /\ task[t].pc \in {"idle", "bound"} => ~task[t].guard
  BY DEF Base, TasksOK
<1>2. ASSUME Accept(t)
      PROVE  /\ ~task[t].guard /\ ~task'[t].guard /\ table' = table
             /\ task'[t].pc = "bound"
  BY <1>1, <1>2 DEF Accept, Tasks, vars, flowVars
<1>3. ASSUME TaskRegister(t)
      PROVE  /\ task'[t].guard /\ task'[t].key = task[t].key
             /\ task[t].key \in Keys /\ table[task[t].key] = NoEntry
             /\ table' = [table EXCEPT ![task[t].key] = t]
  BY <1>1, <1>3 DEF TaskRegister, RegisterFlow, Tasks
<1>4. ASSUME TaskRelease(t)
      PROVE  /\ task'[t].key = task[t].key /\ task'[t].pc = "relaying"
             /\ task[t].pc = "release" /\ task[t].key \in Keys
             /\ \/ task'[t].guard = task[t].guard /\ table' = table
                \/ ~task'[t].guard /\ table' = [table EXCEPT ![task[t].key] = NoEntry]
  <2>1. task[t].pc = "release" /\ task[t].key \in Keys
    BY <1>1, <1>4 DEF TaskRelease
  <2>2. CASE Goto(t, "relaying") /\ UNCHANGED flowVars
    BY <1>1, <2>1, <2>2 DEF Goto, Tasks, flowVars
  <2>3. CASE /\ RemoveFlow(task[t].key)
             /\ task' = [task EXCEPT ![t].pc = "relaying", ![t].guard = FALSE]
    BY <1>1, <2>1, <2>3 DEF RemoveFlow, Tasks
  <2> QED BY <1>4, <2>2, <2>3 DEF TaskRelease
<1>5. ASSUME DropGuard(t)
      PROVE  /\ task'[t].key = task[t].key /\ task'[t].pc = "done" /\ ~task'[t].guard
             /\ task[t].key \in Keys
             /\ \/ ~task[t].guard /\ table' = table
                \/ task[t].guard /\ table' = [table EXCEPT ![task[t].key] = NoEntry]
  BY <1>1, <1>5 DEF DropGuard, RemoveFlow, Tasks, flowVars
<1> QED BY <1>2, <1>3, <1>4, <1>5

\* The capture thread and the network touch neither the table nor the tasks.
LEMMA OtherSteps ==
  ASSUME CaptureStep \/ Extra \/ AllDone \/ UNCHANGED allVars
  PROVE  UNCHANGED <<table, task>>
BY DEF CaptureStep, CaptureUnknown, CaptureLookup, CaptureHandle, CaptureDeferred, Forward,
       Extra, AllDone, Lookup, Handle, Deferred, allVars, vars, flowVars, connVars

\* One statement for both: the table and the guards agree, as far as a reset
\* leaves the table alone.
GuardInv ==
  /\ \A t \in Entries : task[t].pc \in Guarded => task[t].guard
  /\ NoLeakedFlow
  /\ FlowStaysRegistered

LEMMA GuardSteps ==
  ASSUME Base, GuardInv, [ConnNext]_allVars
  PROVE  GuardInv'
<1>1. /\ table \in [Keys -> Entries \cup {NoEntry}] /\ NoEntry \notin Entries
      /\ \A u \in Entries : task[u].pc # "idle" => task[u].key \in Keys
      /\ \A u \in Entries : task[u].guard => task[u].pc # "idle"
  BY NoEntryAssumption DEF Base, HandlerInv, HandlerTypeOK, FlowTypeOK, TasksOK
<1>2. ASSUME UNCHANGED <<table, task, scenario>> PROVE GuardInv'
  BY <1>2 DEF GuardInv, NoLeakedFlow, FlowStaysRegistered, Faults
<1>3. CASE CaptureStep \/ Extra \/ AllDone \/ UNCHANGED allVars
  <2>1. UNCHANGED scenario
    BY <1>3 DEF CaptureStep, CaptureUnknown, CaptureLookup, CaptureHandle, CaptureDeferred,
                Forward, Extra, AllDone, allVars, connVars
  <2> QED BY <1>2, <1>3, <2>1, OtherSteps
<1>4. CASE ResetFlows
  <2>1. UNCHANGED <<task, scenario>> /\ "reset" \in Faults
    BY <1>4 DEF ResetFlows, connVars
  <2>2. \A k \in Keys : table'[k] # NoEntry => table'[k] = table[k]
    BY <1>4 DEF ResetFlows, ResetStep, ResetBegin, ResetVisit, ResetClear
  <2> QED BY <2>1, <2>2 DEF GuardInv, NoLeakedFlow, FlowStaysRegistered, Faults
<1>5. ASSUME NEW t \in Entries, TaskStep(t) \/ Environment(t)
      PROVE  GuardInv'
  <2>1. UNCHANGED scenario
    BY <1>5, TaskNet
  <2>2. \A u \in Entries : u # t => task'[u] = task[u]
    <3>1. born \subseteq born'
      BY <1>5, ConnStepIsHandlerStep, BornGrows DEF ConnNext
    <3> QED BY <1>5, <3>1, TaskMoves DEF Moves, Base, TasksOK
  <2>3. CASE Accept(t)
    BY <1>1, <2>1, <2>2, <2>3, FlowSteps
       DEF GuardInv, NoLeakedFlow, FlowStaysRegistered, Faults, Guarded, WithFlow
  <2>4. CASE TaskRegister(t)
    BY <1>1, <2>1, <2>2, <2>4, FlowSteps DEF GuardInv, NoLeakedFlow, FlowStaysRegistered, Faults
  <2>5. CASE TaskRelease(t)
    <3>1. task[t].guard
      BY <2>5, FlowSteps DEF GuardInv, Guarded, WithFlow, Pcs
    <3> QED BY <1>1, <2>1, <2>2, <2>5, <3>1, FlowSteps
            DEF GuardInv, NoLeakedFlow, FlowStaysRegistered, Faults, Guarded, WithFlow
  <2>6. CASE DropGuard(t)
    BY <1>1, <2>1, <2>2, <2>6, FlowSteps
       DEF GuardInv, NoLeakedFlow, FlowStaysRegistered, Faults, Guarded, WithFlow
  <2>7. CASE ~Accept(t) /\ ~TaskRegister(t) /\ ~TaskRelease(t) /\ ~DropGuard(t)
    BY <1>1, <1>5, <2>1, <2>2, <2>7, QuietSteps
       DEF GuardInv, NoLeakedFlow, FlowStaysRegistered, Faults
  <2> QED BY <2>3, <2>4, <2>5, <2>6, <2>7
<1> QED BY <1>3, <1>4, <1>5 DEF ConnNext

\* The guard is armed from register_flow to the release, and the table holds exactly
\* the flows of armed guards; only a reset takes a flow from under its task.
THEOREM GuardsMatchTable == ConnSpec => []GuardInv
<1>1. ConnInit => GuardInv
  BY DEF ConnInit, GuardInv, NoLeakedFlow, FlowStaysRegistered, Guarded, WithFlow, IdleTask,
         HandlerInit, FlowInit
<1>2. Base /\ GuardInv /\ [ConnNext]_allVars => GuardInv'
  BY GuardSteps
<1> QED BY <1>1, <1>2, BaseHolds, PTL DEF ConnSpec

\* Nobody else's release removes a flow a task counts on (proxy.rs, the scopeguard
\* around remove_flow), however many connections share a port over time.
THEOREM FlowsStayRegistered == ConnSpec => []FlowStaysRegistered
<1>1. GuardInv => FlowStaysRegistered
  BY DEF GuardInv
<1> QED BY <1>1, GuardsMatchTable, PTL

-----------------------------------------------------------------------------
(* The decision a task acts on *)

\* A task relays, or says it did, only when it did before or has seen the success.
LEMMA RelaySteps ==
  ASSUME Base, NEW t \in Entries, TaskStep(t) \/ Environment(t),
         task'[t].pc \in {"release", "relaying"} \/ task'[t].report = "RelayFinished"
  PROVE  \/ task[t].pc \in {"release", "relaying"} \/ task[t].report = "RelayFinished"
         \/ state[t].outcome = "FakeDataAcked"
<1> DEFINE r == task[t]  n == task'[t]
<1>1. task \in [Entries -> Tasks] /\ r \in Tasks
  BY DEF Base, TasksOK
<1>2. ASSUME NEW pc, Goto(t, pc)
      PROVE  n.pc = pc /\ n.report = r.report
  BY <1>1, <1>2 DEF Goto, Tasks
<1>3. CASE \/ TaskRefused(t) \/ Connect(t) \/ TaskSubscribe(t) \/ TaskWake(t)
           \/ WritePrefix(t) \/ ReadHello(t) \/ Cancel(t)
  BY <1>2, <1>3 DEF TaskRefused, Connect, TaskSubscribe, TaskWake, WritePrefix, ReadHello,
                    Cancel
<1>4. CASE Connected(t) \/ WriteRest(t) \/ WriteHello(t)
  <2>1. \/ Goto(t, "rest")
        \/ \E st : task' = [task EXCEPT ![t].pc = "subscribe", ![t].stage = st]
    BY <1>4 DEF Connected, WriteRest, WriteHello, AwaitCompletion
  <2> QED BY <1>1, <1>2, <2>1 DEF Tasks
<1>5. CASE TaskCheck(t)
  <2>1. CASE Progress(t) = "Complete" /\ Reported(t, state[t].outcome)
    <3>1. state[t].outcome \in Outcomes
      BY <2>1 DEF Progress, Base, HandlerInv, HandlerTypeOK, FlowTypeOK, FlowStates
    <3>2. /\ n.report = state[t].outcome
          /\ n.pc = IF state[t].outcome = "FakeDataAcked" THEN "release" ELSE "closing"
      BY <1>1, <2>1 DEF Reported, Tasks
    <3> QED BY <3>1, <3>2 DEF Outcomes
  <2>2. CASE \E pc \in {"prefix", "reading", "parked"} : Goto(t, pc)
    BY <1>2, <2>2
  <2> QED BY <1>5, <2>1, <2>2 DEF TaskCheck
<1>6. CASE TimeOut(t) \/ IoError(t)
  BY <1>1, <1>6 DEF TimeOut, IoError, Failed, Tasks
<1>7. CASE GiveUpOn(t)
  BY <1>1, <1>7 DEF GiveUpOn, Tasks
<1>8. CASE RelayEnds(t) \/ RelayData(t) \/ TaskRelease(t)
  BY <1>8 DEF RelayEnds, RelayData, TaskRelease
<1>9. CASE CloseSocket(t) \/ DropGuard(t) \/ TaskRegister(t) \/ Accept(t)
  <2>1. n.report = r.report /\ n.pc \in {"guard", "done", "registered", "bound"}
    <3>1. CASE CloseSocket(t)
      BY <1>1, <3>1 DEF CloseSocket, Tasks
    <3>2. CASE DropGuard(t)
      BY <1>1, <3>2 DEF DropGuard, Tasks
    <3>3. CASE TaskRegister(t)
      BY <1>1, <3>3 DEF TaskRegister, Tasks
    <3>4. CASE Accept(t)
      BY <1>1, <3>4 DEF Accept, Tasks
    <3> QED BY <1>9, <3>1, <3>2, <3>3, <3>4
  <2> QED BY <2>1
<1> QED BY <1>3, <1>4, <1>5, <1>6, <1>7, <1>8, <1>9 DEF TaskStep, Environment

\* A step of a task, and what it leaves alone.
LEMMA OtherTasksStay ==
  ASSUME Base, NEW t \in Entries, TaskStep(t) \/ Environment(t), [ConnNext]_allVars,
         NEW u \in Entries, u # t
  PROVE  task'[u] = task[u]
<1>1. born \subseteq born'
  BY ConnStepIsHandlerStep, BornGrows
<1> QED BY <1>1, TaskMoves DEF Moves, Base, TasksOK

LEMMA RelayKept ==
  ASSUME Base, RelayOnlyAfterBypass, [ConnNext]_allVars
  PROVE  RelayOnlyAfterBypass'
<1>1. \A f \in Entries : state[f].outcome = "FakeDataAcked" => state'[f].outcome = "FakeDataAcked"
  <2>1. "FakeDataAcked" # None
    BY NoneAssumption DEF Outcomes
  <2> QED BY <2>1, ConnStepIsHandlerStep, StepOutcomes, DecisionEffect DEF Base
<1>2. CASE UNCHANGED task
  BY <1>1, <1>2 DEF RelayOnlyAfterBypass
<1>3. ASSUME NEW t \in Entries, TaskStep(t) \/ Environment(t)
      PROVE  RelayOnlyAfterBypass'
  BY <1>1, <1>3, OtherTasksStay, RelaySteps DEF RelayOnlyAfterBypass
<1> QED BY <1>2, <1>3, OtherSteps DEF ConnNext, ResetFlows, connVars

\* Bytes are relayed only on a flow that was bypassed, no exit path leaks a flow,
\* and every packet the capture thread takes has a port to look up.
THEOREM ConnInvHolds == ConnSpec => []ConnInv
<1>1. ConnInit => RelayOnlyAfterBypass
  BY NoReportAssumption DEF ConnInit, RelayOnlyAfterBypass, IdleTask
<1>2. Base /\ RelayOnlyAfterBypass /\ [ConnNext]_allVars => RelayOnlyAfterBypass'
  BY RelayKept
<1>3. Base /\ GuardInv /\ RelayOnlyAfterBypass => ConnInv
  BY BaseGives DEF GuardInv, ConnInv
<1> QED BY <1>1, <1>2, <1>3, BaseHolds, GuardsMatchTable, PTL DEF ConnSpec

-----------------------------------------------------------------------------
(* Wakeups *)

\* The futures a task holds while it looks at the state and while it sleeps.
Listening ==
  \A t \in Entries :
    task[t].pc \in {"check", "parked"}
    => waiter[t].armed = IF task[t].stage = "initial" THEN Channels ELSE {"notify"}

\* Which step takes a task to the check, and which puts it to sleep.
LEMMA WaitMoves ==
  ASSUME Base, NEW t \in Entries, TaskStep(t) \/ Environment(t),
         task'[t].pc \in {"check", "parked"}
  PROVE  \/ TaskSubscribe(t) /\ task'[t].pc = "check" /\ task'[t].stage = task[t].stage
         \/ /\ UNCHANGED vars /\ task[t].pc = "check" /\ task'[t].stage = task[t].stage
            /\ Progress(t) = "Pending"
<1> DEFINE r == task[t]  n == task'[t]
<1>1. task \in [Entries -> Tasks] /\ r \in Tasks
  BY DEF Base, TasksOK
<1>2. ASSUME NEW pc, Goto(t, pc)
      PROVE  n.pc = pc /\ n.stage = r.stage
  BY <1>1, <1>2 DEF Goto, Tasks
<1>3. CASE \/ TaskRefused(t) \/ Connect(t) \/ TaskWake(t)
           \/ WritePrefix(t) \/ ReadHello(t) \/ Cancel(t)
  BY <1>2, <1>3 DEF TaskRefused, Connect, TaskWake, WritePrefix, ReadHello, Cancel
<1>4. CASE Connected(t) \/ WriteRest(t) \/ WriteHello(t)
  <2>1. \/ Goto(t, "rest")
        \/ \E st : task' = [task EXCEPT ![t].pc = "subscribe", ![t].stage = st]
    BY <1>4 DEF Connected, WriteRest, WriteHello, AwaitCompletion
  <2> QED BY <1>1, <1>2, <2>1 DEF Tasks
<1>5. CASE TaskCheck(t)
  <2>1. CASE Reported(t, state[t].outcome)
    BY <1>1, <2>1 DEF Reported, Tasks
  <2> QED BY <1>2, <1>5, <2>1 DEF TaskCheck
<1>6. CASE TaskSubscribe(t)
  BY <1>2, <1>6 DEF TaskSubscribe
<1>7. CASE TimeOut(t) \/ IoError(t)
  BY <1>1, <1>7 DEF TimeOut, IoError, Failed, Tasks
<1>8. CASE GiveUpOn(t) \/ RelayEnds(t)
  <2>1. \E report : task' = [task EXCEPT ![t].pc = "closing", ![t].report = report]
    BY <1>8 DEF GiveUpOn, RelayEnds
  <2> QED BY <1>1, <2>1 DEF Tasks
<1>9. CASE RelayData(t)
  BY <1>9 DEF RelayData
<1>10. CASE CloseSocket(t) \/ DropGuard(t) \/ TaskRegister(t) \/ Accept(t) \/ TaskRelease(t)
  <2>1. CASE CloseSocket(t)
    BY <1>1, <2>1 DEF CloseSocket, Tasks
  <2>2. CASE DropGuard(t) \/ TaskRelease(t)
    BY <2>2, FlowSteps
  <2>3. CASE TaskRegister(t)
    BY <1>1, <2>3 DEF TaskRegister, Tasks
  <2>4. CASE Accept(t)
    BY <2>4, FlowSteps
  <2> QED BY <1>10, <2>1, <2>2, <2>3, <2>4
<1> QED BY <1>3, <1>4, <1>5, <1>6, <1>7, <1>8, <1>9, <1>10 DEF TaskStep, Environment

\* A task that sleeps through a step and is not woken finds its flow as it was.
LEMMA SleepsOn ==
  ASSUME Base, Listening, NoLostWakeup, [Next]_vars, NEW f \in Entries,
         WakeKept(f), task'[f] = task[f], task[f].pc \in {"check", "parked"}
  PROVE  /\ waiter'[f].armed = waiter[f].armed
         /\ task[f].pc = "parked" /\ Progress(f)' # "Pending" => waiter'[f].woken
<1>1. /\ "notify" \in waiter[f].armed
      /\ task[f].stage = "initial" => "ready_for_data" \in waiter[f].armed
  BY DEF Listening, Channels
<1>2. state[f].outcome = None /\ state'[f].outcome # None => waiter'[f].woken
  BY <1>1, StepOutcomes, DecisionEffect DEF Base
<1>3. ASSUME task[f].pc = "parked", Progress(f)' # "Pending", ~waiter'[f].woken
      PROVE  FALSE
  <2>1. ~waiter[f].woken
    BY <1>3 DEF WakeKept
  <2>2. Progress(f) = "Pending"
    BY <1>3, <2>1 DEF NoLostWakeup
  <2>3. state[f].outcome = None
    BY <2>2 DEF Progress
  <2>4. state'[f].outcome = None
    BY <1>2, <1>3, <2>3
  <2>5. task[f].stage = "initial" /\ state'[f].waiting_for_data
    BY <1>3, <2>4 DEF Progress
  <2>6. ~state[f].waiting_for_data
    BY <2>2, <2>3, <2>5 DEF Progress
  <2> QED BY <1>1, <1>3, <2>5, <2>6 DEF WakeKept
<1> QED BY <1>3 DEF WakeKept

LEMMA WaitKept ==
  ASSUME Base, Listening, NoLostWakeup, [ConnNext]_allVars
  PROVE  Listening' /\ NoLostWakeup'
<1>1. [Next]_vars /\ HandlerInv
  BY ConnStepIsHandlerStep DEF Base
<1>2. ASSUME NEW f \in Entries, WakeKept(f), task'[f] = task[f]
      PROVE  /\ task'[f].pc \in {"check", "parked"}
                => waiter'[f].armed = IF task'[f].stage = "initial" THEN Channels ELSE {"notify"}
             /\ task'[f].pc = "parked" /\ Progress(f)' # "Pending" => waiter'[f].woken
  BY <1>1, <1>2, SleepsOn DEF Listening
<1>3. CASE CaptureStep \/ Extra \/ ResetFlows \/ AllDone \/ UNCHANGED allVars
  <2>1. UNCHANGED task
    BY <1>3, OtherSteps DEF ResetFlows, connVars
  <2>2. Capture \/ Reset \/ UNCHANGED vars
    BY <1>3, CaptureSteps DEF ResetFlows, Reset, Extra, AllDone, allVars
  <2>3. \A f \in Entries : WakeKept(f)
    BY <1>1, <2>2, StepWakes
  <2> QED BY <1>2, <2>1, <2>3 DEF Listening, NoLostWakeup
<1>4. ASSUME NEW t \in Entries, TaskStep(t) \/ Environment(t)
      PROVE  Listening' /\ NoLostWakeup'
  <2>1. ASSUME NEW u \in Entries, u # t
        PROVE  task'[u] = task[u] /\ WakeKept(u)
    <3>1. CASE TaskSubscribe(t)
      <4>1. waiter'[u] = waiter[u] /\ state' = state
        BY <1>1, <2>1, <3>1 DEF TaskSubscribe, Subscribe, HandlerInv, HandlerTypeOK, FlowTypeOK
      <4> QED BY <1>4, <2>1, <4>1, OtherTasksStay DEF WakeKept
    <3>2. CASE ~TaskSubscribe(t)
      <4>1. Register \/ Release \/ GiveUp \/ UNCHANGED vars
        <5>1. CASE TaskStep(t)
          BY <3>2, <5>1, TaskSteps
        <5>2. CASE Environment(t)
          BY <5>2 DEF Environment, Accept, ReadHello, RelayData, RelayEnds, TimeOut, IoError,
                      Cancel
        <5> QED BY <1>4, <5>1, <5>2
      <4> QED BY <1>1, <1>4, <2>1, <4>1, StepWakes, OtherTasksStay
    <3> QED BY <3>1, <3>2
  <2>2. /\ task'[t].pc \in {"check", "parked"}
           => waiter'[t].armed = IF task'[t].stage = "initial" THEN Channels ELSE {"notify"}
        /\ task'[t].pc = "parked" /\ Progress(t)' # "Pending" => waiter'[t].woken
    <3>1. CASE TaskSubscribe(t) /\ task'[t].pc = "check" /\ task'[t].stage = task[t].stage
      BY <1>1, <3>1 DEF TaskSubscribe, Subscribe, HandlerInv, HandlerTypeOK, FlowTypeOK
    <3>2. CASE /\ UNCHANGED vars /\ task[t].pc = "check" /\ task'[t].stage = task[t].stage
               /\ Progress(t) = "Pending"
      <4>1. Progress(t)' = Progress(t) /\ waiter' = waiter
        BY <3>2 DEF Progress, vars, flowVars
      <4> QED BY <3>2, <4>1 DEF Listening
    <3> QED BY <1>4, <3>1, <3>2, WaitMoves
  <2> QED BY <1>2, <2>1, <2>2 DEF Listening, NoLostWakeup
<1> QED BY <1>3, <1>4 DEF ConnNext

\* Because each wait subscribes before it looks (proxy.rs 515), no decision and no
\* readiness is slept through, whatever happens between the look and the await.
THEOREM NoWakeupIsLost == ConnSpec => []NoLostWakeup
<1>1. ConnInit => Listening /\ NoLostWakeup
  BY DEF ConnInit, Listening, NoLostWakeup, IdleTask
<1>2. Base /\ Listening /\ NoLostWakeup /\ [ConnNext]_allVars => Listening' /\ NoLostWakeup'
  BY WaitKept
<1> QED BY <1>1, <1>2, BaseHolds, PTL DEF ConnSpec

-----------------------------------------------------------------------------
(* The fake packet goes first *)

ActedOn(s) ==
  \/ s.fake_sent \/ s.waiting_for_data \/ s.waiting_for_first_data_ack
  \/ s.fragment_all_data \/ s.outcome = "FakeDataAcked"

\* The handler has answered the handshake of this flow with anything but an abort,
\* or is about to say that the bypass succeeded.
Touched(t) ==
  \/ ActedOn(state[t])
  \/ /\ thread.step \in {"finish", "signal"} /\ thread.entry = t
     /\ thread.outcome = "FakeDataAcked"

\* A flow is first touched by the method's answer to its handshake ACK.
LEMMA HandleTouches ==
  ASSUME HandlerInv, NEW p \in Packets, NEW v,
         NEW h \in MethodActions, NEW d \in MethodActions,
         Handle(p, {h}, {d}, v), NEW f \in Entries, Touched(f)', ~Touched(f)
  PROVE  /\ f = thread.entry /\ p.flags.len = 0
         /\ \/ Emits(h) /\ v = "AcceptModified"
            \/ h.kind \in {"PassThrough", "CompleteAndAccept"}
<1> DEFINE e == thread.entry
           s == state[e]
           Goal == /\ f = e /\ p.flags.len = 0
                   /\ \/ Emits(h) /\ v = "AcceptModified"
                      \/ h.kind \in {"PassThrough", "CompleteAndAccept"}
<1>1. /\ e \in Entries /\ s \in FlowStates /\ state \in [Entries -> FlowStates]
      /\ IdleThread.step = "idle"
  BY DEF Handle, HandlerInv, HandlerTypeOK, FlowTypeOK, IdleThread
<1> SUFFICES Goal
  OBVIOUS
<1> HIDE DEF e, s, Goal
<1>2. ASSUME Pass(v) PROVE FALSE
  BY <1>1, <1>2 DEF Pass, Touched
<1>3. ASSUME NEW r, NEW vd, Return(e, r, vd, v)
      PROVE  f = e /\ ~ActedOn(s) /\ ActedOn(r)
  <2>1. state'[f] = (IF f = e THEN r ELSE state[f]) /\ thread' = IdleThread
    BY <1>1, <1>3 DEF Return
  <2>2. ActedOn(state'[f])
    BY <1>1, <2>1 DEF Touched
  <2>3. ~ActedOn(state[f])
    BY DEF Touched
  <2> QED BY <2>1, <2>2, <2>3 DEF s
<1>4. ASSUME NEW r, NEW step, NEW o, NEW vd, ThenDecide(e, r, step, o, vd, v)
      PROVE  f = e /\ ~ActedOn(s) /\ (ActedOn(r) \/ o = "FakeDataAcked")
  <2>1. /\ state'[f] = IF f = e THEN r ELSE state[f]
        /\ thread'.entry = e /\ thread'.outcome = o
    BY <1>1, <1>4 DEF ThenDecide
  <2>2. ~ActedOn(state[f])
    BY DEF Touched
  <2> QED BY <2>1, <2>2 DEF Touched, s
<1>5. ASSUME Unexpected(e, v) PROVE FALSE
  <2>1. state' = [state EXCEPT ![e] = Finished(state[e], "UnexpectedClose")]
        /\ thread' = IdleThread
    <3>1. FlowTypeOK /\ "UnexpectedClose" \in Outcomes
      BY DEF HandlerInv, HandlerTypeOK, Outcomes
    <3> QED BY <1>1, <1>5, <3>1, FinishEffect DEF Unexpected
  <2>2. state'[f] = IF f = e THEN Finished(s, "UnexpectedClose") ELSE state[f]
    BY <1>1, <2>1 DEF s
  <2>3. ActedOn(Finished(s, "UnexpectedClose")) => ActedOn(s)
    BY <1>1 DEF ActedOn, Finished, FlowStates
  <2>4. ActedOn(state'[f]) /\ ~ActedOn(state[f])
    BY <1>1, <2>1 DEF Touched
  <2> QED BY <2>2, <2>3, <2>4 DEF s
<1>6. ASSUME ActedOn(s) PROVE ~ThenDecide(e, s, "finish", "FakeDataAcked", "Accept", v)
  BY <1>4, <1>6
<1>7. CASE OutboundSyn(e, p, v)
  <2> DEFINE r == [s EXCEPT !.syn_seq = p.seq]
  <2>1. Return(e, r, "Accept", v)
    BY <1>5, <1>7 DEF OutboundSyn, s
  <2>2. ActedOn(r) => ActedOn(s)
    BY <1>1 DEF ActedOn, FlowStates
  <2> HIDE DEF r
  <2> QED BY <1>3, <2>1, <2>2
<1>8. CASE OutboundAck(e, p, {h}, v)
  <2>1. OnHandshakeCompleteAck(e, h, v)
    BY <1>2, <1>5, <1>8 DEF OutboundAck
  <2>2. p.flags.len = 0
    BY <1>8 DEF OutboundAck, IsBareAck
  <2>3. CASE h.kind = "EmitFakeAndAccept"
    <3>1. v = "AcceptModified"
      BY <2>1, <2>3 DEF OnHandshakeCompleteAck, Return, ThenDecide
    <3>2. f = e
      BY <1>3, <1>4, <2>1, <2>3 DEF OnHandshakeCompleteAck
    <3> QED BY <2>2, <2>3, <3>1, <3>2 DEF Goal, Emits
  <2>4. CASE h.kind \in {"PassThrough", "CompleteAndAccept"}
    <3>1. f = e
      BY <1>3, <1>4, <2>1, <2>4 DEF OnHandshakeCompleteAck
    <3> QED BY <2>2, <2>4, <3>1 DEF Goal
  <2>5. CASE h.kind = "AbortAndAccept"
    <3>1. ThenDecide(e, s, "finish", "UnexpectedClose", "Accept", v)
      BY <2>1, <2>5 DEF OnHandshakeCompleteAck, s
    <3> QED BY <1>4, <3>1
  <2> QED BY <2>1, <2>3, <2>4, <2>5 DEF OnHandshakeCompleteAck
<1>9. CASE OutboundData(e, p, {d}, v)
  <2>1. ActedOn(s) /\ OnFirstDataPacket(e, d, v)
    BY <1>9 DEF OutboundData, IsStagedData, ActedOn, s
  <2>2. \/ \E r, vd : Return(e, r, vd, v)
        \/ \E r, step, o, vd : ThenDecide(e, r, step, o, vd, v)
    BY <2>1 DEF OnFirstDataPacket
  <2> QED BY <1>3, <1>4, <2>1, <2>2
<1>10. CASE OutboundOther(e, p, v)
  <2> DEFINE r == [s EXCEPT !.monitor = @ /\ ~(p.flags.fin \/ p.flags.rst)]
  <2>1. Return(e, r, "Accept", v)
    BY <1>2, <1>5, <1>10 DEF OutboundOther, s
  <2>2. ActedOn(r) => ActedOn(s)
    BY <1>1 DEF ActedOn, FlowStates
  <2> HIDE DEF r
  <2> QED BY <1>3, <2>1, <2>2
<1>11. CASE Inbound(e, p, v)
  <2> DEFINE a == [s EXCEPT !.syn_ack_seq = p.seq]
             b == [s EXCEPT !.waiting_for_first_data_ack = FALSE]
  <2>1. InboundSynAck(e, p, v) \/ InboundPostFakeAck(e, p, v) \/ InboundFirstDataAck(e, p, v)
    BY <1>2, <1>5, <1>11 DEF Inbound
  <2>2. CASE InboundSynAck(e, p, v)
    <3>1. Return(e, a, "Accept", v)
      BY <1>5, <2>2 DEF InboundSynAck, s
    <3>2. ActedOn(a) => ActedOn(s)
      BY <1>1 DEF ActedOn, FlowStates
    <3> HIDE DEF a
    <3> QED BY <1>3, <3>1, <3>2
  <2>3. CASE InboundPostFakeAck(e, p, v)
    <3>1. ActedOn(s) /\ ThenDecide(e, s, "finish", "FakeDataAcked", "Accept", v)
      BY <1>2, <1>5, <2>3 DEF InboundPostFakeAck, ActedOn, s
    <3> QED BY <1>6, <3>1
  <2>4. CASE InboundFirstDataAck(e, p, v)
    <3>1. ActedOn(s) /\ ThenDecide(e, b, "finish", "FakeDataAcked", "Accept", v)
      BY <1>2, <1>5, <2>4 DEF InboundFirstDataAck, ActedOn, s
    <3> HIDE DEF b
    <3> QED BY <1>4, <3>1
  <2> QED BY <2>1, <2>2, <2>3, <2>4
<1> QED BY <1>2, <1>7, <1>8, <1>9, <1>10, <1>11 DEF Handle, e

\* Every fake-packet method that has something to stage has acted on the connection.
Faked(t) ==
  ~LastGivesUp(cfg, Stamped) => {cfg.list[i] : i \in Staging(cfg, Stamped)} \subseteq applied[t]

\* What the proof needs of a list: when a member stages a fake, the composite
\* forwards it, or its last member gives up.
FakesForwarded ==
  \A x \in Scenarios :
    \/ Staging(x.config, x.stamped) = {}
    \/ Emits(CompositeHandshake(x.config, x.stamped))
    \/ LastGivesUp(x.config, x.stamped)

LEMMA FakedGrows ==
  ASSUME Base, [ConnNext]_allVars, NEW t \in Entries
  PROVE  /\ scenario' = scenario /\ applied[t] \subseteq applied'[t]
         /\ Faked(t) => Faked(t)'
<1>1. scenario' = scenario /\ applied[t] \subseteq applied'[t]
  <2>1. CASE CaptureHandle
    <3>1. thread.entry \in Entries
      BY <2>1 DEF CaptureHandle, Handle, Base, HandlerInv, HandlerTypeOK
    <3>2. \E a : applied' \in {applied, [applied EXCEPT ![thread.entry] = @ \cup a]}
      BY <2>1 DEF CaptureHandle
    <3>3. scenario' = scenario
      BY <2>1 DEF CaptureHandle
    <3> QED BY <3>1, <3>2, <3>3 DEF Base, NetOK
  <2>2. CASE \/ CaptureUnknown \/ CaptureLookup \/ CaptureDeferred \/ Forward \/ Extra
             \/ ResetFlows \/ AllDone \/ UNCHANGED allVars
    BY <2>2 DEF CaptureUnknown, CaptureLookup, CaptureDeferred, Forward, Extra, ResetFlows,
                AllDone, allVars, connVars
  <2>3. ASSUME NEW u \in Entries, TaskStep(u) \/ Environment(u)
        PROVE  scenario' = scenario /\ applied[t] \subseteq applied'[t]
    BY <2>3, TaskNet
  <2> QED BY <2>1, <2>2, <2>3 DEF ConnNext, CaptureStep
<1>2. cfg' = cfg /\ Stamped' = Stamped
  BY <1>1 DEF cfg, Stamped
<1>3. /\ Staging(cfg, Stamped)' = Staging(cfg, Stamped)
      /\ LastGivesUp(cfg, Stamped)' = LastGivesUp(cfg, Stamped)
  BY <1>2
<1> HIDE DEF cfg, Stamped
<1> QED BY <1>1, <1>2, <1>3 DEF Faked

LEMMA CloseTouches ==
  ASSUME HandlerInv, NEW e \in Entries, Finish(e, "UnexpectedClose"), UNCHANGED thread,
         NEW f \in Entries, Touched(f)'
  PROVE  Touched(f)
<1>1. state \in [Entries -> FlowStates] /\ state[f] \in FlowStates
  BY DEF HandlerInv, HandlerTypeOK, FlowTypeOK
<1>2. FlowTypeOK /\ "UnexpectedClose" \in Outcomes
  BY DEF HandlerInv, HandlerTypeOK, Outcomes
<1>3. state' = [state EXCEPT ![e] = Finished(state[e], "UnexpectedClose")]
  BY <1>2, FinishEffect
<1>4. state'[f] = IF f = e THEN Finished(state[f], "UnexpectedClose") ELSE state[f]
  BY <1>1, <1>3
<1>5. ActedOn(Finished(state[f], "UnexpectedClose")) => ActedOn(state[f])
  BY <1>1 DEF ActedOn, Finished, FlowStates
<1> QED BY <1>4, <1>5 DEF Touched

\* The methods of the list have acted on a connection by the time it is touched.
LEMMA TouchedSteps ==
  ASSUME Base, FakesForwarded, [ConnNext]_allVars, NEW f \in Entries, Touched(f)'
  PROVE  Touched(f) \/ Faked(f)'
<1>1. HandlerInv
  BY DEF Base
<1>2. CASE UNCHANGED <<state, thread>>
  BY <1>2 DEF Touched
<1>3. CASE CaptureHandle
  <2> DEFINE p == Head(queue)
             h == CompositeHandshake(cfg, Stamped)
             d == CompositeData(cfg, WholeRecords(p.payload),
                                state[thread.entry].first_data_modified)
  <2>1. p.packet \in Packets
    BY <1>3, HeadKnown DEF CaptureHandle, Base, KnownPackets, Queued
  <2>2. h \in MethodActions /\ d \in MethodActions
    BY HandshakeAnswerType, DataAnswerType
  <2>3. PICK v \in Verdicts :
          /\ Handle(p.packet, {h}, {d}, v)
          /\ applied' = IF v = "AcceptModified"
                        THEN [applied EXCEPT ![thread.entry] =
                                @ \cup Acting(state[thread.entry], p)]
                        ELSE applied
    BY <1>3 DEF CaptureHandle
  <2>4. UNCHANGED scenario
    BY <1>3 DEF CaptureHandle
  <2>5. scenario \in Scenarios /\ applied \in [Entries -> SUBSET BaseBypassMethods]
    BY DEF Base, NetOK
  <2>6. Staging(cfg, Stamped) = {} \/ Emits(h) \/ LastGivesUp(cfg, Stamped)
    BY <2>5 DEF FakesForwarded, cfg, Stamped
  <2>7. cfg' = cfg /\ Stamped' = Stamped
    BY <2>4 DEF cfg, Stamped
  <2> HIDE DEF h, d, cfg, Stamped
  <2>8. ASSUME ~Touched(f)
        PROVE  /\ f = thread.entry /\ p.packet.flags.len = 0
               /\ \/ Emits(h) /\ v = "AcceptModified"
                  \/ h.kind \in {"PassThrough", "CompleteAndAccept"}
    BY <1>1, <2>1, <2>2, <2>3, <2>8, HandleTouches
  <2>9. CASE ~Touched(f) /\ Emits(h) /\ v = "AcceptModified"
    <3>1. ~IsStagedData(state[thread.entry], p.packet)
      BY <2>8, <2>9 DEF IsStagedData
    <3>2. Acting(state[thread.entry], p) = {cfg.list[i] : i \in Staging(cfg, Stamped)}
      BY <3>1 DEF Acting
    <3>3. Acting(state[thread.entry], p) \subseteq applied'[f]
      BY <2>3, <2>5, <2>8, <2>9
    <3> QED BY <2>7, <3>2, <3>3 DEF Faked
  <2>10. CASE ~Touched(f) /\ h.kind \in {"PassThrough", "CompleteAndAccept"}
    <3>1. Staging(cfg, Stamped) = {} \/ LastGivesUp(cfg, Stamped)
      BY <2>6, <2>10 DEF Emits
    <3> QED BY <2>7, <3>1 DEF Faked
  <2> QED BY <2>8, <2>9, <2>10
<1>4. CASE CaptureLookup
  BY <1>4 DEF CaptureLookup, Lookup, IdleThread, flowVars, Touched
<1>5. CASE CaptureDeferred
  <2>1. /\ thread.entry \in Entries /\ thread.outcome \in Outcomes
        /\ thread.step \in {"finish", "signal"} /\ thread' = IdleThread
        /\ state \in [Entries -> FlowStates] /\ state[f] \in FlowStates
    BY <1>1, <1>5 DEF CaptureDeferred, Deferred, HandlerInv, HandlerTypeOK, FlowTypeOK
  <2>2. ActedOn(state'[f])
    BY <2>1 DEF Touched, IdleThread
  <2>3. CASE f # thread.entry \/ state[f].outcome # None
    <3>1. state'[f] = state[f]
      BY <1>5, <2>1, <2>3 DEF CaptureDeferred, Deferred, Finish, SignalOutcome
    <3> QED BY <2>2, <3>1 DEF Touched
  <2>4. CASE f = thread.entry /\ state[f].outcome = None /\ thread.outcome = "FakeDataAcked"
    BY <2>1, <2>4 DEF Touched
  <2>5. CASE f = thread.entry /\ state[f].outcome = None /\ thread.outcome = "UnexpectedClose"
    <3>1. \/ state'[f] = [state[f] EXCEPT !.outcome = "UnexpectedClose", !.monitor = FALSE]
          \/ state'[f] = [state[f] EXCEPT !.outcome = "UnexpectedClose"]
      BY <1>5, <2>1, <2>5 DEF CaptureDeferred, Deferred, Finish, SignalOutcome
    <3>2. ActedOn(state'[f]) => ActedOn(state[f])
      BY <2>1, <3>1 DEF ActedOn, FlowStates
    <3> QED BY <2>2, <3>2 DEF Touched
  <2> QED BY <2>1, <2>3, <2>4, <2>5 DEF Outcomes
<1>6. CASE ResetFlows
  <2>1. UNCHANGED thread
    BY <1>6 DEF ResetFlows, handlerVars
  <2>2. UNCHANGED state \/ \E e \in Entries : Finish(e, "UnexpectedClose")
    BY <1>1, <1>6 DEF ResetFlows, ResetStep, ResetBegin, ResetClear, ResetVisit, HandlerInv,
                      HandlerTypeOK, FlowTypeOK
  <2> QED BY <1>1, <1>2, <2>1, <2>2, CloseTouches
<1>7. CASE CaptureUnknown \/ Forward \/ Extra \/ AllDone \/ UNCHANGED allVars
  <2>1. UNCHANGED <<state, thread>>
    BY <1>7 DEF CaptureUnknown, Forward, Extra, AllDone, allVars, vars, flowVars, handlerVars
  <2> QED BY <1>2, <2>1
<1>8. ASSUME NEW t \in Entries, TaskStep(t) \/ Environment(t)
      PROVE  Touched(f)
  <2>1. CASE GiveUpOn(t)
    BY <1>1, <2>1, CloseTouches DEF GiveUpOn, handlerVars
  <2>2. CASE ~GiveUpOn(t)
    <3>1. UNCHANGED <<state, thread>>
      <4>1. CASE TaskStep(t)
        BY <2>2, <4>1
           DEF TaskStep, TaskRegister, RegisterFlow, TaskRefused, Connect, Connected,
               TaskSubscribe, TaskCheck, TaskWake, WritePrefix, WriteHello, WriteRest,
               TaskRelease, RemoveFlow, CloseSocket, DropGuard, vars, flowVars, handlerVars
      <4>2. CASE Environment(t)
        BY <4>2 DEF Environment, Accept, ReadHello, RelayData, RelayEnds, TimeOut, IoError,
                    Cancel, vars, flowVars, handlerVars
      <4> QED BY <1>8, <4>1, <4>2
    <3> QED BY <1>2, <3>1 DEF Touched
  <2> QED BY <2>1, <2>2
<1> QED BY <1>3, <1>4, <1>5, <1>6, <1>7, <1>8 DEF ConnNext, CaptureStep

\* The ReadyForData arm, which is entered on a flow that waits for data.
DataArm == {"prefix", "reading", "writing", "rest"}

LEMMA DataMoves ==
  ASSUME Base, NEW t \in Entries, TaskStep(t) \/ Environment(t), task'[t].pc \in DataArm
  PROVE  task[t].pc \in DataArm \/ state[t].waiting_for_data
<1> DEFINE r == task[t]  n == task'[t]
<1>1. task \in [Entries -> Tasks] /\ r \in Tasks
  BY DEF Base, TasksOK
<1>2. ASSUME NEW pc, Goto(t, pc) PROVE n.pc = pc
  BY <1>1, <1>2 DEF Goto, Tasks
<1>3. CASE TaskRefused(t) \/ Connect(t) \/ TaskWake(t) \/ Cancel(t) \/ TaskSubscribe(t)
  BY <1>2, <1>3 DEF TaskRefused, Connect, TaskWake, Cancel, TaskSubscribe, DataArm
<1>4. CASE WritePrefix(t) \/ ReadHello(t) \/ WriteRest(t) \/ WriteHello(t)
  BY <1>4 DEF WritePrefix, ReadHello, WriteRest, WriteHello, DataArm
<1>5. CASE Connected(t)
  BY <1>1, <1>5 DEF Connected, Tasks, DataArm
<1>6. CASE TaskCheck(t)
  <2>1. CASE Reported(t, state[t].outcome)
    BY <1>1, <2>1 DEF Reported, Tasks, DataArm
  <2>2. CASE Goto(t, "parked")
    BY <1>2, <2>2 DEF DataArm
  <2>3. CASE Progress(t) = "ReadyForData"
    BY <2>3 DEF Progress
  <2> QED BY <1>6, <2>1, <2>2, <2>3 DEF TaskCheck
<1>7. CASE TimeOut(t) \/ IoError(t)
  BY <1>1, <1>7 DEF TimeOut, IoError, Failed, Tasks, DataArm
<1>8. CASE GiveUpOn(t) \/ RelayEnds(t)
  <2>1. \E report : task' = [task EXCEPT ![t].pc = "closing", ![t].report = report]
    BY <1>8 DEF GiveUpOn, RelayEnds
  <2> QED BY <1>1, <2>1 DEF Tasks, DataArm
<1>9. CASE RelayData(t)
  BY <1>9 DEF RelayData
<1>10. CASE CloseSocket(t)
  BY <1>1, <1>10 DEF CloseSocket, Tasks, DataArm
<1>11. CASE TaskRegister(t)
  BY <1>1, <1>11 DEF TaskRegister, Tasks, DataArm
<1>12. CASE DropGuard(t) \/ TaskRelease(t) \/ Accept(t)
  BY <1>12, FlowSteps DEF DataArm
<1> QED BY <1>3, <1>4, <1>5, <1>6, <1>7, <1>8, <1>9, <1>10, <1>11, <1>12
        DEF TaskStep, Environment

\* No ClientHello is on its way before the fakes of its connection.
FakedPackets == {q \in KnownPackets : q.payload = "hello" => Faked(q.owner)}

FakeInv ==
  /\ \A t \in Entries : Touched(t) \/ task[t].pc \in DataArm => Faked(t)
  /\ queue \in Seq(FakedPackets)
  /\ FakeBeforeHello

LEMMA FakedPacketsGrow ==
  ASSUME Base, [ConnNext]_allVars
  PROVE  FakedPackets \subseteq FakedPackets'
<1>1. KnownPackets \subseteq KnownPackets'
  <2>1. born \subseteq born'
    BY ConnStepIsHandlerStep, BornGrows
  <2>2. CASE UNCHANGED task
    BY <2>1, <2>2, StaysKeep DEF Base
  <2>3. ASSUME NEW t \in Entries, TaskStep(t) \/ Environment(t)
        PROVE  KnownPackets \subseteq KnownPackets'
    BY <2>1, <2>3, TaskMoves, MovesKeep DEF Base
  <2> QED BY <2>2, <2>3, OtherSteps DEF ConnNext, ResetFlows, connVars
<1>2. ASSUME NEW q \in FakedPackets, q.payload = "hello" PROVE Faked(q.owner)'
  BY <1>2, FakedGrows DEF FakedPackets, KnownPackets, Queued
<1> QED BY <1>1, <1>2 DEF FakedPackets

LEMMA FakeSteps ==
  ASSUME Base, FakeInv, RelayOnlyAfterBypass, FakesForwarded, [ConnNext]_allVars
  PROVE  FakeInv'
<1>1. \A t \in Entries : Faked(t) => Faked(t)'
  BY FakedGrows
<1>2. ASSUME NEW t \in Entries, Touched(t)' PROVE Faked(t)'
  BY <1>1, <1>2, TouchedSteps DEF FakeInv
<1>3. ASSUME NEW t \in Entries, task'[t].pc \in DataArm PROVE Faked(t)'
  <2>1. CASE task[t].pc \in DataArm \/ state[t].waiting_for_data
    BY <1>1, <2>1 DEF FakeInv, Touched, ActedOn
  <2>2. CASE task'[t] = task[t]
    BY <1>3, <2>1, <2>2
  <2>3. ASSUME NEW u \in Entries, TaskStep(u) \/ Environment(u)
        PROVE  Faked(t)'
    BY <1>3, <2>1, <2>2, <2>3, DataMoves, OtherTasksStay
  <2> QED BY <2>2, <2>3, OtherSteps DEF ConnNext, ResetFlows, connVars
<1>4. queue \in Seq(FakedPackets') /\ Seq(FakedPackets) \subseteq Seq(FakedPackets')
  BY FakedPacketsGrow, SeqMonotonic DEF FakeInv
<1>5. queue' \in Seq(FakedPackets')
  <2>1. CASE UNCHANGED queue
    BY <1>4, <2>1
  <2>2. CASE Forward
    <3>1. Head(queue) \in FakedPackets /\ Tail(queue) \in Seq(FakedPackets)
      BY <2>2, HeadTailProperties DEF Forward, FakeInv
    <3>2. \A q \in KnownPackets : q.payload = "none" => q \in FakedPackets
      BY DEF FakedPackets
    <3>3. Head(queue) \in KnownPackets
      BY <3>1 DEF FakedPackets
    <3>4. Reply(Head(queue)) \in Seq(FakedPackets)
      BY <3>1, <3>2, <3>3, ReplyType
    <3> QED BY <1>4, <2>2, <3>1, <3>4, ConcatProperties DEF Forward
  <2>3. CASE Extra
    <3>1. HandlerInv'
      BY ConnStepIsHandlerStep, HandlerSteps DEF Base
    <3>2. PICK p \in KnownPackets : p.payload # "hello" /\ queue' = Append(queue, p)
      BY <2>3, <3>1, ExtraKeepsBase
    <3>3. p \in FakedPackets
      BY <3>2 DEF FakedPackets
    <3> QED BY <1>4, <3>2, <3>3, FakedPacketsGrow, AppendProperties
  <2>4. ASSUME NEW t \in Entries, TaskStep(t) \/ Environment(t)
        PROVE  queue' \in Seq(FakedPackets')
    <3>1. CASE \E p \in Queued :
                 /\ p.owner = t /\ queue' = Append(queue, p)
                 /\ p.payload = "hello" => task[t].pc \in {"writing", "relaying"}
      <4>1. PICK p \in Queued :
              /\ p.owner = t /\ queue' = Append(queue, p)
              /\ p.payload = "hello" => task[t].pc \in {"writing", "relaying"}
        BY <3>1
      <4>2. p \in KnownPackets'
        <5>1. born \subseteq born'
          BY ConnStepIsHandlerStep, BornGrows
        <5> QED BY <2>4, <4>1, <5>1, TaskMoves DEF Moves, KnownPackets
      <4>3. p.payload = "hello" => Faked(t)'
        BY <1>1, <4>1 DEF FakeInv, RelayOnlyAfterBypass, Touched, ActedOn, DataArm
      <4>4. p \in FakedPackets'
        BY <4>1, <4>2, <4>3 DEF FakedPackets
      <4> QED BY <1>4, <4>1, <4>4, AppendProperties
    <3> QED BY <2>1, <2>4, <3>1, TaskNet
  <2>5. CASE CaptureUnknown \/ CaptureLookup \/ CaptureHandle \/ CaptureDeferred
             \/ ResetFlows \/ AllDone \/ UNCHANGED allVars
    <3>1. UNCHANGED queue
      BY <2>5 DEF CaptureUnknown, CaptureLookup, CaptureHandle, CaptureDeferred, ResetFlows,
                  AllDone, allVars, connVars
    <3> QED BY <2>1, <3>1
  <2> QED BY <2>2, <2>3, <2>4, <2>5 DEF ConnNext, CaptureStep
<1>6. FakeBeforeHello'
  <2>1. scenario' = scenario
    <3>1. CASE Entries = {}
      BY <3>1 DEF ConnNext, CaptureStep, CaptureUnknown, CaptureLookup, CaptureHandle,
                  CaptureDeferred, Forward, Extra, ResetFlows, AllDone, allVars, connVars
    <3> QED BY <3>1, FakedGrows
  <2>2. cfg' = cfg /\ Stamped' = Stamped
    BY <2>1 DEF cfg, Stamped
  <2> HIDE DEF cfg, Stamped
  <2>3. CASE UNCHANGED shown
    BY <2>2, <2>3 DEF FakeInv, FakeBeforeHello
  <2>4. CASE Forward
    <3> DEFINE p == Head(queue)
    <3>1. p \in FakedPackets /\ p.owner \in Entries
      BY <2>4, HeadTailProperties DEF Forward, FakeInv, FakedPackets, KnownPackets, Queued
    <3>2. \/ UNCHANGED shown
          \/ p.payload = "hello" /\ shown' = [shown EXCEPT ![p.owner] = applied[p.owner]]
      BY <2>4 DEF Forward
    <3>3. CASE p.payload = "hello" /\ shown' = [shown EXCEPT ![p.owner] = applied[p.owner]]
      <4>1. Faked(p.owner)
        BY <3>1, <3>3 DEF FakedPackets
      <4>2. \A t \in Entries : shown'[t] = IF t = p.owner THEN applied[t] ELSE shown[t]
        BY <3>1, <3>3 DEF Base, NetOK
      <4> HIDE DEF p
      <4> QED BY <2>2, <4>1, <4>2 DEF FakeInv, FakeBeforeHello, Faked
    <3> QED BY <2>3, <3>2, <3>3
  <2>5. ASSUME NEW t \in Entries, TaskStep(t) \/ Environment(t)
        PROVE  UNCHANGED shown
    BY <2>5, TaskNet
  <2>6. CASE CaptureUnknown \/ CaptureLookup \/ CaptureHandle \/ CaptureDeferred
             \/ Extra \/ ResetFlows \/ AllDone \/ UNCHANGED allVars
    <3>1. UNCHANGED shown
      BY <2>6 DEF CaptureUnknown, CaptureLookup, CaptureHandle, CaptureDeferred, Extra,
                  ResetFlows, AllDone, allVars, connVars
    <3> QED BY <2>3, <3>1
  <2> QED BY <2>3, <2>4, <2>5, <2>6 DEF ConnNext, CaptureStep
<1> QED BY <1>2, <1>3, <1>5, <1>6 DEF FakeInv

LEMMA ForwardedGoFirst ==
  ASSUME FakesForwarded
  PROVE  ConnSpec => []FakeBeforeHello
<1>1. ConnInit => FakeInv
  <2> SUFFICES ASSUME ConnInit PROVE FakeInv
    OBVIOUS
  <2>1. \A t \in Entries : ~Touched(t) /\ task[t].pc \notin DataArm
    BY NoneAssumption DEF ConnInit, IdleTask, HandlerInit, FlowInit, NewFlowState, IdleThread,
                          Touched, ActedOn, DataArm, Outcomes
  <2>2. queue \in Seq(FakedPackets)
    BY DEF ConnInit
  <2>3. FakeBeforeHello
    BY DEF ConnInit, FakeBeforeHello
  <2> QED BY <2>1, <2>2, <2>3 DEF FakeInv
<1>2. Base /\ ConnInv /\ FakeInv /\ [ConnNext]_allVars => FakeInv'
  BY FakeSteps DEF ConnInv
<1>3. FakeInv => FakeBeforeHello
  BY DEF FakeInv
<1> QED BY <1>1, <1>2, <1>3, BaseHolds, ConnInvHolds, PTL DEF ConnSpec

-----------------------------------------------------------------------------
(* Which lists forward what they stage *)

\* A list that has handshake members has a last one.
LEMMA LastMember ==
  ASSUME NEW T \in SUBSET Nat, T # {}, NEW n \in Nat, \A i \in T : i <= n
  PROVE  \E i \in T : \A j \in T : j <= i
<1> DEFINE R == OpToRel(<, Nat)
           D == {n - i : i \in T}
<1>1. IsWellFoundedOn(R, Nat)
  BY NatLessThanWellFounded
<1>2. D \subseteq Nat /\ D # {}
  <2>1. \A i \in T : i \in Nat /\ n - i \in Nat
    OBVIOUS
  <2>2. PICK i : i \in T
    OBVIOUS
  <2>3. n - i \in D
    BY <2>2
  <2> QED BY <2>1, <2>3
<1> HIDE DEF D
<1>3. PICK x \in D : \A y \in D : ~(<<y, x>> \in R)
  <2> HIDE DEF R
  <2> QED BY <1>1, <1>2, WFMin
<1>4. \A y \in D : ~(y < x)
  BY <1>2, <1>3 DEF OpToRel
<1>5. PICK i \in T : x = n - i
  BY DEF D
<1>6. \A j \in T : n - j \in D
  BY DEF D
<1>7. ASSUME NEW j \in T PROVE j <= i
  <2>1. ~(n - j < n - i)
    BY <1>4, <1>5, <1>6
  <2> QED BY <2>1
<1> QED BY <1>7

LEMMA FakeAnswer ==
  ASSUME NEW c, NEW m \in FakePacketMethods, NEW u
  PROVE  Emits(HandshakeAnswer(m, c, u)) \/ HandshakeAnswer(m, c, u) = AbortAndAccept
<1>0. \A b, more : Emits(Emit(b, more))
  BY DEF Emits, Emit
<1>1. CASE m = "wrong_seq"
  BY <1>0, <1>1 DEF HandshakeAnswer, WrongSeq, EmitAndWaitForAck
<1>2. CASE m = "wrong_ack"
  BY <1>0, <1>2 DEF HandshakeAnswer, WrongAck
<1>3. CASE m = "wrong_checksum"
  BY <1>0, <1>3 DEF HandshakeAnswer, WrongChecksum
<1>4. CASE m = "wrong_md5"
  BY <1>0, <1>4 DEF HandshakeAnswer, WrongMd5
<1>5. CASE m = "wrong_timestamp"
  BY <1>0, <1>5 DEF HandshakeAnswer, WrongTimestamp
<1>6. CASE m = "low_ttl"
  BY <1>0, <1>6 DEF HandshakeAnswer, LowTtl
<1> QED BY <1>1, <1>2, <1>3, <1>4, <1>5, <1>6 DEF FakePacketMethods

\* Every accepted list forwards what it stages, or its last handshake member gives up:
\* that member is a fake-packet method, or urg_sni_split without one.
LEMMA ListForwards ==
  ASSUME NEW c, c.list \in Seq(BaseBypassMethods), ValidList(c), NEW u
  PROVE  Staging(c, u) = {} \/ Emits(CompositeHandshake(c, u)) \/ LastGivesUp(c, u)
<1> DEFINE M == HandshakeMembers(c)
           last == CHOOSE i \in M : \A j \in M : j <= i
<1>1. M \in SUBSET Nat /\ \A i \in M : i <= Len(c.list) /\ c.list[i] \in HandshakeList
  <2>1. DOMAIN c.list = 1 .. Len(c.list) /\ Len(c.list) \in Nat
    BY LenProperties
  <2> QED BY <2>1 DEF HandshakeMembers, Positions
<1>2. Len(c.list) \in Nat
  BY LenProperties
<1>3. CASE M = {}
  BY <1>3 DEF Staging
<1>4. CASE WaitsForData(c)
  BY <1>4 DEF CompositeHandshake, EmitAndWaitForData, Emit, Emits
<1>5. CASE M # {} /\ ~WaitsForData(c)
  <2>1. last \in M /\ \A j \in M : j <= last
    <3>1. \E i \in M : \A j \in M : j <= i
      <4> HIDE DEF M
      <4> QED BY <1>1, <1>2, <1>5, LastMember
    <3> HIDE DEF M
    <3> QED BY <3>1
  <2> DEFINE m == c.list[last]
             act == HandshakeAnswer(m, c, u)
  <2>2. m \in HandshakeList
    BY <1>1, <2>1
  <2>3. CASE m = "urg_sni_split"
    <3>1. Listed(c) \subseteq {"tls_frag", "urg_sni_split"}
      <4>1. "urg_sni_split" \in Listed(c)
        BY <2>1, <2>3 DEF Listed, HandshakeMembers, Positions
      <4> QED BY <4>1 DEF ValidList
    <3>2. \A i \in M : c.list[i] = "urg_sni_split"
      BY <1>1, <3>1 DEF Listed, HandshakeMembers, Positions, HandshakeList, FakePacketMethods
    <3>3. ~Emits(HandshakeAnswer("urg_sni_split", c, u))
      BY DEF HandshakeAnswer, UrgSniSplit, PassThrough, Plain, Emits
    <3> QED BY <3>2, <3>3 DEF Staging
  <2>4. CASE act = AbortAndAccept
    <3> HIDE DEF last
    <3> QED BY <1>5, <2>1, <2>4 DEF LastGivesUp
  <2>5. CASE Emits(act)
    <3>1. CompositeHandshake(c, u)
            = CASE Emits(act) /\ act.complete_immediately -> EmitAndComplete
                [] Emits(act) /\ ~act.complete_immediately -> EmitAndWaitForAck
                [] act = AbortAndAccept
                   /\ ~(\E i \in M : Emits(HandshakeAnswer(c.list[i], c, u))) -> AbortAndAccept
                [] OTHER -> CompleteAndAccept
      BY <1>5 DEF CompositeHandshake
    <3> HIDE DEF act
    <3>2. CompositeHandshake(c, u) \in {EmitAndComplete, EmitAndWaitForAck}
      <4>1. act # AbortAndAccept
        BY <2>5 DEF Emits, AbortAndAccept, Plain
      <4>2. CASE act.complete_immediately
        BY <2>5, <3>1, <4>1, <4>2
      <4>3. CASE ~act.complete_immediately
        BY <2>5, <3>1, <4>1, <4>3
      <4> QED BY <4>2, <4>3
    <3>3. Emits(EmitAndComplete) /\ Emits(EmitAndWaitForAck)
      BY DEF EmitAndComplete, EmitAndWaitForAck, Emit, Emits
    <3> QED BY <3>2, <3>3
  <2>6. m \in FakePacketMethods => Emits(act) \/ act = AbortAndAccept
    BY FakeAnswer
  <2> QED BY <2>2, <2>3, <2>4, <2>5, <2>6 DEF HandshakeList
<1> QED BY <1>3, <1>4, <1>5

\* The configuration accepts the list.
AcceptedScenarios ==
  \A x \in Scenarios : x.config.list \in Seq(BaseBypassMethods) /\ ValidList(x.config)

\* With every list the configuration accepts, of any length and in any order, with or
\* without TCP timestamps, the fakes go before the ClientHello, unless the last member
\* of a list without data stage gives up (CompositeMethod::on_handshake_complete_ack).
THEOREM FakeGoesFirst ==
  ASSUME AcceptedScenarios
  PROVE  ConnSpec => []FakeBeforeHello
<1>1. FakesForwarded
  BY ListForwards DEF FakesForwarded, AcceptedScenarios
<1> QED BY <1>1, ForwardedGoFirst
=============================================================================
