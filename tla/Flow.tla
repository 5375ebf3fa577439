-------------------------------- MODULE Flow --------------------------------
(***************************************************************************)
(* The flow table of zerodpi-core (flow.rs): the per-connection record     *)
(* FlowEntry that the packet-capture thread and the proxy task share, and  *)
(* LocalFlowController, which makes an entry visible to the packet handler *)
(* (register_flow), releases it (remove_flow) and drops every entry after  *)
(* the data plane was rebuilt (reset).                                     *)
(*                                                                         *)
(* A Key stands for the outbound 4-tuple, an Entry for one Arc<FlowEntry>. *)
(* A TCP sequence number is a natural below Modulus, 2^32 in the code.     *)
(***************************************************************************)
EXTENDS Naturals

CONSTANTS Keys,      \* outbound 4-tuples (FlowKey)
          Entries,   \* identities of the FlowEntry allocations
          Modulus,   \* the sequence-number space
          None,      \* Option::None
          NoEntry    \* a vacant slot of the table

Outcomes == {"FakeDataAcked", "UnexpectedClose"}

SeqNum == 0 .. (Modulus - 1)

ASSUME ModulusAssumption == Modulus \in Nat \ {0, 1}
ASSUME NoneAssumption == None \notin SeqNum /\ None \notin Outcomes
ASSUME NoEntryAssumption == NoEntry \notin Entries

\* The two Notify objects of an entry.
Channels == {"ready_for_data", "notify"}

VARIABLES
  table,    \* the DashMap: Keys -> Entries \cup {NoEntry}
  born,     \* the entries allocated so far
  state,    \* the FlowState behind each entry's mutex
  waiter,   \* the Notified futures its proxy task holds, and whether one fired
  sweep     \* progress of a reset: the keys its iteration has still to visit

flowVars == <<table, born, state, waiter, sweep>>

FlowStates ==
  [monitor : BOOLEAN,
   syn_seq : SeqNum \cup {None},
   syn_ack_seq : SeqNum \cup {None},
   fake_sent : BOOLEAN,
   waiting_for_data : BOOLEAN,
   first_data_modified : BOOLEAN,
   waiting_for_first_data_ack : BOOLEAN,
   fragment_all_data : BOOLEAN,
   outcome : Outcomes \cup {None}]

NewFlowState ==
  [monitor |-> TRUE,
   syn_seq |-> None,
   syn_ack_seq |-> None,
   fake_sent |-> FALSE,
   waiting_for_data |-> FALSE,
   first_data_modified |-> FALSE,
   waiting_for_first_data_ack |-> FALSE,
   fragment_all_data |-> FALSE,
   outcome |-> None]

Waiters == [armed : SUBSET Channels, woken : BOOLEAN]

FlowTypeOK ==
  /\ table \in [Keys -> Entries \cup {NoEntry}]
  /\ born \in SUBSET Entries
  /\ state \in [Entries -> FlowStates]
  /\ waiter \in [Entries -> Waiters]
  /\ sweep \in [active : BOOLEAN, todo : SUBSET Keys]

FlowInit ==
  /\ table = [k \in Keys |-> NoEntry]
  /\ born = {}
  /\ state = [e \in Entries |-> NewFlowState]
  /\ waiter = [e \in Entries |-> [armed |-> {}, woken |-> FALSE]]
  /\ sweep = [active |-> FALSE, todo |-> {}]

-----------------------------------------------------------------------------
(* FlowEntry *)

\* Notify::notify_waiters: fires the futures that exist now, and only those.
Notified(w, channel) ==
  IF channel \in w.armed THEN [w EXCEPT !.woken = TRUE] ELSE w

\* The task creates fresh futures for these channels, dropping older ones.
Subscribe(e, channels) ==
  waiter' = [waiter EXCEPT ![e] = [armed |-> channels, woken |-> FALSE]]

\* Variation: finish leaves the flow monitored.
FinishMonitored(e, outcome) ==
  IF state[e].outcome = None
  THEN /\ state' = [state EXCEPT ![e].outcome = outcome]
       /\ waiter' = [waiter EXCEPT ![e] = Notified(@, "notify")]
  ELSE UNCHANGED <<state, waiter>>

\* FlowEntry::finish, one critical section of the entry's mutex.
Finish(e, outcome) ==
  IF state[e].outcome = None
  THEN /\ state' = [state EXCEPT ![e].outcome = outcome, ![e].monitor = FALSE]
       /\ waiter' = [waiter EXCEPT ![e] = Notified(@, "notify")]
  ELSE UNCHANGED <<state, waiter>>

\* Variation: signal_outcome overwrites an earlier decision.
SignalOverwrites(e, outcome) ==
  /\ state' = [state EXCEPT ![e].outcome = outcome]
  /\ waiter' = [waiter EXCEPT ![e] = Notified(@, "notify")]

\* Variation: signal_outcome fires nothing.
SignalSilently(e, outcome) ==
  /\ state' = IF state[e].outcome = None
              THEN [state EXCEPT ![e].outcome = outcome] ELSE state
  /\ UNCHANGED waiter

\* FlowEntry::signal_outcome: decide the bypass but keep the flow monitored.
SignalOutcome(e, outcome) ==
  IF state[e].outcome = None
  THEN /\ state' = [state EXCEPT ![e].outcome = outcome]
       /\ waiter' = [waiter EXCEPT ![e] = Notified(@, "notify")]
  ELSE UNCHANGED <<state, waiter>>

-----------------------------------------------------------------------------
(* LocalFlowController *)

\* Variation: register_flow inserts over an occupied slot.
RegisterOver(k, e) ==
  /\ e \in Entries \ born
  /\ born' = born \cup {e}
  /\ table' = [table EXCEPT ![k] = e]
  /\ UNCHANGED <<state, waiter, sweep>>

\* register_flow on a vacant slot: the entry is allocated and becomes visible.
RegisterFlow(k, e) ==
  /\ table[k] = NoEntry
  /\ e \in Entries \ born
  /\ born' = born \cup {e}
  /\ table' = [table EXCEPT ![k] = e]
  /\ UNCHANGED <<state, waiter, sweep>>

\* remove_flow: by key, whatever entry the slot holds.
RemoveFlow(k) ==
  /\ table' = [table EXCEPT ![k] = NoEntry]
  /\ UNCHANGED <<born, state, waiter, sweep>>

\* reset, first loop: `for entry in self.flows.iter()` walks the shards of the
\* DashMap one after the other, other threads registering flows meanwhile.
ResetBegin ==
  /\ ~sweep.active
  /\ sweep' = [active |-> TRUE, todo |-> Keys]
  /\ UNCHANGED <<table, born, state, waiter>>

ResetVisit(k) ==
  /\ k \in sweep.todo
  /\ sweep' = [sweep EXCEPT !.todo = @ \ {k}]
  /\ IF table[k] = NoEntry
     THEN UNCHANGED <<state, waiter>>
     ELSE Finish(table[k], "UnexpectedClose")
  /\ UNCHANGED <<table, born>>

\* reset, second half: `self.flows.clear()`.
ResetClear ==
  /\ sweep.active
  /\ sweep.todo = {}
  /\ table' = [k \in Keys |-> NoEntry]
  /\ sweep' = [sweep EXCEPT !.active = FALSE]
  /\ UNCHANGED <<born, state, waiter>>

ResetStep == ResetBegin \/ ResetClear \/ \E k \in Keys : ResetVisit(k)

=============================================================================
