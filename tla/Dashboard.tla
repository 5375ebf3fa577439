------------------------------- MODULE Dashboard -------------------------------
(***************************************************************************)
(* What the dashboard knows of the connections: the unbounded channel of   *)
(* lifecycle events and the registry of running relays                     *)
(* (zerodpi-core proxy/events.rs), and the part of DashboardState that     *)
(* apply_event keeps (zerodpi tui.rs): the log of connections, newest      *)
(* first, and the counters of the header.                                  *)
(*                                                                         *)
(* An event names its connection by src_port, as in the code; the field    *)
(* `conn` of an event, of a registration and of a record is a ghost, read  *)
(* by the properties only.  Rates, times and wording are left out.         *)
(***************************************************************************)
EXTENDS Naturals, Sequences, SequencesExt

CONSTANT MaxRecords     \* MAX_RECORDS, 200 in the code

ASSUME MaxRecordsAssumption == MaxRecords \in Nat \ {0}

VARIABLES
  queue,      \* ProxyEvents sent and not yet received
  registry,   \* ProgressRegistry: the relays that progress is sampled from
  receiver,   \* ProxyEventReceiver: between two looks, or having found no event
  board       \* DashboardState

boardVars == <<queue, registry, receiver, board>>

ConnStatuses == {"Connecting", "Relaying", "Done", "Rotated", "Failed"}

Event(type, c, port) == [type |-> type, conn |-> c, port |-> port]
FinishedEvent(c, port, reason, c2s, s2c) ==
  [type |-> "RelayFinished", conn |-> c, port |-> port, reason |-> reason,
   c2s |-> c2s, s2c |-> s2c]

\* The events after which a connection no longer counts as active.
Terminal == {"BypassFailed", "ConnectionError", "RelayFinished"}

BoardInit ==
  /\ queue = <<>>
  /\ registry = [generation |-> 0, relays |-> <<>>]
  /\ receiver = "idle"
  /\ board = [records |-> <<>>, total |-> 0, active |-> 0, peak_active |-> 0,
              bypasses_ok |-> 0, bypasses_failed |-> 0, total_c2s |-> 0, total_s2c |-> 0]

Send(event) == queue' = Append(queue, event)

-----------------------------------------------------------------------------
(* The registry.  relays maps a port to [generation, conn]. *)

RegisterRelay(c, port) ==
  LET g == registry.generation + 1
  IN  registry' = [generation |-> g,
                   relays |-> [p \in DOMAIN registry.relays \cup {port} |->
                                 IF p = port THEN [generation |-> g, conn |-> c]
                                 ELSE registry.relays[p]]]

\* The drop of a RelayRegistration: a newer relay on the port keeps its entry.
OwnsEntry(port, generation) ==
  port \in DOMAIN registry.relays /\ registry.relays[port].generation = generation
UnregisterRelay(port, generation) ==
  registry' =
    IF OwnsEntry(port, generation)
    THEN [registry EXCEPT !.relays =
            [p \in DOMAIN registry.relays \ {port} |-> registry.relays[p]]]
    ELSE registry

-----------------------------------------------------------------------------
(* The log *)

IsActive(record) == record.status \in {"Connecting", "Relaying"}

NewRecord(event) ==
  [port |-> event.port, status |-> "Connecting", ended |-> FALSE, c2s |-> 0, s2c |-> 0,
   conn |-> event.conn]

\* prune_connection_records: over the limit, the oldest finished record goes.  One
\* removal is enough: an event adds or finishes one record at most.
PruneOnce(records) ==
  LET finished == {i \in DOMAIN records : ~IsActive(records[i])}
  IN  IF Len(records) <= MaxRecords \/ finished = {} THEN records
      ELSE RemoveAt(records, CHOOSE i \in finished : \A j \in finished : j <= i)

\* Variation: the oldest record of the port.
FindOldestRecord(records, port) ==
  LET found == {i \in DOMAIN records : records[i].port = port}
  IN  {i \in found : \A j \in found : j <= i}

\* find_record: the newest record of the port, if there is one.
FindRecord(records, port) ==
  LET found == {i \in DOMAIN records : records[i].port = port}
  IN  {i \in found : \A j \in found : i <= j}
SetFields(records, port, fields) ==
  [i \in DOMAIN records |->
     IF i \in FindRecord(records, port)
     THEN [x \in DOMAIN records[i] |-> IF x \in DOMAIN fields THEN fields[x] ELSE records[i][x]]
     ELSE records[i]]

StatusAfter(reason) ==
  CASE reason = "Completed" -> "Done"
    [] reason = "MaxLifetime" -> "Rotated"
    [] reason = "NetworkError" -> "Failed"

SaturatingDec(n) == IF n = 0 THEN 0 ELSE n - 1

\* apply_event, one operator per kind of lifecycle event.
ApplyAccepted(b, event) ==
  [b EXCEPT !.total = @ + 1,
            !.active = @ + 1,
            !.peak_active = IF b.active + 1 > @ THEN b.active + 1 ELSE @,
            !.records = <<NewRecord(event)>> \o @]

ApplyComplete(b, event) ==
  [b EXCEPT !.bypasses_ok = @ + 1,
            !.records = SetFields(@, event.port, [status |-> "Relaying"])]

ApplyFailure(b, event) ==
  [b EXCEPT !.bypasses_failed = @ + 1,
            !.active = SaturatingDec(@),
            !.records = SetFields(@, event.port, [status |-> "Failed", ended |-> TRUE])]

ApplyFinished(b, event) ==
  [b EXCEPT !.active = SaturatingDec(@),
            !.total_c2s = @ + event.c2s,
            !.total_s2c = @ + event.s2c,
            !.records = SetFields(@, event.port,
                          [status |-> StatusAfter(event.reason), ended |-> TRUE,
                           c2s |-> event.c2s, s2c |-> event.s2c])]

ApplyEvent(b, event) ==
  LET applied == CASE event.type = "ConnectionAccepted" -> ApplyAccepted(b, event)
                   [] event.type = "BypassComplete" -> ApplyComplete(b, event)
                   [] event.type = "BypassFailed" -> ApplyFailure(b, event)
                   [] event.type = "ConnectionError" -> ApplyFailure(b, event)
                   [] event.type = "RelayFinished" -> ApplyFinished(b, event)
  IN  [applied EXCEPT !.records = PruneOnce(@)]

\* A batch of progress: each port's counters go to its newest relaying record.
\* bytes[conn] is what the counters of the registered relay show.
ApplyBatch(b, relays, bytes) ==
  LET relaying(i) == b.records[i].status = "Relaying"
      taken(i) == /\ relaying(i)
                  /\ b.records[i].port \in DOMAIN relays
                  /\ \A j \in 1..(i - 1) : ~(relaying(j) /\ b.records[j].port = b.records[i].port)
      sample(i) == bytes[relays[b.records[i].port].conn]
  IN  [b EXCEPT !.records =
        [i \in DOMAIN @ |-> IF taken(i)
                            THEN [@[i] EXCEPT !.c2s = sample(i).c2s, !.s2c = sample(i).s2c]
                            ELSE @[i]]]

\* try_recv: events go first; when there is none the registry is sampled, in a
\* second look that connections may have run before.
Receive ==
  /\ receiver = "idle" /\ queue # <<>>
  /\ board' = ApplyEvent(board, Head(queue))
  /\ queue' = Tail(queue)
  /\ UNCHANGED <<registry, receiver>>

FindEmpty ==
  /\ receiver = "idle" /\ queue = <<>>
  /\ receiver' = "empty"
  /\ UNCHANGED <<queue, registry, board>>

Sample(bytes) ==
  /\ receiver = "empty"
  /\ board' = ApplyBatch(board, registry.relays, bytes)
  /\ receiver' = "idle"
  /\ UNCHANGED <<queue, registry>>

\* live_transfer_totals
LiveTotal(dir) ==
  LET live == {i \in DOMAIN board.records : ~board.records[i].ended}
      done == IF dir = "c2s" THEN board.total_c2s ELSE board.total_s2c
  IN  done + SumFunctionOnSet([i \in DOMAIN board.records |-> board.records[i][dir]], live)
=============================================================================
