------------------------------ MODULE TargetPool ------------------------------
(***************************************************************************)
(* The pool of relay targets (zerodpi-core target_pool.rs): the ranked     *)
(* list that a scan replaces, the history of every target ever seen, the   *)
(* four strategies that pick a target for a connection, and the counters   *)
(* of a target, which leases share with the pool and which outlive the     *)
(* target's place in the list.                                             *)
(*                                                                         *)
(* A candidate of a scan is [key, latency]; a counter is an Arc, so a      *)
(* member and a lease hold its index in `counters`.                        *)
(***************************************************************************)
EXTENDS Naturals, Sequences, FiniteSets, SequencesExt

CONSTANTS Targets,      \* target keys
          NoPing        \* Option::None of a ping

Strategies == {"RoundRobin", "Random", "LeastPing", "LeastLoad"}

VARIABLES pool,         \* PoolState and the strategy
          counters      \* the load and the traffic of every target seen

poolVars == <<pool, counters>>

Candidates == [key : Targets, latency : Nat \cup {NoPing}]

NewCounter == [load |-> 0, c2s |-> 0, s2c |-> 0]

KeysOf(s) == {s[i].key : i \in DOMAIN s}

\* The positions in P, in their order, and what is there in s.
InOrder(P) ==
  CHOOSE f \in [1..Cardinality(P) -> P] : \A i, j \in 1..Cardinality(P) : i < j => f[i] < f[j]
Picked(s, P) == [i \in 1..Cardinality(P) |-> s[InOrder(P)[i]]]

\* unique_targets: the first of several candidates with one key, up to a limit.
UniqueTargets(candidates, limit) ==
  LET first == {i \in DOMAIN candidates :
                  \A j \in 1..(i - 1) : candidates[j].key # candidates[i].key}
  IN  Picked(candidates, {i \in first : Cardinality(first \cap 1..i) <= limit})

\* A key has one place in the history, which history_indices finds.
HistoryIndex(history, key) == CHOOSE i \in DOMAIN history : history[i].key = key

EmptyPool(strategy) ==
  [strategy |-> strategy, members |-> <<>>, history |-> <<>>, cursor |-> 0,
   generation |-> 0]

\* TargetPool::replace: [pool, counters] after the list is replaced.  A target
\* seen before keeps its counter; an empty list changes nothing.
Replaced(p, cs, candidates) ==
  LET targets == UniqueTargets(candidates, Len(candidates))
      fresh == Picked(targets, {i \in DOMAIN targets : targets[i].key \notin KeysOf(p.history)})
      CounterOf(key) ==
        IF key \in KeysOf(p.history)
        THEN p.history[HistoryIndex(p.history, key)].counter
        ELSE Len(cs) + HistoryIndex(fresh, key)
      Member(t) == [key |-> t.key, ping |-> t.latency, source |-> "Scan",
                    counter |-> CounterOf(t.key)]
      Updated(m) == IF m.key \in KeysOf(targets)
                    THEN Member(targets[HistoryIndex(targets, m.key)]) ELSE m
  IN  IF candidates = <<>> THEN [pool |-> p, counters |-> cs]
      ELSE [pool |->
              [p EXCEPT !.members = [i \in DOMAIN targets |-> Member(targets[i])],
                        !.history = [i \in DOMAIN @ |-> Updated(@[i])] \o
                                    [i \in DOMAIN fresh |-> Member(fresh[i])],
                        !.cursor = 0,
                        !.generation = @ + 1],
            counters |-> cs \o [i \in DOMAIN fresh |-> NewCounter]]

PoolInit(strategy, candidates) ==
  LET r == Replaced(EmptyPool(strategy), <<>>, candidates)
  IN  /\ candidates # <<>>
      /\ pool = r.pool /\ counters = r.counters

Replace(candidates) ==
  LET r == Replaced(pool, counters, candidates)
  IN  pool' = r.pool /\ counters' = r.counters

\* min_by_key: the index with the least key, the first in place among equals.
Least(S, key, place) ==
  CHOOSE i \in S : \A j \in S : \/ key[i] < key[j]
                                \/ key[i] = key[j] /\ place[i] <= place[j]

\* The indices acquire may pick: only Random leaves a choice.
Selectable ==
  LET count == Len(pool.members)
      round_robin == pool.cursor % count
      offset == [i \in 1..count |-> (i - 1 + count - round_robin) % count]
      load == [i \in 1..count |-> counters[pool.members[i].counter].load]
      ping == [i \in 1..count |-> pool.members[i].ping]
      measured == {i \in 1..count : ping[i] # NoPing}
      rank == [i \in 1..count |-> i]
  IN  CASE pool.strategy = "RoundRobin" -> {round_robin + 1}
        [] pool.strategy = "Random" -> 1..count
        [] pool.strategy = "LeastPing" ->
             IF measured = {} THEN {round_robin + 1} ELSE {Least(measured, ping, rank)}
        [] pool.strategy = "LeastLoad" -> {Least(1..count, load, offset)}

\* TargetPool::acquire picks member i and counts the lease.
Acquired(i) == [key |-> pool.members[i].key, counter |-> pool.members[i].counter]
AcquireMember(i) ==
  /\ pool' = [pool EXCEPT !.cursor = i % Len(pool.members)]
  /\ counters' = [counters EXCEPT ![pool.members[i].counter].load = @ + 1]

\* Variation: the counters are looked up in the current list.
DropLeaseOfMember(lease) ==
  counters' = IF lease.key \in KeysOf(pool.members)
              THEN [counters EXCEPT ![lease.counter].load = @ - 1] ELSE counters
\* The drop of a TargetLease.
DropLease(lease) == counters' = [counters EXCEPT ![lease.counter].load = @ - 1]

\* A relay that owns the lease has copied n more bytes in direction dir.
CountTraffic(lease, dir, n) ==
  counters' = [counters EXCEPT ![lease.counter][dir] = @ + n]

ProbeSnapshot == [generation |-> pool.generation,
                  targets |-> [i \in DOMAIN pool.members |-> pool.members[i].key]]

UpdateAnyGeneration(generation, key, ping) ==
  LET Measured(m) == IF m.key = key THEN [m EXCEPT !.ping = ping, !.source = "Live"]
                     ELSE m
  IN  /\ pool' = [pool EXCEPT !.members = [i \in DOMAIN @ |-> Measured(@[i])],
                              !.history = [i \in DOMAIN @ |-> Measured(@[i])]]
      /\ UNCHANGED counters

\* TargetPool::update_ping
UpdatePing(generation, key, ping) ==
  LET Measured(m) == IF m.key = key THEN [m EXCEPT !.ping = ping, !.source = "Live"]
                     ELSE m
  IN  /\ pool' =
           IF pool.generation = generation /\ key \in KeysOf(pool.members)
           THEN [pool EXCEPT !.members = [i \in DOMAIN @ |-> Measured(@[i])],
                             !.history = [i \in DOMAIN @ |-> Measured(@[i])]]
           ELSE pool
      /\ UNCHANGED counters

\* TargetPool::active_connections
ActiveConnections ==
  LET Load(i) == counters[pool.history[i].counter].load
  IN  SumFunction([i \in DOMAIN pool.history |-> Load(i)])
=============================================================================
