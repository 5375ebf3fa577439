---------------------------- MODULE MonitorProofs ----------------------------
(***************************************************************************)
(* Proofs about the network monitor: what resolve_physical_binding picks,  *)
(* for any machine; the safety invariants of the monitor's threads; and    *)
(* that the monitor, seen by the coordinator, is the Detector.             *)
(***************************************************************************)
EXTENDS Monitor, WellFoundedInduction, TLAPS

USE AdaptersAssumption, MonitorAssumption

(***************************************************************************)
(* The choice of the uplink.                                               *)
(***************************************************************************)
LEMMA LeastNat ==
  ASSUME NEW T \in SUBSET Nat, T # {}
  PROVE  \E m \in T : \A n \in T : m <= n
<1> DEFINE R == OpToRel(<, Nat)
<1>1. IsWellFoundedOn(R, Nat)
  BY NatLessThanWellFounded
<1>2. PICK x \in T : \A y \in T : ~(<<y, x>> \in R)
  <2> HIDE DEF R
  <2> QED BY <1>1, WFMin
<1>3. \A y \in T : ~(y < x)
  BY <1>2 DEF OpToRel
<1> QED BY <1>3

\* Of the members of a set, those with the least value of a key.
Least(S, key) == {s \in S : \A t \in S : key[s] <= key[t]}

LEMMA LeastExists ==
  ASSUME NEW S, S # {}, NEW key \in [S -> Nat]
  PROVE  Least(S, key) # {}
<1> DEFINE T == {key[s] : s \in S}
<1>1. T \in SUBSET Nat /\ T # {}
  OBVIOUS
<1>2. PICK m \in T : \A n \in T : m <= n
  <2> HIDE DEF T
  <2> QED BY <1>1, LeastNat
<1>3. PICK s \in S : m = key[s]
  OBVIOUS
<1> QED BY <1>2, <1>3 DEF Least

LEMMA LowestMetricLeast ==
  ASSUME NEW c \in Condition
  PROVE  LowestMetric(c) \in Nat
<1>1. CASE c.routes = {}
  BY <1>1 DEF LowestMetric, NoRoute
<1>2. CASE c.routes # {}
  <2>1. c.routes \in SUBSET Nat
    BY DEF Condition
  <2>2. \E r \in c.routes : \A s \in c.routes : r <= s
    BY <1>2, <2>1, LeastNat
  <2> QED BY <1>2, <2>1, <2>2 DEF LowestMetric
<1> QED BY <1>1, <1>2

LEMMA FirstUsableIsUsable ==
  ASSUME NEW c \in Condition, UsableAt(c) # {}
  PROVE  FirstUsable(c) \in Usable
<1>1. UsableAt(c) \in SUBSET Nat
  BY DEF UsableAt, Condition
<1>2. \E n \in UsableAt(c) : \A k \in UsableAt(c) : n <= k
  BY <1>1, LeastNat
<1> QED BY <1>2 DEF FirstUsable, UsableAt, IsUsable

\* What every candidate is: a binding to a usable address of a physical adapter.
Physical(c) ==
  /\ c.binding \in Bindings
  /\ NotVirtual(c.binding.adapter)

LEMMA WindowsFirst ==
  ASSUME NEW as \in [Adapters -> Condition], WindowsCandidates(as) # {}
  PROVE  /\ \A c \in WindowsCandidates(as) : Physical(c)
         /\ \E c \in WindowsCandidates(as) :
              \A d \in WindowsCandidates(as) : d = c \/ Before(c.order, d.order)
<1> DEFINE A == {x \in Adapters : /\ as[x].up
                                  /\ Index[x] # 0
                                  /\ WindowsPhysical(x)
                                  /\ UsableAt(as[x]) # {}}
           C(a) == [binding |-> [adapter |-> a, ip |-> FirstUsable(as[a])],
                    order |-> <<IfMetric[a], Index[a]>>]
<1>1. WindowsCandidates(as) = {C(a) : a \in A}
  BY DEF WindowsCandidates
<1>2. \A a \in A : Physical(C(a))
  BY FirstUsableIsUsable DEF Physical, Bindings, WindowsPhysical
<1>3. A # {}
  BY <1>1
<1> DEFINE B == Least(A, [a \in A |-> IfMetric[a]])
<1>4. B # {}
  <2>1. [a \in A |-> IfMetric[a]] \in [A -> Nat]
    OBVIOUS
  <2> HIDE DEF A
  <2> QED BY <1>3, <2>1, LeastExists
<1>5. Least(B, [a \in B |-> Index[a]]) # {}
  <2>1. [a \in B |-> Index[a]] \in [B -> Nat]
    BY DEF Least
  <2> HIDE DEF B
  <2> QED BY <1>4, <2>1, LeastExists
<1>6. PICK m \in B : \A b \in B : Index[m] <= Index[b]
  BY <1>5 DEF Least
<1>7. m \in A /\ \A a \in A : IfMetric[m] <= IfMetric[a]
  BY <1>6 DEF Least
<1>8. ASSUME NEW a \in A
      PROVE  C(a) = C(m) \/ Before(C(m).order, C(a).order)
  <2>1. CASE IfMetric[m] < IfMetric[a]
    <3>1. C(m).order[1] < C(a).order[1] /\ 1 \in 1..Len(C(m).order)
      BY <2>1
    <3> QED BY <3>1 DEF Before
  <2>2. CASE IfMetric[m] = IfMetric[a]
    <3>1. a \in B
      BY <1>7, <2>2 DEF Least
    <3>2. Index[m] <= Index[a]
      BY <3>1, <1>6
    <3>3. CASE Index[m] = Index[a]
      <4>1. m = a
        BY <3>3, <1>7
      <4> QED BY <4>1
    <3>4. CASE Index[m] < Index[a]
      <4>1. /\ C(m).order[2] < C(a).order[2] /\ 2 \in 1..Len(C(m).order)
            /\ C(m).order[1] = C(a).order[1]
        BY <2>2, <3>4
      <4>2. \A k \in 1..(2 - 1) : k = 1
        OBVIOUS
      <4> QED BY <4>1, <4>2 DEF Before
    <3>5. Index[m] \in Nat /\ Index[a] \in Nat
      BY <1>7
    <3> HIDE DEF C
    <3> QED BY <3>2, <3>3, <3>4, <3>5
  <2>3. IfMetric[m] \in Nat /\ IfMetric[a] \in Nat /\ IfMetric[m] <= IfMetric[a]
    BY <1>7
  <2> HIDE DEF C
  <2> QED BY <2>1, <2>2, <2>3
<1> HIDE DEF A, C
<1> QED BY <1>1, <1>2, <1>7, <1>8

LEMMA LinuxFirst ==
  ASSUME NEW as \in [Adapters -> Condition], LinuxCandidates(as) # {}
  PROVE  /\ \A c \in LinuxCandidates(as) : Physical(c)
         /\ \E c \in LinuxCandidates(as) :
              \A d \in LinuxCandidates(as) : d = c \/ Before(c.order, d.order)
<1> DEFINE P == PhysicalPairs(as)
           K1(p) == LowestMetric(as[p[1]])
           C(p) == [binding |-> [adapter |-> p[1], ip |-> as[p[1]].addrs[p[2]]],
                    order |-> <<K1(p), KindRank(p[1]), Index[p[1]], p[2]>>]
<1>1. LinuxCandidates(as) = {C(p) : p \in P}
  BY DEF LinuxCandidates
<1>2. \A p \in P : /\ p[1] \in Adapters /\ p[2] \in Nat
                   /\ p[2] \in UsableAt(as[p[1]]) /\ LinuxPhysical(p[1]) /\ Index[p[1]] # 0
  <2> TAKE p \in P
  <2>1. /\ p \in Pairs(as) /\ LinuxPhysical(p[1])
        /\ p[2] \in UsableAt(as[p[1]]) /\ Index[p[1]] # 0
    BY DEF PhysicalPairs
  <2>2. PICK a \in Adapters : p \in {<<a, n>> : n \in 1..Len(as[a].addrs)}
    BY <2>1, Zenon DEF Pairs
  <2>3. PICK n \in 1..Len(as[a].addrs) : p = <<a, n>>
    BY <2>2
  <2>4. p[1] = a /\ p[2] = n /\ n \in Nat
    BY <2>3
  <2> QED BY <2>1, <2>4
<1>3. \A p \in P : Physical(C(p))
  BY <1>2 DEF Physical, Bindings, LinuxPhysical, UsableAt, IsUsable
<1>4. \A p \in P : K1(p) \in Nat /\ KindRank(p[1]) \in Nat /\ Index[p[1]] \in Nat
  BY <1>2, LowestMetricLeast DEF KindRank
<1>5. P # {}
  BY <1>1
<1> HIDE DEF P, K1
<1> DEFINE P1 == Least(P, [p \in P |-> K1(p)])
           P2 == Least(P1, [p \in P1 |-> KindRank(p[1])])
           P3 == Least(P2, [p \in P2 |-> Index[p[1]]])
           P4 == Least(P3, [p \in P3 |-> p[2]])
<1>6. P1 # {} /\ P1 \subseteq P /\ \A p \in P1 : \A q \in P : K1(p) <= K1(q)
  <2>1. [p \in P |-> K1(p)] \in [P -> Nat]
    BY <1>4
  <2> QED BY <1>5, <2>1, LeastExists DEF Least
<1>7. P2 # {} /\ P2 \subseteq P1 /\ \A p \in P2 : \A q \in P1 : KindRank(p[1]) <= KindRank(q[1])
  <2> HIDE DEF P1
  <2>1. [p \in P1 |-> KindRank(p[1])] \in [P1 -> Nat]
    BY <1>4, <1>6
  <2>2. P2 # {}
    BY <1>6, <2>1, LeastExists
  <2> QED BY <2>2 DEF Least
<1>8. P3 # {} /\ P3 \subseteq P2 /\ \A p \in P3 : \A q \in P2 : Index[p[1]] <= Index[q[1]]
  <2> HIDE DEF P1, P2
  <2>1. [p \in P2 |-> Index[p[1]]] \in [P2 -> Nat]
    BY <1>4, <1>6, <1>7
  <2>2. P3 # {}
    BY <1>7, <2>1, LeastExists
  <2> QED BY <2>2 DEF Least
<1>9. P4 # {} /\ P4 \subseteq P3 /\ \A p \in P4 : \A q \in P3 : p[2] <= q[2]
  <2> HIDE DEF P1, P2, P3
  <2>1. [p \in P3 |-> p[2]] \in [P3 -> Nat]
    BY <1>2, <1>6, <1>7, <1>8
  <2>2. P4 # {}
    BY <1>8, <2>1, LeastExists
  <2> QED BY <2>2 DEF Least
<1>10. /\ \A q \in P : (\A p \in P : K1(q) <= K1(p)) => q \in P1
       /\ \A q \in P1 : (\A p \in P1 : KindRank(q[1]) <= KindRank(p[1])) => q \in P2
       /\ \A q \in P2 : (\A p \in P2 : Index[q[1]] <= Index[p[1]]) => q \in P3
  BY DEF Least
<1>11. PICK m : m \in P4
  BY <1>9
<1> HIDE DEF P1, P2, P3, P4
<1>12. m \in P /\ m \in P1 /\ m \in P2 /\ m \in P3
  BY <1>6, <1>7, <1>8, <1>9, <1>11
<1>13. ASSUME NEW q \in P
       PROVE  C(q) = C(m) \/ Before(C(m).order, C(q).order)
  <2>1. /\ K1(m) \in Nat /\ KindRank(m[1]) \in Nat /\ Index[m[1]] \in Nat /\ m[2] \in Nat
        /\ K1(q) \in Nat /\ KindRank(q[1]) \in Nat /\ Index[q[1]] \in Nat /\ q[2] \in Nat
    BY <1>2, <1>4, <1>12
  <2>2. K1(m) <= K1(q)
    BY <1>6, <1>12
  <2>3. \A k \in 1..(2 - 1) : k = 1
    OBVIOUS
  <2>4. \A k \in 1..(3 - 1) : k = 1 \/ k = 2
    OBVIOUS
  <2>5. \A k \in 1..(4 - 1) : k = 1 \/ k = 2 \/ k = 3
    OBVIOUS
  <2>6. CASE K1(m) < K1(q)
    BY <2>6 DEF Before
  <2>7. CASE K1(m) = K1(q)
    <3>1. q \in P1
      <4>1. \A p \in P : K1(q) <= K1(p)
        BY <1>6, <1>12, <2>7
      <4> QED BY <4>1, <1>10
    <3>2. KindRank(m[1]) <= KindRank(q[1])
      BY <3>1, <1>7, <1>12
    <3>3. CASE KindRank(m[1]) < KindRank(q[1])
      <4>1. /\ C(m).order[2] < C(q).order[2] /\ 2 \in 1..Len(C(m).order)
            /\ C(m).order[1] = C(q).order[1]
        BY <2>7, <3>3
      <4> QED BY <4>1, <2>3 DEF Before
    <3>4. CASE KindRank(m[1]) = KindRank(q[1])
      <4>1. q \in P2
        <5>1. \A p \in P1 : KindRank(q[1]) <= KindRank(p[1])
          BY <1>7, <1>12, <3>4
        <5> QED BY <5>1, <3>1, <1>10
      <4>2. Index[m[1]] <= Index[q[1]]
        BY <4>1, <1>8, <1>12
      <4>3. CASE Index[m[1]] < Index[q[1]]
        <5>1. /\ C(m).order[3] < C(q).order[3] /\ 3 \in 1..Len(C(m).order)
              /\ C(m).order[1] = C(q).order[1] /\ C(m).order[2] = C(q).order[2]
          BY <2>7, <3>4, <4>3
        <5> QED BY <5>1, <2>4 DEF Before
      <4>4. CASE Index[m[1]] = Index[q[1]]
        <5>1. q \in P3
          <6>1. \A p \in P2 : Index[q[1]] <= Index[p[1]]
            BY <1>8, <1>12, <4>4
          <6> QED BY <6>1, <4>1, <1>10
        <5>2. m[2] <= q[2]
          BY <5>1, <1>9, <1>11
        <5>3. m[1] = q[1]
          BY <4>4, <1>2, <1>12
        <5>4. CASE m[2] = q[2]
          <6>1. K1(m) = K1(q)
            BY <5>3 DEF K1
          <6> QED BY <5>3, <5>4, <6>1
        <5>5. CASE m[2] < q[2]
          <6>1. /\ C(m).order[4] < C(q).order[4] /\ 4 \in 1..Len(C(m).order)
                /\ C(m).order[1] = C(q).order[1] /\ C(m).order[2] = C(q).order[2]
                /\ C(m).order[3] = C(q).order[3]
            BY <2>7, <3>4, <4>4, <5>5
          <6> QED BY <6>1, <2>5 DEF Before
        <5> HIDE DEF C
        <5> QED BY <5>2, <5>4, <5>5, <2>1
      <4> HIDE DEF C
      <4> QED BY <4>2, <4>3, <4>4, <2>1
    <3> HIDE DEF C
    <3> QED BY <3>2, <3>3, <3>4, <2>1
  <2> HIDE DEF C
  <2> QED BY <2>1, <2>2, <2>6, <2>7
<1> HIDE DEF C
<1> QED BY <1>1, <1>3, <1>12, <1>13

\* resolve_physical_binding finds a first candidate whenever there is one.
LEMMA ResolveFinds ==
  ASSUME NEW p \in Platforms, NEW as \in [Adapters -> Condition], Resolve(p, as) # None
  PROVE  \E c \in Candidates(p, as) :
           /\ c.binding = Resolve(p, as)
           /\ Physical(c)
           /\ \A d \in Candidates(p, as) : d = c \/ Before(c.order, d.order)
<1> DEFINE F == Candidates(p, as)
<1>1. F # {}
  BY DEF Resolve
<1>2. (\A c \in F : Physical(c)) /\ \E c \in F : \A d \in F : d = c \/ Before(c.order, d.order)
  <2>1. CASE p = "windows"
    <3>1. F = WindowsCandidates(as)
      BY <2>1 DEF Candidates
    <3> QED BY <1>1, <3>1, WindowsFirst
  <2>2. CASE p # "windows"
    <3>1. F = LinuxCandidates(as)
      BY <2>2 DEF Candidates
    <3> QED BY <1>1, <3>1, LinuxFirst
  <2> QED BY <2>1, <2>2
<1> DEFINE first == CHOOSE c \in F : \A d \in F : d = c \/ Before(c.order, d.order)
<1>3. Resolve(p, as) = IF F = {} THEN None ELSE first.binding
  BY Zenon DEF Resolve
<1> HIDE DEF F
<1>4. first \in F /\ \A d \in F : d = first \/ Before(first.order, d.order)
  BY <1>2
<1> HIDE DEF first
<1> QED BY <1>1, <1>2, <1>3, <1>4 DEF F

LEMMA ResolveType ==
  ASSUME NEW p \in Platforms, NEW as \in [Adapters -> Condition]
  PROVE  /\ Resolve(p, as) \in Bindings \cup {None}
         /\ Resolve(p, as) # None => NotVirtual(Resolve(p, as).adapter)
BY ResolveFinds DEF Physical

\* Before compares the first keys first.
LEMMA BeforeFirst ==
  ASSUME NEW s, NEW t, Before(s, t), Len(s) \in Nat, s[1] \in Nat, t[1] \in Nat
  PROVE  s[1] <= t[1]
<1>1. PICK n \in 1..Len(s) : s[n] < t[n] /\ \A k \in 1..(n - 1) : s[k] = t[k]
  BY DEF Before
<1>2. CASE n = 1
  BY <1>1, <1>2
<1>3. CASE n # 1
  <2>1. 1 \in 1..(n - 1)
    BY <1>3
  <2> QED BY <1>1, <2>1
<1> QED BY <1>2, <1>3

\* The metric that decides between the physical adapters of a platform.
Metric(p, as, a) == IF p = "windows" THEN IfMetric[a] ELSE LowestMetric(as[a])

LEMMA MetricNat ==
  ASSUME NEW p, NEW as \in [Adapters -> Condition], NEW a \in Adapters
  PROVE  Metric(p, as, a) \in Nat
BY LowestMetricLeast DEF Metric

LEMMA CandidateOrder ==
  ASSUME NEW p \in Platforms, NEW as \in [Adapters -> Condition], NEW c \in Candidates(p, as)
  PROVE  /\ c.binding.adapter \in Adapters
         /\ Len(c.order) \in Nat /\ c.order[1] = Metric(p, as, c.binding.adapter)
<1>1. CASE p = "windows"
  <2>1. PICK a \in Adapters :
          c = [binding |-> [adapter |-> a, ip |-> FirstUsable(as[a])],
               order |-> <<IfMetric[a], Index[a]>>]
    BY <1>1 DEF Candidates, WindowsCandidates
  <2> QED BY <1>1, <2>1 DEF Metric
<1>2. CASE p # "windows"
  <2>1. PICK q \in PhysicalPairs(as) :
          c = [binding |-> [adapter |-> q[1], ip |-> as[q[1]].addrs[q[2]]],
               order |-> <<LowestMetric(as[q[1]]), KindRank(q[1]), Index[q[1]], q[2]>>]
    BY <1>2 DEF Candidates, LinuxCandidates
  <2>2. q \in Pairs(as)
    BY DEF PhysicalPairs
  <2>3. PICK a \in Adapters : q \in {<<a, n>> : n \in 1..Len(as[a].addrs)}
    BY <2>2, Zenon DEF Pairs
  <2>4. PICK n \in 1..Len(as[a].addrs) : q = <<a, n>>
    BY <2>3
  <2>5. q[1] = a
    BY <2>4
  <2> QED BY <1>2, <2>1, <2>5 DEF Metric
<1> QED BY <1>1, <1>2

\* No operational LAN adapter with a usable address has a better metric than
\* the adapter that resolve_physical_binding picks.
LEMMA ResolvePrefers ==
  ASSUME NEW p \in Platforms, NEW as \in [Adapters -> Condition], Resolve(p, as) # None,
         NEW a \in Adapters, as[a].up, Index[a] # 0, UsableAt(as[a]) # {}, Class[a] = "lan"
  PROVE  Metric(p, as, Resolve(p, as).adapter) <= Metric(p, as, a)
<1>1. PICK c \in Candidates(p, as) :
        /\ c.binding = Resolve(p, as)
        /\ \A d \in Candidates(p, as) : d = c \/ Before(c.order, d.order)
  BY ResolveFinds
<1>2. \E d \in Candidates(p, as) : d.binding.adapter = a
  <2>1. CASE p = "windows"
    <3> DEFINE d == [binding |-> [adapter |-> a, ip |-> FirstUsable(as[a])],
                     order |-> <<IfMetric[a], Index[a]>>]
    <3>1. WindowsPhysical(a)
      BY DEF WindowsPhysical, NotVirtual
    <3>2. d \in Candidates(p, as)
      BY <2>1, <3>1 DEF Candidates, WindowsCandidates
    <3> QED BY <3>2
  <2>2. CASE p # "windows"
    <3>1. PICK n : n \in UsableAt(as[a])
      OBVIOUS
    <3> DEFINE q == <<a, n>>
               d == [binding |-> [adapter |-> q[1], ip |-> as[q[1]].addrs[q[2]]],
                     order |-> <<LowestMetric(as[q[1]]), KindRank(q[1]), Index[q[1]], q[2]>>]
    <3>2. q \in {<<a, k>> : k \in 1..Len(as[a].addrs)}
      BY <3>1 DEF UsableAt
    <3>3. q \in Pairs(as)
      <4> DEFINE Of(x) == {<<x, k>> : k \in 1..Len(as[x].addrs)}
      <4>1. q \in Of(a)
        BY <3>2
      <4>2. Pairs(as) = UNION {Of(x) : x \in Adapters}
        BY DEF Pairs
      <4> HIDE DEF q, Of
      <4> QED BY <4>1, <4>2
    <3>4. q \in PhysicalPairs(as)
      <4>1. q[1] = a /\ q[2] = n
        OBVIOUS
      <4> HIDE DEF q
      <4> QED BY <3>1, <3>3, <4>1 DEF PhysicalPairs, LinuxPhysical, NotVirtual
    <3>5. d.binding.adapter = a
      OBVIOUS
    <3>6. d \in Candidates(p, as)
      <4> HIDE DEF q
      <4> QED BY <2>2, <3>4 DEF Candidates, LinuxCandidates
    <3> HIDE DEF d
    <3> QED BY <3>5, <3>6
  <2> QED BY <2>1, <2>2
<1>3. PICK d \in Candidates(p, as) : d.binding.adapter = a
  BY <1>2
<1> DEFINE b == Resolve(p, as).adapter
<1>4. /\ c.order[1] = Metric(p, as, c.binding.adapter)
      /\ c.binding.adapter \in Adapters /\ Len(c.order) \in Nat
  BY CandidateOrder, Zenon
<1>5. d.order[1] = Metric(p, as, d.binding.adapter)
  BY CandidateOrder, Zenon
<1>6. /\ c.order[1] = Metric(p, as, b) /\ d.order[1] = Metric(p, as, a)
      /\ Metric(p, as, b) \in Nat /\ Metric(p, as, a) \in Nat
  BY <1>1, <1>3, <1>4, <1>5, MetricNat, Zenon
<1>7. CASE d = c
  <2>1. Metric(p, as, b) = Metric(p, as, a)
    BY <1>6, <1>7, Zenon
  <2>2. \A x, y \in Nat : x = y => x <= y
    OBVIOUS
  <2> QED BY <1>6, <2>1, <2>2, Zenon
<1>8. CASE Before(c.order, d.order)
  <2>1. c.order[1] <= d.order[1]
    <3> HIDE DEF b
    <3> QED BY <1>4, <1>6, <1>8, BeforeFirst
  <2> QED BY <1>6, <2>1, Zenon
<1> QED BY <1>1, <1>3, <1>7, <1>8

(***************************************************************************)
(* The inductive invariant, in the parts the threads work on.              *)
(***************************************************************************)
Handles == {"interface", "route"}

MachineOK == platform \in Platforms /\ adapters \in Conditions

OwnerOK ==
  /\ kind \in {"none", "netlink", "windows", "poll"}
  /\ owner \in OwnerPcs /\ stop \in BOOLEAN
  /\ owner = "opening" => notifier.pc = "absent"

\* While a notification is pending, the part of the settle window that is over
\* and the part that is left make up the whole window.
LoopOK ==
  /\ loop \in [pc : LoopPcs, left : 0..PollInterval, pending : Kinds \cup {None}, due : 0..Settle]
  /\ quiet \in 0..Settle
  /\ loop.pending # None => quiet + loop.due >= Settle

LastOK == last \in Bindings \cup {None} /\ (last # None => NotVirtual(last.adapter))

SocketOK ==
  /\ socket \in [queue : Seq(Kinds), overrun : BOOLEAN, wake : BOOLEAN, stop : BOOLEAN]
  /\ Len(socket.queue) <= Backlog

\* A callback runs only for a registered handle, a handle is registered only
\* between the two ends of the notifier's thread, and there the context lives.
NotifierOK ==
  /\ notifier \in [pc : NotifierPcs, context : {"none", "live", "freed"},
                   registered : SUBSET Handles, callbacks : SUBSET Handles,
                   messages : BOOLEAN, quit : BOOLEAN, channel : Seq(Kinds)]
  /\ notifier.callbacks \subseteq notifier.registered
  /\ notifier.pc \in {"absent", "interface", "freeing", "failed", "ended"} =>
       notifier.registered = {}
  /\ notifier.pc \in {"route", "undo", "queue", "listening", "cancelling"} =>
       notifier.context = "live"

EventsOK == events \in [pending : 0..Capacity, lagged : BOOLEAN]

MInv == MachineOK /\ OwnerOK /\ LoopOK /\ LastOK /\ SocketOK /\ NotifierOK /\ EventsOK

LEMMA UplinkType ==
  ASSUME MachineOK
  PROVE  UplinkNow \in Bindings \cup {None} /\ (UplinkNow # None => NotVirtual(UplinkNow.adapter))
<1>1. platform \in Platforms /\ adapters \in [Adapters -> Condition]
  BY DEF MachineOK
<1> QED BY <1>1, ResolveType DEF UplinkNow

LEMMA MonitorStarts == Init => MInv
<1> SUFFICES ASSUME Init PROVE MInv
  OBVIOUS
<1>1. MachineOK
  BY DEF Init, MachineOK
<1>2. LastOK
  BY <1>1, UplinkType DEF Init, LastOK
<1>3. OwnerOK
  BY DEF Init, OwnerOK, OwnerPcs, NoNotifier
<1>4. LoopOK
  BY DEF Init, LoopOK, NoLoop, LoopPcs
<1>5. SocketOK
  <2>1. <<>> \in Seq(Kinds) /\ Len(<<>>) = 0
    OBVIOUS
  <2> QED BY <2>1 DEF Init, SocketOK, NoSource
<1>6. NotifierOK
  <2>1. <<>> \in Seq(Kinds)
    OBVIOUS
  <2> QED BY <2>1 DEF Init, NotifierOK, NoNotifier, NotifierPcs
<1>7. EventsOK
  BY DEF Init, EventsOK
<1> QED BY <1>1, <1>2, <1>3, <1>4, <1>5, <1>6, <1>7 DEF MInv

LEMMA RecordOK ==
  ASSUME LoopOK, NEW k \in Kinds, Record(k)
  PROVE  LoopOK'
<1>1. Settle \in 0..Settle /\ 0 \in 0..Settle /\ 0 + Settle >= Settle
  OBVIOUS
<1>2. loop' \in [pc : LoopPcs, left : 0..PollInterval, pending : Kinds \cup {None}, due : 0..Settle]
  <2>1. k \in Kinds \cup {None} /\ "top" \in LoopPcs
    BY DEF LoopPcs
  <2> HIDE AdaptersAssumption, MonitorAssumption
  <2> QED BY <1>1, <2>1 DEF Record, LoopOK
<1>3. loop'.due = Settle /\ quiet' = 0
  BY DEF Record, LoopOK
<1> QED BY <1>1, <1>2, <1>3 DEF LoopOK

LEMMA LoopStepOK ==
  ASSUME MInv, \/ LoopTop \/ NetlinkPolled \/ Drain \/ ChannelReceived \/ WaitEnds \/ Expired
               \/ Tick
  PROVE  LoopOK'
<1>0. LoopOK /\ NotifierOK /\ SocketOK
  BY DEF MInv
<1>1. CASE LoopTop
  <2>1. WaitFor \in 0..PollInterval
    BY <1>0 DEF WaitFor, LoopOK
  <2>2. /\ quiet' = quiet
        /\ \/ loop' = [loop EXCEPT !.pc = "ended"]
           \/ loop' = [loop EXCEPT !.pc = "waiting", !.left = WaitFor]
    BY <1>1 DEF LoopTop
  <2> HIDE DEF WaitFor
  <2> QED BY <1>0, <2>1, <2>2 DEF LoopOK, LoopPcs
<1>2. CASE NetlinkPolled
  BY <1>0, <1>2 DEF NetlinkPolled, LoopOK, End, LoopPcs
<1>3. CASE Drain
  <2>1. socket.queue # <<>> => Head(socket.queue) \in Kinds
    BY <1>0 DEF SocketOK
  <2>2. CASE Expire /\ quiet' = quiet
    BY <1>0, <2>2 DEF Expire, LoopOK, LoopPcs
  <2> QED BY <1>0, <1>3, <2>1, <2>2, RecordOK DEF Drain
<1>4. CASE ChannelReceived
  <2>1. notifier.channel # <<>> => Head(notifier.channel) \in Kinds
    BY <1>0 DEF NotifierOK
  <2>2. CASE End /\ quiet' = quiet
    BY <1>0, <2>2 DEF End, LoopOK, LoopPcs
  <2> QED BY <1>0, <1>4, <2>1, <2>2, RecordOK DEF ChannelReceived
<1>5. CASE WaitEnds
  BY <1>0, <1>5 DEF WaitEnds, Expire, LoopOK, LoopPcs
<1>6. CASE Expired
  BY <1>0, <1>6 DEF Expired, Settled, LoopOK, LoopPcs
<1>7. CASE Tick
  <2> DEFINE due == IF loop.due > 0 THEN loop.due - 1 ELSE 0
  <2>1. /\ loop' = [loop EXCEPT !.left = loop.left - 1, !.due = due]
        /\ quiet' = IF quiet < Settle THEN quiet + 1 ELSE quiet
        /\ loop.left > 0
    BY <1>7 DEF Tick
  <2>2. /\ loop \in [pc : LoopPcs, left : 0..PollInterval, pending : Kinds \cup {None}, due : 0..Settle]
        /\ loop.due \in 0..Settle /\ loop.left \in 0..PollInterval /\ quiet \in 0..Settle
        /\ loop.pending # None => quiet + loop.due >= Settle
    BY <1>0 DEF LoopOK
  <2>3. due \in 0..Settle /\ loop.left - 1 \in 0..PollInterval /\ quiet' \in 0..Settle
    BY <2>1, <2>2
  <2>4. loop.pending # None => quiet' + due >= Settle
    BY <2>1, <2>2
  <2> HIDE DEF due
  <2>5. loop' \in [pc : LoopPcs, left : 0..PollInterval, pending : Kinds \cup {None}, due : 0..Settle]
    BY <2>1, <2>2, <2>3
  <2>6. loop'.pending = loop.pending /\ loop'.due = due
    BY <2>1, <2>2
  <2> QED BY <2>3, <2>4, <2>5, <2>6 DEF LoopOK
<1> QED BY <1>1, <1>2, <1>3, <1>4, <1>5, <1>6, <1>7

LEMMA LoopStepSocket ==
  ASSUME MInv, LoopNext
  PROVE  SocketOK' /\ NotifierOK'
<1>0. NotifierOK /\ SocketOK
  BY DEF MInv
<1>1. CASE Drain
  <2>1. socket.queue # <<>> =>
          Tail(socket.queue) \in Seq(Kinds) /\ Len(Tail(socket.queue)) <= Backlog
    BY <1>0 DEF SocketOK
  <2>2. SocketOK'
    BY <1>0, <1>1, <2>1 DEF Drain, SocketOK
  <2> QED BY <1>0, <1>1, <2>2 DEF Drain, NotifierOK
<1>2. CASE ChannelReceived
  <2>1. notifier.channel # <<>> => Tail(notifier.channel) \in Seq(Kinds)
    BY <1>0 DEF NotifierOK
  <2>2. NotifierOK'
    BY <1>0, <1>2, <2>1 DEF ChannelReceived, NotifierOK
  <2> QED BY <1>0, <1>2, <2>2 DEF ChannelReceived, SocketOK
<1>3. CASE LoopTop \/ NetlinkPolled \/ WaitEnds \/ Expired
  <2>1. UNCHANGED <<socket, notifier>>
    BY <1>3 DEF LoopTop, NetlinkPolled, WaitEnds, Expired, sourceVars
  <2> QED BY <1>0, <2>1 DEF SocketOK, NotifierOK
<1> QED BY <1>1, <1>2, <1>3 DEF LoopNext

LEMMA LoopStepLast ==
  ASSUME MInv, LoopNext
  PROVE  LastOK' /\ EventsOK'
<1>0. LastOK /\ EventsOK /\ MachineOK
  BY DEF MInv
<1>1. CASE Expired
  <2>1. PICK found \in {UplinkNow, None} : Observe(found)
    BY <1>1, Zenon DEF Expired
  <2>2. LastOK'
    BY <1>0, <2>1, UplinkType DEF Observe, LastOK, NotVirtual
  <2>3. EventsOK'
    <3>1. Emitted \in [pending : 0..Capacity, lagged : BOOLEAN]
      <4> DEFINE n == IF events.pending < Capacity THEN events.pending + 1 ELSE events.pending
                 l == events.lagged \/ events.pending = Capacity
      <4>1. n \in 0..Capacity /\ l \in BOOLEAN
        BY <1>0 DEF EventsOK
      <4>2. Emitted = [events EXCEPT !.pending = n, !.lagged = l]
        BY DEF Emitted
      <4> HIDE DEF n, l
      <4> QED BY <1>0, <4>1, <4>2 DEF EventsOK
    <3> QED BY <1>0, <2>1, <3>1, Zenon DEF Observe, EventsOK
  <2> QED BY <2>2, <2>3
<1>2. CASE LoopTop \/ NetlinkPolled \/ WaitEnds \/ Drain \/ ChannelReceived
  <2>1. UNCHANGED <<last, events>>
    BY <1>2 DEF LoopTop, NetlinkPolled, WaitEnds, Drain, ChannelReceived
  <2> QED BY <1>0, <2>1 DEF LastOK, EventsOK, NotVirtual
<1> QED BY <1>1, <1>2 DEF LoopNext

LEMMA NotifierStepOK ==
  ASSUME MInv, NotifierNext
  PROVE  NotifierOK' /\ notifier.pc # "absent"
<1>0. NotifierOK
  BY DEF MInv
<1>1. CASE RegisterInterface
  <2>1. notifier.registered = {} /\ notifier.callbacks = {}
    BY <1>0, <1>1 DEF RegisterInterface, At, NotifierOK
  <2>2. CASE notifier' = [notifier EXCEPT !.pc = "route", !.context = "live",
                                         !.registered = {"interface"}]
    BY <1>0, <1>1, <2>1, <2>2 DEF RegisterInterface, At, NotifierOK, NotifierPcs, Handles
  <2>3. CASE notifier' = [notifier EXCEPT !.pc = "failed", !.context = "freed"]
    BY <1>0, <1>1, <2>1, <2>3 DEF RegisterInterface, At, NotifierOK, NotifierPcs
  <2> QED BY <1>1, <2>2, <2>3 DEF RegisterInterface
<1>2. CASE RegisterRoute
  <2>1. CASE notifier' = [notifier EXCEPT !.pc = "queue",
                                         !.registered = notifier.registered \cup {"route"}]
    <3>1. notifier.registered \cup {"route"} \in SUBSET Handles
      BY <1>0 DEF NotifierOK, Handles
    <3> QED BY <1>0, <1>2, <2>1, <3>1 DEF RegisterRoute, At, NotifierOK, NotifierPcs
  <2>2. CASE notifier' = [notifier EXCEPT !.pc = "undo"]
    BY <1>0, <1>2, <2>2 DEF RegisterRoute, At, NotifierOK, NotifierPcs
  <2> QED BY <1>2, <2>1, <2>2 DEF RegisterRoute
<1>3. CASE UndoRegistration
  BY <1>0, <1>3 DEF UndoRegistration, At, NotifierOK, NotifierPcs, Handles
<1>4. CASE CreateQueue
  BY <1>0, <1>4 DEF CreateQueue, At, NotifierOK, NotifierPcs, Handles
<1>5. CASE TakeQuit
  BY <1>0, <1>5 DEF TakeQuit, At, NotifierOK, NotifierPcs, Handles
<1>6. CASE CancelNotifications
  <2>1. PICK h \in notifier.registered :
          /\ h \notin notifier.callbacks
          /\ notifier' = [notifier EXCEPT
               !.registered = notifier.registered \ {h},
               !.pc = IF notifier.registered = {h} THEN "freeing" ELSE notifier.pc]
    BY <1>6 DEF CancelNotifications
  <2>2. notifier.pc = "cancelling" /\ notifier.context = "live"
    BY <1>0, <1>6 DEF CancelNotifications, At, NotifierOK
  <2>3. CASE notifier.registered = {h}
    <3>1. notifier' = [notifier EXCEPT !.registered = {}, !.pc = "freeing"]
      BY <2>1, <2>3
    <3>2. notifier.callbacks = {}
      BY <1>0, <2>1, <2>3 DEF NotifierOK
    <3> QED BY <1>0, <2>2, <3>1, <3>2 DEF NotifierOK, NotifierPcs
  <2>4. CASE notifier.registered # {h}
    <3> DEFINE R == notifier.registered \ {h}
    <3>1. notifier' = [notifier EXCEPT !.registered = R]
      BY <1>0, <2>1, <2>4 DEF NotifierOK
    <3>2. R \in SUBSET Handles /\ notifier.callbacks \subseteq R
      BY <1>0, <2>1 DEF NotifierOK
    <3> HIDE DEF R
    <3> QED BY <1>0, <2>2, <3>1, <3>2 DEF NotifierOK
  <2> QED BY <2>3, <2>4
<1>7. CASE FreeContext
  BY <1>0, <1>7 DEF FreeContext, At, NotifierOK, NotifierPcs, Handles
<1> QED BY <1>1, <1>2, <1>3, <1>4, <1>5, <1>6, <1>7 DEF NotifierNext

LEMMA PostedOK ==
  ASSUME SocketOK, NEW k \in Kinds, socket' = Posted(socket, k)
  PROVE  SocketOK'
<1>1. CASE Len(socket.queue) < Backlog
  <2>1. /\ socket' = [socket EXCEPT !.queue = Append(socket.queue, k)]
        /\ Append(socket.queue, k) \in Seq(Kinds)
        /\ Len(Append(socket.queue, k)) <= Backlog
    BY <1>1 DEF Posted, SocketOK
  <2> QED BY <2>1 DEF SocketOK
<1>2. CASE ~(Len(socket.queue) < Backlog)
  <2>1. socket' = [socket EXCEPT !.overrun = TRUE]
    BY <1>2 DEF Posted
  <2> QED BY <2>1 DEF SocketOK
<1> QED BY <1>1, <1>2

LEMMA ChangeOK ==
  ASSUME MInv, AdaptersChange
  PROVE  MachineOK' /\ SocketOK' /\ NotifierOK' /\ notifier'.pc = notifier.pc
<1>0. MachineOK /\ SocketOK /\ NotifierOK
  BY DEF MInv
<1>1. MachineOK'
  BY <1>0 DEF AdaptersChange, MachineOK
<1>2. CASE UNCHANGED sourceVars
  BY <1>0, <1>1, <1>2 DEF sourceVars, SocketOK, NotifierOK
<1>3. ASSUME NEW k \in Notified, socket' = Posted(socket, k), UNCHANGED notifier
      PROVE  SocketOK' /\ NotifierOK' /\ notifier'.pc = notifier.pc
  <2>1. k \in Kinds
    BY DEF Kinds
  <2> QED BY <1>0, <1>3, <2>1, PostedOK DEF NotifierOK
<1>4. ASSUME NEW k \in Notified, Handle(k) \in notifier.registered, UNCHANGED socket,
             notifier' = [notifier EXCEPT !.callbacks = notifier.callbacks \cup {Handle(k)}]
      PROVE  SocketOK' /\ NotifierOK' /\ notifier'.pc = notifier.pc
  <2> DEFINE cs == notifier.callbacks \cup {Handle(k)}
  <2>1. cs \in SUBSET Handles /\ cs \subseteq notifier.registered
    BY <1>0, <1>4 DEF NotifierOK
  <2>2. notifier' = [notifier EXCEPT !.callbacks = cs]
    BY <1>4
  <2> HIDE DEF cs
  <2>3. notifier'.pc = notifier.pc /\ NotifierOK'
    BY <1>0, <2>1, <2>2 DEF NotifierOK
  <2>4. SocketOK'
    BY <1>0, <1>4 DEF SocketOK
  <2> QED BY <2>3, <2>4
<1> QED BY <1>1, <1>2, <1>3, <1>4 DEF AdaptersChange

LEMMA CallbackOK ==
  ASSUME MInv, CallbackReturns
  PROVE  NotifierOK' /\ notifier'.pc = notifier.pc
<1>0. NotifierOK
  BY DEF MInv
<1>1. PICK h \in notifier.callbacks :
        notifier' = [notifier EXCEPT
           !.callbacks = notifier.callbacks \ {h},
           !.channel = Append(notifier.channel, IF h = "route" THEN "Route" ELSE "Address")]
  BY DEF CallbackReturns
<1> DEFINE cs == notifier.callbacks \ {h}
           ch == Append(notifier.channel, IF h = "route" THEN "Route" ELSE "Address")
<1>2. cs \in SUBSET Handles /\ cs \subseteq notifier.registered /\ ch \in Seq(Kinds)
  BY <1>0 DEF NotifierOK, Kinds
<1>3. notifier' = [notifier EXCEPT !.callbacks = cs, !.channel = ch]
  BY <1>1
<1> HIDE DEF cs, ch
<1> QED BY <1>0, <1>2, <1>3 DEF NotifierOK

LEMMA OwnerStepOK ==
  ASSUME MInv, OwnerStarts \/ StoreStop \/ OwnerStops
  PROVE  OwnerOK' /\ LoopOK' /\ SocketOK' /\ NotifierOK'
<1>0. OwnerOK /\ LoopOK /\ SocketOK /\ NotifierOK
  BY DEF MInv
<1>1. CASE OpenNetlink \/ TakeAnswer \/ StoreStop \/ Join
  <2>1. UNCHANGED <<loop, quiet, socket, notifier>>
    BY <1>1 DEF OpenNetlink, TakeAnswer, StoreStop, Join, ownerFrame, sourceVars
  <2>2. OwnerOK'
    BY <1>0, <1>1 DEF OpenNetlink, TakeAnswer, StoreStop, Join, OpenSource, OwnerOK, OwnerPcs
  <2> QED BY <1>0, <2>1, <2>2 DEF LoopOK, SocketOK, NotifierOK
<1>2. CASE SpawnNotifier
  <2>1. notifier.pc = "absent" /\ notifier' = [notifier EXCEPT !.pc = "interface"]
    BY <1>0, <1>2 DEF SpawnNotifier, OwnerOK
  <2>2. NotifierOK'
    BY <1>0, <2>1 DEF NotifierOK, NotifierPcs
  <2>3. OwnerOK'
    BY <1>0, <1>2 DEF SpawnNotifier, OwnerOK, OwnerPcs
  <2> QED BY <1>0, <1>2, <2>2, <2>3 DEF SpawnNotifier, ownerFrame, LoopOK, SocketOK
<1>3. CASE SpawnLoop
  <2>1. LoopOK'
    BY <1>0, <1>3 DEF SpawnLoop, ownerFrame, LoopOK, LoopPcs
  <2>2. OwnerOK'
    BY <1>0, <1>3 DEF SpawnLoop, OwnerOK, OwnerPcs
  <2> QED BY <1>0, <1>3, <2>1, <2>2 DEF SpawnLoop, sourceVars, SocketOK, NotifierOK
<1>4. CASE Wake
  <2>1. SocketOK'
    BY <1>0, <1>4 DEF Wake, SocketOK
  <2>2. NotifierOK'
    BY <1>0, <1>4 DEF Wake, NotifierOK
  <2>3. OwnerOK'
    BY <1>0, <1>4 DEF Wake, OwnerOK, OwnerPcs
  <2> QED BY <1>0, <1>4, <2>1, <2>2, <2>3 DEF Wake, ownerFrame, LoopOK
<1> QED BY <1>1, <1>2, <1>3, <1>4 DEF OwnerStarts, OwnerStops

LEMMA MonitorSteps == MInv /\ [Next]_vars => MInv'
<1> SUFFICES ASSUME MInv, [Next]_vars PROVE MInv'
  OBVIOUS
<1>0. MachineOK /\ OwnerOK /\ LoopOK /\ LastOK /\ SocketOK /\ NotifierOK /\ EventsOK
  BY DEF MInv
<1>1. CASE AdaptersChange
  <2>1. MachineOK' /\ SocketOK' /\ NotifierOK' /\ notifier'.pc = notifier.pc
    BY <1>1, ChangeOK
  <2>2. UNCHANGED <<platform, kind, owner, stop, loop, last, events, quiet>>
    BY <1>1 DEF AdaptersChange
  <2> QED BY <1>0, <2>1, <2>2 DEF MInv, OwnerOK, LoopOK, LastOK, EventsOK, NotVirtual
<1>2. CASE CallbackReturns
  <2>1. NotifierOK' /\ notifier'.pc = notifier.pc
    BY <1>2, CallbackOK
  <2>2. UNCHANGED <<platform, adapters, kind, owner, stop, loop, last, socket, events, quiet>>
    BY <1>2 DEF CallbackReturns
  <2> QED BY <1>0, <2>1, <2>2
      DEF MInv, MachineOK, OwnerOK, LoopOK, LastOK, SocketOK, EventsOK, NotVirtual
<1>3. CASE Tick
  <2>1. LoopOK'
    BY <1>3, LoopStepOK
  <2>2. UNCHANGED <<platform, adapters, kind, owner, stop, last, socket, notifier, events>>
    BY <1>3 DEF Tick, sourceVars
  <2> QED BY <1>0, <2>1, <2>2
      DEF MInv, MachineOK, OwnerOK, LastOK, SocketOK, NotifierOK, EventsOK, NotVirtual
<1>4. CASE NotifierNext
  <2>1. NotifierOK' /\ notifier.pc # "absent"
    BY <1>4, NotifierStepOK
  <2>2. UNCHANGED <<platform, adapters, kind, owner, stop, loop, last, socket, events, quiet>>
    BY <1>4 DEF NotifierNext, RegisterInterface, RegisterRoute, UndoRegistration, CreateQueue,
                TakeQuit, CancelNotifications, FreeContext, notifierFrame
  <2> QED BY <1>0, <2>1, <2>2
      DEF MInv, MachineOK, OwnerOK, LoopOK, LastOK, SocketOK, EventsOK, NotVirtual
<1>5. CASE OwnerStarts \/ StoreStop \/ OwnerStops
  <2>1. OwnerOK' /\ LoopOK' /\ SocketOK' /\ NotifierOK'
    BY <1>5, OwnerStepOK
  <2>2. UNCHANGED <<platform, adapters, last, events>>
    BY <1>5 DEF OwnerStarts, OwnerStops, StoreStop, OpenNetlink, SpawnNotifier, TakeAnswer,
                SpawnLoop, Wake, Join, ownerFrame
  <2> QED BY <1>0, <2>1, <2>2 DEF MInv, MachineOK, LastOK, EventsOK, NotVirtual
<1>6. CASE LoopNext
  <2>1. LoopOK' /\ SocketOK' /\ NotifierOK' /\ LastOK' /\ EventsOK'
    BY <1>6, LoopStepOK, LoopStepSocket, LoopStepLast DEF LoopNext
  <2>2. UNCHANGED <<platform, adapters, kind, owner, stop>>
    <3>1. CASE Expired
      BY <3>1 DEF Expired, loopFrame
    <3>2. CASE LoopTop \/ NetlinkPolled \/ Drain \/ ChannelReceived \/ WaitEnds
      BY <3>2 DEF LoopTop, NetlinkPolled, Drain, ChannelReceived, WaitEnds, loopFrame
    <3> QED BY <1>6, <3>1, <3>2 DEF LoopNext
  <2>3. notifier'.pc = notifier.pc
    <3>1. CASE ChannelReceived
      BY <1>0, <3>1 DEF ChannelReceived, NotifierOK
    <3>2. CASE ~ChannelReceived
      BY <1>6, <3>2 DEF LoopNext, LoopTop, NetlinkPolled, Drain, WaitEnds, Expired, sourceVars
    <3> QED BY <3>1, <3>2
  <2> QED BY <1>0, <2>1, <2>2, <2>3 DEF MInv, MachineOK, OwnerOK
<1>7. CASE Read
  <2>1. EventsOK'
    <3>1. events \in [pending : 0..Capacity, lagged : BOOLEAN]
      BY <1>0 DEF EventsOK
    <3>2. CASE events.lagged
      BY <1>7, <3>1, <3>2 DEF Read, EventsOK
    <3>3. CASE ~events.lagged
      <4>1. events.pending > 0 /\ events.pending - 1 \in 0..Capacity
        BY <1>7, <3>1, <3>3 DEF Read
      <4>2. events' = [events EXCEPT !.pending = events.pending - 1]
        BY <1>7, <3>3 DEF Read
      <4> QED BY <3>1, <4>1, <4>2 DEF EventsOK
    <3> QED BY <3>2, <3>3
  <2>2. UNCHANGED <<platform, adapters, kind, owner, stop, loop, last, socket, notifier, quiet>>
    BY <1>7 DEF Read, readerFrame, sourceVars
  <2> QED BY <1>0, <2>1, <2>2
      DEF MInv, MachineOK, OwnerOK, LoopOK, LastOK, SocketOK, NotifierOK, NotVirtual
<1>8. CASE UNCHANGED vars
  BY <1>0, <1>8 DEF vars, sourceVars,
      MInv, MachineOK, OwnerOK, LoopOK, LastOK, SocketOK, NotifierOK, EventsOK, NotVirtual
<1> QED BY <1>1, <1>2, <1>3, <1>4, <1>5, <1>6, <1>7, <1>8 DEF Next, Finished

LEMMA MInvHolds == Spec => []MInv
BY MonitorStarts, MonitorSteps, PTL DEF Spec

(***************************************************************************)
(* The theorems.                                                           *)
(***************************************************************************)
LEMMA EgressFollows ==
  ASSUME MInv
  PROVE  NeverVirtual /\ EgressTied
<1>0. last \in Bindings \cup {None} /\ (last # None => NotVirtual(last.adapter))
  BY DEF MInv, LastOK
<1>1. NeverVirtual
  BY <1>0 DEF NeverVirtual, NotVirtual, Bindings
<1> SUFFICES ASSUME last # None PROVE EgressTied
  BY <1>1 DEF EgressTied
<1>2. last.adapter \in Adapters /\ last.ip \in Usable /\ NotVirtual(last.adapter)
  BY <1>0 DEF Bindings
<1>3. \A d \in Configure(platform, last) :
        d = last.adapter \/ (d = None /\ platform = "android")
  BY DEF Configure, ConfigureWindows, ConfigureLinux
<1>4. ASSUME NEW s \in BoundSockets(platform, adapters, last)
      PROVE  /\ s.source \in Usable
             /\ \E a \in Adapters :
                  /\ NotVirtual(a)
                  /\ \E n \in 1..Len(adapters[a].addrs) : adapters[a].addrs[n] = s.source
                  /\ s.device = a \/ platform = "android"
  <2>1. PICK d : /\ s = [device |-> d, source |-> last.ip]
                 /\ d \in Configure(platform, last)
                 /\ HasAddress(adapters, last)
    BY <1>4 DEF BoundSockets
  <2>2. s.source = last.ip /\ s.device = d
    BY <2>1
  <2> QED BY <1>2, <1>3, <2>1, <2>2 DEF HasAddress
<1>5. ASSUME NEW s \in BoundSockets6(platform, last)
      PROVE  platform = "android" \/ (s.device \in Adapters /\ NotVirtual(s.device))
  BY <1>2, <1>3 DEF BoundSockets6
<1> QED BY <1>1, <1>4, <1>5 DEF EgressTied

\* The monitor's invariant, for any set of adapters and conditions, any bound
\* of its queues and any settle window: no callback runs on a freed context,
\* no virtual adapter is followed, and every bound socket leaves through a
\* physical one (netmon/platform.rs, uplink.rs, net.rs).
THEOREM MonitorInvHolds == Spec => []MonitorInv
<1>1. MInv => MonitorTypeOK
  BY DEF MInv, MachineOK, OwnerOK, LoopOK, LastOK, SocketOK, NotifierOK, EventsOK, MonitorTypeOK
<1>2. MInv => ContextOutlivesCallbacks
  BY DEF MInv, NotifierOK, ContextOutlivesCallbacks, NotifierPcs
<1>3. MInv => NeverVirtual /\ EgressTied
  BY EgressFollows
<1> QED BY <1>1, <1>2, <1>3, MInvHolds, PTL DEF MonitorInv

\* Only the end of a wait takes a settled notification, and only it follows
\* another uplink.
LEMMA OnlyExpired ==
  ASSUME MInv, Next, ~Expired
  PROVE  last' = last /\ (loop.pc = "expired" => loop'.pending = loop.pending)
<1>0. LoopOK
  BY DEF MInv
<1>1. CASE AdaptersChange \/ CallbackReturns \/ StoreStop \/ OwnerStops \/ Read \/ Finished
  BY <1>1 DEF AdaptersChange, CallbackReturns, StoreStop, OwnerStops, Wake, Join, Read,
              Finished, ownerFrame, readerFrame, vars
<1>2. CASE Tick
  BY <1>2 DEF Tick
<1>3. CASE NotifierNext
  BY <1>3 DEF NotifierNext, RegisterInterface, RegisterRoute, UndoRegistration, CreateQueue,
              TakeQuit, CancelNotifications, FreeContext, notifierFrame
<1>4. CASE OpenNetlink \/ SpawnNotifier \/ TakeAnswer
  BY <1>4 DEF OpenNetlink, SpawnNotifier, TakeAnswer, ownerFrame
<1>5. CASE SpawnLoop
  BY <1>0, <1>5 DEF SpawnLoop, ownerFrame, LoopOK
<1>6. CASE LoopTop \/ NetlinkPolled \/ Drain \/ ChannelReceived \/ WaitEnds
  BY <1>6 DEF LoopTop, NetlinkPolled, Drain, ChannelReceived, WaitEnds, Waiting
<1> QED BY <1>1, <1>2, <1>3, <1>4, <1>5, <1>6 DEF Next, OwnerStarts, LoopNext

\* A settled notification is acted upon after a whole quiet window, and the
\* uplink that is then followed has the best metric of the machine's physical
\* adapters (SettleState, resolve_physical_binding).
THEOREM ProbesAreSettled == Spec => ProbesSettled
<1> DEFINE Quiet == loop.pc = "expired" /\ loop.pending # None /\ loop'.pending = None
                      => quiet >= Settle
           Best == \A b \in {last'} \ {None} : last' # last =>
                     \A a \in Adapters :
                       /\ adapters[a].up /\ Index[a] # 0 /\ UsableAt(adapters[a]) # {}
                       /\ Class[a] = "lan"
                       => IF platform = "windows" THEN IfMetric[b.adapter] <= IfMetric[a]
                          ELSE LowestMetric(adapters[b.adapter]) <= LowestMetric(adapters[a])
<1>1. ASSUME MInv, Next PROVE Quiet /\ Best
  <2>1. CASE ~Expired
    <3>1. last' = last /\ (loop.pc = "expired" => loop'.pending = loop.pending)
      BY <1>1, <2>1, OnlyExpired
    <3> QED BY <3>1
  <2>2. CASE Expired
    <3>1. Quiet
      <4>1. loop \in [pc : LoopPcs, left : 0..PollInterval, pending : Kinds \cup {None}, due : 0..Settle]
            /\ quiet \in 0..Settle /\ (loop.pending # None => quiet + loop.due >= Settle)
        BY <1>1 DEF MInv, LoopOK
      <4>2. loop'.pending = IF loop.due = 0 THEN None ELSE loop.pending
        BY <2>2, <4>1 DEF Expired, Settled
      <4> QED BY <4>1, <4>2
    <3>2. Best
      <4> SUFFICES ASSUME last' # None, NEW a \in Adapters,
                          adapters[a].up, Index[a] # 0, UsableAt(adapters[a]) # {},
                          Class[a] = "lan"
                   PROVE  IF platform = "windows" THEN IfMetric[last'.adapter] <= IfMetric[a]
                          ELSE LowestMetric(adapters[last'.adapter]) <= LowestMetric(adapters[a])
        OBVIOUS
      <4>1. last' = Resolve(platform, adapters)
        BY <2>2, Zenon DEF Expired, Observe, UplinkNow
      <4>2. platform \in Platforms /\ adapters \in [Adapters -> Condition]
        BY <1>1 DEF MInv, MachineOK
      <4>3. Metric(platform, adapters, Resolve(platform, adapters).adapter)
              <= Metric(platform, adapters, a)
        BY <4>1, <4>2, ResolvePrefers
      <4> QED BY <4>1, <4>3, Zenon DEF Metric
    <3> QED BY <3>1, <3>2
  <2> QED BY <2>1, <2>2
<1>2. MInv /\ [Next]_vars => [Quiet /\ Best]_vars
  BY <1>1
<1> QED BY <1>2, MInvHolds, PTL DEF Spec, ProbesSettled

(***************************************************************************)
(* The monitor implements the Detector.                                    *)
(***************************************************************************)
News == events.pending > 0 \/ events.lagged

LEMMA SameUplink ==
  ASSUME UNCHANGED <<platform, adapters>>
  PROVE  UplinkNow' = UplinkNow
BY Zenon DEF UplinkNow

LEMMA DetectorStarts == Init => D!Init
<1> SUFFICES ASSUME Init PROVE D!Init
  OBVIOUS
<1>1. MachineOK
  BY DEF Init, MachineOK
<1>2. UplinkNow \in Bindings \cup {None} /\ last = UplinkNow
  BY <1>1, UplinkType DEF Init
<1>3. (events.pending > 0 \/ events.lagged) = FALSE /\ Running = TRUE
  BY DEF Init, Running
<1> QED BY <1>2, <1>3 DEF D!Init, D!Found

LEMMA DetectorSteps ==
  ASSUME MInv, MInv', [Next]_vars
  PROVE  [D!Next]_(D!detectorVars)
<1>0. EventsOK /\ EventsOK' /\ OwnerOK
  BY DEF MInv
<1>1. CASE AdaptersChange
  <2>1. UNCHANGED <<last, events, owner>>
    BY <1>1 DEF AdaptersChange
  <2>2. UplinkNow' \in Bindings \cup {None}
    <3>1. MachineOK'
      BY DEF MInv
    <3>2. platform' \in Platforms /\ adapters' \in [Adapters -> Condition]
      BY <3>1 DEF MachineOK
    <3> QED BY <3>2, ResolveType DEF UplinkNow
  <2>3. UNCHANGED <<last, News, Running>>
    BY <2>1 DEF News, Running
  <2> QED BY <2>2, <2>3 DEF D!Next, D!Changes, D!Found, D!detectorVars, News
<1>2. CASE Expired
  <2>1. PICK found \in {UplinkNow, None} : Observe(found)
    BY <1>2, Zenon DEF Expired
  <2>2. UplinkNow' = UplinkNow /\ Running' = Running
    BY <1>2, SameUplink DEF Expired, loopFrame, Running
  <2>3. CASE found = last
    <3>1. UNCHANGED <<last, events>>
      BY <2>1, <2>3 DEF Observe
    <3> QED BY <2>2, <3>1 DEF D!detectorVars
  <2>4. CASE found # last
    <3>1. last' = found /\ events' = Emitted
      BY <2>1, <2>4 DEF Observe
    <3>2. News' = TRUE
      BY <1>0, <3>1 DEF News, Emitted, EventsOK
    <3> QED BY <2>2, <2>4, <3>1, <3>2 DEF D!Next, D!Notices, News
  <2> QED BY <2>3, <2>4
<1>3. CASE StoreStop
  <2>1. Running /\ ~Running' /\ UNCHANGED <<platform, adapters, last, events>>
    BY <1>3 DEF StoreStop, ownerFrame, Running
  <2>2. UplinkNow' = UplinkNow
    BY <2>1, SameUplink
  <2>3. Running \in BOOLEAN
    BY DEF Running
  <2> QED BY <2>1, <2>2, <2>3 DEF D!Next, D!Stops
<1>4. CASE Read
  <2>1. News /\ UNCHANGED <<platform, adapters, last, owner>>
    BY <1>4 DEF Read, readerFrame, News
  <2>2. UplinkNow' = UplinkNow /\ Running' = Running
    BY <2>1, SameUplink DEF Running
  <2>3. News \in BOOLEAN /\ News' \in BOOLEAN
    BY <1>0 DEF News, EventsOK
  <2>4. CASE News' = TRUE
    BY <2>1, <2>2, <2>3, <2>4 DEF D!detectorVars, News
  <2>5. CASE News' = FALSE
    BY <2>1, <2>2, <2>5 DEF D!Next, D!Reads, News
  <2> QED BY <2>3, <2>4, <2>5
<1>5. ASSUME UNCHANGED <<platform, adapters, last, events>>, Running' = Running
      PROVE  UNCHANGED D!detectorVars
  <2>1. UplinkNow' = UplinkNow
    BY <1>5, SameUplink
  <2> QED BY <1>5, <2>1 DEF D!detectorVars
<1>6. CASE CallbackReturns \/ Tick \/ Finished \/ UNCHANGED vars
  <2>1. UNCHANGED <<platform, adapters, last, events, owner>>
    BY <1>6 DEF CallbackReturns, Tick, Finished, vars
  <2> QED BY <1>5, <2>1 DEF Running
<1>7. CASE NotifierNext
  <2>1. UNCHANGED <<platform, adapters, last, events, owner>>
    BY <1>7 DEF NotifierNext, RegisterInterface, RegisterRoute, UndoRegistration, CreateQueue,
                TakeQuit, CancelNotifications, FreeContext, notifierFrame
  <2> QED BY <1>5, <2>1 DEF Running
<1>8. CASE OwnerStarts \/ OwnerStops
  <2>1. UNCHANGED <<platform, adapters, last, events>>
    BY <1>8 DEF OwnerStarts, OwnerStops, OpenNetlink, SpawnNotifier, TakeAnswer, SpawnLoop,
                Wake, Join, ownerFrame
  <2>2. Running' = Running
    BY <1>8 DEF OwnerStarts, OwnerStops, OpenNetlink, SpawnNotifier, TakeAnswer, SpawnLoop,
                Wake, Join, Running
  <2> QED BY <1>5, <2>1, <2>2
<1>9. CASE LoopTop \/ NetlinkPolled \/ Drain \/ ChannelReceived \/ WaitEnds
  <2>1. UNCHANGED <<platform, adapters, last, events, owner>>
    BY <1>9 DEF LoopTop, NetlinkPolled, Drain, ChannelReceived, WaitEnds, loopFrame
  <2> QED BY <1>5, <2>1 DEF Running
<1> QED BY <1>1, <1>2, <1>3, <1>4, <1>6, <1>7, <1>8, <1>9 DEF Next, LoopNext

\* What the monitor last saw changes exactly when it raises an event, with the
\* threads, queues, windows and lost notifications below it (run_loop,
\* ChangeFilter).
THEOREM MonitorImplementsDetector == Spec => ReportsChanges
BY DetectorStarts, DetectorSteps, MInvHolds, PTL DEF Spec, D!Spec, ReportsChanges
=============================================================================
