---------------------------- MODULE SessionProofs ----------------------------
(***************************************************************************)
(* Proofs about an interactive session: one interceptor over any sequence  *)
(* of reloads and failures, target swaps that do not race, a TTL that fits *)
(* its target, and a failed reload that brings back what was in service.   *)
(***************************************************************************)
EXTENDS Session, FiniteSetTheorems, SequenceTheorems, WellFoundedInduction, TLAPS

USE SessionAssumption

(***************************************************************************)
(* Lists of targets.                                                       *)
(***************************************************************************)
Entry == [id : Targets, ttl : Ttls]

LEMMA Lists ==
  ASSUME NEW p \in TargetLists
  PROVE  /\ p \in Seq(Entry) /\ Len(p) \in 0..ListSize /\ DOMAIN p = 1..Len(p)
         /\ \A i \in 1..Len(p) : p[i] \in Entry
         /\ p # <<>> => Len(p) >= 1
<1>1. PICK n \in 0..ListSize : p \in [1..n -> Entry]
  BY DEF TargetLists, Entry
<1>2. n \in Nat
  BY <1>1
<1>3. p \in Seq(Entry) /\ Len(p) = n
  BY <1>1, <1>2, IsASeq, LenProperties
<1> QED BY <1>1, <1>2, <1>3

LEMMA ListOf ==
  ASSUME NEW n \in 0..ListSize, NEW p \in [1..n -> Entry]
  PROVE  p \in TargetLists /\ Len(p) = n
<1>1. p \in TargetLists
  BY DEF TargetLists, Entry
<1>2. n \in Nat
  OBVIOUS
<1>3. Len(p) = n
  BY <1>2, IsASeq, LenProperties
<1> QED BY <1>1, <1>3

LEMMA MemberTyped ==
  ASSUME NEW t \in Targets
  PROVE  Member(t) \in Entry /\ Member(t).id = t /\ Member(t).ttl = "none"
BY DEF Member, Entry, Ttls

LEMMA OneList ==
  ASSUME NEW e \in Entry
  PROVE  /\ <<e>> \in TargetLists /\ Len(<<e>>) = 1 /\ <<e>>[1] = e /\ <<e>> # <<>>
         /\ DOMAIN <<e>> = {1} /\ Ids(<<e>>) = <<e.id>>
<1>1. <<e>> \in [1..1 -> Entry] /\ 1 \in 0..ListSize
  OBVIOUS
<1>2. <<e>> \in TargetLists
  BY <1>1, ListOf
<1>3. Len(<<e>>) = 1 /\ <<e>>[1] = e /\ DOMAIN <<e>> = {1}
  OBVIOUS
<1>4. Ids(<<e>>) = <<e.id>>
  BY <1>3 DEF Ids
<1> QED BY <1>2, <1>3, <1>4

LEMMA NoList == <<>> \in TargetLists /\ DOMAIN <<>> = {}
<1>1. <<>> \in [1..0 -> Entry]
  OBVIOUS
<1>2. 0 \in 0..ListSize
  OBVIOUS
<1>3. <<>> \in TargetLists
  BY <1>1, <1>2, ListOf
<1>4. DOMAIN <<>> = {}
  OBVIOUS
<1> QED BY <1>3, <1>4

\* The best targets of a ranking.
LEMMA CandidatesAre ==
  ASSUME NEW r, r.list \in Seq(Targets), r.good \in 0..Len(r.list)
  PROVE  Candidates(r) \in TargetLists /\ \A i \in DOMAIN Candidates(r) : Candidates(r)[i].ttl = "none"
<1> DEFINE n == IF r.good < ListSize THEN r.good ELSE ListSize
           p == [i \in 1..n |-> Member(r.list[i])]
<1>1. Candidates(r) = p
  BY DEF Candidates
<1>2. n \in 0..ListSize /\ n <= Len(r.list) /\ Len(r.list) \in Nat
  OBVIOUS
<1>3. \A i \in 1..n : r.list[i] \in Targets
  BY <1>2
<1>4. p \in [1..n -> Entry] /\ \A i \in 1..n : p[i].ttl = "none"
  BY <1>3, MemberTyped
<1>5. DOMAIN p = 1..n
  OBVIOUS
<1> HIDE DEF n, p
<1> QED BY <1>1, <1>2, <1>4, <1>5, ListOf

LEMMA Interval ==
  ASSUME NEW n \in Nat
  PROVE  IsFiniteSet(1..n) /\ Cardinality(1..n) = n
<1>1. IsFiniteSet(1..n)
  BY FS_Interval
<1>2. Cardinality(1..n) = IF 1 > n THEN 0 ELSE n - 1 + 1
  BY FS_Interval
<1> QED BY <1>1, <1>2

(***************************************************************************)
(* The positions of a finite set of numbers have an order.                 *)
(***************************************************************************)
LEMMA LeastNat ==
  ASSUME NEW T \in SUBSET Nat, T # {}
  PROVE  \E m \in T : \A n \in T : m <= n
<1> DEFINE R == OpToRel(<, Nat)
<1>1. IsWellFoundedOn(R, Nat)
  BY NatLessThanWellFounded
<1>2. PICK x \in T : \A y \in T : ~(<<y, x>> \in R)
  <2> HIDE DEF R
  <2> QED BY <1>1, WFMin
<1>3. \A y \in T : ~(y < x)
  BY <1>2 DEF OpToRel
<1> QED BY <1>3

Increasing(P, f) == /\ f \in [1..Cardinality(P) -> P]
                    /\ \A i, j \in 1..Cardinality(P) : i < j => f[i] < f[j]

\* By the least size for which it fails.
LEMMA OrderExists ==
  ASSUME NEW P \in SUBSET Nat, IsFiniteSet(P)
  PROVE  \E f : Increasing(P, f)
<1> DEFINE Bad == {n \in Nat : \E Q \in SUBSET Nat : /\ IsFiniteSet(Q) /\ Cardinality(Q) = n
                                                    /\ ~\E f : Increasing(Q, f)}
<1>1. Bad = {}
  <2> SUFFICES ASSUME Bad # {} PROVE FALSE
    OBVIOUS
  <2>1. PICK n \in Bad : \A m \in Bad : n <= m
    <3>1. Bad \in SUBSET Nat
      OBVIOUS
    <3> HIDE DEF Bad
    <3> QED BY <3>1, LeastNat
  <2>2. PICK Q \in SUBSET Nat : IsFiniteSet(Q) /\ Cardinality(Q) = n /\ ~\E f : Increasing(Q, f)
    BY <2>1
  <2>3. n \in Nat
    BY <2>1
  <2>4. CASE Q = {}
    <3>1. Cardinality(Q) = 0
      BY <2>4, FS_EmptySet
    <3>2. Increasing(Q, [i \in 1..0 |-> 0])
      BY <3>1 DEF Increasing
    <3> QED BY <2>2, <3>2
  <2>5. CASE Q # {}
    <3>1. PICK m \in Q : \A k \in Q : m <= k
      BY <2>5, LeastNat
    <3> DEFINE S == Q \ {m}
    <3>2. IsFiniteSet(S) /\ Cardinality(S) = n - 1 /\ S \in SUBSET Nat
      BY <2>2, <3>1, FS_RemoveElement
    <3>3. Cardinality(S) \in Nat
      BY <3>2, FS_CardinalityType
    <3>4. n - 1 \in Nat /\ ~(n - 1 \in Bad)
      BY <2>1, <2>3, <3>2, <3>3
    <3>5. PICK g : Increasing(S, g)
      BY <3>2, <3>4
    <3> DEFINE f == [i \in 1..n |-> IF i = 1 THEN m ELSE g[i - 1]]
    <3>6. /\ g \in [1..n - 1 -> S]
          /\ \A i, j \in 1..n - 1 : i < j => g[i] < g[j]
      BY <3>2, <3>5 DEF Increasing
    <3>7. \A s \in S : m < s /\ s \in Q /\ s \in Nat
      BY <3>1
    <3> HIDE DEF S
    <3>8. \A i \in 1..n : i # 1 => i - 1 \in 1..n - 1 /\ g[i - 1] \in S
      BY <2>3, <3>6
    <3>9. f \in [1..n -> Q]
      BY <3>1, <3>7, <3>8
    <3>10. ASSUME NEW i \in 1..n, NEW j \in 1..n, i < j PROVE f[i] < f[j]
      <4>1. j # 1 /\ f[j] = g[j - 1] /\ g[j - 1] \in S
        BY <2>3, <3>8, <3>10
      <4>2. CASE i = 1
        BY <3>7, <4>1, <4>2
      <4>3. CASE i # 1
        <5>1. f[i] = g[i - 1] /\ i - 1 \in 1..n - 1 /\ j - 1 \in 1..n - 1 /\ i - 1 < j - 1
          BY <2>3, <3>8, <3>10, <4>1, <4>3
        <5> QED BY <3>6, <4>1, <5>1
      <4> QED BY <4>2, <4>3
    <3> HIDE DEF f
    <3>11. Increasing(Q, f)
      BY <2>2, <3>9, <3>10 DEF Increasing
    <3> QED BY <2>2, <3>11
  <2> QED BY <2>4, <2>5
<1>2. Cardinality(P) \in Nat
  BY FS_CardinalityType
<1> QED BY <1>1, <1>2

LEMMA InOrderIs ==
  ASSUME NEW P \in SUBSET Nat, IsFiniteSet(P)
  PROVE  InOrder(P) \in [1..Cardinality(P) -> P]
<1>1. PICK f : Increasing(P, f)
  BY OrderExists
<1> QED BY <1>1 DEF Increasing, InOrder

\* discover_pool_ttls: never more targets than it was given, each with a TTL that was
\* found for it, the one it had, or the fallback; with a fallback nobody is dropped.
LEMMA AdmittedAre ==
  ASSUME NEW c \in TargetLists, NEW q \in TargetLists, NEW fallback \in {"none", "config"}, NEW found
  PROVE  LET p == Admitted(c, q, fallback, found) IN
         /\ p \in TargetLists
         /\ \A i \in DOMAIN p :
              \/ p[i].ttl = p[i].id
              \/ \E j \in DOMAIN q : q[j].id = p[i].id /\ q[j].ttl = p[i].ttl
              \/ fallback = "config" /\ p[i].ttl = "config"
         /\ fallback = "config" => Len(p) = Len(c)
         /\ fallback = "config" /\ Len(c) = 1 => Ids(p) = Ids(c)
<1> DEFINE Had(t) == {i \in DOMAIN q : q[i].id = t}
           Ttl(t) == IF t \in found THEN t
                     ELSE IF Had(t) # {} THEN q[CHOOSE i \in Had(t) : TRUE].ttl
                     ELSE fallback
           kept == {i \in DOMAIN c : c[i].id \in found \/ Had(c[i].id) # {} \/ fallback # "none"}
           n == Cardinality(kept)
           At1(i) == c[InOrder(kept)[i]].id
           p == [i \in 1..n |-> [id |-> At1(i), ttl |-> Ttl(At1(i))]]
<1>1. Admitted(c, q, fallback, found) = p
  BY DEF Admitted
<1>2. /\ DOMAIN c = 1..Len(c) /\ Len(c) \in 0..ListSize /\ \A i \in DOMAIN c : c[i] \in Entry
      /\ \A i \in DOMAIN q : q[i] \in Entry
  BY Lists
<1>3. /\ kept \in SUBSET Nat /\ IsFiniteSet(kept) /\ n \in 0..ListSize
      /\ fallback = "config" => kept = DOMAIN c /\ n = Len(c)
  <2>1. Len(c) \in Nat /\ kept \in SUBSET (1..Len(c))
    BY <1>2
  <2>2. IsFiniteSet(1..Len(c)) /\ Cardinality(1..Len(c)) = Len(c)
    BY <2>1, Interval
  <2>3. IsFiniteSet(kept) /\ n <= Len(c) /\ n \in Nat
    BY <2>1, <2>2, FS_Subset, FS_CardinalityType
  <2>4. fallback = "config" => kept = DOMAIN c
    OBVIOUS
  <2>5. fallback = "config" => n = Len(c)
    BY <1>2, <2>2, <2>4
  <2>6. kept \in SUBSET Nat
    BY <2>1
  <2> HIDE DEF kept, n
  <2>7. n \in 0..ListSize
    BY <1>2, <2>3
  <2> QED BY <2>3, <2>4, <2>5, <2>6, <2>7, Zenon
<1>4. InOrder(kept) \in [1..n -> kept]
  BY <1>3, InOrderIs
<1>5. ASSUME NEW t \in Targets, t \in found \/ Had(t) # {} \/ fallback # "none"
      PROVE  /\ Ttl(t) \in Ttls
             /\ \/ Ttl(t) = t
                \/ \E j \in DOMAIN q : q[j].id = t /\ q[j].ttl = Ttl(t)
                \/ fallback = "config" /\ Ttl(t) = "config"
  <2>1. CASE t \in found
    BY <2>1 DEF Ttls
  <2>2. CASE t \notin found /\ Had(t) # {}
    <3>1. (CHOOSE i \in Had(t) : TRUE) \in Had(t)
      BY <2>2
    <3> DEFINE j == CHOOSE i \in Had(t) : TRUE
    <3>2. j \in DOMAIN q /\ q[j].id = t /\ Ttl(t) = q[j].ttl
      BY <2>2, <3>1
    <3> HIDE DEF j
    <3>3. q[j].ttl \in Ttls
      BY <1>2, <3>2 DEF Entry
    <3> QED BY <3>2, <3>3
  <2>3. CASE t \notin found /\ Had(t) = {}
    BY <1>5, <2>3 DEF Ttls
  <2> QED BY <2>1, <2>2, <2>3
<1>6. ASSUME NEW i \in 1..n
      PROVE  /\ At1(i) \in Targets
             /\ At1(i) \in found \/ Had(At1(i)) # {} \/ fallback # "none"
  <2>1. InOrder(kept)[i] \in kept
    BY <1>4
  <2> DEFINE k == InOrder(kept)[i]
  <2>2. k \in DOMAIN c /\ (c[k].id \in found \/ Had(c[k].id) # {} \/ fallback # "none")
    BY <2>1
  <2> HIDE DEF k, Had
  <2>3. c[k].id \in Targets
    BY <1>2, <2>2 DEF Entry
  <2> QED BY <2>2, <2>3 DEF k
<1> HIDE DEF Ttl, Had, n, kept
<1>7. p \in [1..n -> Entry]
  <2>1. \A i \in 1..n : At1(i) \in Targets /\ Ttl(At1(i)) \in Ttls
    BY <1>5, <1>6
  <2> HIDE DEF At1
  <2> QED BY <2>1 DEF Entry
<1>8. p \in TargetLists /\ Len(p) = n
  BY <1>3, <1>7, ListOf
<1>9. \A i \in DOMAIN p :
        \/ p[i].ttl = p[i].id
        \/ \E j \in DOMAIN q : q[j].id = p[i].id /\ q[j].ttl = p[i].ttl
        \/ fallback = "config" /\ p[i].ttl = "config"
  <2>1. \A i \in 1..n : /\ At1(i) \in Targets
                        /\ At1(i) \in found \/ Had(At1(i)) # {} \/ fallback # "none"
    BY <1>6
  <2> HIDE DEF At1
  <2> QED BY <1>5, <2>1
<1>10. fallback = "config" /\ Len(c) = 1 => Ids(p) = Ids(c)
  <2> SUFFICES ASSUME fallback = "config", Len(c) = 1 PROVE Ids(p) = Ids(c)
    OBVIOUS
  <2>1. n = 1 /\ kept = {1} /\ DOMAIN c = {1}
    BY <1>2, <1>3
  <2>2. InOrder(kept)[1] = 1
    BY <1>4, <2>1
  <2>3. p[1].id = c[1].id /\ DOMAIN p = {1}
    BY <2>1, <2>2
  <2> HIDE DEF p
  <2> QED BY <2>1, <2>3 DEF Ids
<1> HIDE DEF p
<1> QED BY <1>1, <1>3, <1>8, <1>9, <1>10

HIDE SessionAssumption

LEMMA ConfigTyped ==
  ASSUME NEW c \in Configs
  PROVE  /\ c.mode \in {"sni", "ip", "plus"} /\ c.plane \in {"none", "local", "remote"}
         /\ c.balanced \in BOOLEAN /\ c.pinned \in BOOLEAN /\ c.auto \in BOOLEAN
         /\ c.periodic \in BOOLEAN /\ c.discover \in BOOLEAN /\ c # NoConfig
BY SessionAssumption

LEMMA NamesApart == "none" \notin Targets /\ "config" \notin Targets /\ Targets # {}
BY SessionAssumption

LEMMA PinnedTyped == Pinned \in Targets
BY NamesApart DEF Pinned

(***************************************************************************)
(* The inductive invariant.                                                *)
(***************************************************************************)
\* LOW_TTL_DISCOVER acts in SNI mode only.
Hunts(c) == c.mode = "sni" /\ c.discover

Record == [pc : {"idle", "lock", "scan", "pool", "ask", "picked", "probe", "switch"},
           manual : BOOLEAN, seen : Nat, list : Seq(Targets), good : Nat,
           pick : Targets \cup {"none"}, from : Targets \cup {"none"}]
Events == {<<"started">>, <<"finished">>} \cup {<<"ttl", t>> : t \in Targets}
StepNames == {"pool", "plane", "ttl", "worker", "monitor", "listen"}

\* What is left of the start-up is an end of the steps of the mode.
TodoOK ==
  phase = "start" =>
    /\ todo \in Seq(StepNames)
    /\ Len(todo) \in 1..Len(Steps(cfg.mode))
    /\ \A i \in 1..Len(todo) : todo[i] = Steps(cfg.mode)[Len(Steps(cfg.mode)) - Len(todo) + i]

ScanOK == scan \in [Scanners -> Record] /\ \A a \in Scanners : scan[a].good <= Len(scan[a].list)
BoardOK == inbox \in Seq(Events) /\ board \in [running : BOOLEAN, ttl : {"none"} \cup Targets]

TypeInv ==
  /\ SessionTypeOK /\ TodoOK /\ ScanOK /\ BoardOK
  /\ restoring \in BOOLEAN /\ lastGood \in [config : Configs \cup {NoConfig}, targets : TargetLists]

\* How far the generation is: it has its targets; their TTLs are settled; no scan
\* can be under way.
HasPool == phase = "dash" \/ (phase = "ended" /\ ready)
           \/ (phase = "start" /\ Len(todo) < Len(Steps(cfg.mode)))
HasTtl == HasPool /\ (phase = "start" /\ cfg.mode = "sni" => Len(todo) <= 3)
Quiet == phase \notin {"start", "dash", "ended"}
         \/ (phase = "start" /\ Len(todo) >= IF cfg.mode = "plus" THEN 4 ELSE 3)

\* The interceptor: a plane is closed before the next one is due.
TapInv ==
  /\ taps = 1 => plane # "none"
  /\ phase = "start" /\ Len(todo) >= (IF cfg.mode = "plus" THEN 3 ELSE 5) => plane = "none"
  /\ phase \in {"decide", "stopped"} => plane = "none"
  /\ phase = "exit" /\ result = "ok" => plane = "none"

\* The scans: one at a time from the lock to the end.
Holding == {"scan", "pool", "ask", "picked", "probe", "switch"}
ScanFine(a) ==
  /\ Quiet => scan[a].pc = "idle"
  /\ scan[a].pc # "idle" => ~(cfg.balanced /\ cfg.pinned)
  /\ scan[a].pc = "pool" => cfg.balanced
  /\ scan[a].pc \in {"ask", "picked", "probe", "switch"} => ~cfg.balanced
  /\ scan[a].pc \in {"probe", "switch"} =>
       scan[a].pick \in Targets /\ scan[a].from = Representative.id
  /\ scan[a].pc = "probe" => Hunts(cfg)
  /\ scan[a].pc = "switch" /\ Hunts(cfg) => handle = scan[a].pick
OneHolder == \A a \in Scanners : lock = a <=> scan[a].pc \in Holding
LockInv ==
  /\ OneHolder
  /\ \A a \in Scanners : ScanFine(a)
  /\ Quiet => ~worker
  /\ phase = "start" /\ Len(todo) >= 2 => ~watched
  /\ phase \in {"decide", "stopped"} => ~watched
  /\ RecoveryScansNewNetwork

\* The shape of the targets of configuration c, and the TTLs they may have.
Shape(c, p) ==
  /\ p # <<>>
  /\ c.balanced /\ c.pinned => Ids(p) = <<Pinned>>
  /\ ~c.balanced => Len(p) = 1
OwnTtls(c, p) ==
  /\ ~Hunts(c) => \A i \in DOMAIN p : p[i].ttl = "none"
  /\ Hunts(c) /\ c.balanced => \A i \in DOMAIN p : p[i].ttl \in {"config", p[i].id}

PoolInv ==
  /\ HasPool => Shape(cfg, pool)
  /\ HasTtl => OwnTtls(cfg, pool)
  /\ HasPool /\ ~HasTtl => /\ handle = "config"
                           /\ ~restoring => \A i \in DOMAIN pool : pool[i].ttl = "none"
  /\ phase = "start" /\ ~HasPool => handle = "config"
  /\ HasPool /\ ~Hunts(cfg) => handle = "config"

\* The last TTL the dashboard was told, or will be.
NewsIn(q) == {i \in 1..Len(q) : q[i][1] = "ttl"}
LastIn(q, shown, v) ==
  \/ NewsIn(q) = {} /\ shown = v
  \/ \E i \in NewsIn(q) : q[i][2] = v /\ \A j \in NewsIn(q) : j <= i
LastTold(v) == LastIn(inbox, board.ttl, v)

\* One target whose TTL is searched for: the interceptor stamps what the dashboard
\* was told last, and it fits the target.
Clean == restoring => ended.seen
Switching == \E a \in Scanners : scan[a].pc = "switch"
Sole == HasTtl /\ Hunts(cfg) /\ ~cfg.balanced /\ ~Switching
SoleInv ==
  /\ (phase # "ended" /\ ~HasTtl) \/ ~Hunts(cfg) \/ cfg.balanced =>
       NewsIn(inbox) = {} /\ board.ttl = "none"
  /\ phase \in {"start", "close", "cleanup", "decide", "stopped"} => board.ttl = "none"
  /\ phase \in {"close", "cleanup", "decide", "stopped"} => handle = "config"
  /\ Sole =>
       /\ \A v \in Targets : LastTold(v) => handle = v /\ pool[1].ttl = "none"
       /\ LastTold("none") /\ pool[1].ttl = "none" => handle = "config"
       /\ Clean => TtlOf(1) \in {"config", pool[1].id}

\* The reload that is on its way.
PendingInv ==
  /\ phase \in {"start", "dash"} => pending = NoConfig /\ result = "none"
  /\ phase \notin {"start", "dash"} => result # "none"
  /\ phase = "start" => ~ready
  /\ phase = "dash" => ready
  /\ phase = "stopped" => ~ready
  /\ phase # "ended" => discovered = "none"
  /\ phase = "ended" /\ discovered # "none" => pending # NoConfig
  /\ pending # NoConfig /\ phase \in {"ended", "close", "cleanup", "decide"} => result = "ok"
  /\ pending # NoConfig /\ phase = "ended" => ready /\ lock = "free" /\ discovered = board.ttl

\* What is kept of the last good generation is what it was serving.
Kept(b, e) ==
  /\ b.config \in Configs /\ b.config = e.config /\ Ids(b.targets) = e.ids
  /\ Shape(b.config, b.targets) /\ OwnTtls(b.config, b.targets)
  /\ e.seen => /\ b.config.mode = "sni" =>
                    e.ttl = IF b.targets[1].ttl # "none" THEN b.targets[1].ttl ELSE "config"
               /\ b.targets[1].ttl \in {"none", "config", b.targets[1].id}
Closing == phase \in {"close", "cleanup", "decide"} /\ ready /\ pending = NoConfig
BackupInv ==
  /\ phase \notin {"final", "exit"} /\ ~Closing /\ lastGood # NoBackup => Kept(lastGood, ended)
  /\ restoring /\ phase \in {"start", "dash"} => lastGood # NoBackup /\ cfg = lastGood.config
  /\ restoring /\ phase = "start" /\ ~HasPool => restore = lastGood.targets
  /\ restoring /\ phase = "start" /\ HasPool /\ Quiet =>
       pool = lastGood.targets /\ (pool[1].ttl = "none" => handle = "config")
  /\ ~restoring /\ phase = "start" => restore = NoTargets

SInv == TypeInv /\ TapInv /\ LockInv /\ PoolInv /\ SoleInv /\ PendingInv /\ BackupInv

(***************************************************************************)
(* The start-up, step by step.                                             *)
(***************************************************************************)
LEMMA StepsAre ==
  /\ Len(Steps("sni")) = 6 /\ Len(Steps("ip")) = 4 /\ Len(Steps("plus")) = 5
  /\ \A m \in {"sni", "ip", "plus"} : Steps(m) \in Seq(StepNames)
<1>1. Steps("sni") = SniSteps /\ Steps("ip") = IpSteps /\ Steps("plus") = PlusSteps
  BY DEF Steps
<1>2. Len(SniSteps) = 6 /\ Len(IpSteps) = 4 /\ Len(PlusSteps) = 5
  BY DEF SniSteps, IpSteps, PlusSteps
<1>3. SniSteps \in Seq(StepNames)
  BY DEF SniSteps, StepNames
<1>4. IpSteps \in Seq(StepNames)
  BY DEF IpSteps, StepNames
<1>5. PlusSteps \in Seq(StepNames)
  BY DEF PlusSteps, StepNames
<1> QED BY <1>1, <1>2, <1>3, <1>4, <1>5

\* The step that is next is told by the number of steps that are left.
LEMMA AtLen ==
  ASSUME TodoOK, cfg \in Configs, phase = "start"
  PROVE  /\ Len(todo) \in Nat /\ todo # <<>> /\ Len(todo) >= 1 /\ Len(todo) <= Len(Steps(cfg.mode))
         /\ At("pool") <=> Len(todo) = Len(Steps(cfg.mode))
         /\ At("plane") <=> \/ cfg.mode = "sni" /\ Len(todo) = 5
                            \/ cfg.mode = "plus" /\ Len(todo) = 3
         /\ At("ttl") <=> cfg.mode = "sni" /\ Len(todo) = 4
         /\ At("worker") <=> Len(todo) = (IF cfg.mode = "plus" THEN 4 ELSE 3)
         /\ At("monitor") <=> Len(todo) = 2
         /\ At("listen") <=> Len(todo) = 1
<1>1. /\ todo \in Seq(StepNames) /\ Len(todo) \in 1..Len(Steps(cfg.mode))
      /\ todo[1] = Steps(cfg.mode)[Len(Steps(cfg.mode)) - Len(todo) + 1]
  BY StepsAre, ConfigTyped DEF TodoOK
<1>2. Head(todo) = todo[1] /\ todo # <<>>
  BY <1>1
<1> DEFINE H == Head(todo)
           n == Len(todo)
<1>6. \A s \in StepNames : At(s) <=> H = s
  BY <1>2 DEF At
<1> HIDE DEF H
<1>3. CASE cfg.mode = "sni"
  <2>1. H = SniSteps[6 - n + 1] /\ n \in 1..6
    BY <1>1, <1>2, <1>3, StepsAre DEF Steps, H
  <2>2. /\ SniSteps[1] = "pool"
        /\ SniSteps[2] = "plane"
        /\ SniSteps[3] = "ttl"
        /\ SniSteps[4] = "worker"
        /\ SniSteps[5] = "monitor"
        /\ SniSteps[6] = "listen"
    BY DEF SniSteps
  <2> HIDE DEF n
  <2>3. /\ n = 6 => H = "pool"
        /\ n = 5 => H = "plane"
        /\ n = 4 => H = "ttl"
        /\ n = 3 => H = "worker"
        /\ n = 2 => H = "monitor"
        /\ n = 1 => H = "listen"
    BY <2>1, <2>2
  <2>4. n \in {1, 2, 3, 4, 5, 6} /\ Len(Steps(cfg.mode)) = 6
    BY <1>3, <2>1, StepsAre
  <2>5. /\ H = "pool" <=> n = 6
        /\ H = "plane" <=> n = 5
        /\ H = "ttl" <=> n = 4
        /\ H = "worker" <=> n = 3
        /\ H = "monitor" <=> n = 2
        /\ H = "listen" <=> n = 1
    BY <2>3, <2>4
  <2>6. \A s \in StepNames : At(s) <=> H = s
    BY <1>6
  <2>7. /\ At("pool") <=> n = 6
        /\ At("plane") <=> n = 5
        /\ At("ttl") <=> n = 4
        /\ At("worker") <=> n = 3
        /\ At("monitor") <=> n = 2
        /\ At("listen") <=> n = 1
    BY <2>5, <2>6, Zenon DEF StepNames
  <2>8. n >= 1 /\ n <= 6 /\ n \in Nat
    BY <2>4
  <2> QED BY <1>2, <1>3, <2>4, <2>7, <2>8 DEF n
<1>4. CASE cfg.mode = "ip"
  <2>1. H = IpSteps[4 - n + 1] /\ n \in 1..4
    BY <1>1, <1>2, <1>4, StepsAre DEF Steps, H
  <2>2. /\ IpSteps[1] = "pool"
        /\ IpSteps[2] = "worker"
        /\ IpSteps[3] = "monitor"
        /\ IpSteps[4] = "listen"
    BY DEF IpSteps
  <2> HIDE DEF n
  <2>3. /\ n = 4 => H = "pool"
        /\ n = 3 => H = "worker"
        /\ n = 2 => H = "monitor"
        /\ n = 1 => H = "listen"
    BY <2>1, <2>2
  <2>4. n \in {1, 2, 3, 4} /\ Len(Steps(cfg.mode)) = 4
    BY <1>4, <2>1, StepsAre
  <2>5. /\ H = "pool" <=> n = 4
        /\ H = "plane" <=> FALSE
        /\ H = "ttl" <=> FALSE
        /\ H = "worker" <=> n = 3
        /\ H = "monitor" <=> n = 2
        /\ H = "listen" <=> n = 1
    BY <2>3, <2>4
  <2>6. \A s \in StepNames : At(s) <=> H = s
    BY <1>6
  <2>7. /\ At("pool") <=> n = 4
        /\ At("plane") <=> FALSE
        /\ At("ttl") <=> FALSE
        /\ At("worker") <=> n = 3
        /\ At("monitor") <=> n = 2
        /\ At("listen") <=> n = 1
    BY <2>5, <2>6, Zenon DEF StepNames
  <2>8. n >= 1 /\ n <= 4 /\ n \in Nat
    BY <2>4
  <2> QED BY <1>2, <1>4, <2>4, <2>7, <2>8 DEF n
<1>5. CASE cfg.mode = "plus"
  <2>1. H = PlusSteps[5 - n + 1] /\ n \in 1..5
    BY <1>1, <1>2, <1>5, StepsAre DEF Steps, H
  <2>2. /\ PlusSteps[1] = "pool"
        /\ PlusSteps[2] = "worker"
        /\ PlusSteps[3] = "plane"
        /\ PlusSteps[4] = "monitor"
        /\ PlusSteps[5] = "listen"
    BY DEF PlusSteps
  <2> HIDE DEF n
  <2>3. /\ n = 5 => H = "pool"
        /\ n = 4 => H = "worker"
        /\ n = 3 => H = "plane"
        /\ n = 2 => H = "monitor"
        /\ n = 1 => H = "listen"
    BY <2>1, <2>2
  <2>4. n \in {1, 2, 3, 4, 5} /\ Len(Steps(cfg.mode)) = 5
    BY <1>5, <2>1, StepsAre
  <2>5. /\ H = "pool" <=> n = 5
        /\ H = "plane" <=> n = 3
        /\ H = "ttl" <=> FALSE
        /\ H = "worker" <=> n = 4
        /\ H = "monitor" <=> n = 2
        /\ H = "listen" <=> n = 1
    BY <2>3, <2>4
  <2>6. \A s \in StepNames : At(s) <=> H = s
    BY <1>6
  <2>7. /\ At("pool") <=> n = 5
        /\ At("plane") <=> n = 3
        /\ At("ttl") <=> FALSE
        /\ At("worker") <=> n = 4
        /\ At("monitor") <=> n = 2
        /\ At("listen") <=> n = 1
    BY <2>5, <2>6, Zenon DEF StepNames
  <2>8. n >= 1 /\ n <= 5 /\ n \in Nat
    BY <2>4
  <2> QED BY <1>2, <1>5, <2>4, <2>7, <2>8 DEF n
<1> QED BY <1>3, <1>4, <1>5, ConfigTyped

LEMMA AdvanceOK ==
  ASSUME TodoOK, cfg \in Configs, phase = "start", ~At("listen"),
         todo' = Tail(todo), UNCHANGED <<phase, cfg>>
  PROVE  TodoOK' /\ Len(todo') = Len(todo) - 1 /\ Len(todo) >= 2
<1>1. /\ todo \in Seq(StepNames) /\ Len(todo) \in 1..Len(Steps(cfg.mode)) /\ todo # <<>>
      /\ \A i \in 1..Len(todo) : todo[i] = Steps(cfg.mode)[Len(Steps(cfg.mode)) - Len(todo) + i]
      /\ Len(Steps(cfg.mode)) \in Nat
  BY AtLen, StepsAre, ConfigTyped DEF TodoOK
<1>2. Len(todo) >= 2
  <2>1. Len(todo) \in Nat /\ Len(todo) >= 1 /\ Len(todo) # 1
    BY AtLen
  <2> DEFINE n == Len(todo)
  <2>2. n \in Nat /\ n >= 1 /\ n # 1
    BY <2>1
  <2> HIDE DEF n
  <2>3. n >= 2
    BY <2>2
  <2> QED BY <2>3 DEF n
<1>3. /\ Tail(todo) \in Seq(StepNames) /\ Len(Tail(todo)) = Len(todo) - 1
      /\ \A i \in 1..Len(Tail(todo)) : Tail(todo)[i] = todo[i + 1]
  BY <1>1, HeadTailProperties
<1>4. \A i \in 1..Len(todo') : todo'[i] = Steps(cfg.mode)[Len(Steps(cfg.mode)) - Len(todo') + i]
  <2> SUFFICES ASSUME NEW i \in 1..Len(todo')
               PROVE  todo'[i] = Steps(cfg.mode)[Len(Steps(cfg.mode)) - Len(todo') + i]
    OBVIOUS
  <2>1. todo'[i] = todo[i + 1] /\ i + 1 \in 1..Len(todo)
    BY <1>1, <1>3
  <2>2. Len(Steps(cfg.mode)) - Len(todo) + (i + 1) = Len(Steps(cfg.mode)) - Len(todo') + i
    BY <1>1, <1>3
  <2> QED BY <1>1, <2>1, <2>2
<1>5. TodoOK'
  BY <1>1, <1>2, <1>3, <1>4 DEF TodoOK
<1> QED BY <1>2, <1>3, <1>5

(***************************************************************************)
(* How a step moves the generation on.                                     *)
(***************************************************************************)
LEMMA StageStill ==
  ASSUME UNCHANGED <<cfg, todo, phase, ready>>
  PROVE  /\ TodoOK => TodoOK'
         /\ HasPool' = HasPool /\ HasTtl' = HasTtl /\ Quiet' = Quiet
BY DEF TodoOK, HasPool, HasTtl, Quiet

\* What is known of a generation that starts.
LEMMA StageStart ==
  ASSUME TodoOK, cfg \in Configs, phase = "start"
  PROVE  /\ HasPool <=> ~At("pool")
         /\ HasTtl <=> /\ ~At("pool")
                       /\ ~(cfg.mode = "sni" /\ At("plane")) /\ ~At("ttl")
         /\ Quiet <=> \/ At("pool") \/ At("ttl") \/ At("worker")
                      \/ cfg.mode = "sni" /\ At("plane")
         /\ At("ttl") => cfg.mode = "sni"
         /\ At("plane") => cfg.mode \in {"sni", "plus"}
         /\ At("listen") => ~Quiet
         /\ Len(todo) >= 2 <=> ~At("listen")
         /\ At("plane") <=> /\ Len(todo) >= (IF cfg.mode = "plus" THEN 3 ELSE 5)
                            /\ ~At("pool") /\ ~At("worker")
         /\ At("pool") => Len(todo) >= (IF cfg.mode = "plus" THEN 3 ELSE 5) \/ cfg.mode = "ip"
         /\ \A s, t \in StepNames : At(s) /\ At(t) => s = t
         /\ \E s \in StepNames : At(s)
<1> DEFINE n == Len(todo)
           m == Len(Steps(cfg.mode))
<1>1. /\ n \in Nat /\ n >= 1 /\ n <= m
      /\ At("pool") <=> n = m
      /\ At("plane") <=> \/ cfg.mode = "sni" /\ n = 5
                         \/ cfg.mode = "plus" /\ n = 3
      /\ At("ttl") <=> cfg.mode = "sni" /\ n = 4
      /\ At("worker") <=> n = (IF cfg.mode = "plus" THEN 4 ELSE 3)
      /\ At("monitor") <=> n = 2
      /\ At("listen") <=> n = 1
  BY AtLen
<1>2. \/ cfg.mode = "sni" /\ m = 6
      \/ cfg.mode = "ip" /\ m = 4
      \/ cfg.mode = "plus" /\ m = 5
  BY StepsAre, ConfigTyped
<1>3. /\ HasPool <=> n < m
      /\ HasTtl <=> n < m /\ (cfg.mode = "sni" => n <= 3)
      /\ Quiet <=> n >= IF cfg.mode = "plus" THEN 4 ELSE 3
  BY DEF HasPool, HasTtl, Quiet
<1>4. /\ \A s, t \in StepNames : At(s) /\ At(t) => s = t
      /\ \E s \in StepNames : At(s)
  <2>1. \A s, t : At(s) /\ At(t) => s = t
    BY DEF At
  <2>2. Head(todo) \in StepNames /\ todo # <<>>
    BY AtLen DEF TodoOK
  <2> QED BY <2>1, <2>2 DEF At
<1> HIDE DEF n, m
<1>5. /\ HasPool <=> ~At("pool")
      /\ HasTtl <=> /\ ~At("pool")
                    /\ ~(cfg.mode = "sni" /\ At("plane")) /\ ~At("ttl")
  BY <1>1, <1>2, <1>3
<1>6. Quiet <=> \/ At("pool") \/ At("ttl") \/ At("worker")
                \/ cfg.mode = "sni" /\ At("plane")
  BY <1>1, <1>2, <1>3
<1>7. n >= 2 <=> ~At("listen")
  BY <1>1, <1>2
<1>8. /\ At("plane") <=> /\ n >= (IF cfg.mode = "plus" THEN 3 ELSE 5)
                         /\ ~At("pool") /\ ~At("worker")
      /\ At("pool") => n >= (IF cfg.mode = "plus" THEN 3 ELSE 5) \/ cfg.mode = "ip"
  BY <1>1, <1>2
<1>9. /\ At("ttl") => cfg.mode = "sni"
      /\ At("plane") => cfg.mode \in {"sni", "plus"}
      /\ At("listen") => ~Quiet
  BY <1>1, <1>2, <1>3
<1> QED BY <1>4, <1>5, <1>6, <1>7, <1>8, <1>9 DEF n

LEMMA StageAdvance ==
  ASSUME TodoOK, cfg \in Configs, phase = "start", ~At("listen"), ready = FALSE,
         todo' = Tail(todo), UNCHANGED <<phase, cfg, ready>>
  PROVE  /\ TodoOK' /\ HasPool' /\ cfg' \in Configs /\ phase' = "start"
         /\ HasTtl' <=> HasTtl \/ At("ttl") \/ (At("pool") /\ cfg.mode # "sni")
         /\ Quiet' <=> Quiet /\ ~At("worker")
         /\ Len(todo') = Len(todo) - 1
<1> DEFINE n == Len(todo)
           m == Len(Steps(cfg.mode))
           k == Len(todo')
<1>1. /\ n \in Nat /\ n >= 1 /\ n <= m
      /\ At("pool") <=> n = m
      /\ At("ttl") <=> cfg.mode = "sni" /\ n = 4
      /\ At("worker") <=> n = (IF cfg.mode = "plus" THEN 4 ELSE 3)
  BY AtLen
<1>2. \/ cfg.mode = "sni" /\ m = 6
      \/ cfg.mode = "ip" /\ m = 4
      \/ cfg.mode = "plus" /\ m = 5
  BY StepsAre, ConfigTyped
<1>3. /\ HasTtl <=> n < m /\ (cfg.mode = "sni" => n <= 3)
      /\ Quiet <=> n >= IF cfg.mode = "plus" THEN 4 ELSE 3
  BY DEF HasPool, HasTtl, Quiet
<1>4. /\ HasPool' <=> k < m
      /\ HasTtl' <=> k < m /\ (cfg.mode = "sni" => k <= 3)
      /\ Quiet' <=> k >= IF cfg.mode = "plus" THEN 4 ELSE 3
  BY DEF HasPool, HasTtl, Quiet
<1>5. TodoOK' /\ k = n - 1 /\ n >= 2
  BY AdvanceOK
<1> HIDE DEF n, m, k
<1>6. /\ HasTtl' <=> HasTtl \/ At("ttl") \/ (At("pool") /\ cfg.mode # "sni")
      /\ Quiet' <=> Quiet /\ ~At("worker")
      /\ HasPool'
  BY <1>1, <1>2, <1>3, <1>4, <1>5
<1>7. phase' = "start" /\ cfg' \in Configs
  OBVIOUS
<1> QED BY <1>5, <1>6, <1>7 DEF n, k

LEMMA StageBegin ==
  ASSUME cfg' \in Configs, phase' = "start", todo' = Steps(cfg'.mode), ready' = FALSE
  PROVE  TodoOK' /\ ~HasPool' /\ ~HasTtl' /\ Quiet'
<1> DEFINE S == Steps(cfg'.mode)
<1>1. S \in Seq(StepNames) /\ Len(S) \in {4, 5, 6} /\ (cfg'.mode = "plus" => Len(S) = 5)
  BY ConfigTyped, StepsAre
<1>2. todo' = S
  OBVIOUS
<1>3. Len(S) - Len(S) = 0 /\ Len(S) \in 1..Len(S)
  <2> DEFINE k == Len(S)
  <2>1. k \in {4, 5, 6}
    BY <1>1
  <2> HIDE DEF k
  <2>2. k - k = 0 /\ k \in 1..k
    BY <2>1
  <2> QED BY <2>2 DEF k
<1>4. \A i \in 1..Len(S) : S[i] = S[Len(S) - Len(S) + i]
  BY <1>1, <1>3
<1>5. TodoOK'
  BY <1>1, <1>2, <1>3, <1>4 DEF TodoOK
<1>6. Len(todo') = Len(S)
  BY <1>2
<1> DEFINE n == Len(S)
<1>7. /\ HasPool' <=> n < n
      /\ HasTtl' => HasPool'
      /\ Quiet' <=> n >= IF cfg'.mode = "plus" THEN 4 ELSE 3
  BY <1>6 DEF HasPool, HasTtl, Quiet
<1>8. n \in {4, 5, 6} /\ (cfg'.mode = "plus" => n = 5)
  BY <1>1
<1> HIDE DEF n
<1>9. ~HasPool' /\ ~HasTtl' /\ Quiet'
  BY <1>7, <1>8
<1> QED BY <1>5, <1>9

LEMMA StageOther ==
  /\ phase = "dash" => HasPool /\ HasTtl /\ ~Quiet /\ TodoOK
  /\ phase = "ended" => /\ ~Quiet /\ TodoOK
                        /\ ready => HasPool /\ HasTtl
                        /\ ~ready => ~HasPool /\ ~HasTtl
  /\ phase \notin {"start", "dash", "ended"} => ~HasPool /\ ~HasTtl /\ Quiet /\ TodoOK
BY DEF HasPool, HasTtl, Quiet, TodoOK

LEMMA StageOtherNext ==
  /\ phase' = "dash" => HasPool' /\ HasTtl' /\ ~Quiet' /\ TodoOK'
  /\ phase' = "ended" => /\ ~Quiet' /\ TodoOK'
                         /\ ready' => HasPool' /\ HasTtl'
                         /\ ~ready' => ~HasPool' /\ ~HasTtl'
  /\ phase' \notin {"start", "dash", "ended"} => ~HasPool' /\ ~HasTtl' /\ Quiet' /\ TodoOK'
BY DEF HasPool, HasTtl, Quiet, TodoOK

(***************************************************************************)
(* The steps, by what they leave alone.                                    *)
(***************************************************************************)
\* Inside a generation.
Inner ==
  \/ Drain \/ KeyRescan \/ AnswerSelection \/ WorkerWakes(TRUE) \/ WorkerWakes(FALSE) \/ NetworkMoves
  \/ \E a \in Scanners : ScanStep(a)

LEMMA InnerKeeps ==
  ASSUME Inner
  PROVE  UNCHANGED <<cfg, todo, phase, result, pending, ready, discovered, restore, lastGood,
                     restoring, plane, taps, watched, ended>>
<1>1. CASE Drain BY <1>1 DEF Drain, mainVars, ownVars, boundVars
<1>2. CASE KeyRescan BY <1>2 DEF KeyRescan, mainVars, ownVars
<1>3. CASE AnswerSelection BY <1>3 DEF AnswerSelection, mainVars, ownVars, boundVars
<1>4. ASSUME NEW manual, WorkerWakes(manual)
      PROVE  UNCHANGED <<cfg, todo, phase, result, pending, ready, discovered, restore, lastGood,
                         restoring, plane, taps, watched, ended>>
  BY <1>4 DEF WorkerWakes, mainVars, ownVars
<1>5. CASE NetworkMoves BY <1>5 DEF NetworkMoves, mainVars, ownVars, boundVars
<1>6. ASSUME NEW a \in Scanners, ScanStep(a)
      PROVE  UNCHANGED <<cfg, todo, phase, result, pending, ready, discovered, restore, lastGood,
                         restoring, plane, taps, watched, ended>>
  <2>1. CASE TakeLock(a) BY <2>1 DEF TakeLock, mainVars, ownVars, boundVars
  <2>2. CASE ScanFails(a) BY <2>2 DEF ScanFails, mainVars, ownVars, boundVars
  <2>3. CASE Scanned(a) BY <2>3 DEF Scanned, mainVars, ownVars, boundVars
  <2>4. CASE PoolRefreshed(a) BY <2>4 DEF PoolRefreshed, mainVars, ownVars, boundVars
  <2>5. CASE Compared(a) BY <2>5 DEF Compared, mainVars, ownVars, boundVars
  <2>6. CASE Probed(a) BY <2>6 DEF Probed, mainVars, ownVars, boundVars
  <2>7. CASE Switched(a) BY <2>7 DEF Switched, mainVars, ownVars, boundVars
  <2> QED BY <1>6, <2>1, <2>2, <2>3, <2>4, <2>5, <2>6, <2>7 DEF ScanStep
<1> QED BY <1>1, <1>2, <1>3, <1>4, <1>5, <1>6 DEF Inner

\* One step of the start-up after the other.
Forward ==
  \/ PoolRestored \/ PoolChosen \/ PlaneOpens \/ TtlRestored \/ TtlDiscovered \/ WorkerSpawned
  \/ MonitorStarted

LEMMA ForwardKeeps ==
  ASSUME Forward
  PROVE  /\ phase = "start" /\ ~At("listen") /\ todo' = Tail(todo)
         /\ UNCHANGED <<cfg, phase, result, pending, ready, discovered, lastGood, restoring, binding,
                        scan, lock, request, board, ended>>
<1>1. CASE PoolRestored
  BY <1>1 DEF PoolRestored, At, Advance, ownVars, scanVars, boardVars, boundVars
<1>2. CASE PoolChosen
  <2>1. /\ At("pool") /\ Advance
        /\ UNCHANGED <<cfg, pending, ready, discovered, restore, lastGood, restoring, ownVars, handle,
                       binding, scanVars, boardVars, boundVars>>
    BY <1>2 DEF PoolChosen
  <2> QED BY <2>1 DEF At, Advance, ownVars, scanVars, boardVars, boundVars
<1>3. CASE PlaneOpens
  BY <1>3 DEF PlaneOpens, At, Advance, scanVars, boardVars, boundVars
<1>4. CASE TtlRestored
  BY <1>4 DEF TtlRestored, At, Advance, ownVars, scanVars, boardVars, boundVars
<1>5. CASE TtlDiscovered
  <2>1. /\ At("ttl") /\ Advance
        /\ UNCHANGED <<cfg, pending, ready, discovered, restore, lastGood, restoring, ownVars, binding,
                       scanVars, board, boundVars>>
    BY <1>5 DEF TtlDiscovered
  <2> QED BY <2>1 DEF At, Advance, ownVars, scanVars, boundVars
<1>6. CASE WorkerSpawned
  BY <1>6 DEF WorkerSpawned, At, Advance, ownVars, poolVars, boardVars, boundVars
<1>7. CASE MonitorStarted
  BY <1>7 DEF MonitorStarted, At, Advance, poolVars, scanVars, boardVars, boundVars
<1> QED BY <1>1, <1>2, <1>3, <1>4, <1>5, <1>6, <1>7 DEF Forward

\* A step of the start-up fails.
Falls == RemotePlaneFails \/ StepFails

LEMMA FallsKeeps ==
  ASSUME Falls
  PROVE  /\ phase = "start" /\ phase' = "ended" /\ result' = "err"
         /\ UNCHANGED <<cfg, todo, pending, ready, discovered, lastGood, restoring, watched, pool,
                        handle, binding, worker, scan, lock, request, board, inbox, ended>>
<1>1. CASE RemotePlaneFails
  BY <1>1 DEF RemotePlaneFails, At, Fail, poolVars, scanVars, boardVars, boundVars
<1>2. CASE StepFails
  BY <1>2 DEF StepFails, At, Fail, ownVars, poolVars, scanVars, boardVars, boundVars
<1> QED BY <1>1, <1>2 DEF Falls

\* What the main thread does next is one of five things.
LEMMA DecideIs ==
  ASSUME Decide
  PROVE  /\ phase = "decide"
         /\ \/ result = "ok" /\ pending # NoConfig /\ Launch(pending, NoTargets, FALSE)
            \/ Leave("ok")
            \/ Leave("err")
            \/ /\ result = "err" /\ ~ready /\ lastGood # NoBackup /\ ~restoring
               /\ Launch(lastGood.config, lastGood.targets, TRUE)
            \/ /\ result \notin {"ok", "err"} \/ ~ready
               /\ phase' = "stopped"
               /\ UNCHANGED <<cfg, todo, result, pending, ready, discovered, restore, lastGood,
                    restoring, ownVars, poolVars, scanVars, boardVars, boundVars>>
<1> HIDE DEF Launch, Leave
<1> QED BY Zenon DEF Decide

LEMMA LaunchIs ==
  ASSUME NEW next \in Configs, NEW targets, NEW again, Launch(next, targets, again)
  PROVE  /\ cfg' = next /\ todo' = Steps(cfg'.mode) /\ phase' = "start" /\ result' = "none"
         /\ restore' = targets /\ restoring' = again /\ pending' = NoConfig /\ ready' = FALSE
         /\ UNCHANGED <<discovered, lastGood, plane, taps, watched, pool, handle, binding, worker,
                        scan, lock, request, board, inbox, ended>>
BY DEF Launch, ownVars, poolVars, scanVars, boardVars, boundVars

LEMMA LeaveIs ==
  ASSUME NEW how, Leave(how)
  PROVE  /\ phase' = "final" /\ result' = how
         /\ UNCHANGED <<cfg, todo, pending, ready, discovered, restore, lastGood, restoring,
                        plane, taps, watched, pool, handle, binding, worker,
                        scan, lock, request, board, inbox, ended>>
BY DEF Leave, ownVars, poolVars, scanVars, boardVars, boundVars

\* The next generation: the reloaded configuration, the last good one, or any after
\* the screen that says the service is stopped.
Launches ==
  \/ /\ phase = "decide" /\ result = "ok" /\ pending # NoConfig /\ Launch(pending, NoTargets, FALSE)
  \/ /\ phase = "decide" /\ result = "err" /\ ~ready /\ lastGood # NoBackup /\ ~restoring
     /\ Launch(lastGood.config, lastGood.targets, TRUE)
  \/ /\ phase = "stopped" /\ \E next \in Configs : Launch(next, NoTargets, FALSE)
Leaves == phase \in {"decide", "stopped"} /\ (Leave("ok") \/ Leave("err"))
Stops ==
  /\ phase = "decide" /\ phase' = "stopped" /\ (result \notin {"ok", "err"} \/ ~ready)
  /\ UNCHANGED <<cfg, todo, result, pending, ready, discovered, restore, lastGood,
                 restoring, ownVars, poolVars, scanVars, boardVars, boundVars>>

LEMMA DecideCases ==
  ASSUME Decide \/ RetryScreen
  PROVE  Launches \/ Leaves \/ Stops
<1>1. CASE Decide
  BY <1>1, DecideIs, Zenon DEF Launches, Leaves, Stops
<1>2. CASE RetryScreen
  BY <1>2, Zenon DEF Launches, Leaves, RetryScreen
<1> QED BY <1>1, <1>2

\* Every step is one of these.
Steps9 ==
  \/ Inner \/ Forward \/ Falls \/ ListenerReady \/ DashboardEnds \/ (\E next \in Configs : KeyReload(next))
  \/ GenerationEnds \/ CloseGeneration \/ CleanupScreen \/ Launches \/ Leaves \/ Stops \/ Finish

LEMMA NextIs == Next => Steps9
<1> SUFFICES ASSUME Next PROVE Steps9
  OBVIOUS
<1>1. CASE StartStep
  BY <1>1, Zenon DEF StartStep, Steps9, Forward, Falls
<1>2. CASE UserStep
  BY <1>2, DecideCases, Zenon DEF UserStep, Steps9, Inner
<1>3. CASE LoopStep
  BY <1>3, DecideCases, Zenon DEF LoopStep, Steps9
<1>4. CASE Drain \/ WorkerWakes(TRUE) \/ WorkerWakes(FALSE) \/ NetworkMoves
           \/ \E a \in Scanners : ScanStep(a)
  BY <1>4, Zenon DEF Steps9, Inner
<1> QED BY <1>1, <1>2, <1>3, <1>4, Zenon DEF Next

LEMMA LaunchesKeep ==
  ASSUME TypeInv, BackupInv, Launches
  PROVE  /\ phase \in {"decide", "stopped"} /\ ~Closing /\ cfg' \in Configs /\ todo' = Steps(cfg'.mode)
         /\ phase' = "start" /\ result' = "none" /\ pending' = NoConfig /\ ready' = FALSE
         /\ \/ restoring' = FALSE /\ restore' = NoTargets
            \/ /\ restoring' = TRUE /\ phase = "decide" /\ ~ready /\ lastGood # NoBackup
               /\ cfg' = lastGood.config /\ restore' = lastGood.targets
         /\ UNCHANGED <<discovered, lastGood, plane, taps, watched, pool, handle, binding, worker,
                        scan, lock, request, board, inbox, ended>>
<1>1. CASE phase = "decide" /\ pending # NoConfig /\ Launch(pending, NoTargets, FALSE)
  <2>1. pending \in Configs
    BY <1>1 DEF TypeInv, SessionTypeOK
  <2> QED BY <1>1, <2>1, LaunchIs DEF Closing
<1>2. CASE /\ phase = "decide" /\ result = "err" /\ ~ready /\ lastGood # NoBackup /\ ~restoring
           /\ Launch(lastGood.config, lastGood.targets, TRUE)
  <2>1. lastGood.config \in Configs
    BY <1>2 DEF BackupInv, Closing, Kept
  <2> QED BY <1>2, <2>1, LaunchIs DEF Closing
<1>3. CASE phase = "stopped" /\ \E next \in Configs : Launch(next, NoTargets, FALSE)
  BY <1>3, LaunchIs DEF Closing
<1> QED BY <1>1, <1>2, <1>3 DEF Launches

LEMMA LeavesKeep ==
  ASSUME Leaves
  PROVE  /\ phase \in {"decide", "stopped"} /\ phase' = "final" /\ result' \in {"ok", "err"}
         /\ UNCHANGED <<cfg, todo, pending, ready, discovered, restore, lastGood, restoring,
                        plane, taps, watched, pool, handle, binding, worker,
                        scan, lock, request, board, inbox, ended>>
BY LeaveIs DEF Leaves

LEMMA StopsKeep ==
  ASSUME Stops
  PROVE  /\ phase = "decide" /\ phase' = "stopped" /\ (result \notin {"ok", "err"} \/ ~ready)
         /\ UNCHANGED <<cfg, todo, result, pending, ready, discovered, restore, lastGood, restoring,
                        plane, taps, watched, pool, handle, binding, worker,
                        scan, lock, request, board, inbox, ended>>
BY DEF Stops, ownVars, poolVars, scanVars, boardVars, boundVars

\* Forward steps and the planes they touch.
LEMMA ForwardTaps ==
  ASSUME Forward, ~PlaneOpens
  PROVE  UNCHANGED <<plane, taps>>
BY DEF Forward, PoolRestored, PoolChosen, TtlRestored, TtlDiscovered, WorkerSpawned, MonitorStarted,
       ownVars

(***************************************************************************)
(* The interceptor.                                                        *)
(***************************************************************************)
LEMMA TapStep ==
  ASSUME SInv, Next
  PROVE  TapInv'
<1>1. /\ TypeInv /\ TapInv /\ BackupInv /\ PendingInv
      /\ TodoOK /\ cfg \in Configs /\ taps \in 0..1 /\ plane \in {"none", "local", "remote"}
      /\ phase = "start" => ready = FALSE
  BY DEF SInv, TypeInv, SessionTypeOK, PendingInv
<1>2. CASE Inner
  BY <1>1, <1>2, InnerKeeps DEF TapInv
<1>3. CASE Forward
  <2> DEFINE n == Len(todo)
             k == Len(todo')
             x == IF cfg.mode = "plus" THEN 3 ELSE 5
  <2>1. /\ phase = "start" /\ phase' = "start" /\ cfg' = cfg /\ k = n - 1 /\ n \in Nat /\ n >= 1
        /\ n >= x /\ ~At("pool") /\ ~At("worker") => At("plane")
        /\ At("plane") <=> \/ cfg.mode = "sni" /\ n = 5
                           \/ cfg.mode = "plus" /\ n = 3
    BY <1>1, <1>3, ForwardKeeps, StageAdvance, StageStart, AtLen
  <2>2. /\ n >= x => plane = "none"
        /\ taps = 1 => plane # "none"
        /\ TapInv' <=> (taps' = 1 => plane' # "none") /\ (k >= x => plane' = "none")
    BY <1>1, <2>1 DEF TapInv
  <2>3. CASE PlaneOpens
    <3>1. At("plane") /\ (IF cfg.plane = "none" THEN UNCHANGED <<plane, taps>>
                          ELSE plane' = cfg.plane /\ taps' = taps + 1)
      BY <2>3 DEF PlaneOpens
    <3> HIDE DEF n, k
    <3>2. n = x
      BY <2>1, <3>1
    <3> QED BY <2>1, <2>2, <3>1, <3>2
  <2>4. CASE ~PlaneOpens
    <3>1. UNCHANGED <<plane, taps>>
      BY <1>3, <2>4, ForwardTaps
    <3> HIDE DEF n, k
    <3> QED BY <2>1, <2>2, <3>1
  <2> QED BY <2>3, <2>4
<1>4. CASE Falls
  <2>1. phase' = "ended"
    BY <1>4, FallsKeeps
  <2>2. taps' = 1 => plane' # "none"
    BY <1>1, <1>4 DEF Falls, RemotePlaneFails, StepFails, TapInv, ownVars
  <2> QED BY <2>1, <2>2 DEF TapInv
<1>5. CASE ListenerReady \/ DashboardEnds \/ (\E next \in Configs : KeyReload(next)) \/ GenerationEnds
  <2>1. phase' \in {"dash", "ended", "close"} /\ UNCHANGED <<plane, taps>>
    BY <1>5 DEF ListenerReady, DashboardEnds, KeyReload, GenerationEnds, ownVars
  <2> QED BY <1>1, <2>1 DEF TapInv
<1>6. CASE CloseGeneration
  <2>1. /\ phase' \in {"decide", "cleanup"}
        /\ \/ plane' = "none" /\ taps' = (IF plane = "none" THEN taps ELSE 0)
           \/ plane # "none" /\ phase' = "cleanup" /\ UNCHANGED <<plane, taps>>
    BY <1>6 DEF CloseGeneration
  <2> QED BY <1>1, <2>1 DEF TapInv
<1>7. CASE CleanupScreen
  BY <1>1, <1>7 DEF CleanupScreen, TapInv, ownVars
<1>8. CASE Launches
  BY <1>1, <1>8, LaunchesKeep DEF TapInv
<1>9. CASE Leaves \/ Stops
  BY <1>1, <1>9, LeavesKeep, StopsKeep DEF TapInv
<1>10. CASE Finish
  BY <1>1, <1>10 DEF Finish, TapInv
<1> QED BY <1>2, <1>3, <1>4, <1>5, <1>6, <1>7, <1>8, <1>9, <1>10, NextIs DEF Steps9

(***************************************************************************)
(* The reload that is on its way.                                          *)
(***************************************************************************)
\* A generation whose dashboard is gone finishes a switch at most.
LEMMA InnerAlive ==
  ASSUME Inner, \A a \in Scanners : ~Switched(a)
  PROVE  Alive
BY DEF Inner, Drain, KeyRescan, AnswerSelection, WorkerWakes, NetworkMoves, ScanStep, TakeLock,
       ScanFails, Scanned, PoolRefreshed, Compared, Probed, Alive

LEMMA PendingStep ==
  ASSUME SInv, Next
  PROVE  PendingInv'
<1>1. /\ TypeInv /\ BackupInv /\ PendingInv
      /\ phase \in Phases /\ result \in {"none", "ok", "err"} /\ ready \in BOOLEAN
      /\ discovered \in Ttls
  BY DEF SInv, TypeInv, SessionTypeOK
<1>2. CASE Inner
  <2>1. UNCHANGED <<phase, result, pending, ready, discovered>>
    BY <1>2, InnerKeeps
  <2>2. CASE phase # "ended"
    BY <1>1, <2>1, <2>2 DEF PendingInv
  <2>3. CASE phase = "ended"
    <3>1. PICK a \in Scanners : Switched(a)
      BY <1>2, <2>3, InnerAlive DEF Alive
    <3>2. lock = a
      BY <3>1 DEF Switched, SInv, LockInv, OneHolder, Holding
    <3>3. pending = NoConfig
      BY <1>1, <2>3, <3>2 DEF PendingInv, Scanners
    <3> QED BY <1>1, <2>1, <2>3, <3>3 DEF PendingInv
  <2> QED BY <2>2, <2>3
<1>3. CASE Forward
  BY <1>1, <1>3, ForwardKeeps DEF PendingInv
<1>4. CASE Falls
  BY <1>1, <1>4, FallsKeeps DEF PendingInv
<1>5. CASE ListenerReady
  BY <1>1, <1>5 DEF PendingInv, ListenerReady, At
<1>6. CASE DashboardEnds
  BY <1>1, <1>6 DEF PendingInv, DashboardEnds
<1>7. ASSUME NEW next \in Configs, KeyReload(next) PROVE PendingInv'
  <2>1. next # NoConfig
    BY ConfigTyped
  <2> QED BY <1>1, <1>7, <2>1 DEF PendingInv, KeyReload, scanVars, boardVars
<1>8. CASE GenerationEnds
  <2>1. /\ phase = "ended" /\ phase' = "close" /\ discovered' = "none"
        /\ UNCHANGED <<result, pending, ready>>
    BY <1>8 DEF GenerationEnds
  <2> QED BY <1>1, <2>1 DEF PendingInv
<1>9. CASE CloseGeneration
  <2>1. /\ phase = "close" /\ phase' \in {"decide", "cleanup"}
        /\ UNCHANGED <<result, pending, ready, discovered>>
    BY <1>9 DEF CloseGeneration
  <2> QED BY <1>1, <2>1 DEF PendingInv
<1>10. CASE CleanupScreen
  BY <1>1, <1>10 DEF PendingInv, CleanupScreen
<1>11. CASE Launches
  BY <1>1, <1>11, LaunchesKeep DEF PendingInv
<1>12. CASE Leaves
  BY <1>1, <1>12, LeavesKeep DEF PendingInv
<1>13. CASE Stops
  BY <1>1, <1>13, StopsKeep DEF PendingInv
<1>14. CASE Finish
  <2>1. /\ phase = "final" /\ phase' = "exit" /\ result' \in {"err", result}
        /\ UNCHANGED <<pending, ready, discovered>>
    BY <1>14 DEF Finish
  <2> QED BY <1>1, <2>1 DEF PendingInv
<1> QED BY <1>2, <1>3, <1>4, <1>5, <1>6, <1>7, <1>8, <1>9, <1>10, <1>11, <1>12, <1>13, <1>14,
           NextIs DEF Steps9

(***************************************************************************)
(* The targets of a generation.                                            *)
(***************************************************************************)
LEMMA OneIsShaped ==
  ASSUME NEW c \in Configs, NEW t \in Targets, c.balanced /\ c.pinned => t = Pinned
  PROVE  /\ <<Member(t)>> \in TargetLists /\ Shape(c, <<Member(t)>>)
         /\ \A i \in DOMAIN <<Member(t)>> : <<Member(t)>>[i].ttl = "none"
<1> DEFINE e == Member(t)
<1>1. e \in Entry /\ e.id = t /\ e.ttl = "none"
  BY MemberTyped
<1> HIDE DEF e
<1>2. /\ <<e>> \in TargetLists /\ Len(<<e>>) = 1 /\ <<e>>[1] = e /\ <<e>> # <<>>
      /\ DOMAIN <<e>> = {1} /\ Ids(<<e>>) = <<e.id>>
  BY <1>1, OneList
<1>3. Shape(c, <<e>>)
  BY <1>1, <1>2 DEF Shape
<1> QED BY <1>1, <1>2, <1>3 DEF e

LEMMA IdsEmpty == Ids(<<>>) = <<>>
BY NoList DEF Ids

LEMMA PoolChosenIs ==
  ASSUME cfg \in Configs, PoolChosen
  PROVE  /\ pool' \in TargetLists /\ Shape(cfg, pool')
         /\ \A i \in DOMAIN pool' : pool'[i].ttl = "none"
<1>1. PICK r \in Results : /\ r.list # <<>>
                           /\ \/ cfg.mode = "sni" /\ pool' \in SniPools(r)
                              \/ cfg.mode \in {"ip", "plus"} /\ pool' \in IpPools(r)
  <2>1. PICK r \in Results : /\ r.list # <<>>
                             /\ pool' \in (CASE cfg.mode = "sni" -> SniPools(r)
                                             [] cfg.mode = "ip" -> IpPools(r)
                                             [] cfg.mode = "plus" -> PlusPools(r))
    BY DEF PoolChosen
  <2>2. CASE cfg.mode = "sni"
    BY <2>1, <2>2
  <2>3. CASE cfg.mode = "ip"
    BY <2>1, <2>3
  <2>4. CASE cfg.mode = "plus"
    BY <2>1, <2>4 DEF PlusPools
  <2> QED BY <2>2, <2>3, <2>4, ConfigTyped
<1>2. r.list \in Seq(Targets) /\ r.good \in 0..Len(r.list)
  BY SessionAssumption
<1>3. Candidates(r) \in TargetLists /\ \A i \in DOMAIN Candidates(r) : Candidates(r)[i].ttl = "none"
  BY <1>2, CandidatesAre
<1>4. CASE pool' = <<Member(Pinned)>>
  BY <1>4, PinnedTyped, OneIsShaped
<1>5. CASE ~cfg.pinned /\ cfg.balanced /\ pool' = Candidates(r) /\ Candidates(r) # <<>>
  BY <1>3, <1>5 DEF Shape
<1>6. CASE ~cfg.pinned /\ ~cfg.balanced /\ pool' \in OneOf(r.list)
  <2>1. PICK i \in DOMAIN r.list : pool' = <<Member(r.list[i])>>
    BY <1>1, <1>2, <1>6 DEF OneOf
  <2>2. r.list[i] \in Targets
    BY <1>2, <2>1
  <2> QED BY <1>6, <2>1, <2>2, OneIsShaped
<1>7. \/ pool' = <<Member(Pinned)>>
      \/ ~cfg.pinned /\ cfg.balanced /\ pool' = Candidates(r) /\ Candidates(r) # <<>>
      \/ ~cfg.pinned /\ ~cfg.balanced /\ pool' \in OneOf(r.list)
  BY <1>1, IdsEmpty DEF SniPools, IpPools
<1> QED BY <1>4, <1>5, <1>6, <1>7

\* What a list of targets of the right shape is like.
LEMMA ShapedList ==
  ASSUME NEW c \in Configs, NEW p \in TargetLists, Shape(c, p)
  PROVE  /\ Len(p) \in Nat \ {0} /\ 1 \in DOMAIN p /\ p[1] \in Entry /\ p[1].id \in Targets
         /\ p[1].ttl \in Ttls /\ DOMAIN p = 1..Len(p)
         /\ c.balanced /\ c.pinned => Len(p) = 1
         /\ ~c.balanced => DOMAIN p = {1}
<1>1. /\ p \in Seq(Entry) /\ Len(p) \in Nat /\ DOMAIN p = 1..Len(p) /\ p # <<>> /\ Len(p) >= 1
      /\ \A i \in 1..Len(p) : p[i] \in Entry
  BY Lists, SessionAssumption DEF Shape
<1>2. c.balanced /\ c.pinned => Len(p) = 1
  <2> SUFFICES ASSUME c.balanced /\ c.pinned PROVE Len(p) = 1
    OBVIOUS
  <2>1. Ids(p) = <<Pinned>>
    BY DEF Shape
  <2>2. DOMAIN Ids(p) = {1}
    BY <2>1
  <2>3. DOMAIN Ids(p) = 1..Len(p)
    BY <1>1 DEF Ids
  <2>4. Len(p) \in DOMAIN Ids(p)
    BY <1>1, <2>3
  <2> QED BY <2>2, <2>4
<1>3. p[1] \in Entry /\ 1 \in DOMAIN p
  BY <1>1
<1>4. p[1].id \in Targets /\ p[1].ttl \in Ttls
  BY <1>3 DEF Entry
<1>5. ~c.balanced => DOMAIN p = {1}
  BY <1>1 DEF Shape
<1>6. Len(p) \in Nat \ {0}
  BY <1>1
<1> QED BY <1>1, <1>2, <1>3, <1>4, <1>5, <1>6

\* LOW_TTL_DISCOVER of a balanced pool at the start.
LEMMA TtlsFound ==
  ASSUME NEW c \in Configs, NEW p \in TargetLists, Shape(c, p), Hunts(c), c.balanced, NEW found
  PROVE  LET q == Admitted(p, <<>>, "config", found)
         IN  q \in TargetLists /\ Shape(c, q) /\ OwnTtls(c, q)
<1> DEFINE q == Admitted(p, <<>>, "config", found)
<1>1. /\ q \in TargetLists /\ Len(q) = Len(p)
      /\ \A i \in DOMAIN q : \/ q[i].ttl = q[i].id
                             \/ \E j \in DOMAIN <<>> : <<>>[j].id = q[i].id /\ <<>>[j].ttl = q[i].ttl
                             \/ q[i].ttl = "config"
      /\ Len(p) = 1 => Ids(q) = Ids(p)
  BY NoList, AdmittedAre
<1> HIDE DEF q
<1>2. \A i \in DOMAIN q : q[i].ttl \in {"config", q[i].id}
  BY <1>1, NoList, Zenon
<1>3. Len(p) \in Nat \ {0} /\ (c.balanced /\ c.pinned => Len(p) = 1)
  BY ShapedList
<1>4. q # <<>>
  <2> SUFFICES ASSUME q = <<>> PROVE FALSE
    OBVIOUS
  <2>1. Len(q) = 0
    OBVIOUS
  <2> QED BY <1>1, <1>3, <2>1
<1>5. Shape(c, q)
  BY <1>1, <1>3, <1>4, Zenon DEF Shape
<1>6. OwnTtls(c, q)
  BY <1>2 DEF OwnTtls
<1> QED BY <1>1, <1>5, <1>6 DEF q

\* A rescan of a balanced pool.
LEMMA PoolNext ==
  ASSUME TypeInv, NEW a \in Scanners, NEW found, Shape(cfg, pool), OwnTtls(cfg, pool),
         cfg.balanced, ~cfg.pinned
  PROVE  LET next == IF cfg.mode = "sni" THEN SniNext(a, found) ELSE IpNext(a)
         IN  next \in TargetLists /\ (next # <<>> => Shape(cfg, next)) /\ OwnTtls(cfg, next)
<1>1. scan[a] \in Record /\ scan[a].good <= Len(scan[a].list) /\ pool \in TargetLists /\ cfg \in Configs
  BY DEF TypeInv, ScanOK, SessionTypeOK
<1> DEFINE r == [list |-> scan[a].list, good |-> scan[a].good]
<1>2. r.list \in Seq(Targets) /\ r.good \in 0..Len(r.list)
  BY <1>1 DEF Record
<1>3. IpNext(a) \in TargetLists /\ \A i \in DOMAIN IpNext(a) : IpNext(a)[i].ttl = "none"
  <2> HIDE DEF r
  <2>1. Candidates(r) \in TargetLists /\ \A i \in DOMAIN Candidates(r) : Candidates(r)[i].ttl = "none"
    BY <1>2, CandidatesAre
  <2> QED BY <2>1 DEF IpNext, r
<1>4. CASE ~Hunts(cfg)
  <2>1. (IF cfg.mode = "sni" THEN SniNext(a, found) ELSE IpNext(a)) = IpNext(a)
    BY <1>4 DEF SniNext, Hunts
  <2>2. (IpNext(a) # <<>> => Shape(cfg, IpNext(a))) /\ OwnTtls(cfg, IpNext(a))
    BY <1>3, <1>4 DEF Shape, OwnTtls
  <2> QED BY <1>3, <2>1, <2>2
<1>5. CASE Hunts(cfg)
  <2> DEFINE q == Admitted(IpNext(a), pool, "none", found)
  <2>1. (IF cfg.mode = "sni" THEN SniNext(a, found) ELSE IpNext(a)) = q
    BY <1>5 DEF SniNext, Hunts
  <2>2. /\ q \in TargetLists
        /\ \A i \in DOMAIN q :
             \/ q[i].ttl = q[i].id
             \/ \E j \in DOMAIN pool : pool[j].id = q[i].id /\ pool[j].ttl = q[i].ttl
    BY <1>1, <1>3, AdmittedAre
  <2> HIDE DEF q
  <2>3. \A j \in DOMAIN pool : pool[j].ttl \in {"config", pool[j].id}
    BY <1>5 DEF OwnTtls
  <2>4. \A i \in DOMAIN q : q[i].ttl \in {"config", q[i].id}
    BY <2>2, <2>3
  <2>5. (q # <<>> => Shape(cfg, q)) /\ OwnTtls(cfg, q)
    BY <1>5, <2>4 DEF Shape, OwnTtls
  <2> QED BY <2>1, <2>2, <2>5
<1> QED BY <1>4, <1>5

(***************************************************************************)
(* Types.                                                                  *)
(***************************************************************************)
\* Where a generation is alive and not quiet, its targets and their TTLs are there.
LEMMA Awake ==
  ASSUME TypeInv, PoolInv, Alive, ~Quiet
  PROVE  /\ HasPool /\ HasTtl /\ Shape(cfg, pool) /\ OwnTtls(cfg, pool)
         /\ pool[1] \in Entry /\ Representative.id \in Targets /\ Representative.ttl \in Ttls
<1>1. TodoOK /\ cfg \in Configs /\ pool \in TargetLists
  BY DEF TypeInv, SessionTypeOK
<1>2. HasPool /\ HasTtl
  BY StageStart, <1>1, StageOther DEF Alive
<1>3. Shape(cfg, pool) /\ OwnTtls(cfg, pool)
  BY <1>2 DEF PoolInv
<1>4. pool[1] \in Entry /\ pool[1].id \in Targets /\ pool[1].ttl \in Ttls
  BY <1>1, <1>3, ShapedList
<1> QED BY <1>2, <1>3, <1>4 DEF Representative

LEMMA RestingTyped == Resting \in Record /\ Resting.good <= Len(Resting.list) /\ Resting.pc = "idle"
<1>1. <<>> \in Seq(Targets) /\ Len(<<>>) = 0
  OBVIOUS
<1>2. Resting \in Record
  BY <1>1 DEF Resting, Record
<1>3. Resting.good = 0 /\ Resting.list = <<>> /\ Resting.pc = "idle"
  BY DEF Resting
<1> QED BY <1>1, <1>2, <1>3

LEMMA ScanUpdate ==
  ASSUME ScanOK, NEW a \in Scanners, NEW r \in Record, r.good <= Len(r.list),
         scan' = [scan EXCEPT ![a] = r]
  PROVE  ScanOK' /\ scan'[a] = r /\ \A b \in Scanners : b # a => scan'[b] = scan[b]
<1>1. scan \in [Scanners -> Record] /\ \A b \in Scanners : scan[b].good <= Len(scan[b].list)
  BY DEF ScanOK
<1>2. scan' \in [Scanners -> Record] /\ scan'[a] = r /\ \A b \in Scanners : b # a => scan'[b] = scan[b]
  BY <1>1
<1>3. \A b \in Scanners : scan'[b].good <= Len(scan'[b].list)
  BY <1>1, <1>2, Zenon
<1> QED BY <1>2, <1>3 DEF ScanOK

\* What a rescan task writes into its record.
LEMMA RestScan ==
  ASSUME ScanOK, NEW a \in Scanners, Rest(a)
  PROVE  /\ ScanOK' /\ scan'[a] = Resting /\ lock' = "free"
         /\ \A b \in Scanners : b # a => scan'[b] = scan[b]
<1>1. scan' = [scan EXCEPT ![a] = Resting] /\ lock' = "free"
  BY DEF Rest
<1> QED BY <1>1, RestingTyped, ScanUpdate

LEMMA LockScan ==
  ASSUME ScanOK, NEW a \in Scanners, NEW manual \in BOOLEAN, NEW s \in Nat,
         scan' = [scan EXCEPT ![a] = [Resting EXCEPT !.pc = "lock", !.manual = manual, !.seen = s]]
  PROVE  /\ ScanOK' /\ scan'[a].pc = "lock" /\ scan'[a].seen = s
         /\ \A b \in Scanners : b # a => scan'[b] = scan[b]
<1> DEFINE r == [Resting EXCEPT !.pc = "lock", !.manual = manual, !.seen = s]
<1>1. Resting \in Record /\ Resting.good <= Len(Resting.list)
  BY RestingTyped
<1>2. r \in Record /\ r.pc = "lock" /\ r.seen = s /\ r.good = Resting.good /\ r.list = Resting.list
  BY <1>1 DEF Record
<1> HIDE DEF r
<1>3. r.good <= Len(r.list)
  BY <1>1, <1>2
<1>4. scan' = [scan EXCEPT ![a] = r]
  BY DEF r
<1> QED BY <1>2, <1>3, <1>4, ScanUpdate

LEMMA LockScanRecovery ==
  ASSUME ScanOK, NEW a \in Scanners, NEW s \in Nat,
         scan' = [scan EXCEPT ![a] = [Resting EXCEPT !.pc = "lock", !.seen = s]]
  PROVE  /\ ScanOK' /\ scan'[a].pc = "lock" /\ scan'[a].seen = s
         /\ \A b \in Scanners : b # a => scan'[b] = scan[b]
<1> DEFINE r == [Resting EXCEPT !.pc = "lock", !.seen = s]
<1>1. Resting \in Record /\ Resting.good <= Len(Resting.list)
  BY RestingTyped
<1>2. r \in Record /\ r.pc = "lock" /\ r.seen = s /\ r.good = Resting.good /\ r.list = Resting.list
  BY <1>1 DEF Record
<1> HIDE DEF r
<1>3. r.good <= Len(r.list)
  BY <1>1, <1>2
<1>4. scan' = [scan EXCEPT ![a] = r]
  BY DEF r
<1> QED BY <1>2, <1>3, <1>4, ScanUpdate

LEMMA PcScan ==
  ASSUME ScanOK, NEW a \in Scanners,
         NEW pc \in {"idle", "lock", "scan", "pool", "ask", "picked", "probe", "switch"},
         NEW pick \in Targets \cup {"none"}, NEW from \in Targets \cup {"none"},
         scan' = [scan EXCEPT ![a] = [scan[a] EXCEPT !.pc = pc, !.pick = pick, !.from = from]]
  PROVE  /\ ScanOK' /\ scan'[a].pc = pc /\ scan'[a].pick = pick /\ scan'[a].from = from
         /\ scan'[a].seen = scan[a].seen /\ scan'[a].list = scan[a].list /\ scan'[a].good = scan[a].good
         /\ \A b \in Scanners : b # a => scan'[b] = scan[b]
<1> DEFINE r == [scan[a] EXCEPT !.pc = pc, !.pick = pick, !.from = from]
<1>1. scan[a] \in Record /\ scan[a].good <= Len(scan[a].list)
  BY DEF ScanOK
<1>2. /\ r \in Record /\ r.pc = pc /\ r.pick = pick /\ r.from = from /\ r.seen = scan[a].seen
      /\ r.list = scan[a].list /\ r.good = scan[a].good
  BY <1>1 DEF Record
<1> HIDE DEF r
<1>3. r.good <= Len(r.list)
  BY <1>1, <1>2
<1>4. scan' = [scan EXCEPT ![a] = r]
  BY DEF r
<1> QED BY <1>2, <1>3, <1>4, ScanUpdate

(***************************************************************************)
(* What the steps of a rescan do.                                          *)
(***************************************************************************)
Others(a) == \A b \in Scanners : b # a => scan'[b] = scan[b]

LEMMA TakeLockIs ==
  ASSUME ScanOK, NEW a \in Scanners, TakeLock(a)
  PROVE  /\ Alive /\ scan[a].pc = "lock" /\ lock = "free" /\ lock' = a
         /\ ScanOK' /\ scan'[a].pc = "scan" /\ scan'[a].seen = scan[a].seen /\ Others(a)
         /\ inbox' = inbox \o <<<<"started">>>>
         /\ UNCHANGED <<pool, handle, binding, worker, board>>
<1>1. /\ Alive /\ scan[a].pc = "lock" /\ lock = "free" /\ lock' = a
      /\ scan' = [scan EXCEPT ![a].pc = "scan"]
      /\ inbox' = inbox \o <<<<"started">>>>
      /\ UNCHANGED <<pool, handle, binding, worker, board>>
  BY DEF TakeLock, Tell, poolVars
<1>2. scan[a] \in Record /\ scan \in [Scanners -> Record]
  BY DEF ScanOK
<1> DEFINE p == scan[a].pick
           f == scan[a].from
<1>3. scan' = [scan EXCEPT ![a] = [scan[a] EXCEPT !.pc = "scan", !.pick = p, !.from = f]]
  BY <1>1, <1>2 DEF Record
<1>4. p \in Targets \cup {"none"} /\ f \in Targets \cup {"none"}
  BY <1>2 DEF Record
<1> HIDE DEF p, f
<1>5. ScanOK' /\ scan'[a].pc = "scan" /\ scan'[a].seen = scan[a].seen /\ Others(a)
  BY <1>3, <1>4, PcScan DEF Others
<1> QED BY <1>1, <1>5

LEMMA ScanFailsIs ==
  ASSUME ScanOK, NEW a \in Scanners, ScanFails(a)
  PROVE  /\ Alive /\ scan[a].pc = "scan" /\ lock' = "free"
         /\ ScanOK' /\ scan'[a] = Resting /\ Others(a)
         /\ inbox' = inbox \o <<<<"finished">>>>
         /\ UNCHANGED <<pool, handle, binding, worker, board>>
BY RestScan DEF ScanFails, Tell, poolVars, Others

LEMMA ScannedIs ==
  ASSUME ScanOK, NEW a \in Scanners, Scanned(a)
  PROVE  /\ Alive /\ scan[a].pc = "scan"
         /\ ScanOK' /\ scan'[a].pc \in {"pool", "ask", "picked"} /\ scan'[a].seen = scan[a].seen
         /\ scan'[a].pc = "pool" <=> cfg.balanced
         /\ Others(a)
         /\ UNCHANGED <<pool, handle, binding, worker, lock, board, inbox>>
<1> DEFINE k == IF cfg.balanced THEN "pool"
                ELSE IF scan[a].manual /\ ~cfg.auto THEN "ask" ELSE "picked"
<1>1. PICK r \in Results :
        /\ r.list # <<>>
        /\ scan' = [scan EXCEPT ![a].list = r.list, ![a].good = r.good, ![a].pick = r.list[1],
                                ![a].pc = k]
  BY DEF Scanned
<1>2. /\ Alive /\ scan[a].pc = "scan"
      /\ UNCHANGED <<pool, handle, binding, worker, lock, board, inbox>>
  BY DEF Scanned, poolVars, boardVars
<1>3. r.list \in Seq(Targets) /\ r.good \in 0..Len(r.list)
  BY SessionAssumption
<1>4. r.list[1] \in Targets /\ r.good \in Nat /\ r.good <= Len(r.list)
  BY <1>1, <1>3
<1>5. scan[a] \in Record /\ scan \in [Scanners -> Record]
  BY DEF ScanOK
<1>6. k \in {"pool", "ask", "picked"} /\ (k = "pool" <=> cfg.balanced)
  OBVIOUS
<1> HIDE DEF k
<1> DEFINE q == [scan[a] EXCEPT !.list = r.list, !.good = r.good, !.pick = r.list[1], !.pc = k]
<1>7. /\ q \in Record /\ q.good = r.good /\ q.list = r.list /\ q.pc = k /\ q.seen = scan[a].seen
  BY <1>3, <1>4, <1>5, <1>6 DEF Record
<1>8. scan' = [scan EXCEPT ![a] = q]
  BY <1>1, <1>5
<1> HIDE DEF q
<1>9. ScanOK' /\ scan'[a] = q /\ Others(a)
  BY <1>4, <1>7, <1>8, ScanUpdate DEF Others
<1> QED BY <1>2, <1>6, <1>7, <1>9

LEMMA AnswerIs ==
  ASSUME ScanOK, AnswerSelection
  PROVE  /\ phase = "dash" /\ scan["worker"].pc = "ask"
         /\ ScanOK' /\ scan'["worker"].pc = "picked" /\ Others("worker")
         /\ UNCHANGED <<pool, handle, binding, worker, lock, board, inbox>>
         /\ UNCHANGED scan["recovery"]
<1>1. PICK pick \in {"none"} \cup {scan["worker"].list[i] : i \in DOMAIN scan["worker"].list} :
         scan' = [scan EXCEPT !["worker"].pc = "picked", !["worker"].pick = pick]
  BY DEF AnswerSelection
<1>2. /\ phase = "dash" /\ scan["worker"].pc = "ask"
      /\ UNCHANGED <<pool, handle, binding, worker, lock, board, inbox>>
  BY DEF AnswerSelection, poolVars, boardVars
<1>3. scan["worker"] \in Record /\ scan \in [Scanners -> Record] /\ {"worker", "recovery"} = Scanners
  BY DEF ScanOK, Scanners
<1> DEFINE f == scan["worker"].from
<1>4. pick \in Targets \cup {"none"} /\ f \in Targets \cup {"none"}
  <2>1. scan["worker"].list \in Seq(Targets) /\ scan["worker"].from \in Targets \cup {"none"}
    BY <1>3 DEF Record
  <2> QED BY <1>1, <2>1
<1>5. scan' = [scan EXCEPT !["worker"] = [scan["worker"] EXCEPT !.pc = "picked", !.pick = pick,
                                                           !.from = f]]
  BY <1>1, <1>3 DEF Record
<1> HIDE DEF f
<1>6. ScanOK' /\ scan'["worker"].pc = "picked" /\ Others("worker")
  BY <1>3, <1>4, <1>5, PcScan DEF Others
<1>7. UNCHANGED scan["recovery"]
  BY <1>3, <1>6 DEF Others
<1> QED BY <1>2, <1>6, <1>7

LEMMA PoolRefreshedIs ==
  ASSUME ScanOK, NEW a \in Scanners, PoolRefreshed(a)
  PROVE  /\ Alive /\ scan[a].pc = "pool" /\ lock' = "free"
         /\ ScanOK' /\ scan'[a] = Resting /\ Others(a)
         /\ inbox' = inbox \o <<<<"finished">>>>
         /\ \E found : LET next == IF cfg.mode = "sni" THEN SniNext(a, found) ELSE IpNext(a)
                       IN  pool' = IF next = <<>> THEN pool ELSE next
         /\ UNCHANGED <<handle, binding, worker, board>>
<1>1. /\ Alive /\ scan[a].pc = "pool" /\ Rest(a)
      /\ inbox' = inbox \o <<<<"finished">>>>
      /\ UNCHANGED <<handle, binding, worker, board>>
  BY DEF PoolRefreshed, Tell
<1>2. \E found : LET next == IF cfg.mode = "sni" THEN SniNext(a, found) ELSE IpNext(a)
                 IN  pool' = IF next = <<>> THEN pool ELSE next
  BY DEF PoolRefreshed
<1> QED BY <1>1, <1>2, RestScan DEF Others

LEMMA ComparedIs ==
  ASSUME ScanOK, NEW a \in Scanners, Compared(a), Representative.id \in Targets
  PROVE  /\ Alive /\ scan[a].pc = "picked" /\ ScanOK' /\ Others(a)
         /\ UNCHANGED <<pool, handle, binding, worker, board>>
         /\ \/ /\ scan'[a] = Resting /\ lock' = "free" /\ inbox' = inbox \o <<<<"finished">>>>
            \/ /\ scan'[a].pc = (IF Hunts(cfg) THEN "probe" ELSE "switch")
               /\ scan'[a].pick \in Targets /\ scan'[a].from = Representative.id
               /\ scan'[a].seen = scan[a].seen /\ UNCHANGED <<lock, inbox>>
<1>1. Alive /\ scan[a].pc = "picked" /\ UNCHANGED <<pool, handle, binding, worker, board>>
  BY DEF Compared, poolVars
<1>2. scan[a] \in Record /\ scan \in [Scanners -> Record]
  BY DEF ScanOK
<1>3. CASE Rest(a) /\ Tell(<<<<"finished">>>>)
  BY <1>1, <1>3, RestScan DEF Tell, Others
<1>4. CASE /\ scan[a].pick # "none" /\ UNCHANGED <<lock, inbox>>
           /\ scan' = [scan EXCEPT ![a].from = Representative.id,
                        ![a].pc = IF cfg.mode = "sni" /\ cfg.discover THEN "probe" ELSE "switch"]
  <2> DEFINE k == IF Hunts(cfg) THEN "probe" ELSE "switch"
  <2>1. scan' = [scan EXCEPT ![a].from = Representative.id, ![a].pc = k]
    BY <1>4 DEF Hunts
  <2>2. k \in {"probe", "switch"}
    OBVIOUS
  <2> HIDE DEF k
  <2> DEFINE p == scan[a].pick
             f == Representative.id
  <2>3. scan' = [scan EXCEPT ![a] = [scan[a] EXCEPT !.pc = k, !.pick = p, !.from = f]]
    BY <1>2, <2>1 DEF Record
  <2>4. p \in Targets /\ f \in Targets
    BY <1>2, <1>4 DEF Record
  <2> HIDE DEF p, f
  <2>5. /\ p \in Targets \cup {"none"} /\ f \in Targets \cup {"none"}
        /\ k \in {"idle", "lock", "scan", "pool", "ask", "picked", "probe", "switch"}
    BY <2>2, <2>4
  <2> DEFINE q == [scan[a] EXCEPT !.pc = k, !.pick = p, !.from = f]
  <2>6. /\ q \in Record /\ q.pc = k /\ q.pick = p /\ q.from = f /\ q.seen = scan[a].seen
        /\ q.good = scan[a].good /\ q.list = scan[a].list
    BY <1>2, <2>5 DEF Record
  <2>7. scan[a].good <= Len(scan[a].list)
    BY DEF ScanOK
  <2> HIDE DEF q
  <2>8. q.good <= Len(q.list)
    BY <2>6, <2>7
  <2>9. scan' = [scan EXCEPT ![a] = q]
    BY <2>3 DEF q
  <2>10. ScanOK' /\ scan'[a] = q /\ Others(a)
    BY <2>6, <2>8, <2>9, ScanUpdate DEF Others
  <2> QED BY <1>1, <1>4, <2>4, <2>6, <2>10 DEF k, f
<1> QED BY <1>3, <1>4, Zenon DEF Compared

LEMMA ProbedIs ==
  ASSUME ScanOK, NEW a \in Scanners, Probed(a)
  PROVE  /\ Alive /\ scan[a].pc = "probe" /\ ScanOK' /\ Others(a)
         /\ UNCHANGED <<pool, binding, worker, board>>
         /\ \/ /\ scan'[a] = Resting /\ lock' = "free" /\ inbox' = inbox \o <<<<"finished">>>>
               /\ UNCHANGED handle
            \/ /\ scan'[a].pc = "switch" /\ handle' = scan[a].pick
               /\ scan'[a].pick = scan[a].pick /\ scan'[a].from = scan[a].from
               /\ scan'[a].seen = scan[a].seen /\ UNCHANGED <<lock, inbox>>
<1>1. Alive /\ scan[a].pc = "probe" /\ UNCHANGED <<pool, binding, worker, board>>
  BY DEF Probed
<1>2. scan[a] \in Record /\ scan \in [Scanners -> Record]
  BY DEF ScanOK
<1>3. CASE Rest(a) /\ Tell(<<<<"finished">>>>) /\ UNCHANGED handle
  BY <1>1, <1>3, RestScan DEF Tell, Others
<1>4. CASE /\ handle' = scan[a].pick /\ UNCHANGED <<lock, inbox>>
           /\ scan' = [scan EXCEPT ![a].pc = "switch"]
  <2> DEFINE p == scan[a].pick
             f == scan[a].from
  <2>1. scan' = [scan EXCEPT ![a] = [scan[a] EXCEPT !.pc = "switch", !.pick = p, !.from = f]]
    BY <1>2, <1>4 DEF Record
  <2>2. p \in Targets \cup {"none"} /\ f \in Targets \cup {"none"}
    BY <1>2 DEF Record
  <2> HIDE DEF p, f
  <2>5. p \in Targets \cup {"none"} /\ f \in Targets \cup {"none"}
    BY <2>2
  <2> DEFINE q == [scan[a] EXCEPT !.pc = "switch", !.pick = p, !.from = f]
  <2>6. /\ q \in Record /\ q.pc = "switch" /\ q.pick = p /\ q.from = f /\ q.seen = scan[a].seen
        /\ q.good = scan[a].good /\ q.list = scan[a].list
    BY <1>2, <2>5 DEF Record
  <2>7. scan[a].good <= Len(scan[a].list)
    BY DEF ScanOK
  <2> HIDE DEF q
  <2>8. q.good <= Len(q.list)
    BY <2>6, <2>7
  <2>9. scan' = [scan EXCEPT ![a] = q]
    BY <2>1 DEF q
  <2>10. ScanOK' /\ scan'[a] = q /\ Others(a)
    BY <2>6, <2>8, <2>9, ScanUpdate DEF Others
  <2> QED BY <1>1, <1>4, <2>6, <2>10 DEF p, f
<1> QED BY <1>3, <1>4, Zenon DEF Probed

LEMMA SwitchedIs ==
  ASSUME ScanOK, NEW a \in Scanners, Switched(a)
  PROVE  /\ scan[a].pc = "switch" /\ lock' = "free"
         /\ ScanOK' /\ scan'[a] = Resting /\ Others(a)
         /\ pool' = <<Member(scan[a].pick)>>
         /\ Hunts(cfg) => inbox' = inbox \o (<<<<"ttl", handle>>>> \o <<<<"finished">>>>)
         /\ ~Hunts(cfg) => inbox' = inbox \o (<<>> \o <<<<"finished">>>>)
         /\ UNCHANGED <<handle, binding, worker, board>>
<1>1. /\ scan[a].pc = "switch" /\ Rest(a) /\ pool' = <<Member(scan[a].pick)>>
      /\ inbox' = inbox \o ((IF Hunts(cfg) THEN <<<<"ttl", handle>>>> ELSE <<>>) \o <<<<"finished">>>>)
      /\ UNCHANGED <<handle, binding, worker, board>>
  BY Zenon DEF Switched, Tell, Hunts
<1>2. lock' = "free" /\ ScanOK' /\ scan'[a] = Resting /\ Others(a)
  BY <1>1, RestScan DEF Others
<1>3. CASE Hunts(cfg)
  BY <1>1, <1>2, <1>3
<1>4. CASE ~Hunts(cfg)
  BY <1>1, <1>2, <1>4
<1> QED BY <1>3, <1>4

LEMMA WakesIs ==
  ASSUME ScanOK, binding \in Nat, NEW manual \in BOOLEAN, WorkerWakes(manual)
  PROVE  /\ Alive /\ worker /\ scan["worker"].pc = "idle" /\ ScanOK' /\ Others("worker")
         /\ UNCHANGED <<pool, handle, binding, worker, lock, board>>
         /\ \/ UNCHANGED scan /\ inbox' = inbox \o <<<<"finished">>>>
            \/ /\ ~(cfg.balanced /\ cfg.pinned) /\ scan'["worker"].pc = "lock" /\ UNCHANGED inbox
<1>1. /\ Alive /\ worker /\ scan["worker"].pc = "idle" /\ Woken("worker", manual)
      /\ UNCHANGED <<pool, handle, binding, worker, lock, board>>
  BY DEF WorkerWakes, poolVars
<1>2. "worker" \in Scanners
  BY DEF Scanners
<1>3. CASE cfg.balanced /\ cfg.pinned
  <2>1. UNCHANGED scan /\ inbox' = inbox \o <<<<"finished">>>>
    BY <1>1, <1>3 DEF Woken, Tell
  <2>2. ScanOK' /\ Others("worker")
    BY <2>1 DEF ScanOK, Others
  <2> QED BY <1>1, <2>1, <2>2
<1>4. CASE ~(cfg.balanced /\ cfg.pinned)
  <2>1. /\ UNCHANGED inbox
        /\ scan' = [scan EXCEPT !["worker"] = [Resting EXCEPT !.pc = "lock", !.manual = manual,
                                                              !.seen = binding]]
    BY <1>1, <1>4 DEF Woken
  <2>2. ScanOK' /\ scan'["worker"].pc = "lock" /\ Others("worker")
    BY <1>2, <2>1, LockScan DEF Others
  <2> QED BY <1>1, <1>4, <2>1, <2>2
<1> QED BY <1>3, <1>4

LEMMA MovesIs ==
  ASSUME ScanOK, binding \in Nat, NetworkMoves
  PROVE  /\ Alive /\ watched /\ scan["recovery"].pc = "idle" /\ ScanOK' /\ Others("recovery")
         /\ binding' = binding + 1
         /\ UNCHANGED <<pool, handle, worker, lock, board, inbox>>
         /\ \/ UNCHANGED scan
            \/ AutoRescan /\ scan'["recovery"].pc = "lock" /\ scan'["recovery"].seen = binding'
<1>1. /\ Alive /\ watched /\ scan["recovery"].pc = "idle" /\ binding' = binding + 1
      /\ UNCHANGED <<pool, handle, worker, lock, board, inbox>>
  BY DEF NetworkMoves
<1>2. "recovery" \in Scanners /\ binding' \in Nat
  BY <1>1 DEF Scanners
<1>3. CASE UNCHANGED scan
  <2>1. ScanOK' /\ Others("recovery")
    BY <1>3 DEF ScanOK, Others
  <2> QED BY <1>1, <1>3, <2>1
<1>4. CASE AutoRescan /\ scan' = [scan EXCEPT !["recovery"] = [Resting EXCEPT !.pc = "lock",
                                                                             !.seen = binding']]
  <2> DEFINE s == binding'
  <2>1. s \in Nat /\ scan' = [scan EXCEPT !["recovery"] = [Resting EXCEPT !.pc = "lock", !.seen = s]]
    BY <1>2, <1>4
  <2> HIDE DEF s
  <2>2. ScanOK' /\ scan'["recovery"].pc = "lock" /\ scan'["recovery"].seen = s /\ Others("recovery")
    BY <1>2, <2>1, LockScanRecovery DEF Others
  <2> QED BY <1>1, <1>4, <2>2 DEF s
<1> QED BY <1>3, <1>4 DEF NetworkMoves

LEMMA EventsAre ==
  /\ <<"started">> \in Events /\ <<"finished">> \in Events
  /\ \A t \in Targets : <<"ttl", t>> \in Events
  /\ \A e \in Events : \/ e = <<"started">> \/ e = <<"finished">>
                       \/ \E t \in Targets : e = <<"ttl", t>>
BY DEF Events

LEMMA EventKinds ==
  ASSUME NEW e \in Events
  PROVE  e[1] \in {"started", "finished", "ttl"} /\ (e[1] = "ttl" => e[2] \in Targets)
<1>1. CASE e = <<"started">>
  BY <1>1
<1>2. CASE e = <<"finished">>
  BY <1>2
<1>3. ASSUME NEW t \in Targets, e = <<"ttl", t>>
      PROVE  e[1] \in {"started", "finished", "ttl"} /\ (e[1] = "ttl" => e[2] \in Targets)
  BY <1>3
<1> QED BY <1>1, <1>2, <1>3, EventsAre

BoardType == [running : BOOLEAN, ttl : {"none"} \cup Targets]

LEMMA DrainIs ==
  ASSUME BoardOK, Drain
  PROVE  /\ phase = "dash" /\ inbox # <<>> /\ inbox' = Tail(inbox) /\ BoardOK'
         /\ board'.ttl = (IF Head(inbox)[1] = "ttl" THEN Head(inbox)[2] ELSE board.ttl)
         /\ Head(inbox) \in Events
         /\ UNCHANGED <<pool, handle, binding, worker, scan, lock>>
<1> DEFINE e == Head(inbox)
<1>1. /\ phase = "dash" /\ inbox # <<>> /\ inbox' = Tail(inbox)
      /\ UNCHANGED <<pool, handle, binding, worker, scan, lock>>
      /\ board' = CASE e[1] = "started"  -> [board EXCEPT !.running = TRUE]
                    [] e[1] = "finished" -> [board EXCEPT !.running = FALSE]
                    [] e[1] = "ttl"      -> [board EXCEPT !.ttl = e[2]]
  BY DEF Drain, poolVars, scanVars
<1>2. inbox \in Seq(Events) /\ board \in BoardType
  BY DEF BoardOK, BoardType
<1>3. e \in Events /\ inbox' \in Seq(Events)
  BY <1>1, <1>2
<1> HIDE DEF e
<1>4. e[1] \in {"started", "finished", "ttl"} /\ (e[1] = "ttl" => e[2] \in Targets)
  BY <1>3, EventKinds
<1>5. board' \in BoardType /\ board'.ttl = (IF e[1] = "ttl" THEN e[2] ELSE board.ttl)
  <2>1. CASE e[1] = "started"
    <3>1. board' = [board EXCEPT !.running = TRUE]
      BY <1>1, <2>1
    <3> QED BY <1>2, <2>1, <3>1 DEF BoardType
  <2>2. CASE e[1] = "finished"
    <3>1. board' = [board EXCEPT !.running = FALSE]
      BY <1>1, <2>2
    <3> QED BY <1>2, <2>2, <3>1 DEF BoardType
  <2>3. CASE e[1] = "ttl"
    <3>1. board' = [board EXCEPT !.ttl = e[2]]
      BY <1>1, <2>3
    <3> QED BY <1>2, <1>4, <2>3, <3>1 DEF BoardType
  <2> QED BY <1>4, <2>1, <2>2, <2>3
<1> QED BY <1>1, <1>3, <1>5 DEF e, BoardOK, BoardType

LEMMA KeyRescanIs ==
  ASSUME BoardOK, KeyRescan
  PROVE  /\ phase = "dash" /\ BoardOK' /\ board'.ttl = board.ttl
         /\ UNCHANGED <<pool, handle, binding, worker, scan, lock, inbox>>
<1>1. /\ phase = "dash" /\ board' = [board EXCEPT !.running = TRUE]
      /\ UNCHANGED <<pool, handle, binding, worker, scan, lock, inbox>>
  BY DEF KeyRescan, poolVars
<1>2. inbox \in Seq(Events) /\ board \in BoardType
  BY DEF BoardOK, BoardType
<1>3. board' \in BoardType /\ board'.ttl = board.ttl
  BY <1>1, <1>2 DEF BoardType
<1> QED BY <1>1, <1>2, <1>3 DEF BoardOK, BoardType

LEMMA Told ==
  ASSUME BoardOK, NEW s \in Seq(Events), inbox' = inbox \o s, board' = board
  PROVE  BoardOK'
<1>1. inbox \in Seq(Events)
  BY DEF BoardOK
<1>2. inbox \o s \in Seq(Events)
  BY <1>1, ConcatProperties
<1> QED BY <1>2 DEF BoardOK

LEMMA OneEvent ==
  ASSUME NEW e \in Events
  PROVE  <<e>> \in Seq(Events)
OBVIOUS

\* The messages stay events, the rescans records.
LEMMA InnerTyped ==
  ASSUME SInv, Inner
  PROVE  ScanOK' /\ BoardOK' /\ binding' \in Nat /\ lock' \in {"free"} \cup Scanners /\ handle' \in Ttls
<1>1. /\ TypeInv /\ ScanOK /\ BoardOK /\ binding \in Nat /\ lock \in {"free"} \cup Scanners
      /\ handle \in Ttls /\ LockInv /\ PoolInv /\ Targets \subseteq Ttls
  BY DEF SInv, TypeInv, SessionTypeOK, Ttls
<1>2. /\ <<<<"started">>>> \in Seq(Events) /\ <<<<"finished">>>> \in Seq(Events)
  BY EventsAre, OneEvent
<1>3. ASSUME UNCHANGED <<inbox, board>> PROVE BoardOK'
  BY <1>1, <1>3 DEF BoardOK
<1>4. ASSUME UNCHANGED scan PROVE ScanOK'
  BY <1>1, <1>4 DEF ScanOK
<1>5. \A a \in Scanners : Alive /\ scan[a].pc # "idle" => Representative.id \in Targets
  BY <1>1, Awake DEF LockInv, ScanFine
<1>6. CASE Drain
  BY <1>1, <1>4, <1>6, DrainIs
<1>7. CASE KeyRescan
  BY <1>1, <1>4, <1>7, KeyRescanIs
<1>8. CASE AnswerSelection
  BY <1>1, <1>3, <1>8, AnswerIs
<1>9. ASSUME NEW manual \in BOOLEAN, WorkerWakes(manual)
      PROVE  ScanOK' /\ BoardOK' /\ binding' \in Nat /\ lock' \in {"free"} \cup Scanners /\ handle' \in Ttls
  <2>1. /\ ScanOK' /\ UNCHANGED <<handle, binding, lock, board>>
        /\ UNCHANGED inbox \/ inbox' = inbox \o <<<<"finished">>>>
    BY <1>1, <1>9, WakesIs
  <2>2. BoardOK'
    BY <1>1, <1>2, <1>3, <2>1, Told
  <2> QED BY <1>1, <2>1, <2>2
<1>10. CASE NetworkMoves
  <2>1. ScanOK' /\ UNCHANGED <<handle, lock, board, inbox>> /\ binding' = binding + 1
    BY <1>1, <1>10, MovesIs
  <2> QED BY <1>1, <1>3, <2>1
<1>11. ASSUME NEW a \in Scanners, ScanStep(a)
       PROVE  ScanOK' /\ BoardOK' /\ binding' \in Nat /\ lock' \in {"free"} \cup Scanners /\ handle' \in Ttls
  <2>1. CASE TakeLock(a)
    <3>1. BoardOK'
      BY <1>1, <1>2, <2>1, TakeLockIs, Told
    <3> QED BY <1>1, <2>1, <3>1, TakeLockIs
  <2>2. CASE ScanFails(a)
    <3>1. BoardOK'
      BY <1>1, <1>2, <2>2, ScanFailsIs, Told
    <3> QED BY <1>1, <2>2, <3>1, ScanFailsIs
  <2>3. CASE Scanned(a)
    BY <1>1, <1>3, <2>3, ScannedIs
  <2>4. CASE PoolRefreshed(a)
    <3>1. /\ ScanOK' /\ lock' = "free" /\ inbox' = inbox \o <<<<"finished">>>>
          /\ UNCHANGED <<handle, binding, board>>
      BY <1>1, <2>4, PoolRefreshedIs
    <3>2. BoardOK'
      BY <1>1, <1>2, <3>1, Told
    <3> QED BY <1>1, <3>1, <3>2
  <2>5. CASE Compared(a)
    <3>1. Representative.id \in Targets
      BY <1>5, <2>5 DEF Compared
    <3>2. /\ ScanOK' /\ lock' \in {"free", lock} /\ UNCHANGED <<handle, binding, board>>
          /\ UNCHANGED inbox \/ inbox' = inbox \o <<<<"finished">>>>
      BY <1>1, <2>5, <3>1, ComparedIs
    <3>3. BoardOK'
      BY <1>1, <1>2, <1>3, <3>2, Told
    <3> QED BY <1>1, <3>2, <3>3
  <2>6. CASE Probed(a)
    <3>1. scan[a].pc = "probe" /\ scan[a].pick \in Targets
      <4>1. scan[a].pc = "probe"
        BY <2>6 DEF Probed
      <4> QED BY <1>1, <4>1 DEF LockInv, ScanFine
    <3>2. /\ ScanOK' /\ lock' \in {"free", lock} /\ UNCHANGED <<binding, board>>
          /\ handle' \in {handle, scan[a].pick}
          /\ UNCHANGED inbox \/ inbox' = inbox \o <<<<"finished">>>>
      BY <1>1, <2>6, ProbedIs
    <3>3. BoardOK'
      BY <1>1, <1>2, <1>3, <3>2, Told
    <3> QED BY <1>1, <3>1, <3>2, <3>3
  <2>7. CASE Switched(a)
    <3>1. /\ ScanOK' /\ lock' = "free" /\ UNCHANGED <<handle, binding, board>>
          /\ scan[a].pc = "switch"
          /\ Hunts(cfg) => inbox' = inbox \o (<<<<"ttl", handle>>>> \o <<<<"finished">>>>)
          /\ ~Hunts(cfg) => inbox' = inbox \o (<<>> \o <<<<"finished">>>>)
      BY <1>1, <2>7, SwitchedIs
    <3>2. Hunts(cfg) => handle \in Targets
      BY <1>1, <3>1 DEF LockInv, ScanFine
    <3>3. CASE Hunts(cfg)
      <4>1. <<<<"ttl", handle>>>> \in Seq(Events)
        BY <3>2, <3>3, EventsAre, OneEvent
      <4>2. <<<<"ttl", handle>>>> \o <<<<"finished">>>> \in Seq(Events)
        BY <1>2, <4>1, ConcatProperties
      <4>3. BoardOK'
        BY <1>1, <3>1, <3>3, <4>2, Told
      <4> QED BY <1>1, <3>1, <4>3
    <3>4. CASE ~Hunts(cfg)
      <4>1. <<>> \o <<<<"finished">>>> \in Seq(Events)
        BY <1>2, ConcatProperties, EmptySeq
      <4>2. BoardOK'
        BY <1>1, <3>1, <3>4, <4>1, Told
      <4> QED BY <1>1, <3>1, <4>2
    <3> QED BY <3>3, <3>4
  <2> QED BY <1>11, <2>1, <2>2, <2>3, <2>4, <2>5, <2>6, <2>7 DEF ScanStep
<1> QED BY <1>6, <1>7, <1>8, <1>9, <1>10, <1>11 DEF Inner

(***************************************************************************)
(* The targets and the TTL of the interceptor.                             *)
(***************************************************************************)
LEMMA ScanAwake ==
  ASSUME SInv, NEW a \in Scanners, scan[a].pc # "idle"
  PROVE  /\ ~Quiet /\ phase \in {"start", "dash", "ended"}
         /\ HasPool => HasTtl /\ Shape(cfg, pool) /\ OwnTtls(cfg, pool)
         /\ Alive => /\ HasPool /\ HasTtl /\ Shape(cfg, pool) /\ OwnTtls(cfg, pool)
                     /\ Representative.id \in Targets
<1>1. TypeInv /\ PoolInv /\ LockInv /\ TodoOK /\ cfg \in Configs /\ ready \in BOOLEAN
  BY DEF SInv, TypeInv, SessionTypeOK
<1>2. ~Quiet
  BY <1>1 DEF LockInv, ScanFine
<1>3. phase \in {"start", "dash", "ended"}
  BY <1>2 DEF Quiet
<1>4. Alive => /\ HasPool /\ HasTtl /\ Shape(cfg, pool) /\ OwnTtls(cfg, pool)
               /\ Representative.id \in Targets
  BY <1>1, <1>2, Awake
<1>5. phase = "ended" /\ HasPool => HasTtl
  BY <1>1, StageOther
<1>6. HasPool => HasTtl /\ Shape(cfg, pool) /\ OwnTtls(cfg, pool)
  BY <1>1, <1>3, <1>4, <1>5 DEF PoolInv, Alive
<1> QED BY <1>2, <1>3, <1>4, <1>6

LEMMA InnerPool ==
  ASSUME SInv, Inner
  PROVE  /\ pool' \in TargetLists
         /\ HasPool => Shape(cfg, pool')
         /\ HasTtl => OwnTtls(cfg, pool')
         /\ HasPool /\ ~HasTtl => pool' = pool
         /\ handle' = handle \/ (HasTtl /\ Hunts(cfg))
<1>1. /\ TypeInv /\ PoolInv /\ LockInv /\ ScanOK /\ BoardOK /\ pool \in TargetLists /\ binding \in Nat
      /\ cfg \in Configs
  BY DEF SInv, TypeInv, SessionTypeOK
<1>2. ASSUME UNCHANGED <<pool, handle>>
      PROVE  /\ pool' \in TargetLists
             /\ HasPool => Shape(cfg, pool')
             /\ HasTtl => OwnTtls(cfg, pool')
             /\ HasPool /\ ~HasTtl => pool' = pool
             /\ handle' = handle \/ (HasTtl /\ Hunts(cfg))
  BY <1>1, <1>2 DEF PoolInv
<1>3. CASE Drain
  BY <1>1, <1>2, <1>3, DrainIs
<1>4. CASE KeyRescan
  BY <1>1, <1>2, <1>4, KeyRescanIs
<1>5. CASE AnswerSelection
  BY <1>1, <1>2, <1>5, AnswerIs
<1>6. CASE WorkerWakes(TRUE) \/ WorkerWakes(FALSE)
  <2>1. UNCHANGED <<pool, handle>>
    BY <1>6 DEF WorkerWakes, poolVars
  <2> QED BY <1>2, <2>1
<1>7. CASE NetworkMoves
  BY <1>1, <1>2, <1>7, MovesIs
<1>8. ASSUME NEW a \in Scanners, ScanStep(a)
      PROVE  /\ pool' \in TargetLists
             /\ HasPool => Shape(cfg, pool')
             /\ HasTtl => OwnTtls(cfg, pool')
             /\ HasPool /\ ~HasTtl => pool' = pool
             /\ handle' = handle \/ (HasTtl /\ Hunts(cfg))
  <2>1. CASE TakeLock(a)
    BY <1>1, <1>2, <2>1, TakeLockIs
  <2>2. CASE ScanFails(a)
    BY <1>1, <1>2, <2>2, ScanFailsIs
  <2>3. CASE Scanned(a)
    BY <1>1, <1>2, <2>3, ScannedIs
  <2>4. CASE Compared(a)
    <3>1. UNCHANGED <<pool, handle>>
      BY <2>4 DEF Compared, poolVars
    <3> QED BY <1>2, <3>1
  <2>5. CASE PoolRefreshed(a)
    <3>1. /\ Alive /\ scan[a].pc = "pool" /\ UNCHANGED handle
      BY <1>1, <2>5, PoolRefreshedIs
    <3>2. PICK found : LET next == IF cfg.mode = "sni" THEN SniNext(a, found) ELSE IpNext(a)
                       IN  pool' = IF next = <<>> THEN pool ELSE next
      BY <1>1, <2>5, PoolRefreshedIs
    <3>3. /\ HasPool /\ HasTtl /\ Shape(cfg, pool) /\ OwnTtls(cfg, pool)
          /\ cfg.balanced /\ ~cfg.pinned
      BY <1>1, <3>1, ScanAwake DEF LockInv, ScanFine
    <3> DEFINE next == IF cfg.mode = "sni" THEN SniNext(a, found) ELSE IpNext(a)
    <3>4. next \in TargetLists /\ (next # <<>> => Shape(cfg, next)) /\ OwnTtls(cfg, next)
      BY <1>1, <3>3, PoolNext
    <3>5. pool' = IF next = <<>> THEN pool ELSE next
      BY <3>2
    <3> HIDE DEF next
    <3> QED BY <1>1, <3>1, <3>3, <3>4, <3>5
  <2>6. CASE Probed(a)
    <3>1. scan[a].pc = "probe" /\ Alive /\ UNCHANGED pool
      BY <1>1, <2>6, ProbedIs
    <3>2. HasPool /\ HasTtl /\ Shape(cfg, pool) /\ OwnTtls(cfg, pool) /\ Hunts(cfg)
      BY <1>1, <3>1, ScanAwake DEF LockInv, ScanFine
    <3> QED BY <1>1, <3>1, <3>2
  <2>7. CASE Switched(a)
    <3>1. scan[a].pc = "switch" /\ pool' = <<Member(scan[a].pick)>> /\ UNCHANGED handle
      BY <1>1, <2>7, SwitchedIs
    <3>2. scan[a].pick \in Targets /\ ~cfg.balanced
      BY <1>1, <3>1 DEF LockInv, ScanFine
    <3>3. /\ pool' \in TargetLists /\ Shape(cfg, pool')
          /\ \A i \in DOMAIN pool' : pool'[i].ttl = "none"
      BY <1>1, <3>1, <3>2, OneIsShaped
    <3>4. OwnTtls(cfg, pool')
      BY <3>2, <3>3 DEF OwnTtls
    <3>5. HasPool => HasTtl
      BY <3>1, ScanAwake
    <3> QED BY <3>1, <3>3, <3>4, <3>5
  <2> QED BY <1>8, <2>1, <2>2, <2>3, <2>4, <2>5, <2>6, <2>7 DEF ScanStep
<1> QED BY <1>3, <1>4, <1>5, <1>6, <1>7, <1>8 DEF Inner

\* The steps of the start-up, and what they need of the generation before.
LEMMA Restarted ==
  ASSUME SInv, phase = "start", restoring
  PROVE  /\ lastGood # NoBackup /\ cfg = lastGood.config /\ Kept(lastGood, ended)
         /\ Shape(cfg, lastGood.targets) /\ OwnTtls(cfg, lastGood.targets)
         /\ ~HasPool => restore = lastGood.targets /\ restore # NoTargets
         /\ HasPool /\ Quiet => pool = lastGood.targets
<1>1. BackupInv /\ ~Closing
  BY DEF SInv, Closing
<1>2. lastGood # NoBackup /\ cfg = lastGood.config /\ Kept(lastGood, ended)
  BY <1>1 DEF BackupInv
<1>3. Shape(cfg, lastGood.targets) /\ OwnTtls(cfg, lastGood.targets)
  BY <1>2 DEF Kept
<1>4. lastGood.targets # NoTargets
  BY <1>3 DEF Shape, NoTargets
<1> QED BY <1>1, <1>2, <1>3, <1>4 DEF BackupInv

LEMMA PoolRestoredIs ==
  ASSUME SInv, PoolRestored
  PROVE  /\ restoring /\ pool' = restore /\ restore = lastGood.targets /\ pool' \in TargetLists
         /\ Shape(cfg, pool') /\ OwnTtls(cfg, pool') /\ handle' = "config" /\ UNCHANGED inbox
         /\ handle = "config" /\ phase = "start" /\ ~HasPool /\ At("pool")
<1>1. /\ phase = "start" /\ At("pool") /\ restore # NoTargets /\ pool' = restore
      /\ UNCHANGED <<handle, inbox>>
  BY DEF PoolRestored, At, boardVars
<1>2. TodoOK /\ cfg \in Configs /\ restore \in TargetLists /\ BackupInv /\ PoolInv /\ restoring \in BOOLEAN
  BY DEF SInv, TypeInv, SessionTypeOK
<1>3. ~HasPool
  BY <1>1, <1>2, StageStart
<1>4. restoring /\ handle = "config"
  BY <1>1, <1>2, <1>3 DEF BackupInv, PoolInv
<1>5. restore = lastGood.targets /\ Shape(cfg, restore) /\ OwnTtls(cfg, restore)
  BY <1>1, <1>3, <1>4, Restarted
<1> QED BY <1>1, <1>2, <1>3, <1>4, <1>5

LEMMA PoolChosenAt ==
  ASSUME SInv, PoolChosen
  PROVE  /\ ~restoring /\ restore = NoTargets /\ restore' = NoTargets /\ pool' \in TargetLists
         /\ Shape(cfg, pool') /\ \A i \in DOMAIN pool' : pool'[i].ttl = "none"
         /\ handle' = "config" /\ handle = "config" /\ UNCHANGED inbox /\ phase = "start"
         /\ ~HasPool /\ At("pool")
<1>1. /\ phase = "start" /\ At("pool") /\ restore = NoTargets /\ UNCHANGED <<restore, handle, inbox>>
  BY DEF PoolChosen, At, boardVars
<1>2. TodoOK /\ cfg \in Configs /\ BackupInv /\ PoolInv /\ restoring \in BOOLEAN
  BY DEF SInv, TypeInv, SessionTypeOK
<1>3. ~HasPool
  BY <1>1, <1>2, StageStart
<1>4. ~restoring /\ handle = "config"
  BY <1>1, <1>2, <1>3, Restarted DEF PoolInv
<1> QED BY <1>1, <1>2, <1>3, <1>4, PoolChosenIs

\* Before the TTL step.
LEMMA BeforeTtl ==
  ASSUME SInv, At("ttl")
  PROVE  /\ phase = "start" /\ HasPool /\ ~HasTtl /\ Quiet /\ cfg.mode = "sni" /\ Shape(cfg, pool)
         /\ handle = "config"
         /\ ~restoring => \A i \in DOMAIN pool : pool[i].ttl = "none"
         /\ restoring => pool = lastGood.targets /\ OwnTtls(cfg, pool)
         /\ Representative.id \in Targets /\ Representative.ttl \in Ttls /\ 1 \in DOMAIN pool
<1>1. TodoOK /\ cfg \in Configs /\ PoolInv /\ pool \in TargetLists /\ phase = "start"
  BY DEF SInv, TypeInv, SessionTypeOK, At
<1>2. HasPool /\ ~HasTtl /\ Quiet /\ cfg.mode = "sni"
  <2>1. \A s, t \in StepNames : At(s) /\ At(t) => s = t
    BY <1>1, StageStart
  <2>2. ~At("pool") /\ "ttl" \in StepNames
    BY <2>1 DEF StepNames
  <2> QED BY <1>1, <2>2, StageStart
<1>3. /\ Shape(cfg, pool) /\ handle = "config"
      /\ ~restoring => \A i \in DOMAIN pool : pool[i].ttl = "none"
  BY <1>1, <1>2 DEF PoolInv
<1>4. restoring => pool = lastGood.targets /\ OwnTtls(cfg, pool)
  BY <1>1, <1>2, Restarted
<1>5. Representative.id \in Targets /\ Representative.ttl \in Ttls /\ 1 \in DOMAIN pool
  BY <1>1, <1>3, ShapedList DEF Representative
<1> QED BY <1>1, <1>2, <1>3, <1>4, <1>5

LEMMA TtlRestoredIs ==
  ASSUME SInv, TtlRestored
  PROVE  /\ At("ttl") /\ restoring /\ UNCHANGED <<pool, inbox, restore>>
         /\ handle' = IF cfg.plane # "none" /\ Representative.ttl # "none"
                      THEN Representative.ttl ELSE "config"
<1>1. At("ttl") /\ restoring /\ UNCHANGED <<pool, inbox, restore>>
  BY DEF TtlRestored, boardVars
<1>2. handle = "config"
  BY <1>1, BeforeTtl
<1> QED BY <1>1, <1>2 DEF TtlRestored

LEMMA TtlDiscoveredIs ==
  ASSUME SInv, TtlDiscovered
  PROVE  /\ At("ttl") /\ ~restoring /\ UNCHANGED restore /\ pool' \in TargetLists
         /\ Shape(cfg, pool') /\ OwnTtls(cfg, pool') /\ handle' \in Ttls
         /\ \/ UNCHANGED <<handle, inbox>>
            \/ /\ Hunts(cfg) /\ ~cfg.balanced /\ UNCHANGED pool /\ handle' = Representative.id
               /\ inbox' = Append(inbox, <<"ttl", handle'>>)
         /\ ~cfg.balanced => UNCHANGED pool
<1>1. At("ttl") /\ ~restoring /\ UNCHANGED restore
  BY DEF TtlDiscovered
<1>2. /\ cfg.mode = "sni" /\ Shape(cfg, pool) /\ handle = "config" /\ Representative.id \in Targets
      /\ \A i \in DOMAIN pool : pool[i].ttl = "none"
  BY <1>1, BeforeTtl
<1>3. cfg \in Configs /\ pool \in TargetLists /\ handle \in Ttls /\ Targets \subseteq Ttls
  BY DEF SInv, TypeInv, SessionTypeOK, Ttls
<1>4. PICK found \in SUBSET Targets :
        IF cfg.discover /\ cfg.balanced
        THEN pool' = Admitted(pool, <<>>, "config", found) /\ UNCHANGED <<handle, inbox>>
        ELSE IF cfg.discover /\ Representative.id \in found
        THEN handle' = Representative.id /\ inbox' = Append(inbox, <<"ttl", handle'>>)
             /\ UNCHANGED pool
        ELSE UNCHANGED <<pool, handle, inbox>>
  BY DEF TtlDiscovered
<1>5. CASE cfg.discover /\ cfg.balanced
  <2>1. pool' = Admitted(pool, <<>>, "config", found) /\ UNCHANGED <<handle, inbox>>
    BY <1>4, <1>5
  <2>2. pool' \in TargetLists /\ Shape(cfg, pool') /\ OwnTtls(cfg, pool')
    BY <1>2, <1>3, <1>5, <2>1, TtlsFound DEF Hunts
  <2> QED BY <1>1, <1>3, <1>5, <2>1, <2>2
<1>6. CASE ~(cfg.discover /\ cfg.balanced)
  <2>1. OwnTtls(cfg, pool)
    BY <1>2, <1>6 DEF OwnTtls, Hunts
  <2>2. CASE cfg.discover /\ Representative.id \in found
    <3>1. handle' = Representative.id /\ inbox' = Append(inbox, <<"ttl", handle'>>) /\ UNCHANGED pool
      BY <1>4, <1>6, <2>2
    <3> QED BY <1>1, <1>2, <1>3, <1>6, <2>1, <2>2, <3>1 DEF Hunts
  <2>3. CASE ~(cfg.discover /\ Representative.id \in found)
    <3>1. UNCHANGED <<pool, handle, inbox>>
      BY <1>4, <1>6, <2>3
    <3> QED BY <1>1, <1>2, <1>3, <2>1, <3>1
  <2> QED BY <2>2, <2>3
<1> QED BY <1>5, <1>6

LEMMA PoolStep ==
  ASSUME SInv, Next
  PROVE  PoolInv' /\ pool' \in TargetLists /\ handle' \in Ttls
<1>1. /\ TypeInv /\ PoolInv /\ LockInv /\ PendingInv /\ BackupInv /\ SoleInv
      /\ TodoOK /\ pool \in TargetLists /\ cfg \in Configs /\ handle \in Ttls
      /\ restoring \in BOOLEAN /\ ready \in BOOLEAN /\ "config" \in Ttls
      /\ phase = "start" => ready = FALSE
  BY DEF SInv, TypeInv, SessionTypeOK, PendingInv, Ttls
<1>2. CASE Inner
  <2>1. UNCHANGED <<cfg, todo, phase, ready, restoring>>
    BY <1>2, InnerKeeps
  <2>2. HasPool' = HasPool /\ HasTtl' = HasTtl
    BY <2>1, StageStill
  <2>3. /\ pool' \in TargetLists
        /\ HasPool => Shape(cfg, pool')
        /\ HasTtl => OwnTtls(cfg, pool')
        /\ HasPool /\ ~HasTtl => pool' = pool
        /\ handle' = handle \/ (HasTtl /\ Hunts(cfg))
    BY <1>2, InnerPool
  <2>4. handle' \in Ttls
    BY <1>2, InnerTyped
  <2>5. HasTtl => HasPool
    BY DEF HasTtl
  <2> QED BY <1>1, <2>1, <2>2, <2>3, <2>4, <2>5 DEF PoolInv
<1>3. CASE Forward
  <2>1. /\ phase = "start" /\ ~At("listen") /\ todo' = Tail(todo) /\ phase' = "start"
        /\ UNCHANGED <<cfg, phase, ready, restoring, lastGood>>
    BY <1>3, ForwardKeeps
  <2>2. /\ HasPool' /\ (HasTtl' <=> HasTtl \/ At("ttl") \/ (At("pool") /\ cfg.mode # "sni"))
    BY <1>1, <2>1, StageAdvance
  <2>3. HasPool <=> ~At("pool")
    BY <1>1, <2>1, StageStart
  <2>4. CASE PoolRestored
    <3>1. /\ pool' \in TargetLists /\ Shape(cfg, pool') /\ OwnTtls(cfg, pool') /\ handle' = "config"
          /\ restoring
      BY <2>4, PoolRestoredIs
    <3> QED BY <1>1, <2>1, <2>2, <3>1 DEF PoolInv
  <2>5. CASE PoolChosen
    <3>1. /\ pool' \in TargetLists /\ Shape(cfg, pool') /\ handle' = "config" /\ At("pool") /\ ~HasPool
          /\ \A i \in DOMAIN pool' : pool'[i].ttl = "none"
      BY <2>5, PoolChosenAt
    <3>2. ~HasTtl /\ ~At("ttl")
      <4>1. ~HasTtl
        BY <3>1 DEF HasTtl
      <4>2. ~At("ttl")
        BY <3>1 DEF At
      <4> QED BY <4>1, <4>2
    <3>3. HasTtl' => OwnTtls(cfg, pool')
      BY <2>2, <3>1, <3>2 DEF OwnTtls, Hunts
    <3> QED BY <1>1, <2>1, <2>2, <3>1, <3>3 DEF PoolInv
  <2>6. CASE PlaneOpens
    <3>1. UNCHANGED pool /\ handle' = "config" /\ At("plane")
      BY <2>6 DEF PlaneOpens
    <3>2. HasPool /\ ~At("pool") /\ ~At("ttl")
      BY <2>3, <3>1 DEF At
    <3> QED BY <1>1, <2>1, <2>2, <3>1, <3>2 DEF PoolInv
  <2>7. CASE TtlRestored
    <3>1. /\ At("ttl") /\ UNCHANGED pool /\ restoring
          /\ handle' = IF cfg.plane # "none" /\ Representative.ttl # "none"
                       THEN Representative.ttl ELSE "config"
      BY <2>7, TtlRestoredIs
    <3>2. /\ Shape(cfg, pool) /\ OwnTtls(cfg, pool) /\ Representative.ttl \in Ttls /\ 1 \in DOMAIN pool
      BY <3>1, BeforeTtl
    <3>3. ~Hunts(cfg) => Representative.ttl = "none"
      BY <3>2 DEF OwnTtls, Representative
    <3>4. handle' \in Ttls /\ (~Hunts(cfg) => handle' = "config")
      BY <1>1, <3>1, <3>2, <3>3
    <3> QED BY <1>1, <2>1, <2>2, <3>1, <3>2, <3>4 DEF PoolInv
  <2>8. CASE TtlDiscovered
    <3>1. /\ At("ttl") /\ pool' \in TargetLists
          /\ Shape(cfg, pool') /\ OwnTtls(cfg, pool') /\ handle' \in Ttls
          /\ handle' = handle \/ Hunts(cfg)
      BY <2>8, TtlDiscoveredIs
    <3>2. handle = "config"
      BY <3>1, BeforeTtl
    <3> QED BY <1>1, <2>1, <2>2, <3>1, <3>2 DEF PoolInv
  <2>9. CASE WorkerSpawned \/ MonitorStarted
    <3>1. UNCHANGED <<pool, handle>> /\ (At("worker") \/ At("monitor"))
      BY <2>9 DEF WorkerSpawned, MonitorStarted, poolVars
    <3>2. HasPool /\ ~At("pool") /\ ~At("ttl")
      BY <2>3, <3>1 DEF At
    <3> QED BY <1>1, <2>1, <2>2, <3>1, <3>2 DEF PoolInv
  <2> QED BY <1>3, <2>4, <2>5, <2>6, <2>7, <2>8, <2>9 DEF Forward
<1>4. CASE Falls
  <2>1. phase = "start" /\ phase' = "ended" /\ UNCHANGED <<ready, pool, handle>>
    BY <1>4, FallsKeeps
  <2>2. ~HasPool' /\ ~HasTtl'
    BY <1>1, <2>1, StageOtherNext
  <2> QED BY <1>1, <2>1, <2>2 DEF PoolInv
<1>5. CASE ListenerReady
  <2>1. At("listen") /\ phase = "start" /\ phase' = "dash" /\ UNCHANGED <<pool, handle, cfg>>
    BY <1>5 DEF ListenerReady, At, poolVars
  <2>2. ~At("pool") /\ ~At("plane") /\ ~At("ttl")
    BY <2>1 DEF At
  <2>3. HasPool /\ HasTtl /\ HasPool' /\ HasTtl'
    BY <1>1, <2>1, <2>2, StageStart, StageOtherNext
  <2> QED BY <1>1, <2>1, <2>3 DEF PoolInv
<1>6. CASE DashboardEnds \/ (\E next \in Configs : KeyReload(next))
  <2>1. phase = "dash" /\ phase' = "ended" /\ UNCHANGED <<ready, pool, handle, cfg>>
    BY <1>6 DEF DashboardEnds, KeyReload, poolVars
  <2>2. ready' /\ HasPool /\ HasTtl
    BY <1>1, <2>1, StageOther DEF PendingInv
  <2>3. HasPool' /\ HasTtl'
    BY <2>1, <2>2, StageOtherNext
  <2> QED BY <1>1, <2>1, <2>2, <2>3 DEF PoolInv
<1>7. CASE GenerationEnds
  <2>1. phase' = "close" /\ pool' = <<>> /\ handle' = "config"
    BY <1>7 DEF GenerationEnds
  <2>2. ~HasPool' /\ ~HasTtl'
    BY <2>1, StageOtherNext
  <2> QED BY <1>1, <2>1, <2>2, NoList DEF PoolInv
<1>8. CASE CloseGeneration \/ CleanupScreen \/ Leaves \/ Stops \/ Finish
  <2>1. phase' \in {"decide", "cleanup", "close", "final", "stopped", "exit"} /\ UNCHANGED <<pool, handle>>
    BY <1>8, LeavesKeep, StopsKeep DEF CloseGeneration, CleanupScreen, Finish, poolVars
  <2>2. ~HasPool' /\ ~HasTtl'
    BY <2>1, StageOtherNext
  <2> QED BY <1>1, <2>1, <2>2 DEF PoolInv
<1>9. CASE Launches
  <2>1. /\ phase \in {"decide", "stopped"} /\ phase' = "start" /\ UNCHANGED <<pool, handle>>
        /\ cfg' \in Configs /\ todo' = Steps(cfg'.mode) /\ ready' = FALSE
    BY <1>1, <1>9, LaunchesKeep
  <2>2. ~HasPool' /\ ~HasTtl'
    BY <2>1, StageBegin
  <2>3. handle = "config"
    BY <1>1, <2>1 DEF SoleInv
  <2> QED BY <1>1, <2>1, <2>2, <2>3 DEF PoolInv
<1> QED BY <1>2, <1>3, <1>4, <1>5, <1>6, <1>7, <1>8, <1>9, NextIs DEF Steps9

(***************************************************************************)
(* The types are kept.                                                     *)
(***************************************************************************)
\* Backup: the targets stay, the TTL of one target may be filled in.
LEMMA BackupIs ==
  ASSUME cfg \in Configs, pool \in TargetLists, discovered \in Ttls, Shape(cfg, pool)
  PROVE  /\ Backup.config = cfg /\ Backup.targets \in TargetLists
         /\ Backup \in [config : Configs \cup {NoConfig}, targets : TargetLists]
         /\ Ids(Backup.targets) = Ids(pool) /\ Shape(cfg, Backup.targets)
         /\ cfg.balanced \/ discovered = "none" => Backup.targets = pool
         /\ ~cfg.balanced /\ discovered # "none" =>
              /\ DOMAIN Backup.targets = {1} /\ Backup.targets[1].id = pool[1].id
              /\ Backup.targets[1].ttl = discovered
<1> DEFINE q == [pool EXCEPT ![1].ttl = discovered]
           t == IF cfg.balanced \/ pool = <<>> \/ discovered = "none" THEN pool ELSE q
<1>1. Backup.config = cfg /\ Backup.targets = t /\ Backup = [config |-> cfg, targets |-> t]
  BY DEF Backup
<1>2. pool # <<>> /\ Len(pool) \in 0..ListSize /\ pool \in [1..Len(pool) -> Entry]
  BY Lists DEF Shape
<1>3. /\ 1 \in DOMAIN pool /\ pool[1] \in Entry /\ DOMAIN pool = 1..Len(pool)
      /\ ~cfg.balanced => DOMAIN pool = {1}
  BY ShapedList
<1>4. /\ q \in [1..Len(pool) -> Entry] /\ q[1].id = pool[1].id /\ q[1].ttl = discovered
      /\ DOMAIN q = DOMAIN pool
  BY <1>2, <1>3 DEF Entry
<1>5. ~cfg.balanced => Ids(q) = Ids(pool)
  <2> SUFFICES ASSUME ~cfg.balanced PROVE Ids(q) = Ids(pool)
    OBVIOUS
  <2>1. DOMAIN q = {1} /\ DOMAIN pool = {1}
    BY <1>3, <1>4
  <2> HIDE DEF q
  <2> QED BY <1>4, <2>1 DEF Ids
<1>6. q \in TargetLists /\ Len(q) = Len(pool)
  <2> HIDE DEF q
  <2> QED BY <1>2, <1>4, ListOf
<1>7. ~cfg.balanced => Shape(cfg, q)
  <2> SUFFICES ASSUME ~cfg.balanced PROVE Shape(cfg, q)
    OBVIOUS
  <2>1. q # <<>>
    <3>1. DOMAIN q # {}
      BY <1>3, <1>4
    <3> HIDE DEF q
    <3> QED BY <3>1, NoList
  <2> HIDE DEF q
  <2> QED BY <1>6, <2>1 DEF Shape
<1> HIDE DEF q
<1>8. t = IF cfg.balanced \/ discovered = "none" THEN pool ELSE q
  BY <1>2
<1> HIDE DEF t
<1>9. t \in TargetLists /\ Ids(t) = Ids(pool) /\ Shape(cfg, t)
  BY <1>5, <1>6, <1>7, <1>8
<1>10. Backup \in [config : Configs \cup {NoConfig}, targets : TargetLists]
  BY <1>1, <1>9
<1> QED BY <1>1, <1>3, <1>4, <1>8, <1>9, <1>10

LastType == [config : Configs \cup {NoConfig}, targets : TargetLists]

LEMMA LastTyped ==
  ASSUME NEW b \in LastType
  PROVE  b.config \in Configs \cup {NoConfig} /\ b.targets \in TargetLists
BY DEF LastType

LEMMA TypeStep ==
  ASSUME SInv, Next
  PROVE  TypeInv'
<1>1. /\ TypeInv /\ PoolInv /\ LockInv /\ PendingInv /\ BackupInv /\ TapInv /\ SessionTypeOK
      /\ TodoOK /\ ScanOK /\ BoardOK /\ lastGood \in LastType /\ restoring \in BOOLEAN
  BY DEF SInv, TypeInv, LastType
<1>2. /\ cfg \in Configs /\ phase \in Phases /\ result \in {"none", "ok", "err"}
      /\ pending \in Configs \cup {NoConfig} /\ ready \in BOOLEAN /\ discovered \in Ttls
      /\ restore \in TargetLists /\ plane \in {"none", "local", "remote"} /\ taps \in 0..1
      /\ binding \in Nat /\ lock \in {"free"} \cup Scanners /\ pool \in TargetLists
      /\ lastGood.targets \in TargetLists
  BY <1>1 DEF SessionTypeOK
<1>3. pool' \in TargetLists /\ handle' \in Ttls
  BY PoolStep
<1>4. NoTargets \in TargetLists /\ "none" \in Ttls
  BY NoList DEF NoTargets, Ttls
<1> DEFINE M == /\ cfg' \in Configs /\ phase' \in Phases /\ result' \in {"none", "ok", "err"}
                /\ pending' \in Configs \cup {NoConfig} /\ ready' \in BOOLEAN /\ discovered' \in Ttls
                /\ restore' \in TargetLists /\ lastGood' \in LastType /\ restoring' \in BOOLEAN
           O == plane' \in {"none", "local", "remote"} /\ taps' \in 0..1
           S == binding' \in Nat /\ lock' \in {"free"} \cup Scanners /\ ScanOK' /\ BoardOK'
<1>5. ASSUME M, O, S, TodoOK' PROVE TypeInv'
  <2>1. lastGood.config' \in Configs \cup {NoConfig} /\ lastGood.targets' \in TargetLists
    BY <1>5, LastTyped
  <2>2. SessionTypeOK'
    BY <1>3, <1>5, <2>1 DEF SessionTypeOK
  <2> QED BY <1>5, <2>2 DEF TypeInv, LastType
<1>6. ASSUME UNCHANGED <<binding, lock, scan, inbox, board>> PROVE S
  BY <1>1, <1>2, <1>6 DEF ScanOK, BoardOK
<1>7. ASSUME UNCHANGED <<plane, taps>> PROVE O
  BY <1>2, <1>7
<1>8. CASE Inner
  <2>1. UNCHANGED <<cfg, todo, phase, result, pending, ready, discovered, restore, lastGood,
                    restoring, plane, taps>>
    BY <1>8, InnerKeeps
  <2>2. TodoOK'
    BY <1>1, <2>1, StageStill
  <2>3. S
    BY <1>8, InnerTyped
  <2>4. M
    BY <1>1, <1>2, <2>1
  <2>5. O
    BY <1>7, <2>1
  <2> QED BY <1>5, <2>2, <2>3, <2>4, <2>5
<1>9. CASE Forward
  <2>1. /\ phase = "start" /\ ~At("listen") /\ todo' = Tail(todo)
        /\ UNCHANGED <<cfg, phase, result, pending, ready, discovered, lastGood, restoring, binding,
                        scan, lock, board>>
    BY <1>9, ForwardKeeps
  <2>2. ready = FALSE
    BY <1>1, <1>2, <2>1 DEF PendingInv
  <2>3. TodoOK'
    BY <1>1, <1>2, <2>1, <2>2, StageAdvance
  <2>4. restore' \in {restore, NoTargets}
    BY <1>9 DEF Forward, PoolRestored, PoolChosen, PlaneOpens, TtlRestored, TtlDiscovered,
                WorkerSpawned, MonitorStarted
  <2>5. M
    BY <1>1, <1>2, <1>4, <2>1, <2>4
  <2>6. O
    <3>1. CASE PlaneOpens
      <4>1. At("plane") /\ (IF cfg.plane = "none" THEN UNCHANGED <<plane, taps>>
                            ELSE plane' = cfg.plane /\ taps' = taps + 1)
        BY <3>1 DEF PlaneOpens
      <4>2. plane = "none"
        BY <1>1, <1>2, <2>1, <4>1, StageStart DEF TapInv
      <4>3. taps = 0
        BY <1>1, <1>2, <4>2 DEF TapInv
      <4> QED BY <1>2, <4>1, <4>3, ConfigTyped
    <3>2. CASE ~PlaneOpens
      BY <1>7, <1>9, <3>2, ForwardTaps
    <3> QED BY <3>1, <3>2
  <2>7. inbox' \in Seq(Events)
    <3>1. inbox \in Seq(Events)
      BY <1>1 DEF BoardOK
    <3>2. CASE TtlDiscovered
      <4>1. \/ UNCHANGED inbox
            \/ handle' = Representative.id /\ inbox' = Append(inbox, <<"ttl", handle'>>)
        BY <3>2, TtlDiscoveredIs
      <4>2. Representative.id \in Targets
        BY <3>2, TtlDiscoveredIs, BeforeTtl
      <4>3. <<"ttl", Representative.id>> \in Events
        BY <4>2, EventsAre
      <4>4. Append(inbox, <<"ttl", Representative.id>>) \in Seq(Events)
        BY <3>1, <4>3, AppendProperties
      <4> QED BY <3>1, <4>1, <4>4
    <3>3. CASE ~TtlDiscovered
      <4>1. UNCHANGED inbox
        BY <1>9, <3>3 DEF Forward, PoolRestored, PoolChosen, PlaneOpens, TtlRestored,
                WorkerSpawned, MonitorStarted, boardVars
      <4> QED BY <3>1, <4>1
    <3> QED BY <3>2, <3>3
  <2>8. S
    BY <1>1, <1>2, <2>1, <2>7 DEF ScanOK, BoardOK
  <2> QED BY <1>5, <2>3, <2>5, <2>6, <2>8
<1>10. CASE Falls
  <2>1. /\ phase' = "ended" /\ result' = "err"
        /\ UNCHANGED <<cfg, todo, pending, ready, discovered, lastGood, restoring,
                       binding, scan, lock, board, inbox>>
    BY <1>10, FallsKeeps
  <2>2. TodoOK'
    BY <2>1, StageOtherNext
  <2>3. restore' \in {restore, NoTargets}
    BY <1>10 DEF Falls, RemotePlaneFails, StepFails
  <2>4. M
    BY <1>1, <1>2, <1>4, <2>1, <2>3 DEF Phases
  <2>5. S
    BY <1>6, <2>1
  <2>6. O
    <3>1. CASE RemotePlaneFails
      <4>1. At("plane") /\ phase = "start" /\ plane' = "remote" /\ taps' \in {taps, taps + 1}
        BY <3>1 DEF RemotePlaneFails, At
      <4>2. plane = "none"
        BY <1>1, <1>2, <4>1, StageStart DEF TapInv
      <4>3. taps = 0
        BY <1>1, <1>2, <4>2 DEF TapInv
      <4> QED BY <4>1, <4>3
    <3>2. CASE StepFails
      BY <1>7, <3>2 DEF StepFails, ownVars
    <3> QED BY <1>10, <3>1, <3>2 DEF Falls
  <2> QED BY <1>5, <2>2, <2>4, <2>5, <2>6
<1>11. CASE ListenerReady
  <2>1. /\ phase' = "dash" /\ ready' = TRUE /\ board' = NewBoard
        /\ UNCHANGED <<cfg, result, pending, discovered, restore, lastGood, restoring, plane, taps,
                       binding, scan, lock, inbox>>
    BY <1>11 DEF ListenerReady, ownVars, poolVars, scanVars
  <2>2. TodoOK'
    BY <2>1, StageOtherNext
  <2>3. M
    BY <1>1, <1>2, <2>1 DEF Phases
  <2>4. O
    BY <1>7, <2>1
  <2>5. S
    BY <1>1, <1>2, <2>1 DEF ScanOK, BoardOK, NewBoard
  <2> QED BY <1>5, <2>2, <2>3, <2>4, <2>5
<1>12. CASE DashboardEnds
  <2>1. /\ phase' = "ended" /\ result' \in {"ok", "err"}
        /\ UNCHANGED <<cfg, pending, ready, discovered, restore, lastGood, restoring, plane, taps,
                       binding, scan, lock, inbox, board>>
    BY <1>12 DEF DashboardEnds, ownVars, poolVars, scanVars, boardVars
  <2>2. TodoOK'
    BY <2>1, StageOtherNext
  <2>3. M
    BY <1>1, <1>2, <2>1 DEF Phases
  <2> QED BY <1>5, <1>6, <1>7, <2>1, <2>2, <2>3
<1>13. ASSUME NEW next \in Configs, KeyReload(next) PROVE TypeInv'
  <2>1. /\ phase' = "ended" /\ result' = "ok" /\ pending' = next /\ discovered' = board.ttl
        /\ UNCHANGED <<cfg, ready, restore, lastGood, restoring, plane, taps,
                       binding, scan, lock, inbox, board>>
    BY <1>13 DEF KeyReload, ownVars, poolVars, scanVars, boardVars
  <2>2. TodoOK'
    BY <2>1, StageOtherNext
  <2>3. board.ttl \in Ttls
    BY <1>1 DEF BoardOK, Ttls
  <2>4. M
    BY <1>1, <1>2, <2>1, <2>3 DEF Phases
  <2> QED BY <1>5, <1>6, <1>7, <2>1, <2>2, <2>4
<1>14. CASE GenerationEnds
  <2>1. /\ phase = "ended" /\ phase' = "close" /\ discovered' = "none" /\ lock' = "free"
        /\ scan' = [a \in Scanners |-> Resting] /\ inbox' = <<>> /\ board' = NewBoard
        /\ UNCHANGED <<cfg, result, pending, ready, restore, restoring, plane, taps, binding>>
        /\ IF ready THEN lastGood' = Backup ELSE UNCHANGED lastGood
    BY <1>14 DEF GenerationEnds, ownVars
  <2>2. TodoOK'
    BY <2>1, StageOtherNext
  <2>3. lastGood' \in LastType
    <3>1. CASE ready
      <4>1. Shape(cfg, pool)
        BY <1>1, <2>1, <3>1, StageOther DEF PoolInv
      <4> QED BY <1>2, <2>1, <3>1, <4>1, BackupIs DEF LastType
    <3>2. CASE ~ready
      BY <1>1, <2>1, <3>2
    <3> QED BY <3>1, <3>2
  <2>4. M
    BY <1>1, <1>2, <1>4, <2>1, <2>3 DEF Phases
  <2>5. ScanOK'
    BY <2>1, RestingTyped DEF ScanOK
  <2>6. BoardOK'
    BY <2>1 DEF BoardOK, NewBoard
  <2>7. S
    BY <1>2, <2>1, <2>5, <2>6
  <2> QED BY <1>5, <1>7, <2>1, <2>2, <2>4, <2>7
<1>15. CASE CloseGeneration \/ Finish
  <2>1. /\ phase' \in {"decide", "cleanup", "exit"} /\ result' \in {"err", result}
        /\ UNCHANGED <<cfg, pending, ready, discovered, restore, lastGood, restoring,
                       binding, scan, lock, inbox, board>>
        /\ plane' \in {"none", plane} /\ taps' \in {taps, 0}
    BY <1>15 DEF CloseGeneration, Finish, poolVars, scanVars, boardVars
  <2>2. TodoOK'
    BY <2>1, StageOtherNext
  <2>3. M
    BY <1>1, <1>2, <2>1 DEF Phases
  <2>4. O
    BY <1>2, <2>1
  <2> QED BY <1>5, <1>6, <2>1, <2>2, <2>3, <2>4
<1>16. CASE CleanupScreen \/ Leaves \/ Stops
  <2>1. /\ phase' \in {"close", "final", "stopped"} /\ result' \in {"ok", "err", result}
        /\ UNCHANGED <<cfg, pending, ready, discovered, restore, lastGood, restoring, plane, taps,
                       binding, scan, lock, inbox, board>>
    BY <1>16, LeavesKeep, StopsKeep DEF CleanupScreen, ownVars, poolVars, scanVars, boardVars
  <2>2. TodoOK'
    BY <2>1, StageOtherNext
  <2>3. M
    BY <1>1, <1>2, <2>1 DEF Phases
  <2> QED BY <1>5, <1>6, <1>7, <2>1, <2>2, <2>3
<1>17. CASE Launches
  <2>1. /\ cfg' \in Configs /\ todo' = Steps(cfg'.mode)
        /\ phase' = "start" /\ result' = "none" /\ pending' = NoConfig /\ ready' = FALSE
        /\ restoring' \in BOOLEAN /\ restore' \in {NoTargets, lastGood.targets}
        /\ UNCHANGED <<discovered, lastGood, plane, taps, binding, scan, lock, board, inbox>>
    BY <1>1, <1>17, LaunchesKeep
  <2>2. TodoOK'
    BY <2>1, StageBegin
  <2>3. M
    BY <1>1, <1>2, <1>4, <2>1 DEF Phases
  <2> QED BY <1>5, <1>6, <1>7, <2>1, <2>2, <2>3
<1> QED BY <1>8, <1>9, <1>10, <1>11, <1>12, <1>13, <1>14, <1>15, <1>16, <1>17, NextIs DEF Steps9

(***************************************************************************)
(* One rescan at a time.                                                   *)
(***************************************************************************)
LEMMA HolderStep ==
  ASSUME OneHolder, NEW a \in Scanners, Others(a),
         \/ lock' = lock /\ (scan'[a].pc \in Holding <=> scan[a].pc \in Holding)
         \/ lock' = "free" /\ scan[a].pc \in Holding /\ scan'[a].pc = "idle"
         \/ lock = "free" /\ lock' = a /\ scan'[a].pc = "scan"
  PROVE  OneHolder'
<1>1. \A b \in Scanners : lock = b <=> scan[b].pc \in Holding
  BY DEF OneHolder
<1>2. "free" \notin Scanners /\ "idle" \notin Holding /\ "scan" \in Holding
  BY DEF Scanners, Holding
<1>3. \A b \in Scanners : lock' = b <=> scan'[b].pc \in Holding
  <2> SUFFICES ASSUME NEW b \in Scanners PROVE lock' = b <=> scan'[b].pc \in Holding
    OBVIOUS
  <2>1. CASE b = a
    BY <1>1, <1>2, <2>1
  <2>2. CASE b # a
    <3>1. scan'[b] = scan[b]
      BY <2>2 DEF Others
    <3> QED BY <1>1, <1>2, <2>2, <3>1
  <2> QED BY <2>1, <2>2
<1> QED BY <1>3 DEF OneHolder

LEMMA FineOther ==
  ASSUME OneHolder, NEW a \in Scanners, NEW b \in Scanners, b # a, Others(a), ScanFine(b),
         UNCHANGED cfg, Quiet' = Quiet, UNCHANGED <<pool, handle>> \/ scan[a].pc \in Holding
  PROVE  ScanFine(b)'
<1>1. scan'[b] = scan[b]
  BY DEF Others
<1>2. CASE UNCHANGED <<pool, handle>>
  <2>1. Representative.id' = Representative.id
    BY <1>2 DEF Representative
  <2> QED BY <1>1, <1>2, <2>1 DEF ScanFine, Hunts
<1>3. CASE scan[a].pc \in Holding
  <2>1. scan[b].pc \notin Holding
    BY <1>3 DEF OneHolder
  <2> QED BY <1>1, <2>1 DEF ScanFine, Holding
<1> QED BY <1>2, <1>3

LEMMA LockInner ==
  ASSUME SInv, Inner
  PROVE  OneHolder' /\ (\A a \in Scanners : ScanFine(a)') /\ RecoveryScansNewNetwork' /\ UNCHANGED worker
<1>1. /\ TypeInv /\ LockInv /\ PoolInv /\ ScanOK /\ BoardOK /\ OneHolder /\ RecoveryScansNewNetwork
      /\ binding \in Nat /\ \A a \in Scanners : ScanFine(a)
      /\ cfg \in Configs /\ TodoOK
  BY DEF SInv, TypeInv, SessionTypeOK, LockInv
<1>2. UNCHANGED <<cfg, todo, phase, ready>> /\ Quiet' = Quiet
  BY InnerKeeps, StageStill
<1>3. \A a \in Scanners : a = "worker" \/ a = "recovery"
  BY DEF Scanners
<1>4. "recovery" \in Scanners /\ "worker" \in Scanners
  BY DEF Scanners
\* One actor.
<1>5. ASSUME NEW a \in Scanners, Others(a), OneHolder', ScanFine(a)',
             UNCHANGED <<pool, handle>> \/ scan[a].pc \in Holding, UNCHANGED <<binding, worker>>,
             scan'[a].pc = "idle" \/ (scan'[a].seen = scan[a].seen /\ scan[a].pc # "idle")
      PROVE  OneHolder' /\ (\A b \in Scanners : ScanFine(b)') /\ RecoveryScansNewNetwork'
             /\ UNCHANGED worker
  <2>1. \A b \in Scanners : b # a => ScanFine(b)'
    BY <1>1, <1>2, <1>5, FineOther
  <2>2. RecoveryScansNewNetwork'
    BY <1>1, <1>4, <1>5 DEF RecoveryScansNewNetwork, Others
  <2> QED BY <1>5, <2>1, <2>2
<1>6. CASE Drain \/ KeyRescan
  <2>1. UNCHANGED <<pool, handle, binding, worker, scan, lock>>
    BY <1>1, <1>6, DrainIs, KeyRescanIs
  <2>2. Representative.id' = Representative.id
    BY <2>1 DEF Representative
  <2> QED BY <1>1, <1>2, <2>1, <2>2 DEF OneHolder, ScanFine, RecoveryScansNewNetwork, Hunts
<1>7. CASE AnswerSelection
  <2>1. /\ scan["worker"].pc = "ask"
        /\ ScanOK' /\ scan'["worker"].pc = "picked" /\ Others("worker")
        /\ UNCHANGED <<pool, handle, binding, worker, lock>> /\ UNCHANGED scan["recovery"]
    BY <1>1, <1>7, AnswerIs
  <2>2. OneHolder'
    BY <1>1, <1>4, <2>1, HolderStep DEF Holding
  <2>3. ScanFine("worker")'
    BY <1>1, <1>2, <1>4, <2>1 DEF ScanFine
  <2>4. ScanFine("recovery")'
    BY <1>1, <1>2, <1>4, <2>1, FineOther
  <2>5. RecoveryScansNewNetwork'
    BY <1>1, <2>1 DEF RecoveryScansNewNetwork
  <2> QED BY <1>3, <2>1, <2>2, <2>3, <2>4, <2>5
<1>8. ASSUME NEW manual \in BOOLEAN, WorkerWakes(manual)
      PROVE  OneHolder' /\ (\A a \in Scanners : ScanFine(a)') /\ RecoveryScansNewNetwork' /\ UNCHANGED worker
  <2>1. /\ Alive /\ worker /\ scan["worker"].pc = "idle" /\ Others("worker")
        /\ UNCHANGED <<pool, handle, binding, worker, lock>>
        /\ scan' = scan \/ (~(cfg.balanced /\ cfg.pinned) /\ scan'["worker"].pc = "lock")
    BY <1>1, <1>8, WakesIs
  <2>2. ~Quiet
    BY <1>1, <2>1 DEF LockInv
  <2>3. OneHolder'
    BY <1>1, <1>4, <2>1, HolderStep DEF Holding
  <2>4. ScanFine("worker")'
    BY <1>1, <1>2, <1>4, <2>1, <2>2 DEF ScanFine
  <2>5. ScanFine("recovery")'
    BY <1>1, <1>2, <1>4, <2>1, FineOther
  <2>6. RecoveryScansNewNetwork'
    BY <1>1, <1>4, <2>1 DEF RecoveryScansNewNetwork, Others
  <2> QED BY <1>3, <2>1, <2>3, <2>4, <2>5, <2>6
<1>9. CASE NetworkMoves
  <2>1. /\ Alive /\ watched /\ scan["recovery"].pc = "idle" /\ Others("recovery")
        /\ UNCHANGED <<pool, handle, worker, lock>>
        /\ \/ UNCHANGED scan
           \/ AutoRescan /\ scan'["recovery"].pc = "lock" /\ scan'["recovery"].seen = binding'
    BY <1>1, <1>9, MovesIs
  <2>2. ~Quiet
    BY <1>1, <2>1, StageStart, StageOther DEF LockInv, Alive
  <2>3. OneHolder'
    BY <1>1, <1>4, <2>1, HolderStep DEF Holding
  <2>4. ScanFine("recovery")'
    BY <1>1, <1>2, <1>4, <2>1, <2>2 DEF ScanFine, AutoRescan
  <2>5. ScanFine("worker")'
    BY <1>1, <1>2, <1>4, <2>1, FineOther
  <2>6. RecoveryScansNewNetwork'
    BY <2>1 DEF RecoveryScansNewNetwork
  <2> QED BY <1>3, <2>1, <2>3, <2>4, <2>5, <2>6
<1>10. ASSUME NEW a \in Scanners, ScanStep(a)
       PROVE  OneHolder' /\ (\A b \in Scanners : ScanFine(b)') /\ RecoveryScansNewNetwork' /\ UNCHANGED worker
  <2>0. ASSUME scan'[a] = Resting PROVE ScanFine(a)' /\ scan'[a].pc = "idle"
    BY <2>0, RestingTyped DEF ScanFine
  <2>1. CASE TakeLock(a)
    <3>1. /\ scan[a].pc = "lock" /\ lock = "free" /\ lock' = a
          /\ scan'[a].pc = "scan" /\ scan'[a].seen = scan[a].seen /\ Others(a)
          /\ UNCHANGED <<pool, handle, binding, worker>>
      BY <1>1, <2>1, TakeLockIs
    <3>2. OneHolder'
      BY <1>1, <3>1, HolderStep
    <3>3. ScanFine(a)'
      BY <1>1, <1>2, <3>1 DEF ScanFine
    <3> QED BY <1>5, <3>1, <3>2, <3>3
  <2>2. CASE ScanFails(a)
    <3>1. /\ scan[a].pc = "scan" /\ lock' = "free" /\ scan'[a] = Resting /\ Others(a)
          /\ UNCHANGED <<pool, handle, binding, worker>>
      BY <1>1, <2>2, ScanFailsIs
    <3>2. OneHolder'
      BY <1>1, <2>0, <3>1, HolderStep DEF Holding
    <3> QED BY <1>5, <2>0, <3>1, <3>2
  <2>3. CASE Scanned(a)
    <3>1. /\ scan[a].pc = "scan"
          /\ scan'[a].pc \in {"pool", "ask", "picked"} /\ scan'[a].seen = scan[a].seen
          /\ scan'[a].pc = "pool" <=> cfg.balanced
          /\ Others(a) /\ UNCHANGED <<pool, handle, binding, worker, lock>>
      BY <1>1, <2>3, ScannedIs
    <3>2. OneHolder'
      BY <1>1, <3>1, HolderStep DEF Holding
    <3>3. ScanFine(a)'
      BY <1>1, <1>2, <3>1 DEF ScanFine
    <3> QED BY <1>5, <3>1, <3>2, <3>3
  <2>4. CASE PoolRefreshed(a)
    <3>1. /\ scan[a].pc = "pool" /\ lock' = "free" /\ scan'[a] = Resting /\ Others(a)
          /\ UNCHANGED <<handle, binding, worker>>
      BY <1>1, <2>4, PoolRefreshedIs
    <3>2. OneHolder' /\ scan[a].pc \in Holding
      BY <1>1, <2>0, <3>1, HolderStep DEF Holding
    <3> QED BY <1>5, <2>0, <3>1, <3>2
  <2>5. CASE Compared(a)
    <3>1. Representative.id \in Targets
      BY <2>5, ScanAwake DEF Compared
    <3>2. /\ scan[a].pc = "picked" /\ Others(a) /\ UNCHANGED <<pool, handle, binding, worker>>
          /\ \/ scan'[a] = Resting /\ lock' = "free"
             \/ /\ scan'[a].pc = (IF Hunts(cfg) THEN "probe" ELSE "switch")
                /\ scan'[a].pick \in Targets /\ scan'[a].from = Representative.id
                /\ scan'[a].seen = scan[a].seen /\ UNCHANGED lock
      BY <1>1, <2>5, <3>1, ComparedIs
    <3>3. CASE scan'[a] = Resting /\ lock' = "free"
      <4>1. OneHolder'
        BY <1>1, <2>0, <3>2, <3>3, HolderStep DEF Holding
      <4> QED BY <1>5, <2>0, <3>2, <3>3, <4>1
    <3>4. CASE /\ scan'[a].pc = (IF Hunts(cfg) THEN "probe" ELSE "switch")
               /\ scan'[a].pick \in Targets /\ scan'[a].from = Representative.id
               /\ scan'[a].seen = scan[a].seen /\ UNCHANGED lock
      <4>1. OneHolder'
        BY <1>1, <3>2, <3>4, HolderStep DEF Holding
      <4>2. Representative.id' = Representative.id /\ (Hunts(cfg)' <=> Hunts(cfg))
        BY <1>2, <3>2 DEF Representative, Hunts
      <4>3. ScanFine(a)'
        BY <1>1, <1>2, <3>2, <3>4, <4>2 DEF ScanFine
      <4> QED BY <1>5, <3>2, <3>4, <4>1, <4>3
    <3> QED BY <3>2, <3>3, <3>4
  <2>6. CASE Probed(a)
    <3>1. /\ scan[a].pc = "probe" /\ Others(a) /\ UNCHANGED <<pool, binding, worker>>
          /\ \/ scan'[a] = Resting /\ lock' = "free"
             \/ /\ scan'[a].pc = "switch" /\ handle' = scan[a].pick
                /\ scan'[a].pick = scan[a].pick /\ scan'[a].from = scan[a].from
                /\ scan'[a].seen = scan[a].seen /\ UNCHANGED lock
      BY <1>1, <2>6, ProbedIs
    <3>2. scan[a].pc \in Holding
      BY <3>1 DEF Holding
    <3>3. CASE scan'[a] = Resting /\ lock' = "free"
      <4>1. OneHolder'
        BY <1>1, <2>0, <3>1, <3>2, <3>3, HolderStep
      <4> QED BY <1>5, <2>0, <3>1, <3>2, <3>3, <4>1
    <3>4. CASE /\ scan'[a].pc = "switch" /\ handle' = scan[a].pick
               /\ scan'[a].pick = scan[a].pick /\ scan'[a].from = scan[a].from
               /\ scan'[a].seen = scan[a].seen /\ UNCHANGED lock
      <4>1. OneHolder'
        BY <1>1, <3>1, <3>4, HolderStep DEF Holding
      <4>2. Representative.id' = Representative.id
        BY <3>1 DEF Representative
      <4>3. ScanFine(a)'
        BY <1>1, <1>2, <3>1, <3>4, <4>2 DEF ScanFine
      <4> QED BY <1>5, <3>1, <3>2, <3>4, <4>1, <4>3
    <3> QED BY <3>1, <3>3, <3>4
  <2>7. CASE Switched(a)
    <3>1. /\ scan[a].pc = "switch" /\ lock' = "free" /\ scan'[a] = Resting /\ Others(a)
          /\ UNCHANGED <<handle, binding, worker>>
      BY <1>1, <2>7, SwitchedIs
    <3>2. OneHolder' /\ scan[a].pc \in Holding
      BY <1>1, <2>0, <3>1, HolderStep DEF Holding
    <3> QED BY <1>5, <2>0, <3>1, <3>2
  <2> QED BY <1>10, <2>1, <2>2, <2>3, <2>4, <2>5, <2>6, <2>7 DEF ScanStep
<1> QED BY <1>6, <1>7, <1>8, <1>9, <1>10 DEF Inner

LEMMA LockStep ==
  ASSUME SInv, Next
  PROVE  LockInv'
<1>1. /\ TypeInv /\ LockInv /\ PendingInv /\ BackupInv /\ OneHolder /\ RecoveryScansNewNetwork
      /\ \A a \in Scanners : ScanFine(a)
      /\ TodoOK /\ cfg \in Configs /\ ready \in BOOLEAN
      /\ phase = "start" => ready = FALSE
  BY DEF SInv, TypeInv, SessionTypeOK, PendingInv, LockInv
<1>2. CASE Inner
  <2>1. UNCHANGED <<cfg, todo, phase, ready, watched>> /\ Quiet' = Quiet
    BY <1>2, InnerKeeps, StageStill
  <2>2. OneHolder' /\ (\A a \in Scanners : ScanFine(a)') /\ RecoveryScansNewNetwork' /\ UNCHANGED worker
    BY <1>2, LockInner
  <2> QED BY <1>1, <2>1, <2>2 DEF LockInv
\* The scans are left alone.
<1>3. ASSUME UNCHANGED <<scan, lock, binding>>
      PROVE  OneHolder' /\ RecoveryScansNewNetwork'
  BY <1>1, <1>3 DEF OneHolder, RecoveryScansNewNetwork
<1>4. ASSUME UNCHANGED scan, Quiet
      PROVE  \A a \in Scanners : ScanFine(a)'
  BY <1>1, <1>4 DEF ScanFine
<1>5. ASSUME UNCHANGED <<scan, cfg, pool, handle>>, Quiet' => Quiet
      PROVE  \A a \in Scanners : ScanFine(a)'
  <2>1. Representative.id' = Representative.id /\ (Hunts(cfg)' <=> Hunts(cfg))
    BY <1>5 DEF Representative, Hunts
  <2> QED BY <1>1, <1>5, <2>1 DEF ScanFine
<1>6. CASE Forward
  <2>1. /\ phase = "start" /\ ~At("listen") /\ todo' = Tail(todo) /\ phase' = "start"
        /\ UNCHANGED <<cfg, phase, ready, scan, lock, binding>>
    BY <1>6, ForwardKeeps
  <2>2. (Quiet' <=> Quiet /\ ~At("worker")) /\ Len(todo') = Len(todo) - 1
    BY <1>1, <2>1, StageAdvance
  <2>3. /\ Quiet <=> \/ At("pool") \/ At("ttl") \/ At("worker")
                     \/ cfg.mode = "sni" /\ At("plane")
        /\ At("plane") => cfg.mode \in {"sni", "plus"}
    BY <1>1, <2>1, StageStart
  <2>4. \A a \in Scanners : ScanFine(a)'
    <3>1. CASE Quiet
      BY <1>4, <2>1, <3>1
    <3>2. CASE ~Quiet /\ PlaneOpens
      <4>1. UNCHANGED pool /\ At("plane")
        BY <3>2 DEF PlaneOpens
      <4>2. ~Hunts(cfg) /\ ~Hunts(cfg)' /\ Representative.id' = Representative.id
        BY <2>1, <2>3, <3>2, <4>1 DEF Hunts, Representative
      <4> QED BY <1>1, <2>1, <2>2, <3>2, <4>2 DEF ScanFine
    <3>3. CASE ~Quiet /\ ~PlaneOpens
      <4>1. UNCHANGED <<pool, handle>>
        BY <1>6, <2>3, <3>3 DEF Forward, PoolRestored, PoolChosen, TtlRestored, TtlDiscovered,
                                WorkerSpawned, MonitorStarted, poolVars
      <4> QED BY <1>5, <2>1, <2>2, <4>1
    <3> QED BY <3>1, <3>2, <3>3
  <2>5. Quiet' => ~worker'
    <3>1. CASE WorkerSpawned
      BY <2>2, <3>1 DEF WorkerSpawned
    <3>2. CASE ~WorkerSpawned
      <4>1. UNCHANGED worker
        BY <1>6, <3>2 DEF Forward, PoolRestored, PoolChosen, PlaneOpens, TtlRestored, TtlDiscovered,
                          MonitorStarted, scanVars
      <4> QED BY <1>1, <2>2, <4>1 DEF LockInv
    <3> QED BY <3>1, <3>2
  <2>6. Len(todo') >= 2 => ~watched'
    <3> DEFINE n == Len(todo)
               k == Len(todo')
    <3>1. n \in Nat /\ k = n - 1 /\ (At("monitor") => n = 2) /\ (n >= 2 => ~watched)
      BY <1>1, <2>1, <2>2, AtLen DEF LockInv
    <3>2. CASE MonitorStarted
      <4>1. At("monitor")
        BY <3>2 DEF MonitorStarted
      <4> HIDE DEF n, k
      <4>2. k = 1
        BY <3>1, <4>1
      <4> QED BY <4>2 DEF k
    <3>3. CASE ~MonitorStarted
      <4>1. UNCHANGED watched
        BY <1>6, <3>3 DEF Forward, PoolRestored, PoolChosen, PlaneOpens, TtlRestored, TtlDiscovered,
                          WorkerSpawned, ownVars
      <4> HIDE DEF n, k
      <4>2. k >= 2 => ~watched
        BY <3>1
      <4> QED BY <4>1, <4>2 DEF k
    <3> QED BY <3>2, <3>3
  <2> QED BY <1>3, <2>1, <2>4, <2>5, <2>6 DEF LockInv
<1>7. CASE Falls \/ ListenerReady \/ DashboardEnds \/ (\E next \in Configs : KeyReload(next))
  <2>1. phase' \in {"ended", "dash"} /\ UNCHANGED <<cfg, scan, lock, binding, pool, handle>>
    BY <1>7, FallsKeeps DEF ListenerReady, DashboardEnds, KeyReload, scanVars, poolVars
  <2>2. ~Quiet'
    BY <2>1, StageOtherNext
  <2> QED BY <1>3, <1>5, <2>1, <2>2 DEF LockInv
<1>8. CASE GenerationEnds
  <2>1. /\ phase' = "close" /\ scan' = [a \in Scanners |-> Resting] /\ lock' = "free" /\ worker' = FALSE
    BY <1>8 DEF GenerationEnds
  <2>2. \A a \in Scanners : scan'[a].pc = "idle" /\ a # "free"
    BY <2>1, RestingTyped DEF Scanners
  <2>3. "recovery" \in Scanners
    BY DEF Scanners
  <2>4. RecoveryScansNewNetwork' /\ OneHolder' /\ \A a \in Scanners : ScanFine(a)'
    BY <2>1, <2>2, <2>3 DEF RecoveryScansNewNetwork, OneHolder, ScanFine, Holding
  <2> QED BY <2>1, <2>4 DEF LockInv
<1>9. CASE CloseGeneration \/ CleanupScreen \/ Leaves \/ Stops \/ Finish
  <2>1. /\ phase \in {"close", "cleanup", "decide", "stopped", "final"}
        /\ phase' \in {"decide", "cleanup", "close", "final", "stopped", "exit"}
        /\ UNCHANGED <<scan, lock, binding, worker>>
        /\ phase' \in {"decide", "stopped"} => watched' = FALSE \/ (UNCHANGED watched /\ phase = "decide")
    BY <1>9, LeavesKeep, StopsKeep DEF CloseGeneration, CleanupScreen, Finish, poolVars, scanVars
  <2>2. Quiet
    BY <2>1, StageOther
  <2>3. phase' \in {"decide", "stopped"} => ~watched'
    BY <1>1, <2>1 DEF LockInv
  <2> QED BY <1>1, <1>3, <1>4, <2>1, <2>2, <2>3 DEF LockInv
<1>10. CASE Launches
  <2>1. /\ phase \in {"decide", "stopped"} /\ phase' = "start"
        /\ UNCHANGED <<scan, lock, binding, worker, watched>>
    BY <1>1, <1>10, LaunchesKeep
  <2>2. Quiet
    BY <2>1, StageOther
  <2> QED BY <1>1, <1>3, <1>4, <2>1, <2>2 DEF LockInv
<1> QED BY <1>2, <1>6, <1>7, <1>8, <1>9, <1>10, NextIs DEF Steps9

(***************************************************************************)
(* The last good generation.                                               *)
(***************************************************************************)
LEMMA QuietInner ==
  ASSUME SInv, Inner, Quiet
  PROVE  UNCHANGED <<pool, handle>>
<1>1. /\ ScanOK /\ BoardOK /\ binding \in Nat /\ \A a \in Scanners : scan[a].pc = "idle"
  BY DEF SInv, TypeInv, SessionTypeOK, LockInv, ScanFine
<1>2. ASSUME NEW a \in Scanners, ScanStep(a) PROVE FALSE
  BY <1>1, <1>2 DEF ScanStep, TakeLock, ScanFails, Scanned, PoolRefreshed, Compared, Probed, Switched
<1> QED BY <1>1, <1>2 DEF Inner, Drain, KeyRescan, AnswerSelection, WorkerWakes, NetworkMoves, poolVars

\* What a generation leaves behind when it is reloaded.
LEMMA KeptAtReload ==
  ASSUME SInv, phase = "ended", ready, pending # NoConfig, NEW e,
         e.config = cfg, e.ids = Ids(pool), e.ttl = TtlOf(1),
         e.seen => inbox = <<>> /\ Clean
  PROVE  Kept(Backup, e)
<1>1. /\ cfg \in Configs /\ pool \in TargetLists /\ discovered \in Ttls
      /\ PoolInv /\ SoleInv /\ PendingInv /\ LockInv /\ board.ttl \in {"none"} \cup Targets
  BY DEF SInv, TypeInv, SessionTypeOK, BoardOK
<1>2. HasPool /\ HasTtl
  BY StageOther
<1>3. Shape(cfg, pool) /\ OwnTtls(cfg, pool) /\ (~Hunts(cfg) => handle = "config")
  BY <1>1, <1>2 DEF PoolInv
<1>4. lock = "free" /\ discovered = board.ttl /\ discovered \in {"none"} \cup Targets
  BY <1>1 DEF PendingInv
<1>5. ~Hunts(cfg) \/ cfg.balanced => discovered = "none"
  BY <1>1, <1>4 DEF SoleInv
<1> DEFINE b == Backup
           t == Backup.targets
<1>6. /\ b.config = cfg /\ Ids(t) = Ids(pool) /\ Shape(cfg, t)
      /\ cfg.balanced \/ discovered = "none" => t = pool
      /\ ~cfg.balanced /\ discovered # "none" =>
           DOMAIN t = {1} /\ t[1].id = pool[1].id /\ t[1].ttl = discovered
  BY <1>1, <1>3, BackupIs
<1>7. OwnTtls(cfg, t)
  BY <1>3, <1>5, <1>6 DEF OwnTtls
<1>8. 1 \in DOMAIN pool /\ TtlOf(1) = (IF pool[1].ttl # "none" THEN pool[1].ttl ELSE handle)
  BY <1>1, <1>3, ShapedList DEF TtlOf
<1>9. ASSUME e.seen
      PROVE  /\ TtlOf(1) = IF t[1].ttl # "none" THEN t[1].ttl ELSE "config"
             /\ t[1].ttl \in {"none", "config", t[1].id}
  <2>1. CASE ~Hunts(cfg)
    <3>1. pool[1].ttl = "none" /\ t = pool /\ handle = "config"
      BY <1>3, <1>5, <1>6, <1>8, <2>1 DEF OwnTtls
    <3> QED BY <1>8, <3>1
  <2>2. CASE Hunts(cfg) /\ cfg.balanced
    <3>1. pool[1].ttl \in {"config", pool[1].id} /\ t = pool /\ pool[1].id \in Targets
      BY <1>1, <1>3, <1>5, <1>6, <1>8, <2>2, ShapedList DEF OwnTtls
    <3> QED BY <1>8, <3>1, NamesApart
  <2>3. CASE Hunts(cfg) /\ ~cfg.balanced
    <3>1. ~Switching
      BY <1>1, <1>4 DEF Switching, LockInv, OneHolder, Holding, Scanners
    <3>2. /\ \A v \in Targets : LastTold(v) => handle = v /\ pool[1].ttl = "none"
          /\ LastTold("none") /\ pool[1].ttl = "none" => handle = "config"
          /\ TtlOf(1) \in {"config", pool[1].id}
      BY <1>1, <1>2, <1>9, <2>3, <3>1 DEF SoleInv, Sole
    <3>3. NewsIn(inbox) = {}
      <4>1. Len(inbox) = 0
        BY <1>9
      <4> QED BY <4>1 DEF NewsIn
    <3>4. LastTold(discovered)
      BY <1>4, <3>3 DEF LastTold, LastIn
    <3>5. CASE discovered \in Targets
      <4>1. handle = discovered /\ pool[1].ttl = "none"
        BY <3>2, <3>4, <3>5
      <4>2. t[1].id = pool[1].id /\ t[1].ttl = discovered /\ discovered # "none" /\ discovered # "config"
        BY <1>6, <2>3, <3>5, NamesApart
      <4> QED BY <1>8, <3>2, <4>1, <4>2
    <3>6. CASE discovered = "none"
      <4>1. t = pool
        BY <1>6, <3>6
      <4>2. pool[1].ttl = "none" => handle = "config"
        BY <3>2, <3>4, <3>6
      <4> QED BY <1>8, <3>2, <4>1, <4>2
    <3> QED BY <1>4, <3>5, <3>6
  <2> QED BY <2>1, <2>2, <2>3
<1> HIDE DEF b, t
<1>10. b.targets = t
  BY DEF b, t
<1>11. Kept(b, e)
  BY <1>1, <1>6, <1>7, <1>9, <1>10 DEF Kept
<1> QED BY <1>11 DEF b

LEMMA BackupStep ==
  ASSUME SInv, Next
  PROVE  BackupInv'
<1>1. /\ TypeInv /\ BackupInv /\ PendingInv /\ PoolInv /\ TodoOK /\ cfg \in Configs
      /\ restoring \in BOOLEAN /\ ready \in BOOLEAN /\ result \in {"none", "ok", "err"}
      /\ phase = "start" => ready = FALSE
  BY DEF SInv, TypeInv, SessionTypeOK, PendingInv
<1>2. ASSUME UNCHANGED <<lastGood, ended>>
      PROVE  /\ Kept(lastGood, ended)' <=> Kept(lastGood, ended)
             /\ (lastGood # NoBackup)' <=> lastGood # NoBackup
  BY <1>2 DEF Kept, Shape, OwnTtls, NoBackup
<1>3. phase \notin {"final", "exit"} /\ ~Closing /\ lastGood # NoBackup => Kept(lastGood, ended)
  BY <1>1 DEF BackupInv
<1>4. CASE Inner
  <2>1. UNCHANGED <<cfg, todo, phase, pending, ready, restore, lastGood, restoring, ended>>
    BY <1>4, InnerKeeps
  <2>2. HasPool' = HasPool /\ Quiet' = Quiet /\ (Quiet => UNCHANGED <<pool, handle>>) /\ (Closing' <=> Closing)
    BY <1>4, <2>1, StageStill, QuietInner DEF Closing
  <2> QED BY <1>1, <1>2, <2>1, <2>2 DEF BackupInv
<1>5. CASE Forward
  <2>1. /\ phase = "start" /\ ~At("listen") /\ todo' = Tail(todo) /\ phase' = "start"
        /\ UNCHANGED <<cfg, phase, ready, lastGood, restoring, ended>>
    BY <1>5, ForwardKeeps
  <2>2. HasPool' /\ (Quiet' <=> Quiet /\ ~At("worker"))
    BY <1>1, <2>1, StageAdvance
  <2>3. HasPool <=> ~At("pool")
    BY <1>1, <2>1, StageStart
  <2>4. ~Closing /\ ~Closing'
    BY <2>1 DEF Closing
  <2>5. ~restoring => restore' = NoTargets
    BY <1>1, <1>5, <2>1 DEF BackupInv, Forward, PoolRestored, PoolChosen, PlaneOpens, TtlRestored,
                TtlDiscovered, WorkerSpawned, MonitorStarted
  <2>6. restoring /\ Quiet' => pool' = lastGood.targets /\ (pool'[1].ttl = "none" => handle' = "config")
    <3>1. CASE PoolRestored
      BY <3>1, PoolRestoredIs
    <3>2. CASE PoolChosen
      BY <3>2, PoolChosenAt
    <3>3. CASE TtlDiscovered
      BY <3>3, TtlDiscoveredIs
    <3>4. CASE PlaneOpens \/ WorkerSpawned \/ MonitorStarted
      <4>1. UNCHANGED pool /\ ~At("pool") /\ (handle' = handle \/ handle' = "config")
        BY <3>4 DEF PlaneOpens, WorkerSpawned, MonitorStarted, At, poolVars
      <4> QED BY <1>1, <2>1, <2>2, <2>3, <4>1 DEF BackupInv
    <3>5. CASE TtlRestored
      <4>1. /\ At("ttl") /\ restoring /\ UNCHANGED pool
            /\ handle' = IF cfg.plane # "none" /\ Representative.ttl # "none"
                         THEN Representative.ttl ELSE "config"
        BY <3>5, TtlRestoredIs
      <4>2. pool = lastGood.targets
        BY <4>1, BeforeTtl
      <4> QED BY <4>1, <4>2 DEF Representative
    <3> QED BY <1>5, <3>1, <3>2, <3>3, <3>4, <3>5 DEF Forward
  <2> QED BY <1>1, <1>2, <1>3, <2>1, <2>2, <2>4, <2>5, <2>6 DEF BackupInv
<1>6. CASE Falls \/ ListenerReady \/ DashboardEnds \/ (\E next \in Configs : KeyReload(next))
  <2>1. /\ phase \in {"start", "dash"} /\ phase' \in {"ended", "dash"}
        /\ (phase' = "dash" => phase = "start")
        /\ UNCHANGED <<cfg, lastGood, restoring, ended>>
    BY <1>6, FallsKeeps DEF ListenerReady, DashboardEnds, KeyReload, At, boundVars
  <2>2. ~Closing
    BY <2>1 DEF Closing
  <2> QED BY <1>1, <1>2, <1>3, <2>1, <2>2 DEF BackupInv
<1>7. CASE GenerationEnds
  <2>1. /\ phase = "ended" /\ phase' = "close" /\ UNCHANGED <<pending, ready>>
        /\ IF ready
           THEN /\ lastGood' = Backup
                /\ ended' = [config |-> cfg, ids |-> Ids(pool), ttl |-> TtlOf(1),
                             seen |-> inbox = <<>> /\ (restoring => ended.seen)]
           ELSE UNCHANGED <<lastGood, ended>>
    BY <1>7 DEF GenerationEnds
  <2>2. CASE ~ready
    <3>1. UNCHANGED <<lastGood, ended>> /\ ~Closing
      BY <2>1, <2>2 DEF Closing
    <3> QED BY <1>2, <1>3, <2>1, <3>1 DEF BackupInv
  <2>3. CASE ready /\ pending = NoConfig
    <3>1. Closing'
      BY <2>1, <2>3 DEF Closing
    <3> QED BY <2>1, <3>1 DEF BackupInv
  <2>4. CASE ready /\ pending # NoConfig
    <3> DEFINE e == [config |-> cfg, ids |-> Ids(pool), ttl |-> TtlOf(1),
                     seen |-> inbox = <<>> /\ (restoring => ended.seen)]
    <3>1. lastGood' = Backup /\ ended' = e
      BY <2>1, <2>4
    <3>2. /\ e.config = cfg /\ e.ids = Ids(pool) /\ e.ttl = TtlOf(1)
          /\ e.seen => inbox = <<>> /\ Clean
      BY DEF Clean
    <3> HIDE DEF e
    <3>3. Kept(Backup, e)
      BY <2>1, <2>4, <3>2, KeptAtReload
    <3>4. Kept(lastGood, ended)'
      BY <3>1, <3>3, Zenon
    <3> QED BY <2>1, <3>4 DEF BackupInv
  <2> QED BY <1>1, <2>2, <2>3, <2>4
<1>8. CASE CloseGeneration \/ CleanupScreen
  <2>1. /\ phase \in {"close", "cleanup"} /\ phase' \in {"decide", "cleanup", "close", "final"}
        /\ UNCHANGED <<pending, ready, lastGood, ended>>
    BY <1>8 DEF CloseGeneration, CleanupScreen, boundVars
  <2>2. phase' # "final" => (Closing' <=> Closing)
    BY <2>1 DEF Closing
  <2> QED BY <1>2, <1>3, <2>1, <2>2 DEF BackupInv
<1>9. CASE Launches
  <2>1. /\ phase \in {"decide", "stopped"} /\ ~Closing /\ cfg' \in Configs /\ todo' = Steps(cfg'.mode)
        /\ phase' = "start" /\ ready' = FALSE
        /\ \/ restoring' = FALSE /\ restore' = NoTargets
           \/ /\ restoring' = TRUE /\ lastGood # NoBackup
              /\ cfg' = lastGood.config /\ restore' = lastGood.targets
        /\ UNCHANGED <<lastGood, ended>>
    BY <1>1, <1>9, LaunchesKeep
  <2>2. ~HasPool'
    BY <2>1, StageBegin
  <2> QED BY <1>2, <1>3, <2>1, <2>2 DEF BackupInv
<1>10. CASE Leaves \/ Finish
  <2>1. phase' \in {"final", "exit"}
    BY <1>10, LeavesKeep DEF Finish
  <2> QED BY <2>1 DEF BackupInv
<1>11. CASE Stops
  <2>1. /\ phase = "decide" /\ phase' = "stopped" /\ (result \notin {"ok", "err"} \/ ~ready)
        /\ UNCHANGED <<ready, lastGood, ended>>
    BY <1>11, StopsKeep
  <2>2. ~Closing
    BY <1>1, <2>1 DEF PendingInv, Closing
  <2> QED BY <1>2, <1>3, <2>1, <2>2 DEF BackupInv
<1> QED BY <1>4, <1>5, <1>6, <1>7, <1>8, <1>9, <1>10, <1>11, NextIs DEF Steps9

(***************************************************************************)
(* The TTL the dashboard was told last.                                    *)
(***************************************************************************)
LEMMA NewsAppended ==
  ASSUME NEW q \in Seq(Events), NEW e \in Events
  PROVE  /\ e[1] # "ttl" => /\ NewsIn(q \o <<e>>) = NewsIn(q)
                            /\ \A b, v : LastIn(q \o <<e>>, b, v) <=> LastIn(q, b, v)
         /\ e[1] = "ttl" => \A b, v : LastIn(q \o <<e>>, b, v) => v = e[2]
<1> DEFINE r == q \o <<e>>
           n == Len(q)
<1>1. /\ n \in Nat /\ Len(r) = n + 1 /\ r[n + 1] = e /\ \A i \in 1..n : r[i] = q[i]
  OBVIOUS
<1>2. /\ NewsIn(r) = {i \in 1..(n + 1) : r[i][1] = "ttl"}
      /\ NewsIn(q) = {i \in 1..n : q[i][1] = "ttl"}
  BY <1>1 DEF NewsIn
<1> HIDE DEF r, n
<1>3. ASSUME e[1] # "ttl"
      PROVE  NewsIn(r) = NewsIn(q) /\ \A b, v : LastIn(r, b, v) <=> LastIn(q, b, v)
  <2>1. NewsIn(r) = NewsIn(q)
    BY <1>1, <1>2, <1>3
  <2>2. \A i \in NewsIn(q) : r[i] = q[i]
    BY <1>1, <1>2
  <2> QED BY <2>1, <2>2, Zenon DEF LastIn
<1>4. ASSUME e[1] = "ttl", NEW b, NEW v, LastIn(r, b, v)
      PROVE  v = e[2]
  <2>1. n + 1 \in NewsIn(r)
    BY <1>1, <1>2, <1>4
  <2>2. PICK i \in NewsIn(r) : r[i][2] = v /\ \A j \in NewsIn(r) : j <= i
    BY <1>4, <2>1 DEF LastIn
  <2>3. i = n + 1
    BY <1>1, <1>2, <2>1, <2>2
  <2> QED BY <1>1, <2>2, <2>3
<1> QED BY <1>3, <1>4 DEF r

LEMMA NewsRead ==
  ASSUME NEW q \in Seq(Events), q # <<>>
  PROVE  /\ NewsIn(q) = {} => NewsIn(Tail(q)) = {} /\ Head(q)[1] # "ttl"
         /\ \A b, v : LastIn(Tail(q), IF Head(q)[1] = "ttl" THEN Head(q)[2] ELSE b, v) => LastIn(q, b, v)
<1> DEFINE r == Tail(q)
           e == Head(q)
           n == Len(q)
<1>1. /\ n \in Nat \ {0} /\ Len(r) = n - 1 /\ q[1] = e /\ \A i \in 1..(n - 1) : r[i] = q[i + 1]
  OBVIOUS
<1>2. /\ NewsIn(r) = {i \in 1..(n - 1) : r[i][1] = "ttl"}
      /\ NewsIn(q) = {i \in 1..n : q[i][1] = "ttl"}
  BY <1>1 DEF NewsIn
<1> HIDE DEF r, e, n
<1>3. \A i \in NewsIn(r) : i \in 1..(n - 1) /\ i + 1 \in NewsIn(q) /\ r[i] = q[i + 1]
  BY <1>1, <1>2
<1>4. \A j \in NewsIn(q) : (j = 1 /\ e[1] = "ttl") \/ (j \in 2..n /\ j - 1 \in NewsIn(r))
  BY <1>1, <1>2
<1>5. e[1] = "ttl" => 1 \in NewsIn(q)
  BY <1>1, <1>2
<1>6. ASSUME NEW b, NEW v, LastIn(r, IF e[1] = "ttl" THEN e[2] ELSE b, v)
      PROVE  LastIn(q, b, v)
  <2>1. CASE NewsIn(r) = {} /\ e[1] = "ttl"
    <3>1. v = e[2] /\ \A j \in NewsIn(q) : j = 1
      BY <1>4, <1>6, <2>1 DEF LastIn
    <3>2. \A j \in NewsIn(q) : j <= 1
      BY <3>1
    <3> QED BY <1>1, <1>5, <2>1, <3>1, <3>2 DEF LastIn
  <2>2. CASE NewsIn(r) = {} /\ e[1] # "ttl"
    <3>1. v = b /\ NewsIn(q) = {}
      BY <1>4, <1>6, <2>2 DEF LastIn
    <3> QED BY <3>1 DEF LastIn
  <2>3. CASE NewsIn(r) # {}
    <3>1. PICK i \in NewsIn(r) : r[i][2] = v /\ \A j \in NewsIn(r) : j <= i
      BY <1>6, <2>3 DEF LastIn
    <3>2. i + 1 \in NewsIn(q) /\ q[i + 1][2] = v
      BY <1>3, <3>1
    <3>3. i \in 1..(n - 1) /\ n \in Nat
      BY <1>1, <1>3, <3>1
    <3>4. ASSUME NEW j \in NewsIn(q) PROVE j <= i + 1
      <4>1. CASE j = 1
        BY <3>3, <4>1
      <4>2. CASE j \in 2..n /\ j - 1 \in NewsIn(r)
        <5>1. j - 1 <= i
          BY <3>1, <4>2
        <5> QED BY <3>3, <4>2, <5>1
      <4> QED BY <1>4, <4>1, <4>2
    <3> QED BY <3>2, <3>4 DEF LastIn
  <2> QED BY <2>1, <2>2, <2>3
<1>7. NewsIn(q) = {} => NewsIn(r) = {} /\ e[1] # "ttl"
  BY <1>3, <1>5
<1> QED BY <1>6, <1>7 DEF r, e

\* A step that is no news.
LEMMA NoNews ==
  ASSUME BoardOK, board'.ttl = board.ttl,
         \/ UNCHANGED inbox
         \/ inbox' = inbox \o <<<<"started">>>>
         \/ inbox' = inbox \o <<<<"finished">>>>
  PROVE  /\ NewsIn(inbox') = NewsIn(inbox)
         /\ \A v : LastIn(inbox', board'.ttl, v) <=> LastIn(inbox, board.ttl, v)
<1>1. inbox \in Seq(Events) /\ <<"started">> \in Events /\ <<"finished">> \in Events
  BY EventsAre DEF BoardOK
<1>2. <<"started">>[1] # "ttl" /\ <<"finished">>[1] # "ttl"
  OBVIOUS
<1>3. CASE UNCHANGED inbox
  BY <1>3
<1>4. ASSUME NEW e \in Events, e[1] # "ttl", inbox' = inbox \o <<e>>
      PROVE  /\ NewsIn(inbox') = NewsIn(inbox)
             /\ \A v : LastIn(inbox', board'.ttl, v) <=> LastIn(inbox, board.ttl, v)
  BY <1>1, <1>4, NewsAppended
<1> QED BY <1>1, <1>2, <1>3, <1>4

\* The interceptor's TTL, the target and the generation stay, and the last word is
\* not another one.
LEMMA SoleStays ==
  ASSUME SoleInv, UNCHANGED <<cfg, phase, restoring, pool, handle>>, ended'.seen = ended.seen,
         HasTtl' <=> HasTtl, Switching => Switching',
         NewsIn(inbox) = {} /\ board.ttl = "none" => NewsIn(inbox') = {} /\ board'.ttl = "none",
         phase # "dash" => board'.ttl = board.ttl,
         \A v : LastIn(inbox', board'.ttl, v) => LastIn(inbox, board.ttl, v)
  PROVE  SoleInv'
<1>1. /\ ((phase # "ended" /\ ~HasTtl) \/ ~Hunts(cfg) \/ cfg.balanced =>
            NewsIn(inbox) = {} /\ board.ttl = "none")'
      /\ (phase \in {"start", "close", "cleanup", "decide", "stopped"} => board.ttl = "none")'
      /\ (phase \in {"close", "cleanup", "decide", "stopped"} => handle = "config")'
  BY DEF SoleInv, Hunts
<1>2. ASSUME Sole'
      PROVE  (/\ \A v \in Targets : LastTold(v) => handle = v /\ pool[1].ttl = "none"
              /\ LastTold("none") /\ pool[1].ttl = "none" => handle = "config"
              /\ Clean => TtlOf(1) \in {"config", pool[1].id})'
  <2>1. Sole
    BY <1>2 DEF Sole, Hunts
  <2>2. /\ \A v \in Targets : LastTold(v) => handle = v /\ pool[1].ttl = "none"
        /\ LastTold("none") /\ pool[1].ttl = "none" => handle = "config"
        /\ Clean => TtlOf(1) \in {"config", pool[1].id}
    BY <2>1 DEF SoleInv
  <2>3. (Clean' <=> Clean) /\ TtlOf(1)' = TtlOf(1) /\ \A v : LastTold(v)' => LastTold(v)
    BY DEF Clean, TtlOf, LastTold
  <2> QED BY <2>2, <2>3
<1> QED BY <1>1, <1>2 DEF SoleInv

\* Where a rescan is under way the TTLs are settled, or the generation is over.
LEMMA SoleInner ==
  ASSUME SInv, Inner
  PROVE  SoleInv'
<1>1. /\ TypeInv /\ SoleInv /\ LockInv /\ PoolInv /\ ScanOK /\ BoardOK /\ binding \in Nat
      /\ cfg \in Configs /\ pool \in TargetLists
      /\ inbox \in Seq(Events)
  BY DEF SInv, TypeInv, SessionTypeOK, BoardOK
<1>2. UNCHANGED <<cfg, todo, phase, ready, restoring, ended>>
  BY InnerKeeps
<1>3. HasTtl' = HasTtl
  BY <1>2, StageStill
<1>4. ASSUME UNCHANGED <<pool, handle>>, Switching => Switching', board'.ttl = board.ttl,
             \/ UNCHANGED inbox
             \/ inbox' = inbox \o <<<<"started">>>>
             \/ inbox' = inbox \o <<<<"finished">>>>
      PROVE  SoleInv'
  BY <1>1, <1>2, <1>3, <1>4, NoNews, SoleStays
<1>5. ASSUME UNCHANGED scan PROVE Switching => Switching'
  BY <1>5 DEF Switching
<1>6. ASSUME NEW a \in Scanners, Others(a), scan[a].pc # "switch" PROVE Switching => Switching'
  BY <1>6 DEF Switching, Others
<1>7. \A a \in Scanners : Alive /\ scan[a].pc # "idle" => HasTtl /\ Representative.id \in Targets
  BY ScanAwake
<1>8. CASE Drain
  <2>1. /\ phase = "dash" /\ inbox # <<>> /\ inbox' = Tail(inbox)
        /\ board'.ttl = (IF Head(inbox)[1] = "ttl" THEN Head(inbox)[2] ELSE board.ttl)
        /\ UNCHANGED <<pool, handle, scan>>
    BY <1>1, <1>8, DrainIs
  <2>2. /\ NewsIn(inbox) = {} => NewsIn(inbox') = {} /\ Head(inbox)[1] # "ttl"
        /\ \A v : LastIn(inbox', board'.ttl, v) => LastIn(inbox, board.ttl, v)
    BY <1>1, <2>1, NewsRead
  <2> QED BY <1>1, <1>2, <1>3, <1>5, <2>1, <2>2, SoleStays
<1>9. CASE KeyRescan
  <2>1. board'.ttl = board.ttl /\ UNCHANGED <<pool, handle, scan, inbox>>
    BY <1>1, <1>9, KeyRescanIs
  <2> QED BY <1>4, <1>5, <2>1
<1>10. CASE AnswerSelection
  <2>1. /\ "worker" \in Scanners /\ scan["worker"].pc = "ask" /\ Others("worker")
        /\ UNCHANGED <<pool, handle, board, inbox>>
    BY <1>1, <1>10, AnswerIs DEF Scanners
  <2> QED BY <1>4, <1>6, <2>1
<1>11. ASSUME NEW manual \in BOOLEAN, WorkerWakes(manual) PROVE SoleInv'
  <2>1. /\ "worker" \in Scanners /\ scan["worker"].pc = "idle" /\ Others("worker")
        /\ UNCHANGED <<pool, handle, board>>
        /\ UNCHANGED inbox \/ inbox' = inbox \o <<<<"finished">>>>
    BY <1>1, <1>11, WakesIs DEF Scanners
  <2> QED BY <1>4, <1>6, <2>1
<1>12. CASE NetworkMoves
  <2>1. /\ "recovery" \in Scanners /\ scan["recovery"].pc = "idle" /\ Others("recovery")
        /\ UNCHANGED <<pool, handle, board, inbox>>
    BY <1>1, <1>12, MovesIs DEF Scanners
  <2> QED BY <1>4, <1>6, <2>1
<1>13. ASSUME NEW a \in Scanners, ScanStep(a) PROVE SoleInv'
  <2>1. CASE TakeLock(a)
    <3>1. /\ scan[a].pc = "lock" /\ Others(a) /\ inbox' = inbox \o <<<<"started">>>>
          /\ UNCHANGED <<pool, handle, board>>
      BY <1>1, <2>1, TakeLockIs
    <3> QED BY <1>4, <1>6, <3>1
  <2>2. CASE ScanFails(a)
    <3>1. /\ scan[a].pc = "scan" /\ Others(a) /\ inbox' = inbox \o <<<<"finished">>>>
          /\ UNCHANGED <<pool, handle, board>>
      BY <1>1, <2>2, ScanFailsIs
    <3> QED BY <1>4, <1>6, <3>1
  <2>3. CASE Scanned(a)
    <3>1. scan[a].pc = "scan" /\ Others(a) /\ UNCHANGED <<pool, handle, board, inbox>>
      BY <1>1, <2>3, ScannedIs
    <3> QED BY <1>4, <1>6, <3>1
  <2>4. CASE PoolRefreshed(a)
    <3>1. /\ Alive /\ scan[a].pc = "pool" /\ inbox' = inbox \o <<<<"finished">>>>
          /\ UNCHANGED <<handle, board>>
      BY <1>1, <2>4, PoolRefreshedIs
    <3>2. cfg.balanced
      BY <1>1, <3>1 DEF LockInv, ScanFine
    <3>3. NewsIn(inbox) = {} /\ board.ttl = "none"
      BY <1>1, <3>2 DEF SoleInv
    <3>4. NewsIn(inbox') = {} /\ board'.ttl = "none"
      BY <1>1, <3>1, <3>3, NoNews
    <3> QED BY <1>2, <3>1, <3>2, <3>4 DEF SoleInv, Sole, Alive
  <2>5. CASE Compared(a)
    <3>1. scan[a].pc = "picked" /\ Alive
      BY <2>5 DEF Compared
    <3>2. Representative.id \in Targets
      BY <1>7, <3>1
    <3>3. /\ Others(a) /\ UNCHANGED <<pool, handle, board>>
          /\ UNCHANGED inbox \/ inbox' = inbox \o <<<<"finished">>>>
      BY <1>1, <2>5, <3>2, ComparedIs
    <3> QED BY <1>4, <1>6, <3>1, <3>3
  <2>6. CASE Probed(a)
    <3>1. /\ scan[a].pc = "probe" /\ Others(a) /\ Alive /\ UNCHANGED <<pool, board>>
          /\ \/ inbox' = inbox \o <<<<"finished">>>> /\ UNCHANGED handle
             \/ scan'[a].pc = "switch" /\ UNCHANGED inbox
      BY <1>1, <2>6, ProbedIs
    <3>2. CASE inbox' = inbox \o <<<<"finished">>>> /\ UNCHANGED handle
      BY <1>4, <1>6, <3>1, <3>2
    <3>3. CASE scan'[a].pc = "switch" /\ UNCHANGED inbox
      <4>1. Switching' /\ HasTtl /\ HasTtl'
        BY <1>3, <1>7, <3>1, <3>3 DEF Switching
      <4>2. Hunts(cfg) /\ ~cfg.balanced
        BY <1>1, <3>1 DEF LockInv, ScanFine
      <4> QED BY <1>1, <1>2, <3>1, <3>3, <4>1, <4>2 DEF SoleInv, Sole, Alive, Hunts
    <3> QED BY <3>1, <3>2, <3>3
  <2>7. CASE Switched(a)
    <3>1. /\ scan[a].pc = "switch" /\ scan'[a] = Resting /\ Others(a)
          /\ pool' = <<Member(scan[a].pick)>>
          /\ Hunts(cfg) => inbox' = inbox \o (<<<<"ttl", handle>>>> \o <<<<"finished">>>>)
          /\ ~Hunts(cfg) => inbox' = inbox \o (<<>> \o <<<<"finished">>>>)
          /\ UNCHANGED <<handle, board>>
      BY <1>1, <2>7, SwitchedIs
    <3>2. ~cfg.balanced /\ scan[a].pick \in Targets /\ (Hunts(cfg) => handle = scan[a].pick)
      BY <1>1, <3>1 DEF LockInv, ScanFine
    <3>3. phase \in {"start", "dash", "ended"} /\ (phase # "ended" => HasTtl)
      BY <3>1, ScanAwake DEF Alive
    <3>4. CASE ~Hunts(cfg)
      <4>1. inbox' = inbox \o <<<<"finished">>>>
        BY <3>1, <3>4
      <4>2. NewsIn(inbox) = {} /\ board.ttl = "none"
        BY <1>1, <3>4 DEF SoleInv
      <4>3. NewsIn(inbox') = {} /\ board'.ttl = "none"
        BY <1>1, <3>1, <4>1, <4>2, NoNews
      <4> QED BY <1>2, <3>3, <3>4, <4>3 DEF SoleInv, Sole, Hunts
    <3>5. CASE Hunts(cfg)
      <4> DEFINE e == <<"ttl", handle>>
                 f == <<"finished">>
                 q == inbox \o <<e>>
      <4>1. e \in Events /\ f \in Events /\ handle \in Targets /\ e[1] = "ttl" /\ e[2] = handle /\ f[1] # "ttl"
        BY <3>2, <3>5, EventsAre
      <4>2. inbox' = inbox \o (<<e>> \o <<f>>)
        BY <3>1, <3>5
      <4> HIDE DEF e, f
      <4>3. q \in Seq(Events) /\ inbox' = q \o <<f>>
        BY <1>1, <4>1, <4>2
      <4>4. \A b, v : LastIn(q, b, v) => v = handle
        BY <1>1, <4>1, NewsAppended
      <4> HIDE DEF q
      <4>5. \A b, v : LastIn(inbox', b, v) => v = handle
        BY <4>1, <4>3, <4>4, NewsAppended
      <4>6. \A v : LastTold(v)' => v = handle'
        BY <3>1, <4>5 DEF LastTold
      <4>7. pool'[1] = Member(scan[a].pick) /\ pool'[1].ttl = "none" /\ pool'[1].id = scan[a].pick
        BY <3>1 DEF Member
      <4>8. TtlOf(1)' = handle' /\ handle' = pool'[1].id /\ handle' # "none"
        BY <3>1, <3>2, <3>5, <4>1, <4>7, NamesApart DEF TtlOf
      <4>9. (phase \in {"start", "close", "cleanup", "decide", "stopped"} => board.ttl = "none")'
        BY <1>1, <1>2, <3>1 DEF SoleInv
      <4> QED BY <1>2, <1>3, <3>2, <3>3, <3>5, <4>6, <4>7, <4>8, <4>9 DEF SoleInv, Hunts
    <3> QED BY <3>4, <3>5
  <2> QED BY <1>13, <2>1, <2>2, <2>3, <2>4, <2>5, <2>6, <2>7 DEF ScanStep
<1> QED BY <1>8, <1>9, <1>10, <1>11, <1>12, <1>13 DEF Inner

LEMMA SoleForward ==
  ASSUME SInv, Forward
  PROVE  SoleInv'
<1>1. /\ TypeInv /\ SoleInv /\ PoolInv /\ PendingInv /\ TodoOK /\ BoardOK /\ cfg \in Configs
      /\ inbox \in Seq(Events) /\ pool \in TargetLists /\ restoring \in BOOLEAN
  BY DEF SInv, TypeInv, SessionTypeOK, BoardOK
<1>2. /\ phase = "start" /\ ~At("listen") /\ todo' = Tail(todo) /\ phase' = "start"
      /\ UNCHANGED <<cfg, phase, ready, restoring, scan, board, ended>>
  BY ForwardKeeps
<1>3. ready = FALSE /\ board.ttl = "none"
  BY <1>1, <1>2 DEF PendingInv, SoleInv, TypeInv, SessionTypeOK
<1>4. HasTtl' <=> HasTtl \/ At("ttl") \/ (At("pool") /\ cfg.mode # "sni")
  BY <1>1, <1>2, <1>3, StageAdvance
<1>5. ~HasTtl \/ ~Hunts(cfg) \/ cfg.balanced => NewsIn(inbox) = {}
  BY <1>1, <1>2 DEF SoleInv
<1>6. (Hunts(cfg)' <=> Hunts(cfg)) /\ (Switching' <=> Switching) /\ (Clean' <=> Clean)
  BY <1>2 DEF Hunts, Switching, Clean
<1>7. ASSUME UNCHANGED inbox, ~Sole' PROVE SoleInv'
  <2>1. (phase # "ended" /\ ~HasTtl) \/ ~Hunts(cfg) \/ cfg.balanced =>
           NewsIn(inbox) = {} /\ board.ttl = "none"
    BY <1>1 DEF SoleInv
  <2>2. ((phase # "ended" /\ ~HasTtl) \/ ~Hunts(cfg) \/ cfg.balanced =>
           NewsIn(inbox) = {} /\ board.ttl = "none")'
    BY <1>2, <1>4, <1>6, <1>7, <2>1
  <2> QED BY <1>2, <1>3, <1>7, <2>2 DEF SoleInv
<1>8. CASE PoolRestored \/ PoolChosen \/ PlaneOpens
  <2>1. UNCHANGED inbox /\ (At("pool") \/ At("plane"))
    BY <1>8 DEF PoolRestored, PoolChosen, PlaneOpens, boardVars
  <2>2. cfg.mode = "sni" => ~HasTtl /\ ~At("ttl")
    BY <1>1, <1>2, <2>1, StageStart DEF At
  <2>3. ~Sole'
    BY <1>2, <1>4, <1>6, <2>2 DEF Sole, Hunts
  <2> QED BY <1>7, <2>1, <2>3
<1>9. CASE WorkerSpawned \/ MonitorStarted
  <2>1. UNCHANGED <<pool, handle, inbox>> /\ ~At("ttl") /\ ~At("pool")
    BY <1>9 DEF WorkerSpawned, MonitorStarted, poolVars, boardVars, At
  <2>2. HasTtl' <=> HasTtl
    BY <1>4, <2>1
  <2> QED BY <1>1, <1>2, <1>6, <2>1, <2>2, SoleStays
<1>10. CASE TtlRestored \/ TtlDiscovered
  <2>1. At("ttl") /\ HasTtl'
    BY <1>4, <1>10 DEF TtlRestored, TtlDiscovered
  <2>2. /\ ~HasTtl /\ handle = "config" /\ 1 \in DOMAIN pool /\ Representative.id \in Targets
        /\ ~restoring => \A i \in DOMAIN pool : pool[i].ttl = "none"
        /\ restoring => pool = lastGood.targets
    BY <2>1, BeforeTtl
  <2>3. NewsIn(inbox) = {} /\ \A v : LastIn(inbox, board.ttl, v) => v = "none"
    BY <1>3, <1>5, <2>2 DEF LastIn
  <2>4. CASE ~Hunts(cfg) \/ cfg.balanced
    <3>1. UNCHANGED inbox
      BY <1>10, <2>4, TtlRestoredIs, TtlDiscoveredIs
    <3>2. ~Sole'
      BY <1>2, <1>6, <2>4 DEF Sole
    <3> QED BY <1>7, <3>1, <3>2
  <2>5. CASE Hunts(cfg) /\ ~cfg.balanced
    <3>1. UNCHANGED pool
      BY <1>10, <2>5, TtlRestoredIs, TtlDiscoveredIs
    <3>2. SUFFICES (/\ \A v \in Targets : LastTold(v) => handle = v /\ pool[1].ttl = "none"
                    /\ LastTold("none") /\ pool[1].ttl = "none" => handle = "config"
                    /\ Clean => TtlOf(1) \in {"config", pool[1].id})'
      BY <1>2, <1>3, <1>6, <2>1, <2>5 DEF SoleInv
    <3>3. TtlOf(1)' = IF pool[1].ttl # "none" THEN pool[1].ttl ELSE handle'
      BY <3>1 DEF TtlOf
    <3>4. CASE TtlRestored
      <4>1. /\ restoring /\ UNCHANGED inbox
            /\ handle' = IF cfg.plane # "none" /\ pool[1].ttl # "none" THEN pool[1].ttl ELSE "config"
        BY <3>4, TtlRestoredIs DEF Representative
      <4>2. \A v : LastTold(v)' => v = "none"
        BY <1>2, <2>3, <4>1 DEF LastTold
      <4>3. Clean => pool[1].ttl \in {"none", "config", pool[1].id}
        BY <1>2, <2>2, <4>1, Restarted DEF Kept, Clean
      <4> QED BY <1>6, <3>1, <3>3, <4>1, <4>2, <4>3, NamesApart
    <3>5. CASE TtlDiscovered /\ UNCHANGED <<handle, inbox>>
      <4>1. pool[1].ttl = "none"
        BY <2>2, <3>5, TtlDiscoveredIs
      <4>2. \A v : LastTold(v)' => v = "none"
        BY <1>2, <2>3, <3>5 DEF LastTold
      <4> QED BY <2>2, <3>1, <3>3, <3>5, <4>1, <4>2, NamesApart
    <3>6. CASE TtlDiscovered /\ handle' = Representative.id /\ inbox' = Append(inbox, <<"ttl", handle'>>)
      <4>1. pool[1].ttl = "none"
        BY <2>2, <3>6, TtlDiscoveredIs
      <4> DEFINE e == <<"ttl", handle'>>
      <4>2. e \in Events /\ e[1] = "ttl" /\ e[2] = handle'
        BY <2>2, <3>6, EventsAre
      <4>3. inbox' = inbox \o <<e>>
        <5>1. inbox' = Append(inbox, e)
          BY <3>6
        <5> HIDE DEF e
        <5> QED BY <1>1, <4>2, <5>1, AppendIsConcat
      <4> HIDE DEF e
      <4>4. \A b, v : LastIn(inbox', b, v) => v = handle'
        BY <1>1, <4>2, <4>3, NewsAppended
      <4>5. \A v : LastTold(v)' => v = handle'
        BY <4>4 DEF LastTold
      <4> QED BY <2>2, <3>1, <3>3, <3>6, <4>1, <4>5, NamesApart DEF Representative
    <3> QED BY <1>10, <2>5, <3>4, <3>5, <3>6, TtlDiscoveredIs
  <2> QED BY <2>4, <2>5
<1> QED BY <1>8, <1>9, <1>10 DEF Forward

LEMMA SoleStep ==
  ASSUME SInv, Next
  PROVE  SoleInv'
<1>1. /\ TypeInv /\ SoleInv /\ PendingInv /\ BackupInv /\ TodoOK /\ cfg \in Configs
      /\ ready \in BOOLEAN /\ phase = "start" => ready = FALSE
  BY DEF SInv, TypeInv, SessionTypeOK, PendingInv
<1>2. CASE Inner
  BY <1>2, SoleInner
<1>3. CASE Forward
  BY <1>3, SoleForward
<1>4. CASE Falls
  <2>1. phase = "start" /\ phase' = "ended" /\ UNCHANGED <<cfg, ready, board, inbox>>
    BY <1>4, FallsKeeps
  <2>2. ~HasTtl'
    BY <1>1, <2>1, StageOtherNext
  <2>3. (~Hunts(cfg) \/ cfg.balanced => NewsIn(inbox) = {} /\ board.ttl = "none")'
    BY <1>1, <2>1 DEF SoleInv, Hunts
  <2> QED BY <2>1, <2>2, <2>3 DEF SoleInv, Sole
<1>5. CASE ListenerReady
  <2>1. /\ At("listen") /\ phase = "start" /\ phase' = "dash" /\ board' = NewBoard
        /\ UNCHANGED <<pool, handle, cfg, inbox, restoring, ended, scan>>
    BY <1>5 DEF ListenerReady, At, poolVars, scanVars, boundVars
  <2>2. ~At("pool") /\ ~At("plane") /\ ~At("ttl")
    BY <2>1 DEF At
  <2>3. HasTtl /\ HasTtl'
    BY <1>1, <2>1, <2>2, StageStart, StageOtherNext
  <2>4. board.ttl = "none" /\ board'.ttl = "none"
    BY <1>1, <2>1 DEF SoleInv, NewBoard
  <2>5. (~Hunts(cfg) \/ cfg.balanced => NewsIn(inbox) = {} /\ board.ttl = "none")'
    BY <1>1, <2>1, <2>4 DEF SoleInv, Hunts
  <2>6. ASSUME Sole'
        PROVE  (/\ \A v \in Targets : LastTold(v) => handle = v /\ pool[1].ttl = "none"
                /\ LastTold("none") /\ pool[1].ttl = "none" => handle = "config"
                /\ Clean => TtlOf(1) \in {"config", pool[1].id})'
    <3>1. Sole
      BY <2>1, <2>3, <2>6 DEF Sole, Hunts, Switching
    <3>2. (Clean' <=> Clean) /\ TtlOf(1)' = TtlOf(1) /\ \A v : LastTold(v)' <=> LastTold(v)
      BY <2>1, <2>4 DEF Clean, TtlOf, LastTold
    <3> QED BY <1>1, <2>1, <3>1, <3>2 DEF SoleInv
  <2> QED BY <2>1, <2>3, <2>5, <2>6 DEF SoleInv
<1>6. CASE DashboardEnds \/ (\E next \in Configs : KeyReload(next))
  <2>1. /\ phase = "dash" /\ phase' = "ended"
        /\ UNCHANGED <<ready, pool, handle, cfg, board, inbox, restoring, ended, scan>>
    BY <1>6 DEF DashboardEnds, KeyReload, poolVars, scanVars, boardVars, boundVars
  <2>2. HasTtl /\ HasTtl'
    BY <1>1, <2>1, StageOther, StageOtherNext DEF PendingInv
  <2>3. (~Hunts(cfg) \/ cfg.balanced => NewsIn(inbox) = {} /\ board.ttl = "none")'
    BY <1>1, <2>1 DEF SoleInv, Hunts
  <2>4. ASSUME Sole'
        PROVE  (/\ \A v \in Targets : LastTold(v) => handle = v /\ pool[1].ttl = "none"
                /\ LastTold("none") /\ pool[1].ttl = "none" => handle = "config"
                /\ Clean => TtlOf(1) \in {"config", pool[1].id})'
    <3>1. Sole
      BY <2>1, <2>2, <2>4 DEF Sole, Hunts, Switching
    <3>2. (Clean' <=> Clean) /\ TtlOf(1)' = TtlOf(1) /\ \A v : LastTold(v)' <=> LastTold(v)
      BY <2>1 DEF Clean, TtlOf, LastTold
    <3> QED BY <1>1, <2>1, <3>1, <3>2 DEF SoleInv
  <2> QED BY <2>1, <2>2, <2>3, <2>4 DEF SoleInv
<1>7. CASE GenerationEnds
  <2>1. phase' = "close" /\ handle' = "config" /\ inbox' = <<>> /\ board' = NewBoard
    BY <1>7 DEF GenerationEnds
  <2>2. NewsIn(inbox') = {} /\ board'.ttl = "none"
    <3>1. Len(inbox') = 0
      BY <2>1
    <3> QED BY <2>1, <3>1 DEF NewsIn, NewBoard
  <2>3. ~HasTtl'
    BY <2>1, StageOtherNext
  <2> QED BY <2>1, <2>2, <2>3 DEF SoleInv, Sole
<1>8. CASE CloseGeneration \/ CleanupScreen \/ Leaves \/ Stops \/ Finish \/ Launches
  <2>1. /\ phase \in {"close", "cleanup", "decide", "stopped", "final"}
        /\ UNCHANGED <<handle, board, inbox>>
        /\ phase' \in {"decide", "cleanup", "close", "final", "stopped", "exit", "start"}
        /\ phase = "final" => phase' = "exit"
    BY <1>1, <1>8, LeavesKeep, StopsKeep, LaunchesKeep
       DEF CloseGeneration, CleanupScreen, Finish, poolVars, boardVars
  <2>2. ~HasTtl
    BY <2>1, StageOther
  <2>3. ~HasTtl'
    <3>1. CASE Launches
      BY <1>1, <3>1, LaunchesKeep, StageBegin
    <3>2. CASE ~Launches
      <4>1. phase' # "start"
        BY <1>8, <3>2, LeavesKeep, StopsKeep DEF CloseGeneration, CleanupScreen, Finish
      <4> QED BY <2>1, <4>1, StageOtherNext
    <3> QED BY <3>1, <3>2
  <2>4. NewsIn(inbox) = {} /\ board.ttl = "none" /\ (phase # "final" => handle = "config")
    BY <1>1, <2>1, <2>2 DEF SoleInv
  <2> QED BY <2>1, <2>3, <2>4 DEF SoleInv, Sole
<1> QED BY <1>2, <1>3, <1>4, <1>5, <1>6, <1>7, <1>8, NextIs DEF Steps9

(***************************************************************************)
(* The invariant holds from the start.                                     *)
(***************************************************************************)
LEMMA InitOK ==
  ASSUME Init
  PROVE  SInv
<1>1. /\ cfg \in Configs /\ todo = Steps(cfg.mode) /\ phase = "start" /\ result = "none"
      /\ pending = NoConfig /\ ready = FALSE /\ discovered = "none" /\ restore = NoTargets
      /\ lastGood = NoBackup /\ restoring = FALSE
      /\ plane = "none" /\ taps = 0 /\ watched = FALSE
      /\ pool = <<>> /\ handle = "config" /\ binding = 0
      /\ worker = FALSE /\ scan = [a \in Scanners |-> Resting] /\ lock = "free"
      /\ board = NewBoard /\ inbox = <<>>
  BY DEF Init
<1>2. TodoOK /\ ~HasPool /\ ~HasTtl /\ Quiet
  <2> DEFINE S == Steps(cfg.mode)
  <2>1. S \in Seq(StepNames) /\ Len(S) \in {4, 5, 6} /\ (cfg.mode = "plus" => Len(S) = 5)
    BY <1>1, ConfigTyped, StepsAre
  <2>2. todo = S
    BY <1>1
  <2>3. Len(S) - Len(S) = 0 /\ Len(S) \in 1..Len(S)
    <3> DEFINE k == Len(S)
    <3>1. k \in {4, 5, 6}
      BY <2>1
    <3> HIDE DEF k
    <3>2. k - k = 0 /\ k \in 1..k
      BY <3>1
    <3> QED BY <3>2 DEF k
  <2>4. \A i \in 1..Len(S) : S[i] = S[Len(S) - Len(S) + i]
    BY <2>1, <2>3
  <2>5. TodoOK
    BY <1>1, <2>1, <2>2, <2>3, <2>4 DEF TodoOK
  <2>6. Len(todo) = Len(S)
    BY <2>2
  <2> DEFINE n == Len(S)
  <2>7. /\ HasPool <=> n < n
        /\ HasTtl => HasPool
        /\ Quiet <=> n >= IF cfg.mode = "plus" THEN 4 ELSE 3
    BY <1>1, <2>6 DEF HasPool, HasTtl, Quiet
  <2>8. n \in {4, 5, 6} /\ (cfg.mode = "plus" => n = 5)
    BY <2>1
  <2> HIDE DEF n
  <2>9. ~HasPool /\ ~HasTtl /\ Quiet
    BY <2>7, <2>8
  <2> QED BY <2>5, <2>9
<1>3. TodoOK /\ ~HasPool /\ ~HasTtl /\ Quiet
  BY <1>2
<1>4. \A a \in Scanners : scan[a] = Resting /\ scan[a].pc = "idle"
  BY <1>1, RestingTyped
<1>5. NewsIn(inbox) = {} /\ board.ttl = "none"
  <2>1. Len(inbox) = 0
    BY <1>1
  <2> QED BY <1>1, <2>1 DEF NewsIn, NewBoard
<1>6. TypeInv
  <2>1. SessionTypeOK
    <3>1. lastGood.config = NoConfig /\ lastGood.targets = <<>> /\ <<>> \in TargetLists
      BY <1>1, NoList DEF NoBackup, NoTargets
    <3>2. restore = <<>> /\ discovered \in Ttls /\ handle \in Ttls /\ phase \in Phases
      BY <1>1 DEF NoTargets, Ttls, Phases
    <3>3. /\ cfg \in Configs /\ result \in {"none", "ok", "err"} /\ pending \in Configs \cup {NoConfig}
          /\ ready \in BOOLEAN /\ plane \in {"none", "local", "remote"} /\ lock \in {"free"} \cup Scanners
      BY <1>1
    <3>4. taps \in 0..1 /\ binding \in Nat
      BY <1>1
    <3>5. restore \in TargetLists /\ pool \in TargetLists /\ lastGood.targets \in TargetLists
          /\ lastGood.config \in Configs \cup {NoConfig}
      BY <1>1, <3>1, <3>2
    <3> QED BY <3>2, <3>3, <3>4, <3>5, Zenon DEF SessionTypeOK
  <2>2. ScanOK
    BY <1>1, <1>4, RestingTyped DEF ScanOK
  <2>3. BoardOK
    BY <1>1 DEF BoardOK, NewBoard
  <2>4. lastGood \in [config : Configs \cup {NoConfig}, targets : TargetLists]
    BY <1>1, NoList DEF NoBackup, NoTargets
  <2> QED BY <1>1, <1>3, <2>1, <2>2, <2>3, <2>4 DEF TypeInv
<1>7. TapInv
  BY <1>1 DEF TapInv
<1>8. LockInv
  <2>1. OneHolder
    BY <1>1, <1>4 DEF OneHolder, Holding, Scanners
  <2>2. \A a \in Scanners : ScanFine(a)
    BY <1>4 DEF ScanFine
  <2>3. RecoveryScansNewNetwork
    BY <1>4 DEF RecoveryScansNewNetwork, Scanners
  <2> QED BY <1>1, <2>1, <2>2, <2>3 DEF LockInv
<1>9. PoolInv
  BY <1>1, <1>3 DEF PoolInv, HasTtl
<1>10. SoleInv
  BY <1>1, <1>3, <1>5 DEF SoleInv, Sole
<1>11. PendingInv
  BY <1>1 DEF PendingInv
<1>12. BackupInv
  BY <1>1, <1>3 DEF BackupInv
<1> QED BY <1>6, <1>7, <1>8, <1>9, <1>10, <1>11, <1>12 DEF SInv

LEMMA StutterOK ==
  ASSUME SInv, UNCHANGED vars
  PROVE  SInv'
<1>1. UNCHANGED <<cfg, todo, phase, result, pending, ready, discovered, restore, lastGood, restoring,
                  plane, taps, watched, pool, handle, binding, worker, scan, lock, request,
                  board, inbox, ended>>
  BY DEF vars, mainVars, ownVars, poolVars, scanVars, boardVars, boundVars
<1>2. HasPool' = HasPool /\ HasTtl' = HasTtl /\ Quiet' = Quiet /\ (TodoOK => TodoOK')
  BY <1>1, StageStill
<1>3. TypeInv'
  BY <1>1, <1>2 DEF SInv, TypeInv, SessionTypeOK, ScanOK, BoardOK
<1>4. TapInv' /\ PendingInv'
  BY <1>1 DEF SInv, TapInv, PendingInv
<1>5. LockInv'
  BY <1>1, <1>2 DEF SInv, LockInv, OneHolder, ScanFine, Representative, RecoveryScansNewNetwork
<1>6. PoolInv'
  BY <1>1, <1>2 DEF SInv, PoolInv
<1>7. SoleInv'
  BY <1>1, <1>2, SoleStays DEF SInv, Switching
<1>8. BackupInv'
  <2>1. (Closing' <=> Closing) /\ (Kept(lastGood, ended)' <=> Kept(lastGood, ended))
    BY <1>1 DEF Closing, Kept
  <2> QED BY <1>1, <1>2, <2>1 DEF SInv, BackupInv
<1> QED BY <1>3, <1>4, <1>5, <1>6, <1>7, <1>8 DEF SInv

\* The invariant the two theorems below rest on holds in every reachable state.
LEMMA SessionInductive == Spec => []SInv
<1>1. Init => SInv
  BY InitOK
<1>2. SInv /\ [Next]_vars => SInv'
  <2>1. ASSUME SInv, Next PROVE SInv'
    BY <2>1, TypeStep, TapStep, LockStep, PoolStep, SoleStep, PendingStep, BackupStep DEF SInv
  <2> QED BY <2>1, StutterOK
<1> QED BY <1>1, <1>2, PTL DEF Spec

(***************************************************************************)
(* What the invariant says of the service.                                 *)
(***************************************************************************)
LEMMA TtlFits ==
  ASSUME SInv
  PROVE  TtlFitsTarget
<1> SUFFICES ASSUME phase = "dash", Clean, \A a \in Scanners : scan[a].pc # "switch",
                    NEW i \in DOMAIN pool
             PROVE  TtlOf(i) \in {"config", pool[i].id}
  BY DEF TtlFitsTarget, Clean
<1>1. /\ cfg \in Configs /\ pool \in TargetLists /\ PoolInv /\ SoleInv
  BY DEF SInv, TypeInv, SessionTypeOK
<1>2. HasPool /\ HasTtl /\ ~Switching
  BY StageOther DEF Switching
<1>3. Shape(cfg, pool) /\ OwnTtls(cfg, pool) /\ (~Hunts(cfg) => handle = "config")
  BY <1>1, <1>2 DEF PoolInv
<1>4. CASE ~Hunts(cfg)
  BY <1>3, <1>4 DEF OwnTtls, TtlOf
<1>5. CASE Hunts(cfg) /\ cfg.balanced
  <2>1. pool[i].ttl \in {"config", pool[i].id}
    BY <1>3, <1>5 DEF OwnTtls
  <2>2. pool[i].id \in Targets
    BY <1>1, Lists DEF Entry
  <2> QED BY <2>1, <2>2, NamesApart DEF TtlOf
<1>6. CASE Hunts(cfg) /\ ~cfg.balanced
  <2>1. TtlOf(1) \in {"config", pool[1].id}
    BY <1>1, <1>2, <1>6 DEF SoleInv, Sole
  <2>2. i = 1
    BY <1>1, <1>3, <1>6, ShapedList
  <2> QED BY <2>1, <2>2
<1> QED BY <1>4, <1>5, <1>6

\* SessionInv: one interceptor at a time, no target swap that races another, no
\* target used with the TTL of another, no recovery scan over an old binding and no
\* generation without a target, over every sequence of reloads, rescans, network
\* changes, failed starts, failed closes and restarts (reload.rs, main.rs,
\* manual_rescan.rs, recovery.rs), for any sets of targets, configurations and scan
\* results.
THEOREM SessionInvHolds == Spec => []SessionInv
<1>1. SInv => SessionInv
  <2> SUFFICES ASSUME SInv PROVE SessionInv
    OBVIOUS
  <2>1. /\ SessionTypeOK /\ TodoOK /\ TapInv /\ LockInv /\ PoolInv /\ cfg \in Configs /\ taps \in 0..1
    BY DEF SInv, TypeInv, SessionTypeOK
  <2>2. OneInterceptor
    <3>1. At("plane") => plane = "none"
      <4> SUFFICES ASSUME At("plane") PROVE plane = "none"
        OBVIOUS
      <4>1. phase = "start"
        BY DEF At
      <4>2. Len(todo) >= (IF cfg.mode = "plus" THEN 3 ELSE 5)
        BY <2>1, <4>1, StageStart
      <4> QED BY <2>1, <4>1, <4>2 DEF TapInv
    <3> QED BY <2>1, <3>1 DEF OneInterceptor, TapInv
  <2>3. SwapsDoNotRace
    BY <2>1 DEF SwapsDoNotRace, LockInv, ScanFine
  <2>4. PoolSurvives
    BY <2>1, StageOther DEF PoolSurvives, PoolInv, Shape
  <2>5. RecoveryScansNewNetwork
    BY <2>1 DEF LockInv
  <2> QED BY <2>1, <2>2, <2>3, <2>4, <2>5, TtlFits DEF SessionInv
<1> QED BY <1>1, SessionInductive, PTL

\* RestoresService: when a reload fails, the generation that is started again has
\* the configuration and the targets that were in service, and the TTL too when the
\* dashboard had read every event before the reload (Backup and restore_pool of
\* reload.rs, run_config).
THEOREM ServiceIsRestored == Spec => []RestoresService
<1>1. SInv => RestoresService
  <2> SUFFICES ASSUME SInv, restoring, At("worker")
               PROVE  /\ cfg = ended.config /\ Ids(pool) = ended.ids
                      /\ (ended.seen /\ cfg.mode = "sni" /\ cfg.plane # "none") => TtlOf(1) = ended.ttl
    BY DEF RestoresService
  <2>1. phase = "start" /\ TodoOK /\ cfg \in Configs /\ BackupInv
    BY DEF At, SInv, TypeInv, SessionTypeOK
  <2>2. HasPool /\ Quiet
    <3>1. ~At("pool")
      BY DEF At
    <3> QED BY <2>1, <3>1, StageStart
  <2>3. /\ pool = lastGood.targets /\ cfg = lastGood.config /\ Kept(lastGood, ended)
        /\ pool[1].ttl = "none" => handle = "config"
    BY <2>1, <2>2, Restarted DEF BackupInv
  <2>4. cfg = ended.config /\ Ids(pool) = ended.ids
    BY <2>3 DEF Kept
  <2>5. ended.seen /\ cfg.mode = "sni" =>
          ended.ttl = IF pool[1].ttl # "none" THEN pool[1].ttl ELSE "config"
    BY <2>3 DEF Kept
  <2> QED BY <2>3, <2>4, <2>5 DEF TtlOf
<1> QED BY <1>1, SessionInductive, PTL
=============================================================================
