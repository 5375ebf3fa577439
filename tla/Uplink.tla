------------------------------- MODULE Uplink -------------------------------
(***************************************************************************)
(* Which physical interface outbound traffic must use (uplink.rs), and how *)
(* an outbound socket is tied to it (uplink.rs, net.rs).                   *)
(*                                                                         *)
(* An adapter is a model value.  What does not change about it is in the   *)
(* constant functions; what the system may change is a condition:          *)
(*   up      the link is operational                                       *)
(*   addrs   its IPv4 addresses in the order the system lists them         *)
(*   routes  the metrics of its default routes                             *)
(* A name is abstracted to the class the code gives it: "virtual" when it  *)
(* matches one of the excluded markers or prefixes, "cellular" for rmnet,  *)
(* ccmni and wwan, "lan" for the rest.                                     *)
(***************************************************************************)
EXTENDS Integers, Sequences, FiniteSets

CONSTANTS Adapters,    \* the network adapters of the machine
          Index,       \* [Adapters -> Nat]: the interface index, 0 for none
          Class,       \* [Adapters -> Classes]
          IfMetric,    \* [Adapters -> Nat]: the interface metric Windows reports
          Usable,      \* addresses that are neither unspecified, loopback nor link-local
          Unusable,    \* the others
          None

Classes == {"lan", "cellular", "virtual"}
Platforms == {"windows", "linux", "android"}

\* The system gives no two of its adapters the same index.
ASSUME AdaptersAssumption ==
  /\ Index \in [Adapters -> Nat] /\ Class \in [Adapters -> Classes]
  /\ \A a, b \in Adapters : Index[a] = Index[b] /\ Index[a] # 0 => a = b
  /\ IfMetric \in [Adapters -> Nat]
  /\ Usable \cap Unusable = {} /\ None \notin Usable

Condition == [up : BOOLEAN, addrs : Seq(Usable \cup Unusable), routes : SUBSET Nat]

\* Behind every real metric: u32::MAX / 2.
NoRoute == 1000

Bindings == [adapter : Adapters, ip : Usable]

IsUsable(ip) == ip \in Usable

NotVirtual(a) == Class[a] # "virtual"

\* Windows knows Ethernet and Wi-Fi adapters only.
WindowsPhysical(a) == Class[a] = "lan" /\ NotVirtual(a)

\* Linux and Android also know the cellular links.
LinuxPhysical(a) == NotVirtual(a)

\* The positions of the usable addresses of an adapter.
UsableAt(c) == {n \in 1..Len(c.addrs) : IsUsable(c.addrs[n])}

FirstUsable(c) == c.addrs[CHOOSE n \in UsableAt(c) : \A k \in UsableAt(c) : n <= k]

LowestMetric(c) ==
  IF c.routes = {} THEN NoRoute ELSE CHOOSE r \in c.routes : \A s \in c.routes : r <= s

KindRank(a) == IF Class[a] = "cellular" THEN 1 ELSE 0

\* collect_candidates: one candidate per adapter, with its first usable address.
WindowsCandidates(adapters) ==
  {[binding |-> [adapter |-> a, ip |-> FirstUsable(adapters[a])],
    order |-> <<IfMetric[a], Index[a]>>] :
     a \in {x \in Adapters : /\ adapters[x].up
                             /\ Index[x] # 0
                             /\ WindowsPhysical(x)
                             /\ UsableAt(adapters[x]) # {}}}

\* The interface and address pairs the system lists: <<adapter, position>>.
\* SIOCGIFCONF is asked again with a larger buffer until the answer leaves room,
\* so that no pair is cut off.
Pairs(adapters) == UNION {{<<a, n>> : n \in 1..Len(adapters[a].addrs)} : a \in Adapters}

\* enumerate_candidates: the pairs that can carry traffic.
PhysicalPairs(adapters) ==
  {p \in Pairs(adapters) : /\ adapters[p[1]].up
                           /\ LinuxPhysical(p[1])
                           /\ p[2] \in UsableAt(adapters[p[1]])
                           /\ Index[p[1]] # 0}

\* A candidate per pair.  The stable sort keeps an adapter's first address in
\* front of its others, so the position is the last key.
LinuxCandidates(adapters) ==
  {[binding |-> [adapter |-> p[1], ip |-> adapters[p[1]].addrs[p[2]]],
    order |-> <<LowestMetric(adapters[p[1]]), KindRank(p[1]), Index[p[1]], p[2]>>] :
     p \in PhysicalPairs(adapters)}

Candidates(platform, adapters) ==
  IF platform = "windows" THEN WindowsCandidates(adapters) ELSE LinuxCandidates(adapters)

\* s comes before t, compared key by key.
Before(s, t) ==
  \E n \in 1..Len(s) : s[n] < t[n] /\ \A k \in 1..(n - 1) : s[k] = t[k]

\* resolve_physical_binding: sort and take the first; None stands for the error.
Resolve(platform, adapters) ==
  LET found == Candidates(platform, adapters)
  IN  IF found = {} THEN None
      ELSE (CHOOSE c \in found : \A d \in found : d = c \/ Before(c.order, d.order)).binding

(***************************************************************************)
(* Sockets: the ones a call that succeeds can return, each with the device *)
(* and the source address it is tied to.                                   *)
(***************************************************************************)
\* PlatformSocketBinder::configure on Windows needs the interface index.
ConfigureWindows(b) == IF Index[b.adapter] = 0 THEN {} ELSE {b.adapter}

\* SO_BINDTODEVICE; Android may refuse it to an ordinary process, and the socket
\* then goes on without a device.
ConfigureLinux(platform, b) == {b.adapter} \cup (IF platform = "android" THEN {None} ELSE {})

Configure(platform, b) ==
  IF platform = "windows" THEN ConfigureWindows(b) ELSE ConfigureLinux(platform, b)

\* The address is still one of the adapter's, or bind(2) fails.
HasAddress(adapters, b) ==
  \E n \in 1..Len(adapters[b.adapter].addrs) : adapters[b.adapter].addrs[n] = b.ip

\* bound_tcp_socket.
BoundSockets(platform, adapters, b) ==
  {[device |-> d, source |-> b.ip] :
     d \in IF HasAddress(adapters, b) THEN Configure(platform, b) ELSE {}}

\* connect_bound for an IPv6 target: the device alone.
BoundSockets6(platform, b) == {[device |-> d, source |-> None] : d \in Configure(platform, b)}
=============================================================================
