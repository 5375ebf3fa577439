------------------------------ MODULE Discovery ------------------------------
(* LOW_TTL_DISCOVER: the search for the TTL the decoys of low_ttl should carry   *)
(* (zerodpi-core low_ttl_discover.rs, and LowTtlDiscoveryState in main.rs).      *)
(*                                                                               *)
(* A decoy does its work when it reaches the inspecting hop and not the server.  *)
(* The search tries 1, 2, ... with one real connection each: bind, register the  *)
(* flow with the candidate as its own TTL, connect, wait for the decoy, shake    *)
(* hands, remove the flow.  Any step may fail for reasons of its own; `faults`   *)
(* counts those failures.                                                        *)
EXTENDS Integers

CONSTANTS
  MaxTtl,      \* LOW_TTL_DISCOVER_MAX
  LowTtlValue, \* LOW_TTL_VALUE
  Paths,       \* [dpi, server]: the distance in hops of the inspecting hop and the server
  MaxFaults    \* bound: failures a search meets

ASSUME DiscoveryAssumption ==
  /\ MaxTtl \in Nat \ {0} /\ LowTtlValue \in Nat /\ MaxFaults \in Nat
  /\ Paths \subseteq [dpi : Nat \ {0}, server : Nat]

VARIABLES
  path,        \* the route to the target
  search,      \* [pc, ttl, best]: where scan_ttl is; best is 0 before a success
  flow,        \* who owns the 4-tuple of the probe in the flow table
  handle,      \* the TTL of every flow without one of its own
  faults

discoveryVars == <<path, search, flow, handle, faults>>

Idle == [pc |-> "idle", ttl |-> 0, best |-> 0]
Steps == {"bind", "register", "connect", "progress", "handshake"}

InitDiscovery ==
  /\ path \in Paths
  /\ search = Idle
  /\ flow = "none"
  /\ handle = LowTtlValue
  /\ faults = 0

\* The decoy is seen by the inspecting hop and dies before the server.
Works(ttl) == path.dpi <= ttl /\ ttl < path.server

At(step) == search.pc = step
Goto(step) == search' = [search EXCEPT !.pc = step]

\* discover_low_ttl starts; a name that is no server name ends it at once.
Begin ==
  /\ At("idle")
  /\ search' = [pc |-> "bind", ttl |-> 1, best |-> 0]
  /\ UNCHANGED <<path, flow, handle, faults>>
BeginInvalid ==
  /\ At("idle")
  /\ Goto("end")
  /\ UNCHANGED <<path, flow, handle, faults>>

\* scan_ttl: what follows a probe.
AfterProbe(ok) ==
  LET best == IF ok THEN search.ttl ELSE search.best
      over == search.ttl = MaxTtl \/ (~ok /\ search.best # 0)
  IN  search' = IF over THEN [pc |-> "apply", ttl |-> search.ttl, best |-> best]
                ELSE [pc |-> "bind", ttl |-> search.ttl + 1, best |-> best]

\* A step of the probe fails: no socket, no registration, a timeout.
Fault == faults < MaxFaults /\ faults' = faults + 1

\* Another flow may still own the 4-tuple the kernel picked.
Bound ==
  /\ At("bind")
  /\ Goto("register")
  /\ \/ flow' = "none" /\ UNCHANGED faults
     \/ flow' = "other" /\ Fault
  /\ UNCHANGED <<path, handle>>
BindFails ==
  /\ At("bind")
  /\ Fault
  /\ AfterProbe(FALSE)
  /\ UNCHANGED <<path, flow, handle>>

\* register_probe_flow: a flow that is there is left alone.
Registered ==
  /\ At("register") /\ flow = "none"
  /\ flow' = "probe"
  /\ Goto("connect")
  /\ UNCHANGED <<path, handle, faults>>
RegistrationRefused ==
  /\ At("register")
  /\ Fault
  /\ AfterProbe(FALSE)
  /\ UNCHANGED <<path, flow, handle>>
AlreadyRegistered ==
  /\ At("register") /\ flow = "other"
  /\ AfterProbe(FALSE)
  /\ UNCHANGED <<path, flow, handle, faults>>

\* The connection stands; the decoy went out on the handshake ACK.
Connected ==
  /\ At("connect")
  /\ Goto("progress")
  /\ UNCHANGED <<path, flow, handle, faults>>

\* wait_for_bypass_progress: any outcome, or waiting_for_data, is progress.
Progressed ==
  /\ At("progress")
  /\ Goto("handshake")
  /\ UNCHANGED <<path, flow, handle, faults>>

\* Connect or progress takes longer than LOW_TTL_DISCOVER_TIMEOUT_MS.
ProbeTimesOut ==
  /\ search.pc \in {"connect", "progress"}
  /\ Fault
  /\ flow' = "none"
  /\ AfterProbe(FALSE)
  /\ UNCHANGED <<path, handle>>

\* Variation: every success is applied while the search goes on.
ShakenApplying ==
  /\ At("handshake")
  /\ flow' = "none"
  /\ AfterProbe(Works(search.ttl))
  /\ handle' = search.ttl
  /\ UNCHANGED <<path, faults>>

\* tls_handshake_ok: the handshake ends as the decoy decided, or is lost.
Shaken ==
  /\ At("handshake")
  /\ flow' = "none"
  /\ AfterProbe(Works(search.ttl))
  /\ UNCHANGED <<path, handle, faults>>
HandshakeLost ==
  /\ At("handshake")
  /\ Fault
  /\ flow' = "none"
  /\ AfterProbe(FALSE)
  /\ UNCHANGED <<path, handle>>

\* Another flow ends, or was there and takes its leave.
OtherEnds ==
  /\ flow = "other"
  /\ flow' = "none"
  /\ UNCHANGED <<path, search, handle, faults>>

\* LowTtlApplier::apply, once, after the search; SetLowTtlValue may fail.
Applied ==
  /\ At("apply") /\ search.best # 0
  /\ Goto("end")
  /\ handle' = search.best
  /\ UNCHANGED <<path, flow, faults>>
ApplyFails ==
  /\ At("apply") /\ search.best # 0
  /\ Fault
  /\ Goto("end")
  /\ UNCHANGED <<path, flow, handle>>
NothingFound ==
  /\ At("apply") /\ search.best = 0
  /\ Goto("end")
  /\ UNCHANGED <<path, flow, handle, faults>>

Probing ==
  \/ Bound \/ BindFails \/ Registered \/ RegistrationRefused \/ AlreadyRegistered \/ Connected
  \/ Progressed \/ ProbeTimesOut \/ Shaken \/ HandshakeLost \/ OtherEnds
DiscoveryNext == Begin \/ BeginInvalid \/ Probing \/ Applied \/ ApplyFails \/ NothingFound

-----------------------------------------------------------------------------

DiscoveryTypeOK ==
  /\ path \in Paths
  /\ search \in [pc : Steps \cup {"idle", "apply", "end"}, ttl : 0..MaxTtl, best : 0..MaxTtl]
  /\ flow \in {"none", "probe", "other"}
  /\ handle \in {LowTtlValue} \cup 1..MaxTtl /\ faults \in Nat

\* The value of the shared handle (LowTtlDiscoveryState::run, "apply the discovered
\* value exactly once, after the scan completes"): the configured one until the
\* search is over, then that or a value that works on the route; and a search in
\* which nothing failed finds the largest TTL of the first window that does.
FoundTtlWorks ==
  /\ search.pc # "end" => handle = LowTtlValue
  /\ handle # LowTtlValue => Works(handle)
  /\ (search.pc = "end" /\ search.ttl > 0 /\ faults = 0) =>
       \A ttl \in 1..MaxTtl : Works(ttl) => Works(handle) /\ ttl <= handle

\* remove_flow on every path of a probe that registered, and on no other: a probe
\* has a flow of its own exactly while its connection is used.
ProbesOwnTheirFlow == flow = "probe" <=> search.pc \in {"connect", "progress", "handshake"}

\* What the search knows: the best value so far works; while nothing has failed, the
\* values below the candidate are refused, or the best one is just below it.
SearchKnows ==
  /\ search.pc = "idle" => search.ttl = 0
  /\ search.pc \in Steps \cup {"apply"} => search.ttl >= 1
  /\ search.best # 0 => Works(search.best)
  /\ faults = 0 =>
       /\ flow # "other"
       /\ search.pc \in Steps =>
            IF search.best = 0 THEN \A ttl \in 1..(search.ttl - 1) : ~Works(ttl)
            ELSE search.best = search.ttl - 1
       /\ search.pc = "apply" =>
            \A ttl \in 1..MaxTtl : Works(ttl) => search.best # 0 /\ ttl <= search.best

\* The inductive invariant.
DiscoveryInv ==
  DiscoveryTypeOK /\ SearchKnows /\ FoundTtlWorks /\ ProbesOwnTheirFlow

DiscoverySpec == InitDiscovery /\ [][DiscoveryNext]_discoveryVars
=============================================================================
