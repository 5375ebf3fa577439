------------------------------ MODULE Emission ------------------------------
(***************************************************************************)
(* From a captured data packet to the packets on the wire: what the data   *)
(* stage stages on it (methods/fake_tls.rs, ip_frag.rs, disorder.rs,       *)
(* seqovl.rs, tls_record_frag.rs), how a rebuilt packet is split           *)
(* (tcp_segment.rs, ip_fragment.rs) and what the two capture backends send *)
(* (zerodpi-platform linux.rs, windows.rs).                                *)
(*                                                                         *)
(* A TCP packet is [seq, psh, data]; on the wire it is an IP packet        *)
(* [id, off, more, data] whose data starts with the TCP header, two cells. *)
(* The options a configuration adds to those of Methods:                   *)
(*   backend, raw         NFQUEUE or WinDivert; is the raw socket open     *)
(*   frag_size            TLS_RECORD_FRAG_SIZE                             *)
(*   segments, reverse, overlap, delay   of disorder and seqovl            *)
(*   ip_size              IP_FRAG_SIZE                                     *)
(*   repeats              FAKE_TLS_REPEATS                                 *)
(***************************************************************************)
EXTENDS ClientHello, Methods

CONSTANTS
  Modulus,    \* of sequence numbers (2^32)
  Unit,       \* the unit of fragment offsets (8)
  MaxPacket,  \* the largest IP packet (65535)
  Fake        \* flow.fake_data

ASSUME EmissionAssumption ==
  /\ Modulus \in Nat \ {0} /\ Unit \in Nat \ {0} /\ MaxPacket \in Nat

TcpHeader == 2

-----------------------------------------------------------------------------
(* Splitting *)

\* Variation: a prefix as long as a chunk is kept in reverse order.
OverlapFitsLoosely(spec, chunk) ==
  /\ ~spec.reverse \/ Len(spec.overlap) <= chunk
  /\ TcpHeader + chunk + Len(spec.overlap) <= MaxPacket

\* The overlap prefix is kept only where the receiver recovers from it: in
\* reverse order it must fit strictly inside the chunk sent next, and the
\* packet must stay within the limit.
OverlapFits(spec, chunk) ==
  /\ ~spec.reverse \/ Len(spec.overlap) < chunk
  /\ TcpHeader + chunk + Len(spec.overlap) <= MaxPacket

\* wrapping_add and wrapping_sub
Rewound(seq, offset, prefix) == (seq + offset + Modulus - Len(prefix)) % Modulus

\* split_tcp_payload: segments in the order of emission. The first one out
\* carries the prefix and starts that much earlier.
SplitTcpPayload(pkt, spec) ==
  LET chunk == (Len(pkt.data) + spec.segments - 1) \div spec.segments
      parts == Chunks(pkt.data, chunk)
      carrier == IF spec.reverse THEN Len(parts) ELSE 1
      prefix(i) == IF i = carrier /\ OverlapFits(spec, chunk) THEN spec.overlap ELSE <<>>
      built == [i \in DOMAIN parts |->
        [seq |-> Rewound(pkt.seq, (i - 1) * chunk, prefix(i)),
         psh |-> IF i = Len(parts) THEN pkt.psh ELSE 0,
         data |-> prefix(i) \o parts[i]]]
  IN
  IF spec.segments < 2 \/ Len(pkt.data) < spec.segments THEN <<pkt>>
  ELSE IF spec.reverse THEN Reverse(built) ELSE built

\* The IP packet of a TCP packet.
Whole(id, pkt) ==
  [id |-> id, off |-> 0, more |-> FALSE, data |-> <<pkt.seq, pkt.psh>> \o pkt.data]

ChunkOf(frag_size) == frag_size - (frag_size % Unit)

\* fragment_ipv4_packet
FragmentIpv4(ip, frag_size) ==
  LET chunk == ChunkOf(frag_size)
      parts == Chunks(ip.data, chunk)
  IN
  IF chunk = 0 \/ Len(ip.data) <= chunk THEN <<ip>>
  ELSE [i \in DOMAIN parts |->
         [id |-> ip.id, off |-> ((i - 1) * chunk) \div Unit,
          more |-> i < Len(parts), data |-> parts[i]]]

-----------------------------------------------------------------------------
(* What the data stage stages: a PacketView's new_* fields *)

\* The decoy lies just below the first byte of the stream, `first`.
DecoyOf(pkt, first) ==
  [seq |-> (first + Modulus - (Len(Fake) % Modulus)) % Modulus, psh |-> 1, data |-> Fake]

\* disorder and seqovl stage a split when the captured payload is long enough
\* for it; of the two, the configuration accepts one.
SpecOf(cfg, pkt) ==
  IF Listed(cfg) \cap {"disorder", "seqovl"} # {} /\ Len(pkt.data) >= cfg.segments
  THEN {[segments |-> cfg.segments, reverse |-> cfg.reverse, overlap |-> cfg.overlap]}
  ELSE {}

\* ip_frag stages a size when the packet does not fit one fragment.
FragOf(cfg, pkt) ==
  IF "ip_frag" \in Listed(cfg) /\ TcpHeader + Len(pkt.data) > cfg.ip_size
  THEN {cfg.ip_size} ELSE {}

\* The rewritten packet, what shapes its emission, what goes out before it
\* and what after.
Staged(cfg, pkt, first, again) ==
  LET rewritten == FragmentPayload(pkt.data, cfg.frag_size)
      decoy == DecoyOf(pkt, first)
      fakes == "fake_tls" \in Listed(cfg)
      replaces == fakes /\ ~ChainedFakeTls(cfg)
      data == IF "tls_record_frag" \in Listed(cfg) /\ rewritten # {}
              THEN CHOOSE d \in rewritten : TRUE ELSE pkt.data
  IN
  [packet |-> IF replaces THEN decoy ELSE [pkt EXCEPT !.data = data],
   spec |-> SpecOf(cfg, pkt),
   frag |-> FragOf(cfg, pkt),
   decoy |-> IF fakes /\ ~replaces /\ ~again THEN {decoy} ELSE {},
   after |-> replaces /\ cfg.forward]

\* Is the captured packet rewritten at all (Verdict::AcceptModified)?
Rewritten(cfg, pkt, again) ==
  Emits(CompositeData(cfg, FragmentPayload(pkt.data, cfg.frag_size) # {}, again))

-----------------------------------------------------------------------------
(* What the backends send. An outcome is [now, later, ok]: the packets sent *)
(* at once, the ones left to a delayed worker, and whether every send of a  *)
(* chosen packet worked.                                                    *)

Sent(now, ok) == [now |-> now, later |-> <<>>, ok |-> ok]

\* Sends of one packet after the other that stop at the first failure.
UpToFailure(packets) ==
  {Sent(Take(packets, k), k = Len(packets)) : k \in 0..Len(packets)}

\* The segments behind the first: at once, or left to a worker.
Remaining(first, rest, delay) ==
  IF delay THEN {[now |-> <<first>>, later |-> rest, ok |-> TRUE]}
  ELSE {[o EXCEPT !.now = <<first>> \o @] : o \in UpToFailure(rest)}

\* NFQUEUE, ip_frag: when a fragment cannot be injected the queued packet is
\* accepted in its rewritten form, else it is dropped.
NfqFragments(ip, frags) ==
  {IF o.ok THEN o ELSE [o EXCEPT !.now = @ \o <<ip>>] : o \in UpToFailure(frags)}

\* The rewritten packet's segments, or its fragments, if it is to be split.
SegmentsOf(id, view) ==
  {IF view.spec = {} THEN <<>>
   ELSE LET split == SplitTcpPayload(view.packet, CHOOSE s \in view.spec : TRUE)
        IN [i \in DOMAIN split |-> Whole(id, split[i])]}
FragmentsOf(id, view) ==
  {IF view.frag = {} THEN <<>>
   ELSE FragmentIpv4(Whole(id, view.packet), CHOOSE f \in view.frag : TRUE)}

\* NFQUEUE: everything but the queued packet goes through the raw socket;
\* without one the rewritten packet leaves whole.
NfqEmissions(cfg, original, after, ip, segs, frags) ==
  CASE cfg.raw /\ Len(frags) > 1 -> NfqFragments(ip, frags)
    [] cfg.raw /\ Len(frags) <= 1 /\ Len(segs) > 1 ->
         {Sent(<<ip>>, FALSE)} \cup Remaining(segs[1], Tail(segs), cfg.delay)
    [] cfg.raw /\ after -> {Sent(<<ip, original>>, TRUE), Sent(<<ip>>, FALSE)}
    [] OTHER -> {Sent(<<ip>>, TRUE)}

\* WinDivert: a fragment that cannot be sent is passed over; when the first
\* segment cannot, the original is; a worker may fail to open its handle.
DivertEmissions(cfg, original, after, ip, segs, frags) ==
  CASE Len(frags) > 1 ->
         {Sent(frags, TRUE)} \cup {Sent(RemoveAt(frags, i), FALSE) : i \in DOMAIN frags}
    [] Len(frags) <= 1 /\ Len(segs) > 1 ->
         {Sent(<<original>>, FALSE), Sent(<<segs[1]>>, FALSE)}
           \cup Remaining(segs[1], Tail(segs), cfg.delay)
    [] after -> {Sent(<<ip, original>>, TRUE), Sent(<<original>>, FALSE),
                      Sent(<<ip>>, FALSE)}
    [] OTHER -> {Sent(<<ip>>, TRUE), Sent(<<>>, FALSE)}

\* The decoys of a chained fake_tls go first, as long as they can be sent.
Decoys(cfg, id, view) ==
  IF view.decoy = {} \/ (cfg.backend = "nfqueue" /\ ~cfg.raw) THEN {Sent(<<>>, TRUE)}
  ELSE UpToFailure([i \in 1..cfg.repeats |-> Whole(id, CHOOSE d \in view.decoy : TRUE)])

Emissions(cfg, id, pkt, view) ==
  LET original == Whole(id, pkt)
      ip == Whole(id, view.packet)
  IN
  {[now |-> d.now \o o.now, later |-> o.later, ok |-> d.ok /\ o.ok] :
     d \in Decoys(cfg, id, view),
     o \in UNION {IF cfg.backend = "nfqueue"
                  THEN NfqEmissions(cfg, original, view.after, ip, segs, frags)
                  ELSE DivertEmissions(cfg, original, view.after, ip, segs, frags) :
                    segs \in SegmentsOf(id, view), frags \in FragmentsOf(id, view)}}
=============================================================================
