------------------------------- MODULE Methods -------------------------------
(***************************************************************************)
(* The bypass methods and their composition (zerodpi-core methods/*.rs):   *)
(* which lists the configuration accepts, how build_method sorts a list    *)
(* into stages, what each member answers to a packet, and what             *)
(* CompositeMethod makes of the members' answers.                          *)
(*                                                                         *)
(* A configuration is a record                                             *)
(*   list       the BYPASS_METHOD names in order                           *)
(*   immediate  the members whose *_COMPLETE_IMMEDIATELY is set            *)
(*   every      the shapers with *_ONLY_FIRST_PACKET = false               *)
(*   forward    FAKE_TLS_FORWARD_REAL                                      *)
(* and `usable` is what a member reads off a packet: does the handshake    *)
(* ACK carry a timestamp option, is the data a sequence of complete TLS    *)
(* records.                                                                *)
(***************************************************************************)
EXTENDS Naturals, Sequences, FiniteSets

FakePacketMethods ==
  {"wrong_seq", "wrong_ack", "wrong_checksum", "wrong_md5", "wrong_timestamp",
   "low_ttl"}
EmissionShapers == {"ip_frag", "disorder", "seqovl"}
SocketMethods ==
  {"tls_frag", "ccs_prefix", "tls_padding", "mixed_case_sni",
   "sni_boundary_frag", "tls_record_split"}

\* How build_method sorts the names: what it pushes on the handshake list and
\* on the data list; the socket-side names are flags of the composite.
HandshakeList == FakePacketMethods \cup {"urg_sni_split"}
DataList == EmissionShapers \cup {"tls_record_frag", "fake_tls"}

BaseBypassMethods == HandshakeList \cup DataList \cup SocketMethods

Listed(cfg) == {cfg.list[i] : i \in DOMAIN cfg.list}

IsSocketOnly(cfg) == Listed(cfg) # {} /\ Listed(cfg) \subseteq SocketMethods

\* The decoy goes in front of another data-stage method.
ChainedFakeTls(cfg) ==
  /\ "fake_tls" \in Listed(cfg)
  /\ Listed(cfg) \cap (EmissionShapers \cup {"tls_record_frag"}) # {}

\* Config::validate, the BYPASS_METHOD rules.
ValidList(cfg) ==
  LET names == Listed(cfg)
      alone(m, others) == m \in names => names \subseteq others \cup {m}
  IN
  /\ cfg.list # <<>>
  /\ names \subseteq BaseBypassMethods
  /\ Cardinality(names) = Len(cfg.list)
  /\ ~({"tls_record_split", "sni_boundary_frag"} \subseteq names)
  /\ alone("urg_sni_split", {"tls_frag"})
  /\ alone("sni_boundary_frag",
           FakePacketMethods \cup {"tls_frag", "tls_padding", "mixed_case_sni",
                                   "fake_tls", "ip_frag", "ccs_prefix"})
  /\ Cardinality(names \cap EmissionShapers) <= 1
  /\ ChainedFakeTls(cfg) => cfg.forward

-----------------------------------------------------------------------------
(* MethodAction *)

Emit(immediate, more) ==
  [kind |-> "EmitFakeAndAccept", complete_immediately |-> immediate,
   continue_with_data |-> more]
EmitAndWaitForAck == Emit(FALSE, FALSE)
EmitAndComplete == Emit(TRUE, FALSE)
EmitAndWaitForData == Emit(FALSE, TRUE)

Plain(kind) == [kind |-> kind, complete_immediately |-> FALSE,
                continue_with_data |-> FALSE]
CompleteAndAccept == Plain("CompleteAndAccept")
PassThrough == Plain("PassThrough")
AbortAndAccept == Plain("AbortAndAccept")

Emits(act) == act.kind = "EmitFakeAndAccept"

-----------------------------------------------------------------------------
(* The members *)

\* on_handshake_complete_ack of the members of the handshake list.
WrongSeq(cfg) == EmitAndWaitForAck
WrongAck(cfg) == Emit("wrong_ack" \in cfg.immediate, FALSE)
WrongChecksum(cfg) == Emit("wrong_checksum" \in cfg.immediate, FALSE)
WrongMd5(cfg) == Emit("wrong_md5" \in cfg.immediate, FALSE)
LowTtl(cfg) == Emit("low_ttl" \in cfg.immediate, FALSE)
UrgSniSplit(cfg) == PassThrough

\* Without a timestamp option there is nothing to rewrite.
WrongTimestamp(cfg, usable) ==
  IF usable THEN Emit("wrong_timestamp" \in cfg.immediate, FALSE) ELSE AbortAndAccept

HandshakeAnswer(m, cfg, usable) ==
  CASE m = "wrong_seq" -> WrongSeq(cfg)
    [] m = "wrong_ack" -> WrongAck(cfg)
    [] m = "wrong_checksum" -> WrongChecksum(cfg)
    [] m = "wrong_md5" -> WrongMd5(cfg)
    [] m = "wrong_timestamp" -> WrongTimestamp(cfg, usable)
    [] m = "low_ttl" -> LowTtl(cfg)
    [] m = "urg_sni_split" -> UrgSniSplit(cfg)

\* on_first_data_packet of the members of the data list; `again` is the flow's
\* first_data_modified.
TlsRecordFrag(usable) == IF usable THEN EmitAndComplete ELSE CompleteAndAccept

\* A chained decoy belongs to the first data packet only.
FakeTls(cfg, again) ==
  IF ChainedFakeTls(cfg) /\ again THEN CompleteAndAccept
  ELSE Emit("fake_tls" \in cfg.immediate, FALSE)

IpFrag(cfg) == IF "ip_frag" \in cfg.every THEN Emit(FALSE, TRUE) ELSE EmitAndComplete
Disorder(cfg) == IF "disorder" \in cfg.every THEN Emit(FALSE, TRUE) ELSE EmitAndComplete
Seqovl(cfg) == EmitAndComplete

DataAnswer(m, cfg, usable, again) ==
  CASE m = "tls_record_frag" -> TlsRecordFrag(usable)
    [] m = "fake_tls" -> FakeTls(cfg, again)
    [] m = "ip_frag" -> IpFrag(cfg)
    [] m = "disorder" -> Disorder(cfg)
    [] m = "seqovl" -> Seqovl(cfg)

-----------------------------------------------------------------------------
(* CompositeMethod *)

Positions(cfg, names) == {i \in DOMAIN cfg.list : cfg.list[i] \in names}
HandshakeMembers(cfg) == Positions(cfg, HandshakeList)
DataMembers(cfg) == Positions(cfg, DataList)

\* Variation: ccs_prefix is forgotten among the flags that wait.
WaitsWithoutPrefix(cfg) ==
  \/ DataMembers(cfg) # {}
  \/ Listed(cfg) \cap {"tls_frag", "tls_padding", "sni_boundary_frag",
                       "tls_record_split"} # {}

\* The handshake answer is "wait for the data stage" whatever the members say.
WaitsForData(cfg) ==
  \/ DataMembers(cfg) # {}
  \/ Listed(cfg) \cap {"tls_frag", "tls_padding", "sni_boundary_frag",
                       "ccs_prefix", "tls_record_split"} # {}

\* The members that stage a mutation on the handshake ACK.
Staging(cfg, usable) ==
  {i \in HandshakeMembers(cfg) : Emits(HandshakeAnswer(cfg.list[i], cfg, usable))}

\* Variation: the first member's answer decides, the others are ignored.
FirstDecides(cfg, usable) ==
  LET at(i) == HandshakeAnswer(cfg.list[i], cfg, usable)
      members == HandshakeMembers(cfg)
      first == at(CHOOSE i \in members : \A j \in members : i <= j)
  IN
  IF WaitsForData(cfg) THEN EmitAndWaitForData
  ELSE IF members = {} THEN CompleteAndAccept
  ELSE CASE Emits(first) /\ first.complete_immediately -> EmitAndComplete
         [] Emits(first) /\ ~first.complete_immediately -> EmitAndWaitForAck
         [] OTHER -> CompleteAndAccept

\* on_handshake_complete_ack of the composite.
CompositeHandshake(cfg, usable) ==
  LET at(i) == HandshakeAnswer(cfg.list[i], cfg, usable)
      members == HandshakeMembers(cfg)
      staged == \E i \in members : Emits(at(i))
      last == at(CHOOSE i \in members : \A j \in members : j <= i)
  IN
  IF WaitsForData(cfg) THEN EmitAndWaitForData
  ELSE IF members = {} THEN CompleteAndAccept
  ELSE CASE Emits(last) /\ last.complete_immediately -> EmitAndComplete
         [] Emits(last) /\ ~last.complete_immediately -> EmitAndWaitForAck
         [] last = AbortAndAccept /\ ~staged -> AbortAndAccept
         [] OTHER -> CompleteAndAccept

\* No data stage follows and the last member gives up: the ACK leaves as it came,
\* without what the other members staged on it.
LastGivesUp(cfg, usable) ==
  LET members == HandshakeMembers(cfg) IN
  /\ ~WaitsForData(cfg)
  /\ \E i \in members : /\ \A j \in members : j <= i
                        /\ HandshakeAnswer(cfg.list[i], cfg, usable) = AbortAndAccept

CompositeData(cfg, usable, again) ==
  LET answers == {DataAnswer(cfg.list[i], cfg, usable, again) : i \in DataMembers(cfg)}
      emitted == {act \in answers : Emits(act)}
  IN
  CASE AbortAndAccept \in answers -> AbortAndAccept
    [] AbortAndAccept \notin answers /\ emitted # {} ->
         Emit(\A act \in emitted : act.complete_immediately,
              \E act \in emitted : act.continue_with_data)
    [] OTHER -> CompleteAndAccept

-----------------------------------------------------------------------------
(* ConnectionSettings: what the proxy task derives from the same list *)

FragmentAllData(cfg) ==
  \E m \in {"ip_frag", "disorder"} : m \in Listed(cfg) /\ m \in cfg.every

\* The socket-side transforms of the ClientHello record.
SocketTransforms(cfg) == Listed(cfg) \cap {"tls_padding", "mixed_case_sni"}

\* How the task writes the first ClientHello: the first listed cut wins.
SocketCut(cfg) ==
  CASE "sni_boundary_frag" \in Listed(cfg) -> {"sni_boundary_frag"}
    [] "tls_record_split" \in Listed(cfg) -> {"tls_record_split"}
    [] "tls_frag" \in Listed(cfg) -> {"tls_frag"}
    [] OTHER -> {}
=============================================================================
