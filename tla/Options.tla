------------------------------- MODULE Options -------------------------------
(* The configuration: what config.toml may say, what the command line adds, and  *)
(* which configurations Config::validate lets through.                           *)
(*                                                                               *)
(* A file is a function from the fields it sets to raw values, the overrides of  *)
(* the command line are a function from the fields they set, and a loaded        *)
(* configuration is kept as the fields that were set: Effective adds the         *)
(* defaults.  An operator that may refuse its input returns a set: empty for an  *)
(* error, otherwise the one value.  Fields that only decide bits of a packet     *)
(* (PSH, IP identification, offsets) and file names are left out.                *)
(*                                                                               *)
(* Raw texts that hold numbers are sequences of parts, each <<n>> or <<>> for a  *)
(* part that is no number; an Option is <<>> or <<v>>; a float is <<n>>, or <<>> *)
(* when it is not finite; "ok" and "bad" stand for texts a parser of another     *)
(* file accepts or refuses.                                                      *)
EXTENDS Integers, Sequences, FiniteSets, SequencesExt

CONSTANT MaxPermits     \* Semaphore::MAX_PERMITS

ASSUME PermitsAssumption == MaxPermits \in Nat

M == INSTANCE Methods

None == <<>>
Some(v) == <<v>>
Exact(n) == [min |-> n, max |-> n]

\* u8::MAX, u16::MAX, i32::MAX
MaxByte == 255
MaxWord == 65535
MaxInt32 == 2147483647

-----------------------------------------------------------------------------
(* Parsing *)

\* Int32Range: an integer, "n" or "min-max".
ParseRange(parts) ==
  IF Len(parts) \in {1, 2} /\ None \notin {parts[i] : i \in DOMAIN parts}
  THEN {r \in {[min |-> parts[1][1], max |-> parts[Len(parts)][1]]} : r.min <= r.max}
  ELSE {}

\* TlsFragPackets: "tlshello", or one or two packet indexes counted from 1.
ParsePackets(raw) ==
  IF raw.hello THEN {[hello |-> TRUE, start |-> 0, end |-> 0]}
  ELSE {[hello |-> FALSE, start |-> r.min, end |-> r.max] :
           r \in {x \in ParseRange(raw.parts) : x.min >= 1}}

\* Where a split point may be: a word of its own list, or an index of 16 bits.
SplitWords(field) ==
  IF field = "SNI_SPLIT_POSITION" THEN {"middle", "start", "end"}
  ELSE {"extension_length", "middle"}
ParseSplit(field, raw) ==
  IF raw.word \in SplitWords(field) \/ (raw.word = "" /\ raw.index \in 0..MaxWord)
  THEN {raw} ELSE {}

\* Combo aliases expand in place; other names pass through.
ExpandAlias(name) ==
  CASE name = "wrong_seq_wrong_md5" -> <<"wrong_seq", "wrong_md5">>
    [] name = "wrong_seq_tls_frag" -> <<"wrong_seq", "tls_frag">>
    [] name = "wrong_md5_tls_frag" -> <<"wrong_md5", "tls_frag">>
    [] name = "wrong_seq_tls_record_frag" -> <<"wrong_seq", "tls_record_frag">>
    [] OTHER -> <<name>>
FromNames(names) == FlattenSeq([i \in DOMAIN names |-> ExpandAlias(names[i])])

\* --method: empty items between the commas are dropped.
FromDelimited(items) == FromNames(SelectSeq(items, LAMBDA item : item # ""))

-----------------------------------------------------------------------------
(* The fields and their defaults *)

\* BASE_BYPASS_METHODS in its order.
BaseMethodNames ==
  <<"wrong_seq", "wrong_ack", "wrong_checksum", "wrong_md5", "wrong_timestamp", "low_ttl",
    "tls_record_frag", "tls_record_split", "fake_tls", "ip_frag", "disorder", "seqovl", "tls_frag",
    "ccs_prefix", "tls_padding", "mixed_case_sni", "urg_sni_split", "sni_boundary_frag">>

Required == {"LISTEN_HOST", "LISTEN_PORT"}

ServiceFields ==
  [CUSTOM_DNS_ENABLED |-> FALSE, CUSTOM_DNS_SERVERS |-> <<>>, SCAN_TIMEOUT_SECS |-> 5,
   AUTO_SELECT |-> FALSE, LOAD_BALANCE_ENABLED |-> FALSE, LOAD_BALANCE_TARGET_COUNT |-> 10,
   LOAD_BALANCE_PING_INTERVAL_SECS |-> 60, RESCAN_INTERVAL_SECS |-> 0,
   SNI_SWITCH_MIN_SCORE |-> 1, SELECTED_SNI |-> None]

EngineFields ==
  [BYPASS_METHOD |-> <<"wrong_seq", "tls_frag">>, NFQUEUE_NUM |-> 1,
   LINUX_FIREWALL_BACKEND |-> "iptables"]

FakePacketFields ==
  [WRONG_CHECKSUM_DELTA |-> 1, WRONG_ACK_OFFSET |-> 1, WRONG_TIMESTAMP_OFFSET |-> 1,
   LOW_TTL_VALUE |-> 5, LOW_TTL_COMPLETE_IMMEDIATELY |-> TRUE, LOW_TTL_DISCOVER |-> TRUE,
   LOW_TTL_DISCOVER_MAX |-> 32, LOW_TTL_DISCOVER_TIMEOUT_MS |-> 5000]

RewriteFields ==
  [TLS_RECORD_FRAG_SIZE |-> 1, TLS_RECORD_SPLIT_POINT |-> [word |-> "extension_length", index |-> 0],
   TLS_RECORD_SPLIT_DELAY_MS |-> Exact(0), FAKE_TLS_FORWARD_REAL |-> TRUE,
   FAKE_TLS_REPEATS |-> 1, FAKE_TLS_CHAIN_DELAY_MS |-> Exact(0)]

ShaperFields ==
  [IP_FRAG_SIZE |-> 24, IP_FRAG_ONLY_FIRST_PACKET |-> TRUE, DISORDER_SEGMENTS |-> 2,
   DISORDER_DELAY_MS |-> 0, DISORDER_ONLY_FIRST_PACKET |-> TRUE, SEQOVL_SIZE |-> None,
   SEQOVL_PATTERN |-> None, SEQOVL_SEGMENTS |-> 2, SEQOVL_DELAY_MS |-> 0]

SocketFields ==
  [SNI_SPLIT_POSITION |-> [word |-> "middle", index |-> 0],
   SNI_BOUNDARY_FRAG_SPLIT_POINT |-> [word |-> "extension_length", index |-> 0],
   SNI_BOUNDARY_FRAG_DELAY_MS |-> [min |-> 5, max |-> 10],
   TLS_FRAG_PACKETS |-> [hello |-> FALSE, parts |-> <<Some(1), Some(3)>>],
   TLS_FRAG_LENGTH |-> Some([min |-> 100, max |-> 200]),
   TLS_FRAG_INTERVAL_MS |-> [min |-> 10, max |-> 20], TCP_SEG_SIZE |-> 1,
   TLS_PADDING_SIZE |-> [min |-> 1500, max |-> 2500], TLS_PADDING_POSITION |-> "ok",
   CCS_PREFIX_RECORD_VERSION |-> "ok"]

ScanFields ==
  [BYPASS_TIMEOUT_SECS |-> 20, RELAY_MAX_LIFETIME_SECS |-> 0, MODE |-> "sni_spoof",
   SELECTED_IP |-> None, METHOD_SCAN_METHODS |-> BaseMethodNames,
   METHOD_SCAN_SAMPLES |-> 3, METHOD_SCAN_TIMEOUT_SECS |-> 10, SNI_MAX_CONCURRENT |-> 64,
   IP_MAX_P1_CONCURRENT |-> 128, IP_MAX_P2_CONCURRENT |-> 32, SCAN_DOWNLOAD_CAP |-> 10240,
   SCAN_UPLOAD_CAP |-> 10240, SCAN_UPLOAD_PATH |-> "ok", TCP_LATENCY_CAP_MS |-> Some(500),
   TLS_LATENCY_CAP_MS |-> Some(1000), TTFB_CAP_MS |-> Some(2000),
   SPEED_CAP_BPS |-> Some(2048000), UPLOAD_SPEED_CAP_BPS |-> Some(2048000)]

\* PROXY_TEST_SNI_WEIGHT in percent.
ProxyTestFields ==
  [PROXY_TEST_MIN_SNI_SCORE |-> 1, PROXY_TEST_TOP_N |-> 0, PROXY_TEST_URL |-> "ok",
   PROXY_TEST_TIMEOUT_SECS |-> 30, PROXY_TEST_SNI_WEIGHT |-> Some(50),
   PROXY_TEST_LATENCY_CAP_MS |-> Some(500), PROXY_TEST_TTFB_CAP_MS |-> Some(3000),
   PROXY_TEST_SPEED_CAP_BPS |-> Some(2048000)]

Over(f, g) == [x \in DOMAIN f \cup DOMAIN g |-> IF x \in DOMAIN f THEN f[x] ELSE g[x]]

MethodDefaults == Over(Over(FakePacketFields, RewriteFields), Over(ShaperFields, SocketFields))
Defaults ==
  Over(Over(ServiceFields, EngineFields),
       Over(MethodDefaults, Over(ScanFields, ProxyTestFields)))

Effective(cfg) == Over(cfg, Defaults)

-----------------------------------------------------------------------------
(* Reading a file *)

RangeFields ==
  {"TLS_RECORD_SPLIT_DELAY_MS", "FAKE_TLS_CHAIN_DELAY_MS", "SNI_BOUNDARY_FRAG_DELAY_MS",
   "TLS_FRAG_INTERVAL_MS", "TLS_PADDING_SIZE"}
SplitFields ==
  {"SNI_SPLIT_POSITION", "SNI_BOUNDARY_FRAG_SPLIT_POINT", "TLS_RECORD_SPLIT_POINT"}
Bytes ==
  {"LOW_TTL_VALUE", "LOW_TTL_DISCOVER_MAX", "SNI_SWITCH_MIN_SCORE", "PROXY_TEST_MIN_SNI_SCORE"}
Words == {"LISTEN_PORT", "NFQUEUE_NUM", "WRONG_CHECKSUM_DELTA"}

Counts ==
  {"SCAN_TIMEOUT_SECS", "LOAD_BALANCE_TARGET_COUNT", "LOAD_BALANCE_PING_INTERVAL_SECS",
   "RESCAN_INTERVAL_SECS", "WRONG_ACK_OFFSET", "WRONG_TIMESTAMP_OFFSET",
   "LOW_TTL_DISCOVER_TIMEOUT_MS", "TLS_RECORD_FRAG_SIZE", "FAKE_TLS_REPEATS", "IP_FRAG_SIZE",
   "DISORDER_SEGMENTS", "DISORDER_DELAY_MS", "SEQOVL_SEGMENTS", "SEQOVL_DELAY_MS",
   "TCP_SEG_SIZE", "BYPASS_TIMEOUT_SECS", "RELAY_MAX_LIFETIME_SECS", "METHOD_SCAN_SAMPLES",
   "METHOD_SCAN_TIMEOUT_SECS", "SNI_MAX_CONCURRENT", "IP_MAX_P1_CONCURRENT",
   "IP_MAX_P2_CONCURRENT", "SCAN_DOWNLOAD_CAP", "SCAN_UPLOAD_CAP", "PROXY_TEST_TOP_N",
   "PROXY_TEST_TIMEOUT_SECS"}

\* SEQOVL_SIZE: a number, a text that is one, or an empty text.
ParseSize(parts) ==
  IF parts = <<>> THEN {None} ELSE {size \in {parts[1]} : size # None /\ size[1] >= 0}

\* What a file can hold where a number or a text of numbers is expected.
TypedFile(file) ==
  /\ \A f \in DOMAIN file \cap (RangeFields \cup {"TLS_FRAG_LENGTH"}) : file[f] \in Seq(Seq(Int))
  /\ \A f \in DOMAIN file \cap Counts : file[f] \in Int

\* What deserializing makes of one raw value; a number has to fit its type.
ReadField(field, raw) ==
  CASE field \in RangeFields -> ParseRange(raw)
    [] field = "TLS_FRAG_LENGTH" -> {Some(r) : r \in ParseRange(raw)}
    [] field \in SplitFields -> ParseSplit(field, raw)
    [] field \in {"SELECTED_SNI", "SELECTED_IP"} -> {IF raw = "" THEN None ELSE Some(raw)}
    [] field = "SEQOVL_SIZE" -> ParseSize(raw)
    [] field \in {"BYPASS_METHOD", "METHOD_SCAN_METHODS"} -> {FromNames(raw)}
    [] field \in Bytes -> {raw} \cap 0..MaxByte
    [] field \in Words -> {raw} \cap 0..MaxWord
    [] field \in Counts -> {n \in {raw} : n >= 0}
    [] OTHER -> {raw}

Deserialize(file) ==
  IF Required \subseteq DOMAIN file /\ \A f \in DOMAIN file : ReadField(f, file[f]) # {}
  THEN {[f \in DOMAIN file |-> CHOOSE v \in ReadField(f, file[f]) : TRUE]}
  ELSE {}

-----------------------------------------------------------------------------
(* Config::validate, of a configuration with its defaults *)

\* custom_dns_servers: with custom servers there is at least one, and all parse.
ValidDns(c) ==
  c.CUSTOM_DNS_ENABLED =>
    c.CUSTOM_DNS_SERVERS # <<>> /\ \A i \in DOMAIN c.CUSTOM_DNS_SERVERS : c.CUSTOM_DNS_SERVERS[i] = "ok"

Positive(float) == float # None /\ float[1] > 0

ValidLimits(c) ==
  /\ \A f \in {"LOAD_BALANCE_TARGET_COUNT", "LOAD_BALANCE_PING_INTERVAL_SECS", "SCAN_TIMEOUT_SECS",
              "METHOD_SCAN_SAMPLES", "METHOD_SCAN_TIMEOUT_SECS", "BYPASS_TIMEOUT_SECS",
              "SCAN_DOWNLOAD_CAP", "SCAN_UPLOAD_CAP"} : c[f] > 0
  /\ \A f \in {"SNI_MAX_CONCURRENT", "IP_MAX_P1_CONCURRENT", "IP_MAX_P2_CONCURRENT"} :
        c[f] \in 1..MaxPermits
  /\ \A f \in {"TCP_LATENCY_CAP_MS", "TLS_LATENCY_CAP_MS", "TTFB_CAP_MS", "SPEED_CAP_BPS",
              "UPLOAD_SPEED_CAP_BPS", "PROXY_TEST_LATENCY_CAP_MS", "PROXY_TEST_TTFB_CAP_MS"} :
        Positive(c[f])
  /\ ValidDns(c)
  /\ c.SNI_SWITCH_MIN_SCORE <= 100
  /\ c.SCAN_UPLOAD_PATH = "ok"
  /\ c.SELECTED_SNI # Some("too long")

\* METHOD_SCAN_METHODS: known names, each once.
ValidScanMethods(names) ==
  /\ names # <<>>
  /\ {names[i] : i \in DOMAIN names} \subseteq M!BaseBypassMethods
  /\ Cardinality({names[i] : i \in DOMAIN names}) = Len(names)

MethodConfig(c) == [list |-> c.BYPASS_METHOD, forward |-> c.FAKE_TLS_FORWARD_REAL]

AtLeast(range, n) == range.min >= n

\* tls_frag_length_range: TLS_FRAG_LENGTH, or TCP_SEG_SIZE when it is not set.
FragLength(c) == IF c.TLS_FRAG_LENGTH # None THEN c.TLS_FRAG_LENGTH[1] ELSE Exact(c.TCP_SEG_SIZE)

ValidFakes(c) ==
  /\ c.FAKE_TLS_REPEATS \in 1..8
  /\ AtLeast(c.FAKE_TLS_CHAIN_DELAY_MS, 0) /\ c.FAKE_TLS_CHAIN_DELAY_MS.max <= 100
  /\ \A f \in {"WRONG_CHECKSUM_DELTA", "WRONG_ACK_OFFSET", "WRONG_TIMESTAMP_OFFSET"} : c[f] >= 1
  /\ c.LOW_TTL_VALUE \in 1..64
  /\ c.LOW_TTL_DISCOVER_MAX \in 1..64
  /\ c.LOW_TTL_DISCOVER_TIMEOUT_MS >= 100

\* A fixed pattern has the size that is asked for.
ValidOverlap(c) ==
  /\ c.SEQOVL_SIZE # None => c.SEQOVL_SIZE[1] <= 1024
  /\ c.SEQOVL_PATTERN # None =>
       /\ c.SEQOVL_PATTERN[1] # None /\ c.SEQOVL_PATTERN[1][1] <= 1024
       /\ c.SEQOVL_SIZE \in {None, c.SEQOVL_PATTERN[1]}

ValidShapers(c) ==
  /\ c.TLS_RECORD_FRAG_SIZE >= 1
  /\ c.IP_FRAG_SIZE >= 8 /\ c.IP_FRAG_SIZE % 8 = 0
  /\ c.DISORDER_SEGMENTS \in 2..3 /\ c.DISORDER_DELAY_MS <= 1000
  /\ c.SEQOVL_SEGMENTS \in 2..3 /\ c.SEQOVL_DELAY_MS <= 1000
  /\ ValidOverlap(c)

ValidSocket(c) ==
  /\ c.TCP_SEG_SIZE \in 1..MaxInt32
  /\ AtLeast(c.TLS_PADDING_SIZE, 1) /\ c.TLS_PADDING_SIZE.max <= 16000
  /\ c.TLS_PADDING_POSITION = "ok" /\ c.CCS_PREFIX_RECORD_VERSION = "ok"
  /\ ParsePackets(c.TLS_FRAG_PACKETS) # {}
  /\ AtLeast(FragLength(c), 1)
  /\ \A f \in {"TLS_FRAG_INTERVAL_MS", "SNI_BOUNDARY_FRAG_DELAY_MS", "TLS_RECORD_SPLIT_DELAY_MS"} :
        AtLeast(c[f], 0)

ProxyModes == {"sni_spoof", "ip_bypass", "ip_bypass_plus"}
ScanModes == {"sni_scan", "ip_scan", "proxy_scan", "sni_method_scan", "ip_method_scan"}

\* The methods that leave the name the client sent in place.
RealSniMethods ==
  {"tls_record_frag", "ip_frag", "disorder", "seqovl"} \cup M!SocketMethods

ValidMode(c) ==
  /\ c.LINUX_FIREWALL_BACKEND \in {"iptables", "nftables"}
  /\ c.MODE \in ProxyModes \cup ScanModes
  /\ c.MODE = "ip_bypass_plus" => M!Listed(MethodConfig(c)) \subseteq RealSniMethods
  /\ c.PROXY_TEST_SNI_WEIGHT # None /\ c.PROXY_TEST_SNI_WEIGHT[1] \in 0..100
  /\ c.PROXY_TEST_TIMEOUT_SECS > 0
  /\ c.SELECTED_IP # Some("bad")
  /\ ~(c.MODE = "ip_bypass_plus" /\ c.SELECTED_IP = Some("v6"))

Validates(cfg) ==
  \E c \in {Effective(cfg)} :
    /\ ValidLimits(c) /\ ValidScanMethods(c.METHOD_SCAN_METHODS) /\ M!ValidList(MethodConfig(c))
    /\ ValidFakes(c) /\ ValidShapers(c) /\ ValidSocket(c) /\ ValidMode(c)

FromFile(file) == {cfg \in Deserialize(file) : Validates(cfg)}

-----------------------------------------------------------------------------
(* ConfigSource: the file, and on top of it the command line *)

\* The fields of Args that are fields of the configuration; the ones of wrong_seq, which
\* only decide bits of a packet, are left out.
CommandLine ==
  {"LISTEN_HOST", "LISTEN_PORT", "AUTO_SELECT", "SELECTED_SNI", "BYPASS_METHOD", "NFQUEUE_NUM",
   "SCAN_TIMEOUT_SECS", "RESCAN_INTERVAL_SECS", "SNI_SWITCH_MIN_SCORE", "BYPASS_TIMEOUT_SECS",
   "RELAY_MAX_LIFETIME_SECS"}

\* Args::apply.  The text of --sni is taken as it is, empty or not.
Apply(overrides, cfg) ==
  Over([f \in DOMAIN overrides |->
          CASE f = "BYPASS_METHOD" -> FromDelimited(overrides[f])
            [] f = "SELECTED_SNI" -> Some(overrides[f])
            [] OTHER -> overrides[f]], cfg)

\* Variation: only the file is validated.
LoadUnchecked(file, overrides) == {Apply(overrides, cfg) : cfg \in FromFile(file)}

Load(file, overrides) ==
  {cfg \in {Apply(overrides, c) : c \in FromFile(file)} : Validates(cfg)}

\* requires_packet_interception.
RequiresInterception(cfg) ==
  LET c == Effective(cfg)
  IN  c.MODE \in {"sni_spoof", "proxy_scan", "ip_bypass_plus"} /\ ~M!IsSocketOnly(MethodConfig(c))

\* decide_low_ttl_discovery.
Discovers(cfg) ==
  LET c == Effective(cfg)
  IN  c.LOW_TTL_DISCOVER /\ c.LOW_TTL_COMPLETE_IMMEDIATELY /\ "low_ttl" \in M!Listed(MethodConfig(c))

\* validate_reload; `privileged` is what the helper or the access check says.
Reloadable(cfg, privileged) ==
  LET c == Effective(cfg)
  IN  /\ c.MODE \in ProxyModes
      /\ c.LISTEN_HOST = "address"
      /\ RequiresInterception(cfg) => privileged

\* The list file the first scan of the mode reads, if it scans.
ListNeeded(cfg) ==
  LET c == Effective(cfg)
  IN  CASE c.MODE = "sni_spoof" /\ c.SELECTED_SNI = None -> {"SNI_LIST"}
        [] c.MODE \in {"ip_bypass", "ip_bypass_plus"} /\ c.SELECTED_IP = None -> {"IP_LIST"}
        [] OTHER -> {}

\* Session::candidate: the configuration to reload, if there is one to reload.
Candidate(file, overrides, active, privileged, lists) ==
  {cfg \in Load(file, overrides) :
     /\ Reloadable(cfg, privileged)
     /\ Effective(cfg) # Effective(active)
     /\ ListNeeded(cfg) \subseteq lists}
=============================================================================
