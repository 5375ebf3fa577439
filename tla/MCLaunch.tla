------------------------------- MODULE MCLaunch -------------------------------
(* Launches over files at the boundaries of every rule of Config::validate, over *)
(* command lines that break what the file got right, and over the privileges,    *)
(* helpers and interfaces a launch can meet.                                     *)
EXTENDS Launch

Base == [LISTEN_HOST |-> "address", LISTEN_PORT |-> 40443]
With(fields) == Over(fields, Base)
Nothing == <<>>

Methods(names) == With([BYPASS_METHOD |-> names])
InMode(mode) == With([MODE |-> mode])
Intercepting == Methods(<<"wrong_seq_tls_frag">>)
SocketOnly == Methods(<<"tls_frag", "tls_padding">>)
TtlSearch ==
  With([BYPASS_METHOD |-> <<"low_ttl">>, LOW_TTL_VALUE |-> 2, LOW_TTL_DISCOVER_MAX |-> 4,
        SELECTED_SNI |-> "name"])

\* One field at a boundary.
At1(field, values) == {[f \in {field} |-> v] : v \in values}
Edits ==
  UNION {At1(f, {0, 1}) : f \in {"LOAD_BALANCE_TARGET_COUNT", "SCAN_TIMEOUT_SECS", "BYPASS_TIMEOUT_SECS",
                                 "TLS_RECORD_FRAG_SIZE", "TCP_SEG_SIZE", "METHOD_SCAN_SAMPLES"}}
    \cup UNION {At1(f, {0, 1, MaxPermits, MaxPermits + 1}) :
                  f \in {"SNI_MAX_CONCURRENT", "IP_MAX_P1_CONCURRENT", "IP_MAX_P2_CONCURRENT"}}
    \cup UNION {At1(f, {<<Some(-1)>>, <<Some(0)>>, <<Some(2), Some(1)>>, <<Some(1), Some(2)>>, <<None>>,
                        <<Some(1), Some(2), Some(3)>>, <<Some(100)>>, <<Some(101)>>, <<Some(16001)>>}) :
                  f \in RangeFields}
    \cup At1("TLS_FRAG_LENGTH", {<<Some(0)>>, <<Some(1)>>, <<Some(3), Some(2)>>})
    \cup At1("IP_FRAG_SIZE", {0, 7, 8, 12, 16})
    \cup At1("LOW_TTL_VALUE", {0, 1, 64, 65, 256}) \cup At1("LOW_TTL_DISCOVER_MAX", {0, 64, 65})
    \cup At1("FAKE_TLS_REPEATS", {0, 8, 9}) \cup At1("DISORDER_SEGMENTS", {1, 2, 3, 4})
    \cup At1("SEQOVL_SIZE", {<<>>, <<Some(1024)>>, <<Some(1025)>>, <<None>>})
    \cup At1("SELECTED_SNI", {"", "name", "too long"}) \cup At1("SELECTED_IP", {"", "v4", "bad"})
    \cup At1("MODE", {"nonsense"}) \cup At1("SPEED_CAP_BPS", {None, Some(0), Some(1)})
    \cup At1("TLS_FRAG_PACKETS", {[hello |-> TRUE, parts |-> <<>>], [hello |-> FALSE, parts |-> <<Some(0)>>]})
    \cup At1("SNI_SPLIT_POSITION", {[word |-> "start", index |-> 0], [word |-> "", index |-> 65536]})
    \cup At1("CUSTOM_DNS_ENABLED", {TRUE}) \cup At1("LINUX_FIREWALL_BACKEND", {"nftables", "pf"})
    \cup At1("BYPASS_METHOD", {<<>>, <<"nonsense">>, <<"wrong_seq", "wrong_seq_tls_frag">>,
                               <<"ip_frag", "disorder">>, <<"urg_sni_split", "wrong_seq">>})
    \cup At1("METHOD_SCAN_METHODS", {<<>>, <<"tls_frag", "tls_frag">>, <<"wrong_seq_tls_frag">>})

Overrides ==
  {Nothing, [SCAN_TIMEOUT_SECS |-> 0], [BYPASS_METHOD |-> <<>>], [BYPASS_METHOD |-> <<"nonsense">>],
   [BYPASS_METHOD |-> <<"", "tls_frag">>], [SELECTED_SNI |-> ""], [SELECTED_SNI |-> "too long"],
   [LISTEN_HOST |-> "name"], [BYPASS_TIMEOUT_SECS |-> 0]}

Plainly ==
  [file |-> Base, edited |-> Base, overrides |-> Nothing, json |-> FALSE, no_tui |-> TRUE,
   bootstrap |-> FALSE, uid |-> TRUE, access |-> TRUE, lists |-> {"SNI_LIST", "IP_LIST"},
   moves |-> 0, scans |-> 0, conn |-> 3]

FileCases == {[Plainly EXCEPT !.file = With(e)] : e \in Edits}
         \cup {[Plainly EXCEPT !.file = [LISTEN_HOST |-> "address"]]}
CommandCases == {[Plainly EXCEPT !.overrides = o, !.file = f] : o \in Overrides, f \in {Base, SocketOnly}}

\* Every kind of service, with and without privileges and a helper.
ControlCases ==
  {[Plainly EXCEPT !.file = f, !.json = TRUE, !.bootstrap = b, !.uid = u, !.access = a] :
     f \in {Intercepting, SocketOnly, InMode("ip_bypass"), InMode("proxy_scan"), InMode("ip_method_scan")},
     b \in BOOLEAN, u \in BOOLEAN, a \in BOOLEAN}
    \cup {[Plainly EXCEPT !.file = TtlSearch, !.bootstrap = b, !.json = TRUE] : b \in BOOLEAN}

\* An interactive run whose file is edited, for better or worse.
SessionCases ==
  {[Plainly EXCEPT !.no_tui = FALSE, !.file = f, !.edited = e, !.overrides = o, !.bootstrap = b, !.access = a] :
     f \in {Intercepting, SocketOnly},
     e \in {TtlSearch, SocketOnly, InMode("sni_scan"), With([IP_FRAG_SIZE |-> 12]),
            With([MODE |-> "ip_bypass_plus", BYPASS_METHOD |-> <<"ip_frag">>])},
     o \in {Nothing, [SELECTED_SNI |-> "other"]}, b \in BOOLEAN, a \in BOOLEAN}

\* A network that moves under each kind of interceptor, and rescans: of the timer, of a
\* recovery, and of both at once, where nothing listens.
Tasked(file, m, n, c) ==
  [Plainly EXCEPT !.file = file, !.json = TRUE, !.moves = m, !.scans = n, !.conn = c]
Rescanning(fields) == Over(fields, Intercepting)
TaskCases ==
  {Tasked(Intercepting, 2, 0, 0), [Tasked(Intercepting, 2, 0, 0) EXCEPT !.bootstrap = TRUE],
   Tasked(Rescanning([RESCAN_INTERVAL_SECS |-> 1]), 0, 1, 1),
   Tasked(Rescanning([AUTO_SELECT |-> TRUE]), 1, 0, 1),
   Tasked(Over([RESCAN_INTERVAL_SECS |-> 1, AUTO_SELECT |-> TRUE, LISTEN_HOST |-> "name"], SocketOnly), 1, 1, 0),
   Tasked(Rescanning([RESCAN_INTERVAL_SECS |-> 1, LOAD_BALANCE_ENABLED |-> TRUE, SELECTED_SNI |-> "name"]),
          0, 2, 1)}
    \cup {[Plainly EXCEPT !.file = Intercepting, !.no_tui = FALSE, !.bootstrap = b, !.moves = 2] : b \in BOOLEAN}

MCCases == FileCases \cup CommandCases \cup ControlCases \cup SessionCases \cup TaskCases

MCPaths == {[dpi |-> 2, server |-> 4], [dpi |-> 3, server |-> 6], [dpi |-> 1, server |-> 1]}
MCConnEvents == <<"accepted", "bypassed", "finished">>
=============================================================================
