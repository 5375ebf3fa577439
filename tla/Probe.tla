-------------------------------- MODULE Probe --------------------------------
(* What one probe of a candidate measures and the score it earns (sni_scanner.rs, *)
(* ip_scanner.rs, scanner_http.rs, proxy_tester.rs).                              *)
(*                                                                                *)
(* The TCP latency is a number of units up to the cap; the later phases are       *)
(* either missing or measured at their best.  Points are counted in halves.       *)
EXTENDS Naturals, FiniteSetsExt

NoLatency == 99     \* u64::MAX: there is no TCP connection
LatencyCap == 4     \* TCP_LATENCY_CAP_MS

\* measure_download: bytes that arrive give the time to the first one and a rate; a
\* clock that did not advance gives no rate.
Downloads ==
  {[ttfb |-> FALSE, download |-> FALSE], [ttfb |-> TRUE, download |-> TRUE],
   [ttfb |-> TRUE, download |-> FALSE]}

\* measure_upload: a rate only with an HTTP response; tried on a connection of its
\* own, and only when the download brought a byte.
Uploads(d) == IF d.ttfb THEN BOOLEAN ELSE {FALSE}

\* probe_tls_ttfb, probe_sni_ip: each phase needs the one before it.
Phases ==
  {[tls |-> FALSE, ttfb |-> FALSE, download |-> FALSE, upload |-> FALSE]}
    \cup UNION {{[tls |-> TRUE, ttfb |-> d.ttfb, download |-> d.download, upload |-> u] :
                   u \in Uploads(d)} : d \in Downloads}

Points(measured, halves) == IF measured THEN halves ELSE 0

\* 25 points for a connection, fewer the longer it took.
TcpPoints(tcp) == (50 * (LatencyCap - Min({tcp, LatencyCap}))) \div LatencyCap

\* compute_score, the same in both scanners: latency, TLS, certificate, first byte,
\* the two rates, and a bonus when nothing is missing.
ComputeScore(tcp, q) ==
  LET all == tcp # NoLatency /\ q.tls /\ q.ttfb /\ q.download /\ q.upload
  IN  (TcpPoints(tcp) + Points(q.tls, 20 + 30 + 10) + Points(q.ttfb, 40) + Points(q.download, 15)
         + Points(q.upload, 15) + Points(all, 20) + 1) \div 2

\* compute_proxy_score: a test through the proxy that was answered, at its best.
ProxyScore(answered) == IF answered THEN 100 ELSE 0

\* blend_scores with PROXY_TEST_SNI_WEIGHT one half.
BlendScores(sni, proxy) == (sni + proxy + 1) \div 2
=============================================================================
