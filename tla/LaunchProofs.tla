---------------------------- MODULE LaunchProofs ----------------------------
(* Proofs about a launch, for every file, every command line and every route:    *)
(* what is used was validated, privileges come first, a good exit leaves no      *)
(* interceptor, and the lines on standard output tell what happened.             *)
EXTENDS Launch, FiniteSetTheorems, SequenceTheorems, TLAPS

-----------------------------------------------------------------------------
(* The search for a TTL: DiscoverySpec on its own, for every route and every    *)
(* limit; a launch takes its steps among others.                                *)

USE DEF At, Goto

\* The values that work are an interval: where one works and the next does not, no
\* larger one does.
LEMMA WindowEnds ==
  ASSUME path \in Paths, NEW b \in Nat, Works(b), ~Works(b + 1),
         NEW t \in Nat, Works(t)
  PROVE  t <= b
  BY DiscoveryAssumption DEF Works

\* What follows a probe keeps what the search knows: a failure of a probe whose
\* value works is counted.
LEMMA ProbeJudged ==
  ASSUME DiscoveryInv, NEW ok \in BOOLEAN,
         search.pc \in Steps,
         AfterProbe(ok),
         ok => Works(search.ttl),
         faults' = 0 => faults = 0 /\ (ok <=> Works(search.ttl)),
         faults' \in Nat, flow' \in {"none", "other"}, faults' = 0 => flow' = "none",
         UNCHANGED <<path, handle>>
  PROVE  DiscoveryInv'
  <1> USE DiscoveryAssumption
  <1> DEFINE best == IF ok THEN search.ttl ELSE search.best
  <1>1. /\ search.ttl \in 1..MaxTtl /\ search.best \in 0..MaxTtl
        /\ search \in [pc : Steps \cup {"idle", "apply", "end"}, ttl : 0..MaxTtl, best : 0..MaxTtl]
        /\ search.pc # "end" /\ path \in Paths /\ handle = LowTtlValue
    BY DEF DiscoveryInv, DiscoveryTypeOK, SearchKnows, FoundTtlWorks, Steps
  <1>2. best \in 0..MaxTtl /\ (best # 0 => Works(best))
    BY <1>1 DEF DiscoveryInv, SearchKnows
  <1>3. CASE search.ttl = MaxTtl \/ (~ok /\ search.best # 0)
    <2>1. search' = [pc |-> "apply", ttl |-> search.ttl, best |-> best]
      BY <1>3 DEF AfterProbe
    <2>2. ASSUME faults' = 0, NEW t \in 1..MaxTtl, Works(t)
          PROVE  best # 0 /\ t <= best
      <3>1. /\ ok <=> Works(search.ttl)
            /\ search.best = 0 => \A u \in 1..(search.ttl - 1) : ~Works(u)
            /\ search.best # 0 => search.best = search.ttl - 1 /\ Works(search.best)
        BY <2>2 DEF DiscoveryInv, SearchKnows
      <3>2. CASE ok
        BY <3>2, <1>1, <1>3, <2>2
      <3>3. CASE ~ok /\ search.best # 0
        BY <3>1, <3>3, <1>1, <2>2, WindowEnds
      <3>4. CASE ~ok /\ search.best = 0
        BY <3>1, <3>4, <1>1, <1>3, <2>2
      <3> QED BY <3>2, <3>3, <3>4
    <2>3. DiscoveryTypeOK'
      BY <2>1, <1>1, <1>2 DEF DiscoveryInv, DiscoveryTypeOK
    <2>4. SearchKnows'
      BY <2>1, <2>2, <1>1, <1>2 DEF SearchKnows, Works, Steps
    <2>5. FoundTtlWorks' /\ ProbesOwnTheirFlow'
      BY <2>1, <1>1 DEF FoundTtlWorks, ProbesOwnTheirFlow
    <2> QED BY <2>3, <2>4, <2>5 DEF DiscoveryInv
  <1>4. CASE ~(search.ttl = MaxTtl \/ (~ok /\ search.best # 0))
    <2>1. search' = [pc |-> "bind", ttl |-> search.ttl + 1, best |-> best]
      BY <1>4 DEF AfterProbe
    <2>2. faults' = 0 => IF best = 0 THEN \A u \in 1..search.ttl : ~Works(u)
                         ELSE best = search.ttl
      BY <1>1, <1>4 DEF DiscoveryInv, SearchKnows
    <2>3. DiscoveryTypeOK'
      BY <2>1, <1>1, <1>2, <1>4 DEF DiscoveryInv, DiscoveryTypeOK, Steps
    <2>4. SearchKnows'
      BY <2>1, <2>2, <1>1, <1>2 DEF SearchKnows, Works, Steps
    <2>5. FoundTtlWorks' /\ ProbesOwnTheirFlow'
      BY <2>1, <1>1 DEF FoundTtlWorks, ProbesOwnTheirFlow
    <2> QED BY <2>3, <2>4, <2>5 DEF DiscoveryInv
  <1> QED BY <1>3, <1>4

\* A step of the probe that is not its last only moves it on.
LEMMA ProbeMovesOn ==
  ASSUME DiscoveryInv, NEW step \in Steps,
         search.pc \in Steps, Goto(step),
         flow' \in {"none", "probe", "other"}, faults' \in Nat,
         faults' = 0 => faults = 0 /\ flow' # "other",
         flow' = "probe" <=> step \in {"connect", "progress", "handshake"},
         UNCHANGED <<path, handle>>
  PROVE  DiscoveryInv'
  <1> USE DiscoveryAssumption
  <1>1. /\ search' = [search EXCEPT !.pc = step]
        /\ search \in [pc : Steps \cup {"idle", "apply", "end"}, ttl : 0..MaxTtl, best : 0..MaxTtl]
    BY DEF DiscoveryInv, DiscoveryTypeOK
  <1>2. search'.pc = step /\ search'.ttl = search.ttl /\ search'.best = search.best
    BY <1>1
  <1>3. DiscoveryTypeOK'
    BY <1>1 DEF DiscoveryInv, DiscoveryTypeOK
  <1>4. SearchKnows'
    BY <1>2 DEF DiscoveryInv, SearchKnows, Works, Steps
  <1>5. FoundTtlWorks' /\ ProbesOwnTheirFlow'
    BY <1>2 DEF DiscoveryInv, FoundTtlWorks, ProbesOwnTheirFlow, Works, Steps
  <1> QED BY <1>3, <1>4, <1>5 DEF DiscoveryInv

LEMMA SearchStarts == InitDiscovery => DiscoveryInv
  BY DiscoveryAssumption
  DEF InitDiscovery, Idle, DiscoveryInv, DiscoveryTypeOK, SearchKnows, FoundTtlWorks,
      ProbesOwnTheirFlow, Works, Steps

LEMMA SearchSteps == DiscoveryInv /\ [DiscoveryNext]_discoveryVars => DiscoveryInv'
  <1> SUFFICES ASSUME DiscoveryInv, [DiscoveryNext]_discoveryVars
               PROVE  DiscoveryInv'
    OBVIOUS
  <1> USE DiscoveryAssumption
  <1>t. /\ search \in [pc : Steps \cup {"idle", "apply", "end"}, ttl : 0..MaxTtl, best : 0..MaxTtl]
        /\ flow \in {"none", "probe", "other"} /\ faults \in Nat /\ path \in Paths
        /\ flow = "probe" <=> search.pc \in {"connect", "progress", "handshake"}
        /\ faults = 0 => flow # "other"
    BY DEF DiscoveryInv, DiscoveryTypeOK, ProbesOwnTheirFlow, SearchKnows
  <1>f. Fault => faults' \in Nat /\ faults' # 0
    BY <1>t DEF Fault
  <1>1. CASE Begin
    <2>1. /\ search' = [pc |-> "bind", ttl |-> 1, best |-> 0] /\ search.pc = "idle"
          /\ UNCHANGED <<path, flow, handle, faults>>
      BY <1>1 DEF Begin
    <2> QED
      BY <2>1, <1>t DEF DiscoveryInv, DiscoveryTypeOK, SearchKnows, FoundTtlWorks,
                        ProbesOwnTheirFlow, Works, Steps
  <1>2. CASE BeginInvalid
    <2>1. /\ search' = [search EXCEPT !.pc = "end"] /\ search.pc = "idle"
          /\ UNCHANGED <<path, flow, handle, faults>>
      BY <1>2 DEF BeginInvalid
    <2>2. search'.pc = "end" /\ search'.ttl = search.ttl /\ search'.best = search.best
      BY <2>1, <1>t
    <2> QED
      BY <2>1, <2>2, <1>t DEF DiscoveryInv, DiscoveryTypeOK, SearchKnows, FoundTtlWorks,
                        ProbesOwnTheirFlow, Works, Steps
  <1>3. CASE Bound
    BY <1>3, <1>t, <1>f, ProbeMovesOn DEF Bound, Steps
  <1>4. CASE BindFails
    BY <1>4, <1>t, <1>f, ProbeJudged DEF BindFails, Steps
  <1>5. CASE Registered
    BY <1>5, <1>t, ProbeMovesOn DEF Registered, Steps
  <1>6. CASE RegistrationRefused
    BY <1>6, <1>t, <1>f, ProbeJudged DEF RegistrationRefused, Steps
  <1>7. CASE AlreadyRegistered
    BY <1>7, <1>t, ProbeJudged DEF AlreadyRegistered, Steps
  <1>8. CASE Connected
    BY <1>8, <1>t, ProbeMovesOn DEF Connected, Steps
  <1>9. CASE Progressed
    BY <1>9, <1>t, ProbeMovesOn DEF Progressed, Steps
  <1>10. CASE ProbeTimesOut
    BY <1>10, <1>t, <1>f, ProbeJudged DEF ProbeTimesOut, Steps
  <1>11. CASE Shaken
    <2>1. Works(search.ttl) \in BOOLEAN
      BY DEF Works
    <2> QED BY <2>1, <1>11, <1>t, ProbeJudged DEF Shaken, Steps
  <1>12. CASE HandshakeLost
    BY <1>12, <1>t, <1>f, ProbeJudged DEF HandshakeLost, Steps
  <1>13. CASE OtherEnds
    BY <1>13, <1>t DEF OtherEnds, DiscoveryInv, DiscoveryTypeOK, SearchKnows, FoundTtlWorks,
                       ProbesOwnTheirFlow, Works
  <1>14. CASE Applied
    <2>1. /\ search' = [search EXCEPT !.pc = "end"] /\ search.pc = "apply" /\ search.best # 0
          /\ handle' = search.best /\ UNCHANGED <<path, flow, faults>>
      BY <1>14 DEF Applied
    <2>2. search'.pc = "end" /\ search'.ttl = search.ttl /\ search'.best = search.best
      BY <2>1, <1>t
    <2>3. DiscoveryTypeOK'
      BY <2>1, <1>t DEF DiscoveryInv, DiscoveryTypeOK
    <2>4. SearchKnows' /\ ProbesOwnTheirFlow'
      BY <2>1, <2>2, <1>t DEF DiscoveryInv, SearchKnows, ProbesOwnTheirFlow, Works, Steps
    <2>5. FoundTtlWorks'
      BY <2>1, <2>2, <1>t DEF DiscoveryInv, SearchKnows, FoundTtlWorks, Works
    <2> QED BY <2>3, <2>4, <2>5 DEF DiscoveryInv
  <1>15. CASE ApplyFails \/ NothingFound
    <2>1. /\ search' = [search EXCEPT !.pc = "end"] /\ search.pc = "apply"
          /\ UNCHANGED <<path, flow, handle>>
          /\ faults' \in Nat /\ (faults' = 0 => faults = 0 /\ search.best = 0)
      BY <1>15, <1>t, <1>f DEF ApplyFails, NothingFound
    <2>2. search'.pc = "end" /\ search'.ttl = search.ttl /\ search'.best = search.best
      BY <2>1, <1>t
    <2>3. DiscoveryTypeOK'
      BY <2>1, <1>t DEF DiscoveryInv, DiscoveryTypeOK
    <2>4. SearchKnows' /\ ProbesOwnTheirFlow'
      BY <2>1, <2>2, <1>t DEF DiscoveryInv, SearchKnows, ProbesOwnTheirFlow, Works, Steps
    <2>5. FoundTtlWorks'
      BY <2>1, <2>2, <1>t DEF DiscoveryInv, SearchKnows, FoundTtlWorks, Works
    <2> QED BY <2>3, <2>4, <2>5 DEF DiscoveryInv
  <1>16. CASE UNCHANGED discoveryVars
    BY <1>16 DEF discoveryVars, DiscoveryInv, DiscoveryTypeOK, SearchKnows, FoundTtlWorks,
                 ProbesOwnTheirFlow, Works
  <1> QED
    BY <1>1, <1>2, <1>3, <1>4, <1>5, <1>6, <1>7, <1>8, <1>9, <1>10, <1>11, <1>12, <1>13,
       <1>14, <1>15, <1>16 DEF DiscoveryNext, Probing

\* The inductive invariant holds of every search: any route, any largest TTL, any
\* number of failing sockets, registrations, waits and handshakes.
THEOREM DiscoveryInvariance == DiscoverySpec => []DiscoveryInv
  BY SearchStarts, SearchSteps, PTL DEF DiscoverySpec

\* LowTtlDiscoveryState::run: the handle keeps LOW_TTL_VALUE until the search is over,
\* afterwards it has that or a value that works, and the largest of its window when
\* nothing failed.
THEOREM DiscoveryFinds == DiscoverySpec => []FoundTtlWorks
  <1>1. DiscoveryInv => FoundTtlWorks
    BY DEF DiscoveryInv
  <1> QED BY <1>1, DiscoveryInvariance, PTL

\* probe_ttl removes the flow it registered on every path, and never that of another
\* connection.
THEOREM DiscoveryOwnsItsFlow == DiscoverySpec => []ProbesOwnTheirFlow
  <1>1. DiscoveryInv => ProbesOwnTheirFlow
    BY DEF DiscoveryInv
  <1> QED BY <1>1, DiscoveryInvariance, PTL

HIDE DEF At, Goto

-----------------------------------------------------------------------------
(* Loading *)

LEMMA OverAt ==
  ASSUME NEW f, NEW g, NEW x
  PROVE  /\ x \in DOMAIN f => Over(f, g)[x] = f[x]
         /\ x \notin DOMAIN f /\ x \in DOMAIN g => Over(f, g)[x] = g[x]
         /\ DOMAIN Over(f, g) = DOMAIN f \cup DOMAIN g
  BY DEF Over

\* A range as Int32Range parses it.
IsRange(r) == r.min \in Int /\ r.max \in Int /\ r.min <= r.max

LEMMA ParsedRanges ==
  ASSUME NEW parts \in Seq(Seq(Int)), NEW r \in ParseRange(parts)
  PROVE  IsRange(r)
  <1>1. /\ Len(parts) \in {1, 2} /\ None \notin {parts[i] : i \in DOMAIN parts}
        /\ r = [min |-> parts[1][1], max |-> parts[Len(parts)][1]] /\ r.min <= r.max
    BY DEF ParseRange
  <1>2. \A i \in 1..Len(parts) : parts[i] \in Seq(Int) /\ parts[i] # <<>>
    BY <1>1 DEF None
  <1>3. \A i \in 1..Len(parts) : parts[i][1] \in Int
    BY <1>2
  <1>4. parts[1][1] \in Int /\ parts[Len(parts)][1] \in Int
    BY <1>1, <1>3
  <1> QED BY <1>1, <1>4 DEF IsRange

\* The defaults of the fields whose type validate takes from the parser.
LEMMA DefaultsTyped ==
  /\ \A f \in RangeFields : f \in DOMAIN Defaults /\ IsRange(Defaults[f])
  /\ "TLS_FRAG_LENGTH" \in DOMAIN Defaults /\ IsRange(Defaults.TLS_FRAG_LENGTH[1])
  /\ \A f \in {"IP_FRAG_SIZE", "TLS_RECORD_FRAG_SIZE"} : f \in DOMAIN Defaults /\ Defaults[f] \in Int
  <1> DEFINE method == {"TLS_RECORD_SPLIT_DELAY_MS", "FAKE_TLS_CHAIN_DELAY_MS",
                        "SNI_BOUNDARY_FRAG_DELAY_MS", "TLS_FRAG_INTERVAL_MS", "TLS_PADDING_SIZE",
                        "TLS_FRAG_LENGTH", "IP_FRAG_SIZE", "TLS_RECORD_FRAG_SIZE"}
             rest == Over(MethodDefaults, Over(ScanFields, ProxyTestFields))
             front == Over(ServiceFields, EngineFields)
             fakes == Over(FakePacketFields, RewriteFields)
             shapes == Over(ShaperFields, SocketFields)
  <1>1. /\ Defaults = Over(front, rest) /\ MethodDefaults = Over(fakes, shapes)
    BY DEF Defaults, MethodDefaults
  <1>2. method \cap DOMAIN front = {}
    <2>1. method \cap DOMAIN ServiceFields = {}
      BY DEF ServiceFields
    <2>2. method \cap DOMAIN EngineFields = {}
      BY DEF EngineFields
    <2> HIDE DEF method
    <2> QED BY <2>1, <2>2 DEF Over
  <1>3. /\ DOMAIN RewriteFields \cap {"SNI_BOUNDARY_FRAG_DELAY_MS", "TLS_FRAG_INTERVAL_MS",
              "TLS_PADDING_SIZE", "TLS_FRAG_LENGTH", "IP_FRAG_SIZE"} = {}
        /\ {"TLS_RECORD_SPLIT_DELAY_MS", "FAKE_TLS_CHAIN_DELAY_MS", "TLS_RECORD_FRAG_SIZE"}
             \subseteq DOMAIN RewriteFields
        /\ RewriteFields["TLS_RECORD_SPLIT_DELAY_MS"] = Exact(0)
        /\ RewriteFields["FAKE_TLS_CHAIN_DELAY_MS"] = Exact(0)
        /\ RewriteFields["TLS_RECORD_FRAG_SIZE"] = 1
    BY DEF RewriteFields
  <1>4. method \cap DOMAIN FakePacketFields = {}
    BY DEF FakePacketFields
  <1>5. /\ DOMAIN ShaperFields \cap method = {"IP_FRAG_SIZE"}
        /\ ShaperFields["IP_FRAG_SIZE"] = 24
    BY DEF ShaperFields
  <1>6. /\ {"SNI_BOUNDARY_FRAG_DELAY_MS", "TLS_FRAG_INTERVAL_MS", "TLS_PADDING_SIZE", "TLS_FRAG_LENGTH"}
             \subseteq DOMAIN SocketFields
        /\ SocketFields["SNI_BOUNDARY_FRAG_DELAY_MS"] = [min |-> 5, max |-> 10]
        /\ SocketFields["TLS_FRAG_INTERVAL_MS"] = [min |-> 10, max |-> 20]
        /\ SocketFields["TLS_PADDING_SIZE"] = [min |-> 1500, max |-> 2500]
        /\ SocketFields["TLS_FRAG_LENGTH"] = <<[min |-> 100, max |-> 200]>>
    BY DEF SocketFields, Some
  <1> HIDE DEF front, rest
  <1>7. \A f \in method : f \in DOMAIN MethodDefaults =>
          f \in DOMAIN Defaults /\ Defaults[f] = MethodDefaults[f]
    <2>1. ASSUME NEW f \in method, f \in DOMAIN MethodDefaults
          PROVE  f \in DOMAIN Defaults /\ Defaults[f] = MethodDefaults[f]
      <3>1. f \in DOMAIN rest /\ rest[f] = MethodDefaults[f]
        BY <2>1  DEF rest, Over
      <3>2. f \notin DOMAIN front
        BY <1>2
      <3> HIDE DEF method
      <3> QED BY <1>1, <3>1, <3>2 DEF Over
    <2> QED BY <2>1
  <1>8. /\ \A f \in {"TLS_RECORD_SPLIT_DELAY_MS", "FAKE_TLS_CHAIN_DELAY_MS", "TLS_RECORD_FRAG_SIZE"} :
             f \in DOMAIN MethodDefaults /\ MethodDefaults[f] = RewriteFields[f]
    <2>1. ASSUME NEW f \in {"TLS_RECORD_SPLIT_DELAY_MS", "FAKE_TLS_CHAIN_DELAY_MS", "TLS_RECORD_FRAG_SIZE"}
          PROVE  f \in DOMAIN MethodDefaults /\ MethodDefaults[f] = RewriteFields[f]
      <3>1. f \in DOMAIN fakes /\ fakes[f] = RewriteFields[f]
        <4>1. f \in DOMAIN RewriteFields
          BY <1>3
        <4>2. f \notin DOMAIN FakePacketFields
          BY <1>4
        <4> QED BY <4>1, <4>2 DEF Over
      <3> HIDE DEF fakes, shapes
      <3> QED BY <1>1, <3>1 DEF Over
    <2> QED BY <2>1
  <1>9. "IP_FRAG_SIZE" \in DOMAIN MethodDefaults /\ MethodDefaults["IP_FRAG_SIZE"] = 24
    <2>1. "IP_FRAG_SIZE" \notin DOMAIN fakes
      BY <1>3, <1>4 DEF Over
    <2>2. "IP_FRAG_SIZE" \in DOMAIN shapes /\ shapes["IP_FRAG_SIZE"] = 24
      BY <1>5 DEF Over
    <2> HIDE DEF fakes, shapes
    <2> QED BY <1>1, <2>1, <2>2 DEF Over
  <1>10. \A f \in {"SNI_BOUNDARY_FRAG_DELAY_MS", "TLS_FRAG_INTERVAL_MS", "TLS_PADDING_SIZE", "TLS_FRAG_LENGTH"} :
             f \in DOMAIN MethodDefaults /\ MethodDefaults[f] = SocketFields[f]
    <2>1. ASSUME NEW f \in {"SNI_BOUNDARY_FRAG_DELAY_MS", "TLS_FRAG_INTERVAL_MS", "TLS_PADDING_SIZE",
                            "TLS_FRAG_LENGTH"}
          PROVE  f \in DOMAIN MethodDefaults /\ MethodDefaults[f] = SocketFields[f]
      <3>1. f \notin DOMAIN FakePacketFields /\ f \notin DOMAIN RewriteFields
        BY <1>3, <1>4
      <3>2. f \notin DOMAIN ShaperFields /\ f \in DOMAIN SocketFields
        BY <1>5, <1>6
      <3>3. f \notin DOMAIN fakes
        BY <3>1 DEF Over
      <3>4. f \in DOMAIN shapes /\ shapes[f] = SocketFields[f]
        BY <3>2 DEF Over
      <3> HIDE DEF fakes, shapes
      <3> QED BY <1>1, <3>3, <3>4 DEF Over
    <2> QED BY <2>1
  <1>11. \A f \in RangeFields : f \in DOMAIN Defaults /\ IsRange(Defaults[f])
    BY <1>3, <1>6, <1>7, <1>8, <1>10 DEF RangeFields, IsRange, Exact
  <1>12. "TLS_FRAG_LENGTH" \in DOMAIN Defaults /\ IsRange(Defaults.TLS_FRAG_LENGTH[1])
    BY <1>6, <1>7, <1>10 DEF IsRange
  <1>13. \A f \in {"IP_FRAG_SIZE", "TLS_RECORD_FRAG_SIZE"} : f \in DOMAIN Defaults /\ Defaults[f] \in Int
    BY <1>3, <1>7, <1>8, <1>9
  <1> QED BY <1>11, <1>12, <1>13

\* Args::apply comes last.
LEMMA OverridesApplied ==
  ASSUME NEW file, NEW overrides, NEW c \in Load(file, overrides), NEW f \in DOMAIN overrides
  PROVE  c[f] = Apply(overrides, <<>>)[f]
  <1>1. PICK d : c = Apply(overrides, d)
    BY DEF Load
  <1> DEFINE said == [g \in DOMAIN overrides |->
                        CASE g = "BYPASS_METHOD" -> FromDelimited(overrides[g])
                          [] g = "SELECTED_SNI" -> Some(overrides[g])
                          [] OTHER -> overrides[g]]
  <1>2. c = Over(said, d) /\ Apply(overrides, <<>>) = Over(said, <<>>)
    BY <1>1 DEF Apply
  <1>3. DOMAIN said = DOMAIN overrides
    OBVIOUS
  <1> HIDE DEF said
  <1> QED BY <1>2, <1>3 DEF Over

\* Where the command line is silent and the file is not, the field is as parsed.
LEMMA FieldsParsed ==
  ASSUME NEW file, NEW overrides, NEW c \in Load(file, overrides)
  PROVE  /\ Validates(c)
         /\ DOMAIN c = DOMAIN overrides \cup DOMAIN file
         /\ \A f \in DOMAIN file \ DOMAIN overrides : c[f] \in ReadField(f, file[f])
  <1>1. PICK d \in FromFile(file) : c = Apply(overrides, d) /\ Validates(c)
    BY DEF Load
  <1>2. /\ d = [f \in DOMAIN file |-> CHOOSE v \in ReadField(f, file[f]) : TRUE]
        /\ \A f \in DOMAIN file : ReadField(f, file[f]) # {}
    BY DEF FromFile, Deserialize
  <1>3. \A f \in DOMAIN file : d[f] \in ReadField(f, file[f])
    <2>1. ASSUME NEW f \in DOMAIN file PROVE d[f] \in ReadField(f, file[f])
      <3>1. PICK v : v \in ReadField(f, file[f])
        BY <1>2
      <3>2. d[f] = CHOOSE w \in ReadField(f, file[f]) : TRUE
        BY <1>2
      <3> QED BY <3>1, <3>2
    <2> QED BY <2>1
  <1> DEFINE said == [f \in DOMAIN overrides |->
                        CASE f = "BYPASS_METHOD" -> FromDelimited(overrides[f])
                          [] f = "SELECTED_SNI" -> Some(overrides[f])
                          [] OTHER -> overrides[f]]
  <1>4. c = Over(said, d)
    BY <1>1 DEF Apply
  <1>5. DOMAIN said = DOMAIN overrides /\ DOMAIN d = DOMAIN file
    BY <1>2
  <1> HIDE DEF said
  <1>6. DOMAIN c = DOMAIN overrides \cup DOMAIN file
    BY <1>4, <1>5 DEF Over
  <1>7. \A f \in DOMAIN file \ DOMAIN overrides : c[f] = d[f]
    BY <1>4, <1>5 DEF Over
  <1> QED BY <1>1, <1>3, <1>6, <1>7

LEMMA ParsedFields ==
  ASSUME NEW file, TypedFile(file), NEW f \in DOMAIN file, NEW v \in ReadField(f, file[f])
  PROVE  /\ f \in RangeFields => IsRange(v)
         /\ f = "TLS_FRAG_LENGTH" => IsRange(v[1])
         /\ f \in {"IP_FRAG_SIZE", "TLS_RECORD_FRAG_SIZE"} => v \in Int
  <1> DEFINE named == {"TLS_FRAG_LENGTH", "SELECTED_SNI", "SELECTED_IP", "SEQOVL_SIZE", "BYPASS_METHOD",
                       "METHOD_SCAN_METHODS"}
  <1>1. CASE f \in RangeFields
    <2>a. /\ f # "TLS_FRAG_LENGTH" /\ f # "SEQOVL_SIZE" /\ f \notin {"SELECTED_SNI", "SELECTED_IP"}
          /\ f \notin {"BYPASS_METHOD", "METHOD_SCAN_METHODS"}
      BY SMT, <1>1 DEF RangeFields
    <2>b. f \notin SplitFields /\ f \notin Bytes /\ f \notin Words
      BY SMT, <1>1 DEF RangeFields, SplitFields, Bytes, Words
    <2>c. f \notin Counts
      BY SMT, <1>1 DEF RangeFields, Counts
    <2>1. v \in ParseRange(file[f])
      BY Zenon, <1>1, <2>a, <2>b, <2>c DEF ReadField
    <2>2. f \notin {"TLS_FRAG_LENGTH", "IP_FRAG_SIZE", "TLS_RECORD_FRAG_SIZE"}
      BY SMT, <1>1 DEF RangeFields
    <2>3. file[f] \in Seq(Seq(Int))
      BY <1>1 DEF TypedFile
    <2> QED BY <1>1, <2>1, <2>2, <2>3, ParsedRanges
  <1>2. CASE f = "TLS_FRAG_LENGTH"
    <2>1. f \notin RangeFields \cup SplitFields \cup Bytes \cup Words
      BY SMT, <1>2 DEF RangeFields, SplitFields, Bytes, Words
    <2>2. f \notin Counts
      BY SMT, <1>2 DEF Counts
    <2>3. ReadField(f, file[f]) = {Some(r) : r \in ParseRange(file[f])}
      BY SMT, <1>2, <2>1, <2>2 DEF ReadField
    <2>4. file[f] \in Seq(Seq(Int))
      BY <1>2 DEF TypedFile
    <2>5. PICK r \in ParseRange(file[f]) : v = <<r>>
      BY <2>3 DEF Some
    <2>6. v[1] = r /\ IsRange(r)
      BY <2>4, <2>5, ParsedRanges
    <2> QED BY <1>2, <2>1, <2>6
  <1>3. CASE f \in {"IP_FRAG_SIZE", "TLS_RECORD_FRAG_SIZE"}
    <2>1. f \notin RangeFields \cup SplitFields \cup Bytes \cup Words
      BY SMT, <1>3 DEF RangeFields, SplitFields, Bytes, Words
    <2>2. f \in Counts /\ f \notin named
      BY SMT, <1>3 DEF Counts
    <2>3. ReadField(f, file[f]) = {n \in {file[f]} : n >= 0}
      BY SMT, <1>3, <2>1, <2>2 DEF ReadField
    <2>4. file[f] \in Int
      BY <2>2 DEF TypedFile
    <2> QED BY <2>1, <2>2, <2>3, <2>4
  <1>4. CASE f \notin RangeFields \cup {"TLS_FRAG_LENGTH", "IP_FRAG_SIZE", "TLS_RECORD_FRAG_SIZE"}
    BY <1>4
  <1> QED BY <1>1, <1>2, <1>3, <1>4

\* What validate lets through can be run.
LEMMA LoadedRuns ==
  ASSUME NEW file, NEW overrides, TypedFile(file), DOMAIN overrides \subseteq CommandLine,
         NEW c \in Load(file, overrides)
  PROVE  Runnable(Effective(c))
  <1> DEFINE e == Effective(c)
  <1>1. ASSUME NEW f \in DOMAIN Defaults, f \notin CommandLine
        PROVE  e[f] = Defaults[f] \/ (f \in DOMAIN file /\ e[f] \in ReadField(f, file[f]))
    <2>1. e[f] = IF f \in DOMAIN c THEN c[f] ELSE Defaults[f]
      BY DEF Effective, Over
    <2>2. /\ DOMAIN c = DOMAIN overrides \cup DOMAIN file
          /\ f \in DOMAIN file \ DOMAIN overrides => c[f] \in ReadField(f, file[f])
      BY FieldsParsed
    <2> HIDE DEF e
    <2> QED BY <1>1, <2>1, <2>2
  <1>2. ASSUME NEW f \in RangeFields PROVE IsRange(e[f])
    <2>1. f \notin CommandLine
      BY SMT DEF RangeFields, CommandLine
    <2> HIDE DEF e
    <2>2. e[f] = Defaults[f] \/ (f \in DOMAIN file /\ e[f] \in ReadField(f, file[f]))
      BY <1>1, <2>1, DefaultsTyped
    <2>3. CASE e[f] = Defaults[f]
      BY <2>3, DefaultsTyped
    <2>4. CASE f \in DOMAIN file /\ e[f] \in ReadField(f, file[f])
      BY <2>4, ParsedFields
    <2> QED BY <2>2, <2>3, <2>4
  <1>3. IsRange(e.TLS_FRAG_LENGTH[1])
    <2>1. "TLS_FRAG_LENGTH" \notin CommandLine
      BY DEF CommandLine
    <2> HIDE DEF e
    <2>2. e["TLS_FRAG_LENGTH"] = Defaults["TLS_FRAG_LENGTH"]
          \/ ("TLS_FRAG_LENGTH" \in DOMAIN file /\ e["TLS_FRAG_LENGTH"] \in ReadField("TLS_FRAG_LENGTH", file["TLS_FRAG_LENGTH"]))
      BY <1>1, <2>1, DefaultsTyped
    <2> QED BY <2>2, DefaultsTyped, ParsedFields
  <1>4. e.IP_FRAG_SIZE \in Int /\ e.TLS_RECORD_FRAG_SIZE \in Int
    <2>1. "IP_FRAG_SIZE" \notin CommandLine /\ "TLS_RECORD_FRAG_SIZE" \notin CommandLine
      BY DEF CommandLine
    <2> HIDE DEF e
    <2>2. ASSUME NEW f \in {"IP_FRAG_SIZE", "TLS_RECORD_FRAG_SIZE"} PROVE e[f] \in Int
      BY <1>1, <2>1, DefaultsTyped, ParsedFields
    <2> QED BY <2>2
  <1>5. /\ ValidLimits(e) /\ M!ValidList(MethodConfig(e)) /\ ValidFakes(e) /\ ValidShapers(e)
        /\ ValidSocket(e) /\ ValidMode(e)
    BY FieldsParsed DEF Validates
  <1> HIDE DEF e
  <1> USE PermitsAssumption
  <1>6. /\ \A f \in {"SNI_MAX_CONCURRENT", "IP_MAX_P1_CONCURRENT", "IP_MAX_P2_CONCURRENT"} :
             0 < e[f] /\ e[f] <= MaxPermits
        /\ 0 < e.SCAN_TIMEOUT_SECS /\ 0 < e.BYPASS_TIMEOUT_SECS
    <2>1. \A f \in {"SNI_MAX_CONCURRENT", "IP_MAX_P1_CONCURRENT", "IP_MAX_P2_CONCURRENT"} :
            e[f] \in 1..MaxPermits
      BY Zenon, <1>5 DEF ValidLimits
    <2>2. e["SCAN_TIMEOUT_SECS"] > 0 /\ e["BYPASS_TIMEOUT_SECS"] > 0
      BY Zenon, <1>5 DEF ValidLimits
    <2> QED BY SMT, <2>1, <2>2
  <1>7. \A f \in RangeFields : 0 <= e[f].min /\ e[f].min <= e[f].max
    <2>1. \A f \in RangeFields : e[f].min >= 0
      <3>0. ValidSocket(e)
        BY <1>5
      <3>1. e["TLS_PADDING_SIZE"].min >= 1
        BY SMT, <3>0 DEF ValidSocket, AtLeast
      <3>2. e["TLS_PADDING_SIZE"].min \in Int
        BY <1>2 DEF RangeFields, IsRange
      <3>3. e["FAKE_TLS_CHAIN_DELAY_MS"].min >= 0
        BY <1>5 DEF ValidFakes, AtLeast
      <3>4. \A f \in {"TLS_FRAG_INTERVAL_MS", "SNI_BOUNDARY_FRAG_DELAY_MS", "TLS_RECORD_SPLIT_DELAY_MS"} :
              e[f].min >= 0
        BY SMT, <3>0 DEF ValidSocket, AtLeast
      <3>5. e["TLS_PADDING_SIZE"].min >= 0
        BY <3>1, <3>2
      <3> QED BY SMT, <3>3, <3>4, <3>5 DEF RangeFields
    <2> QED BY <1>2, <2>1 DEF IsRange
  <1>8. 0 < FragLength(e).min /\ FragLength(e).min <= FragLength(e).max
    <2>0. ValidSocket(e)
      BY <1>5
    <2>1. AtLeast(FragLength(e), 1) /\ e.TCP_SEG_SIZE \in 1..MaxInt32
      BY SMT, <2>0 DEF ValidSocket
    <2>2. e.TCP_SEG_SIZE \in Int
      BY SMT, <2>1
    <2>3. IsRange(FragLength(e))
      BY <1>3, <2>2 DEF FragLength, IsRange, Exact
    <2> QED BY <2>1, <2>3 DEF AtLeast, IsRange
  <1>9. 0 < e.TLS_RECORD_FRAG_SIZE /\ 0 < e.IP_FRAG_SIZE /\ e.IP_FRAG_SIZE % 8 = 0
    BY <1>4, <1>5 DEF ValidShapers
  <1>10. e.LOW_TTL_VALUE \in 1..255 /\ e.LOW_TTL_DISCOVER_MAX \in 1..255
    BY <1>5 DEF ValidFakes
  <1>11. e.MODE \in ProxyModes \cup ScanModes
    BY <1>5 DEF ValidMode
  <1>12. e.BYPASS_METHOD # <<>> /\ M!Listed(MethodConfig(e)) \subseteq M!BaseBypassMethods
    BY <1>5 DEF M!ValidList, MethodConfig
  <1> QED BY <1>6, <1>7, <1>8, <1>9, <1>10, <1>11, <1>12 DEF Runnable, e

-----------------------------------------------------------------------------
(* The inductive invariant *)

\* A configuration that one of the two files and the command line make.
Sound(c) == \E file \in {case.file, case.edited} : c \in Load(file, case.overrides)

\* Nothing that intercepts without a helper or access.
Allowed(c) == RequiresInterception(c) => helper # "none" \/ case.access

ConfigInv ==
  /\ InUse => Sound(cfg)
  /\ InUse /\ pc \notin {"helper", "access"} => Allowed(cfg)
  /\ good.cfg # NoConfig => Sound(good.cfg) /\ Allowed(good.cfg)

\* What is kept for a restart has a TTL that works.
GoodInv ==
  /\ good = [cfg |-> good.cfg, ttl |-> good.ttl, restoring |-> good.restoring]
  /\ good.restoring \in BOOLEAN
  /\ good.ttl \in {LowTtlValue} \cup 1..MaxTtl
  /\ good.ttl # LowTtlValue => Works(good.ttl)

\* Where the main thread is, who captures, and which front there is.
StageInv ==
  /\ pc = "exit" <=> exit # "none"
  /\ exit = "ok" => capture = "off" \/ (Headless /\ capture = "local" /\ moves > 0)
  /\ pc \in {"load", "helper", "access", "scan", "select", "plane", "retry"} => capture = "off"
  /\ pc = "stopped" => helper # "up" /\ (capture = "off" \/ (capture = "local" /\ moves > 0))
  /\ task.recovery \notin {"off", "wait"} => moves > 0
  /\ pc = "scan" => Mode \in ScanModes
  /\ pc \in {"dash", "retry"} => ~Headless
  /\ pc \in {"stopping", "stopped"} => Headless

LInv == LaunchTypeOK /\ DiscoveryInv /\ ConfigInv /\ GoodInv /\ StageInv

LEMMA DiscoveryFrame == DiscoveryNext => path' = path
  BY DEF DiscoveryNext, Probing, Begin, BeginInvalid, Bound, BindFails, Registered, RegistrationRefused,
         AlreadyRegistered, Connected, Progressed, ProbeTimesOut, Shaken, HandshakeLost, OtherEnds,
         Applied, ApplyFails, NothingFound

\* Steps that leave the search alone.
LEMMA DiscoveryStays ==
  ASSUME DiscoveryInv, UNCHANGED discoveryVars
  PROVE  DiscoveryInv' /\ UNCHANGED <<path, search, flow, handle, faults>>
  <1>1. DiscoveryInv'
    BY SearchSteps
  <1> QED BY <1>1 DEF discoveryVars

\* A search that starts over, or is over before it starts.
LEMMA SearchAnew ==
  ASSUME DiscoveryInv, NEW step \in {"idle", "end"}, search' = [pc |-> step, ttl |-> 0, best |-> 0], flow' = "none",
         handle' \in {LowTtlValue} \cup 1..MaxTtl, handle' # LowTtlValue => step = "end" /\ Works(handle'),
         UNCHANGED <<path, faults>>
  PROVE  DiscoveryInv'
  <1>1. 0 \in 0..MaxTtl
    BY DiscoveryAssumption
  <1>2. DiscoveryTypeOK'
    BY <1>1 DEF DiscoveryInv, DiscoveryTypeOK
  <1>3. SearchKnows' /\ FoundTtlWorks' /\ ProbesOwnTheirFlow'
    BY DEF SearchKnows, FoundTtlWorks, ProbesOwnTheirFlow, Works, Steps
  <1> QED BY <1>2, <1>3 DEF DiscoveryInv

LEMMA LaunchStarts == Init => LInv
  <1> SUFFICES ASSUME Init PROVE LInv
    OBVIOUS
  <1> USE CasesAssumption, DiscoveryAssumption
  <1>1. DiscoveryInv
    BY SearchStarts DEF Init
  <1>2. LaunchTypeOK
    <2>1. Len(ConnEvents) \in Nat
      OBVIOUS
    <2>2. sent \in 0..Len(ConnEvents) /\ reloads \in 0..MaxReloads
      BY <2>1 DEF Init
    <2>3. term \in BOOLEAN
      BY DEF Init
    <2>4. TaskTypeOK
      BY DEF Init, NoTasks, TaskTypeOK
    <2> QED BY Zenon, <1>1, <2>2, <2>3, <2>4 DEF Init, LaunchTypeOK, DiscoveryInv
  <1>3. ConfigInv /\ GoodInv /\ StageInv
    BY DEF Init, NoTasks, ConfigInv, GoodInv, StageInv, InUse
  <1> QED BY <1>1, <1>2, <1>3 DEF LInv

Stages == {"load", "helper", "access", "scan", "select", "plane", "ttl", "monitor", "serve", "dash", "retry",
           "stopping", "stopped", "exit"}

\* The tasks when nobody touches them, when one takes a step, and when they are gone.
LEMMA TasksStay ==
  ASSUME LInv, UNCHANGED taskVars
  PROVE  TaskTypeOK' /\ UNCHANGED <<task, moves, scans>>
  BY DEF LInv, LaunchTypeOK, TaskTypeOK, taskVars

TimerSteps == {"off", "schedule", "wait", "scan", "switched"}
RecoverySteps ==
  {"off", "wait", "rebuild", "backoff", "verify", "queued", "scan", "switched", "rescanned", "report"}

LEMMA TimerDoes ==
  ASSUME TaskTypeOK, NEW next \in TimerSteps, task' = [task EXCEPT !["timer"] = next]
  PROVE  /\ task' \in [timer : TimerSteps, recovery : RecoverySteps]
         /\ task'.timer = next /\ task'.recovery = task.recovery
  BY DEF TaskTypeOK, TimerSteps, RecoverySteps

LEMMA RecoveryDoes ==
  ASSUME TaskTypeOK, NEW next \in RecoverySteps, task' = [task EXCEPT !["recovery"] = next]
  PROVE  /\ task' \in [timer : TimerSteps, recovery : RecoverySteps]
         /\ task'.timer = task.timer /\ task'.recovery = next
  BY DEF TaskTypeOK, TimerSteps, RecoverySteps

LEMMA TasksEnd ==
  ASSUME task' = NoTasks
  PROVE  /\ task' \in [timer : TimerSteps, recovery : RecoverySteps]
         /\ task'.timer = "off" /\ task'.recovery = "off"
  BY DEF NoTasks, TimerSteps, RecoverySteps

\* A step that keeps the configuration, what is kept for a restart, and the search: it
\* moves between stages that need no more of the configuration than is known of it.
LEMMA StepsOn ==
  ASSUME LInv, UNCHANGED <<case, disk, cfg, good, reloads, discoveryVars>>,
         pc' \in Stages, exit' \in {"none", "ok", "err", "killed"},
         helper' \in {"none", "up", "down", "dead"}, helper # "none" => helper' # "none",
         capture' \in {"off", "local", "remote"},
         proxy' \in {"none", "starting", "listening", "failed", "aborted"},
         sent' \in 0..Len(ConnEvents), term' \in BOOLEAN, TaskTypeOK',
         pc' \notin {"load", "exit"} => InUse,
         pc' \notin {"load", "helper", "access", "exit"} =>
           pc \notin {"helper", "access"} \/ (RequiresInterception(cfg) => helper' # "none" \/ case.access),
         StageInv'
  PROVE  LInv'
  <1>1. DiscoveryInv' /\ UNCHANGED <<path, search, flow, handle, faults>>
    BY DiscoveryStays DEF LInv
  <1>2. LaunchTypeOK'
    BY <1>1 DEF LInv, LaunchTypeOK, DiscoveryInv, Stages
  <1>3. GoodInv'
    BY <1>1 DEF LInv, GoodInv, Works
  <1>4. ConfigInv'
    <2>1. Sound(cfg)' = Sound(cfg) /\ Sound(good.cfg)' = Sound(good.cfg)
      BY DEF Sound
    <2>2. (Allowed(cfg) => Allowed(cfg)') /\ (Allowed(good.cfg) => Allowed(good.cfg)')
      BY DEF Allowed
    <2>3. pc' \notin {"load", "helper", "access", "exit"} => Allowed(cfg)'
      BY <2>2 DEF LInv, ConfigInv, InUse, Allowed
    <2> QED BY <2>1, <2>2, <2>3 DEF LInv, ConfigInv, InUse
  <1> QED BY <1>1, <1>2, <1>3, <1>4 DEF LInv

\* The start-up and the shutdown, as far as nothing is restored.
LEMMA Straight ==
  ASSUME LInv,
         \/ ConnectHelper \/ CheckAccess \/ ScanEnds \/ SelectTarget \/ OpenPlane
         \/ Shutdown \/ Quit
  PROVE  LInv'
  <1>0. UNCHANGED taskVars
    BY DEF ConnectHelper, CheckAccess, ScanEnds, SelectTarget, OpenPlane, Shutdown,
           TakeSignal, Stop, StopFails, Leave, ProxyEnded, HelperLost, Quit, Stays, Fails
  <1>t. TaskTypeOK' /\ UNCHANGED <<task, moves, scans>>
    BY <1>0, TasksStay
  <1>1. /\ UNCHANGED <<case, disk, cfg, good, reloads, discoveryVars>> /\ UNCHANGED <<sent, term>>
    BY DEF ConnectHelper, CheckAccess, ScanEnds, SelectTarget, OpenPlane, Shutdown,
           TakeSignal, Stop, StopFails, Leave, ProxyEnded, HelperLost, Quit, Stays, Fails
  <1>2. /\ sent \in 0..Len(ConnEvents) /\ term \in BOOLEAN /\ helper \in {"none", "up", "down", "dead"}
        /\ capture \in {"off", "local", "remote"} /\ pc \in Stages
        /\ proxy \in {"none", "starting", "listening", "failed", "aborted"} /\ StageInv
        /\ exit \in {"none", "ok", "err", "killed"}
    BY DEF LInv, LaunchTypeOK, Stages
  <1>3. CASE ConnectHelper
    <2>1. StageInv'
      BY <1>1, <1>2, <1>t, <1>3 DEF ConnectHelper, Fails, StageInv, Mode, Headless
    <2> QED BY <1>1, <1>2, <1>t, <1>3, <2>1, StepsOn DEF ConnectHelper, Fails, InUse, Stages
  <1>4. CASE CheckAccess
    <2>1. StageInv'
      BY <1>1, <1>2, <1>t, <1>4 DEF CheckAccess, Fails, StageInv, Mode, Headless
    <2> QED BY <1>1, <1>2, <1>t, <1>4, <2>1, StepsOn DEF CheckAccess, Fails, InUse, Stages
  <1>5. CASE ScanEnds
    <2>1. StageInv'
      BY <1>1, <1>2, <1>t, <1>5 DEF ScanEnds, StageInv, Mode, Headless
    <2> QED BY <1>1, <1>2, <1>t, <1>5, <2>1, StepsOn DEF ScanEnds, InUse, Stages
  <1>6. CASE SelectTarget
    <2>1. StageInv'
      BY <1>1, <1>2, <1>t, <1>6 DEF SelectTarget, StageInv, Mode, Headless
    <2> QED BY <1>1, <1>2, <1>t, <1>6, <2>1, StepsOn DEF SelectTarget, InUse, Stages
  <1>7. CASE OpenPlane
    <2>1. StageInv'
      BY <1>1, <1>2, <1>t, <1>7 DEF OpenPlane, Interceptor, StageInv, Mode, Headless
    <2> QED BY <1>1, <1>2, <1>t, <1>7, <2>1, StepsOn DEF OpenPlane, Interceptor, InUse, Stages
  <1>9. CASE TakeSignal
    <2>1. StageInv'
      BY <1>1, <1>2, <1>t, <1>9 DEF TakeSignal, StageInv, Mode, Headless
    <2> QED BY <1>1, <1>2, <1>t, <1>9, <2>1, StepsOn DEF TakeSignal, InUse, Stages
  <1>10. CASE Stop
    <2>1. StageInv'
      BY <1>1, <1>2, <1>t, <1>10 DEF Stop, Closes, StageInv, Mode, Headless
    <2> QED BY <1>1, <1>2, <1>t, <1>10, <2>1, StepsOn DEF Stop, Closes, InUse, Stages
  <1>11. CASE Leave
    <2>1. StageInv'
      BY <1>1, <1>2, <1>t, <1>11 DEF Leave, StageInv, Mode, Headless
    <2> QED BY <1>1, <1>2, <1>t, <1>11, <2>1, StepsOn DEF Leave, InUse, Stages
  <1>12. CASE StopFails \/ ProxyEnded \/ HelperLost
    <2>1. StageInv'
      BY <1>1, <1>2, <1>t, <1>12 DEF StopFails, ProxyEnded, Closes, HelperLost, Fails, StageInv, Mode, Headless
    <2> QED BY <1>1, <1>2, <1>t, <1>12, <2>1, StepsOn
            DEF StopFails, ProxyEnded, Closes, HelperLost, Fails, InUse, Stages
  <1>13. CASE Quit
    <2>1. StageInv'
      BY <1>1, <1>2, <1>t, <1>13 DEF Quit, Fails, StageInv, Mode, Headless
    <2> QED BY <1>1, <1>2, <1>t, <1>13, <2>1, StepsOn DEF Quit, Fails, InUse, Stages
  <1> QED BY <1>3, <1>4, <1>5, <1>6, <1>7, <1>9, <1>10, <1>11, <1>12, <1>13 DEF Shutdown

\* The tasks are spawned.
LEMMA TasksStart ==
  ASSUME LInv, SpawnRescan \/ StartMonitor
  PROVE  LInv'
  <1>1. /\ UNCHANGED <<case, disk, cfg, good, reloads, discoveryVars>>
        /\ UNCHANGED <<sent, term, exit, helper, capture, moves, scans>>
        /\ pc \in {"ttl", "monitor"} /\ pc' \in {"monitor", "serve"} /\ proxy' \in {proxy, "starting"}
    BY DEF SpawnRescan, StartMonitor
  <1>2. /\ sent \in 0..Len(ConnEvents) /\ term \in BOOLEAN /\ helper \in {"none", "up", "down", "dead"}
        /\ capture \in {"off", "local", "remote"} /\ StageInv /\ TaskTypeOK
        /\ proxy \in {"none", "starting", "listening", "failed", "aborted"}
        /\ exit \in {"none", "ok", "err", "killed"}
    BY DEF LInv, LaunchTypeOK
  <1>3. \/ \E next \in TimerSteps : task' = [task EXCEPT !["timer"] = next]
        \/ task' = [task EXCEPT !["recovery"] = "wait"]
    BY DEF SpawnRescan, StartMonitor, TimerSteps
  <1>4. /\ task' \in [timer : TimerSteps, recovery : RecoverySteps] /\ task'.recovery \in {task.recovery, "wait"}
    BY <1>2, <1>3, TimerDoes, RecoveryDoes DEF RecoverySteps
  <1>5. TaskTypeOK'
    BY <1>1, <1>2, <1>4 DEF TaskTypeOK, TimerSteps, RecoverySteps
  <1>6. StageInv'
    BY <1>1, <1>2, <1>4 DEF StageInv, Mode, Headless
  <1> QED BY <1>1, <1>2, <1>5, <1>6, StepsOn DEF InUse, Stages

\* What a step of the tasks may do to the main thread's state: a rebuild is all that
\* opens an interceptor, and it is one of a coordinator that saw the network change.
LEMMA TasksFrame ==
  ASSUME LInv, Tasks
  PROVE  /\ Alive /\ Others /\ TaskTypeOK' /\ (task'.recovery \notin {"off", "wait"} => moves' > 0)
         /\ moves > 0 => moves' > 0
         /\ \/ capture' \in {capture, "off"}
            \/ capture' = Interceptor /\ helper \in {"none", "up"} /\ moves > 0
  <1>1. TaskTypeOK /\ StageInv /\ DOMAIN task = {"timer", "recovery"}
    BY DEF LInv, LaunchTypeOK, TaskTypeOK
  <1> USE DEF Does, Writes
  <1>2. CASE ScheduleScan \/ RescanSpared
    <2>1. /\ Alive /\ Others /\ capture' = capture /\ moves' = moves /\ scans' \in {scans, scans + 1}
      BY <1>2 DEF ScheduleScan, RescanSpared
    <2>2. \E next \in TimerSteps : task' = [task EXCEPT !["timer"] = next]
      BY <1>2 DEF ScheduleScan, RescanSpared, TimerSteps
    <2>3. task' \in [timer : TimerSteps, recovery : RecoverySteps] /\ task'.recovery = task.recovery
      BY <1>1, <2>2, TimerDoes
    <2> QED BY <1>1, <2>1, <2>3 DEF TaskTypeOK, TimerSteps, RecoverySteps, StageInv
  <1>3. ASSUME NEW t \in DOMAIN task, RescanStarts(t) \/ SwitchTarget(t) \/ RescanEnds(t)
        PROVE  /\ Alive /\ Others /\ TaskTypeOK' /\ (task'.recovery \notin {"off", "wait"} => moves' > 0)
               /\ moves' = moves /\ capture' = capture
    <2>1. /\ Alive /\ Others /\ capture' = capture /\ moves' = moves /\ scans' = scans
      BY <1>3 DEF RescanStarts, SwitchTarget, RescanEnds
    <2>2. CASE t = "timer"
      <3>1. \E next \in TimerSteps : task' = [task EXCEPT !["timer"] = next]
        BY <1>3, <2>2 DEF RescanStarts, SwitchTarget, RescanEnds, TimerSteps
      <3>2. task' \in [timer : TimerSteps, recovery : RecoverySteps] /\ task'.recovery = task.recovery
        BY <1>1, <3>1, TimerDoes
      <3> QED BY <1>1, <2>1, <3>2 DEF TaskTypeOK, TimerSteps, RecoverySteps, StageInv
    <2>3. CASE t = "recovery"
      <3>1. /\ \E next \in RecoverySteps : task' = [task EXCEPT !["recovery"] = next]
            /\ task.recovery \in {"queued", "scan", "switched"}
        BY <1>3, <2>3 DEF RescanStarts, SwitchTarget, RescanEnds, Scanning, RecoverySteps
      <3>2. task' \in [timer : TimerSteps, recovery : RecoverySteps]
        BY <1>1, <3>1, RecoveryDoes
      <3> QED BY <1>1, <2>1, <3>1, <3>2 DEF TaskTypeOK, TimerSteps, RecoverySteps, StageInv
    <2> QED BY <1>1, <1>3, <2>2, <2>3
  <1>4. CASE NetworkEvent
    <2>1. /\ Alive /\ Others /\ capture' = capture /\ moves' = moves + 1 /\ scans' = scans
          /\ \E next \in RecoverySteps : task' = [task EXCEPT !["recovery"] = next]
      BY <1>4 DEF NetworkEvent, RecoverySteps
    <2>2. task' \in [timer : TimerSteps, recovery : RecoverySteps]
      BY <1>1, <2>1, RecoveryDoes
    <2> QED BY <1>1, <2>1, <2>2 DEF TaskTypeOK, TimerSteps, RecoverySteps
  <1>5. CASE Rebuild \/ RebuildFails
    <2>1. /\ Alive /\ Others /\ moves' \in {moves, moves + 1} /\ scans' = scans /\ task.recovery = "rebuild"
          /\ \E next \in RecoverySteps : task' = [task EXCEPT !["recovery"] = next]
          /\ \/ capture' \in {"off", capture}
             \/ capture' = Interceptor /\ helper \in {"none", "up"}
      BY <1>5 DEF Rebuild, RebuildFails, RecoverySteps
    <2>2. task' \in [timer : TimerSteps, recovery : RecoverySteps]
      BY <1>1, <2>1, RecoveryDoes
    <2>3. moves > 0 /\ moves' > 0
      BY <1>1, <2>1 DEF TaskTypeOK, StageInv
    <2> QED BY <1>1, <2>1, <2>2, <2>3 DEF TaskTypeOK, TimerSteps, RecoverySteps
  <1>6. CASE Retry \/ NotVerified \/ FoundNone \/ Recovered
    <2>1. /\ Alive /\ Others /\ capture' = capture /\ moves' = moves /\ scans' = scans
          /\ task.recovery \in {"backoff", "verify", "rescanned", "report"}
          /\ \E next \in RecoverySteps : task' = [task EXCEPT !["recovery"] = next]
      BY <1>6 DEF Retry, NotVerified, FoundNone, Recovered, RecoverySteps
    <2>2. task' \in [timer : TimerSteps, recovery : RecoverySteps]
      BY <1>1, <2>1, RecoveryDoes
    <2> QED BY <1>1, <2>1, <2>2 DEF TaskTypeOK, TimerSteps, RecoverySteps, StageInv
  <1> QED BY <1>2, <1>3, <1>4, <1>5, <1>6 DEF Tasks

LEMMA TasksKeep ==
  ASSUME LInv, Tasks
  PROVE  LInv'
  <1>1. /\ UNCHANGED <<case, disk, cfg, good, reloads, discoveryVars>>
        /\ UNCHANGED <<pc, exit, helper, proxy, sent, term>>
    BY TasksFrame DEF Others
  <1>2. /\ sent \in 0..Len(ConnEvents) /\ term \in BOOLEAN /\ helper \in {"none", "up", "down", "dead"}
        /\ capture \in {"off", "local", "remote"} /\ pc \in Stages /\ TaskTypeOK
        /\ proxy \in {"none", "starting", "listening", "failed", "aborted"} /\ StageInv
        /\ exit \in {"none", "ok", "err", "killed"}
    BY DEF LInv, LaunchTypeOK, Stages
  <1>3. pc \in {"monitor", "serve", "dash", "stopping", "stopped"} /\ capture' \in {"off", "local", "remote"}
    BY <1>2, TasksFrame DEF Alive, Interceptor
  <1>4. StageInv'
    BY <1>1, <1>2, <1>3, TasksFrame DEF StageInv, Mode, Headless, Interceptor
  <1> QED BY <1>1, <1>2, <1>3, <1>4, TasksFrame, StepsOn DEF InUse, Stages

\* The proxy task, its connection, the logger, signals and the end of the helper.
LEMMA Around ==
  ASSUME LInv, Listen \/ ProxyEnds \/ Connect \/ LogEvent \/ Terminate \/ HelperDies
  PROVE  LInv'
  <1>0. UNCHANGED taskVars
    BY DEF Listen, ProxyEnds, Connect, LogEvent, Terminate, HelperDies
  <1>t. TaskTypeOK' /\ UNCHANGED <<task, moves, scans>>
    BY <1>0, TasksStay
  <1>1. /\ UNCHANGED <<case, disk, cfg, good, capture, reloads, discoveryVars>>
    BY DEF Listen, ProxyEnds, Connect, LogEvent, Terminate, HelperDies
  <1>2. /\ sent \in 0..Len(ConnEvents) /\ term \in BOOLEAN /\ helper \in {"none", "up", "down", "dead"}
        /\ capture \in {"off", "local", "remote"} /\ pc \in Stages
        /\ proxy \in {"none", "starting", "listening", "failed", "aborted"} /\ StageInv
        /\ exit \in {"none", "ok", "err", "killed"}
    BY DEF LInv, LaunchTypeOK, Stages
  <1>3. CASE Terminate
    <2>1. StageInv'
      BY <1>1, <1>2, <1>t, <1>3 DEF Terminate, StageInv, Mode, Headless
    <2>2. term' \in BOOLEAN
      BY <1>3 DEF Terminate
    <2> QED BY <1>1, <1>2, <1>t, <1>3, <2>1, <2>2, StepsOn DEF Terminate, InUse, Stages
  <1>4. CASE Listen \/ ProxyEnds \/ Connect \/ LogEvent \/ HelperDies
    <2>1. UNCHANGED <<pc, exit, term>>
      BY <1>4 DEF Listen, ProxyEnds, Connect, LogEvent, HelperDies
    <2>0. pc = "stopped" => helper' # "up"
      BY <1>2, <1>4 DEF Listen, ProxyEnds, Connect, LogEvent, HelperDies, StageInv
    <2>2. StageInv'
      BY <1>1, <1>2, <1>t, <2>0, <2>1 DEF StageInv, Mode, Headless
    <2>3. sent' \in 0..Len(ConnEvents)
      <3>1. Len(ConnEvents) \in Nat
        BY CasesAssumption
      <3>2. case.conn \in 0..Len(ConnEvents)
        BY CasesAssumption DEF LInv, LaunchTypeOK
      <3> QED BY <1>2, <1>4, <3>1, <3>2 DEF Listen, ProxyEnds, Connect, LogEvent, HelperDies
    <2>4. /\ helper' \in {"none", "up", "down", "dead"} /\ (helper # "none" => helper' # "none")
          /\ proxy' \in {"none", "starting", "listening", "failed", "aborted"}
          /\ (helper = "none" => helper' = "none")
      BY <1>2, <1>4 DEF Listen, ProxyEnds, Connect, LogEvent, HelperDies
    <2> QED BY <1>1, <1>2, <1>t, <2>1, <2>2, <2>3, <2>4, StepsOn DEF InUse
  <1> QED BY <1>3, <1>4

LEMMA LoadKeeps ==
  ASSUME LInv, LoadConfig
  PROVE  LInv'
  <1>1. /\ pc = "load" /\ UNCHANGED <<case, disk, good, helper, capture, proxy, sent, term, reloads, discoveryVars>>
        /\ \/ cfg' = cfg /\ pc' = "exit" /\ exit' = "err"
           \/ cfg' \in Load(disk, case.overrides) /\ pc' = "helper" /\ exit' = exit
    BY DEF LoadConfig, Stays, Fails
  <1>t. TaskTypeOK' /\ UNCHANGED <<task, moves, scans>>
    BY TasksStay DEF LoadConfig, Stays
  <1>2. DiscoveryInv' /\ UNCHANGED <<path, search, flow, handle, faults>>
    BY <1>1, DiscoveryStays DEF LInv
  <1>3. LaunchTypeOK'
    BY <1>1, <1>2, <1>t DEF LInv, LaunchTypeOK, DiscoveryInv
  <1>4. GoodInv' /\ StageInv'
    BY <1>1, <1>2, <1>t DEF LInv, GoodInv, Works, StageInv, Headless
  <1>5. ConfigInv'
    <2>1. disk \in {case.file, case.edited}
      BY DEF LInv, LaunchTypeOK
    <2>2. pc' = "helper" => Sound(cfg)'
      BY <1>1, <2>1 DEF Sound
    <2>3. good.cfg # NoConfig => Sound(good.cfg)' /\ Allowed(good.cfg)'
      BY <1>1 DEF LInv, ConfigInv, Sound, Allowed
    <2> QED BY <1>1, <2>2, <2>3 DEF ConfigInv, InUse
  <1> QED BY <1>2, <1>3, <1>4, <1>5 DEF LInv

\* A generation begins: the configuration is sound and allowed, nothing captures.
LEMMA GenerationStarts ==
  ASSUME LInv, pc \notin {"load", "helper", "access", "exit"}, ~Headless,
         UNCHANGED <<case, disk, helper, sent, term, exit>>, capture' = "off", proxy' = "none",
         task' = NoTasks, UNCHANGED <<moves, scans>>,
         reloads' \in 0..MaxReloads, pc' \in {"select", "plane"},
         Sound(cfg'), Allowed(cfg'),
         good'.cfg = good.cfg, good'.ttl = good.ttl, good'.restoring \in BOOLEAN,
         good' = [cfg |-> good'.cfg, ttl |-> good'.ttl, restoring |-> good'.restoring],
         DiscoveryInv', path' = path
  PROVE  LInv'
  <1>t. TaskTypeOK' /\ task'.recovery = "off"
    BY TasksEnd DEF LInv, LaunchTypeOK, TaskTypeOK, TimerSteps, RecoverySteps
  <1>1. LaunchTypeOK'
    BY <1>t DEF LInv, LaunchTypeOK, DiscoveryInv
  <1>2. GoodInv'
    BY DEF LInv, GoodInv, Works
  <1>3. StageInv'
    BY <1>t DEF LInv, StageInv, Headless
  <1>4. ConfigInv'
    <2>1. Sound(cfg)' /\ Allowed(cfg)'
      BY DEF Sound, Allowed
    <2>2. good'.cfg # NoConfig => Sound(good.cfg)' /\ Allowed(good.cfg)'
      BY DEF LInv, ConfigInv, Sound, Allowed
    <2> QED BY <2>1, <2>2 DEF ConfigInv, InUse
  <1> QED BY <1>1, <1>2, <1>3, <1>4 DEF LInv

LEMMA FallsBackKeeps ==
  ASSUME LInv, pc \in {"scan", "select", "plane", "monitor", "serve"}, StartFails
  PROVE  LInv'
  <1>1. UNCHANGED <<case, disk, helper, sent, term, reloads, moves, scans>> /\ task' \in {task, NoTasks}
    BY DEF StartFails, FallsBack
  <1>2. /\ sent \in 0..Len(ConnEvents) /\ term \in BOOLEAN /\ helper \in {"none", "up", "down", "dead"}
        /\ capture \in {"off", "local", "remote"} /\ reloads \in 0..MaxReloads
        /\ proxy \in {"none", "starting", "listening", "failed", "aborted"} /\ StageInv
        /\ exit \in {"none", "ok", "err", "killed"}
    BY DEF LInv, LaunchTypeOK
  <1>t. TaskTypeOK' /\ task'.recovery \in {task.recovery, "off"}
    BY <1>1, TasksEnd DEF LInv, LaunchTypeOK, TaskTypeOK, TimerSteps, RecoverySteps
  <1>3. ASSUME pc' = "exit", exit' = "err", UNCHANGED <<cfg, good, discoveryVars>>,
               capture' \in {"off", "local", "remote"},
               proxy' \in {"none", "starting", "listening", "failed", "aborted"}
        PROVE  LInv'
    <2>1. StageInv'
      BY <1>1, <1>2, <1>3, <1>t DEF StageInv
    <2> QED BY <1>1, <1>2, <1>3, <1>t, <2>1, StepsOn DEF Stages
  <1>4. CASE Headless \/ Mode \in ScanModes
    BY <1>2, <1>3, <1>4 DEF StartFails, Fails
  <1>5. CASE ~(Headless \/ Mode \in ScanModes) /\ FallsBack
    <2>1. CASE Fails(<<>>) /\ UNCHANGED <<cfg, good, discoveryVars>>
               /\ capture' \in {"off", capture} /\ proxy' \in {"none", proxy}
      BY <1>2, <1>3, <2>1 DEF Fails
    <2>2. CASE /\ capture' = "off" /\ proxy' = "none" /\ task' = NoTasks /\ good.cfg # NoConfig /\ ~good.restoring
               /\ cfg' = good.cfg /\ good' = [good EXCEPT !.restoring = TRUE] /\ pc' = "plane"
               /\ search' = [Idle EXCEPT !.pc = "end"] /\ flow' = "none" /\ handle' = good.ttl
               /\ UNCHANGED <<path, faults, exit, out>>
      <3>1. DiscoveryInv'
        <4>1. search' = [pc |-> "end", ttl |-> 0, best |-> 0]
          BY <2>2 DEF Idle
        <4>2. handle' \in {LowTtlValue} \cup 1..MaxTtl /\ (handle' # LowTtlValue => Works(handle'))
          BY <2>2 DEF LInv, GoodInv
        <4> QED BY <2>2, <4>1, <4>2, SearchAnew DEF LInv
      <3>2. Sound(cfg') /\ Allowed(cfg')
        BY <2>2 DEF LInv, ConfigInv
      <3>3. /\ good'.cfg = good.cfg /\ good'.ttl = good.ttl /\ good'.restoring \in BOOLEAN
            /\ good' = [cfg |-> good'.cfg, ttl |-> good'.ttl, restoring |-> good'.restoring]
        BY <2>2 DEF LInv, GoodInv
      <3> QED BY <1>1, <1>2, <1>5, <2>2, <3>1, <3>2, <3>3, GenerationStarts
    <2>3. CASE /\ capture' = "off" /\ proxy' = "none" /\ pc' = "retry"
               /\ UNCHANGED <<exit, out, cfg, good, discoveryVars>>
      <3>1. StageInv'
        BY <1>1, <1>2, <1>5, <1>t, <2>3 DEF StageInv, Headless
      <3> QED BY <1>1, <1>2, <1>t, <2>3, <3>1, StepsOn DEF Stages, InUse
    <2> QED BY <1>5, <2>1, <2>2, <2>3 DEF FallsBack
  <1> QED BY <1>4, <1>5 DEF StartFails

\* A reload brings a configuration that was loaded anew and that the privileges
\* suffice for.
LEMMA ReloadKeeps ==
  ASSUME LInv, Reload \/ RetryLoad
  PROVE  LInv'
  <1>1. /\ pc \in {"dash", "retry"} /\ reloads < MaxReloads /\ reloads' = reloads + 1
        /\ UNCHANGED <<case, disk, helper, sent, term, moves, scans>>
    BY DEF Reload, RetryLoad
  <1>2. /\ sent \in 0..Len(ConnEvents) /\ term \in BOOLEAN /\ helper \in {"none", "up", "down", "dead"}
        /\ capture \in {"off", "local", "remote"} /\ StageInv /\ ~Headless
        /\ proxy \in {"none", "starting", "listening", "failed", "aborted"}
        /\ exit \in {"none", "ok", "err", "killed"} /\ disk \in {case.file, case.edited}
    BY <1>1 DEF LInv, LaunchTypeOK, StageInv
  <1>3. reloads' \in 0..MaxReloads
    BY <1>1, CasesAssumption DEF LInv, LaunchTypeOK
  <1>4. ASSUME NEW active, Reloads(active)
        PROVE  LInv'
    <2>1. PICK next \in Candidate(disk, case.overrides, active, Privileged, case.lists) :
            /\ cfg' = next /\ pc' = "select" /\ capture' = "off" /\ proxy' = "none" /\ task' = NoTasks
            /\ good' = [good EXCEPT !.restoring = FALSE] /\ NewSearch /\ UNCHANGED <<exit, out>>
      BY <1>4 DEF Reloads
    <2>2. next \in Load(disk, case.overrides) /\ Reloadable(next, Privileged)
      BY DEF Candidate
    <2>3. Sound(cfg')
      BY <1>2, <2>1, <2>2 DEF Sound
    <2>4. Allowed(cfg')
      BY <1>2, <2>1, <2>2 DEF Allowed, Reloadable, Privileged
    <2>5. DiscoveryInv' /\ path' = path
      BY <2>1, SearchAnew DEF LInv, NewSearch, Idle
    <2>6. /\ good'.cfg = good.cfg /\ good'.ttl = good.ttl /\ good'.restoring \in BOOLEAN
          /\ good' = [cfg |-> good'.cfg, ttl |-> good'.ttl, restoring |-> good'.restoring]
      BY <2>1 DEF LInv, GoodInv
    <2> QED BY <1>1, <1>2, <1>3, <2>1, <2>3, <2>4, <2>5, <2>6, GenerationStarts
  <1>5. CASE Fails(<<>>) /\ UNCHANGED <<cfg, good, capture, proxy, task, discoveryVars>>
    <2>1. DiscoveryInv' /\ UNCHANGED <<path, search, flow, handle, faults>>
      BY <1>5, DiscoveryStays DEF LInv
    <2>t. TaskTypeOK'
      BY <1>1, <1>5 DEF LInv, LaunchTypeOK, TaskTypeOK
    <2>2. LaunchTypeOK'
      BY <2>t, <1>1, <1>3, <1>5, <2>1 DEF Fails, LInv, LaunchTypeOK, DiscoveryInv
    <2>3. GoodInv' /\ StageInv'
      BY <1>1, <1>5, <2>1 DEF Fails, LInv, GoodInv, Works, StageInv
    <2>4. ConfigInv'
      BY <1>1, <1>5 DEF Fails, LInv, ConfigInv, InUse, Sound, Allowed
    <2> QED BY <2>1, <2>2, <2>3, <2>4 DEF LInv
  <1> QED BY <1>4, <1>5 DEF Reload, RetryLoad

\* What served is kept, with the TTL that was found for it.
LEMMA ReadyKeeps ==
  ASSUME LInv, Ready
  PROVE  LInv'
  <1>1. /\ pc = "serve" /\ ~Headless /\ pc' = "dash" /\ good' = [good EXCEPT !.cfg = cfg, !.ttl = handle]
        /\ UNCHANGED <<case, disk, exit, cfg, helper, capture, proxy, sent, term, reloads, discoveryVars>>
    BY DEF Ready
  <1>t. TaskTypeOK' /\ UNCHANGED <<task, moves, scans>>
    BY TasksStay DEF Ready
  <1>2. DiscoveryInv' /\ UNCHANGED <<path, search, flow, handle, faults>>
    BY <1>1, DiscoveryStays DEF LInv
  <1>3. LaunchTypeOK' /\ StageInv'
    BY <1>1, <1>2, <1>t DEF LInv, LaunchTypeOK, DiscoveryInv, StageInv, Headless
  <1>4. good'.cfg = cfg /\ good'.ttl = handle /\ good'.restoring = good.restoring
        /\ good' = [cfg |-> good'.cfg, ttl |-> good'.ttl, restoring |-> good'.restoring]
    BY <1>1 DEF LInv, GoodInv
  <1>5. handle \in {LowTtlValue} \cup 1..MaxTtl /\ (handle # LowTtlValue => Works(handle))
    BY DEF LInv, DiscoveryInv, DiscoveryTypeOK, FoundTtlWorks
  <1>6. GoodInv'
    BY <1>2, <1>4, <1>5 DEF LInv, GoodInv, Works
  <1>7. Sound(cfg) /\ Allowed(cfg)
    BY <1>1 DEF LInv, ConfigInv, InUse
  <1>8. ConfigInv'
    BY <1>1, <1>4, <1>7 DEF ConfigInv, Sound, Allowed
  <1> QED BY <1>2, <1>3, <1>6, <1>8 DEF LInv

LEMMA SearchKeeps ==
  ASSUME LInv, SearchTtl
  PROVE  LInv'
  <1>1. DiscoveryInv' /\ path' = path
    BY SearchSteps, DiscoveryFrame DEF LInv, SearchTtl
  <1>2. UNCHANGED <<case, disk, pc, exit, cfg, good, helper, capture, proxy, sent, term, reloads>>
    BY DEF SearchTtl, launchVars
  <1>t. TaskTypeOK' /\ UNCHANGED <<task, moves, scans>>
    BY TasksStay DEF SearchTtl, launchVars
  <1>3. LaunchTypeOK'
    BY <1>1, <1>2, <1>t DEF LInv, LaunchTypeOK, DiscoveryInv
  <1>4. GoodInv' /\ StageInv'
    BY <1>1, <1>2, <1>t DEF LInv, GoodInv, Works, StageInv, Headless, Mode
  <1>5. ConfigInv'
    BY <1>2 DEF LInv, ConfigInv, InUse, Sound, Allowed
  <1> QED BY <1>1, <1>3, <1>4, <1>5 DEF LInv

\* Nothing happens but an edit of the file, or nothing at all.
LEMMA Rests ==
  ASSUME LInv, Edit \/ UNCHANGED vars
  PROVE  LInv'
  <1>1. /\ UNCHANGED <<case, pc, exit, cfg, good, helper, capture, proxy, sent, term, reloads, discoveryVars>>
        /\ disk' \in {disk, case.edited}
    BY DEF Edit, vars, launchVars, discoveryVars
  <1>t. TaskTypeOK' /\ UNCHANGED <<task, moves, scans>>
    BY TasksStay DEF Edit, vars, launchVars
  <1>2. DiscoveryInv' /\ UNCHANGED <<path, search, flow, handle, faults>>
    BY <1>1, DiscoveryStays DEF LInv
  <1>3. LaunchTypeOK'
    BY <1>1, <1>2, <1>t DEF LInv, LaunchTypeOK, DiscoveryInv
  <1>4. GoodInv' /\ StageInv'
    BY <1>1, <1>2, <1>t DEF LInv, GoodInv, Works, StageInv, Headless, Mode
  <1>5. ConfigInv'
    BY <1>1 DEF LInv, ConfigInv, InUse, Sound, Allowed
  <1> QED BY <1>2, <1>3, <1>4, <1>5 DEF LInv

LEMMA LaunchSteps == LInv /\ [Next]_vars => LInv'
  <1> SUFFICES ASSUME LInv, [Next]_vars PROVE LInv'
    OBVIOUS
  <1>1. CASE StartUp
    <2>1. CASE LoadConfig
      BY <2>1, LoadKeeps
    <2>2. CASE ConnectHelper \/ CheckAccess \/ ScanEnds \/ SelectTarget \/ OpenPlane
      BY <2>2, Straight
    <2>5. CASE SpawnRescan \/ StartMonitor
      BY <2>5, TasksStart
    <2>3. CASE ScanFails \/ NoTarget \/ PlaneFails \/ MonitorFails
      BY <2>3, FallsBackKeeps DEF ScanFails, NoTarget, PlaneFails, MonitorFails
    <2>4. CASE SearchTtl
      BY <2>4, SearchKeeps
    <2> QED BY <1>1, <2>1, <2>2, <2>3, <2>4, <2>5 DEF StartUp
  <1>2. CASE Shutdown \/ Quit
    BY <1>2, Straight
  <1>3. CASE Listen \/ ProxyEnds \/ Connect \/ LogEvent \/ Terminate \/ HelperDies
    BY <1>3, Around
  <1>4. CASE Ready
    BY <1>4, ReadyKeeps
  <1>5. CASE NotReady
    BY <1>5, FallsBackKeeps DEF NotReady
  <1>6. CASE Reload \/ RetryLoad
    BY <1>6, ReloadKeeps
  <1>7. CASE Edit \/ Finished \/ UNCHANGED vars
    BY <1>7, Rests DEF Finished
  <1>8. CASE Tasks
    BY <1>8, TasksKeep
  <1> QED BY <1>1, <1>2, <1>3, <1>4, <1>5, <1>6, <1>7, <1>8 DEF Next

\* The inductive invariant holds of every launch.
THEOREM LaunchInvariance == Spec => []LInv
  BY LaunchStarts, LaunchSteps, PTL DEF Spec

\* What the command line says holds for every configuration in use, interception is
\* asked about before it is used, a good exit has closed the interceptor unless the
\* coordinator of a headless process without helper rebuilt it while the runtime was
\* still there, and the search for a TTL owns its flow (run of main.rs, Args::apply,
\* Session::candidate, DataPlaneController::stop and rebuild).
THEOREM LaunchIsSafe == Spec => []LaunchInv
  <1>1. LInv => LaunchInv
    <2> SUFFICES ASSUME LInv PROVE LaunchInv
      OBVIOUS
    <2>1. OverridesHold
      <3> SUFFICES ASSUME InUse PROVE \A f \in DOMAIN case.overrides : cfg[f] = Apply(case.overrides, <<>>)[f]
        BY DEF OverridesHold
      <3>1. PICK file \in {case.file, case.edited} : cfg \in Load(file, case.overrides)
        BY DEF LInv, ConfigInv, Sound
      <3> QED BY <3>1, OverridesApplied
    <2>2. PrivilegedFirst
      BY DEF LInv, ConfigInv, Allowed, PrivilegedFirst
    <2>3. CleanExit
      BY DEF LInv, StageInv, CleanExit
    <2> QED BY <2>1, <2>2, <2>3 DEF LInv, DiscoveryInv, LaunchInv
  <1> QED BY <1>1, LaunchInvariance, PTL

\* ConfigSource::load validates what it read and overrode, so whatever the files say,
\* however the file is edited and whichever configuration is restored, the one in use
\* is one its consumers can run.
THEOREM LaunchRunsValidated == Spec => []RunsValidated
  <1>1. LInv => RunsValidated
    <2> SUFFICES ASSUME LInv, InUse PROVE Runnable(Effective(cfg))
      BY DEF RunsValidated
    <2>1. PICK file \in {case.file, case.edited} : cfg \in Load(file, case.overrides)
      BY DEF LInv, ConfigInv, Sound
    <2>2. TypedFile(file) /\ DOMAIN case.overrides \subseteq CommandLine
      BY CasesAssumption DEF LInv, LaunchTypeOK
    <2> QED BY <2>1, <2>2, LoadedRuns
  <1> QED BY <1>1, LaunchInvariance, PTL

\* The TTL of the decoys is the configured one or one that works, through every
\* restart, reload and restored generation of the process.
THEOREM LaunchTtlWorks == Spec => []FoundTtlWorks
  <1>1. LInv => FoundTtlWorks
    BY DEF LInv, DiscoveryInv
  <1> QED BY <1>1, LaunchInvariance, PTL

-----------------------------------------------------------------------------
(* The lines on standard output *)

Has(s, line) == \E i \in 1..Len(s) : s[i] = line

\* Every b comes after an a.
Follows(s, a, b) == \A j \in 1..Len(s) : s[j] = b => \E i \in 1..(j - 1) : s[i] = a

\* Every line there is, and every event the logger reads.
AllLines ==
  {"startup", "helper_authenticated", "config_loaded", "root_required", "fatal_error", "scan_started",
   "scan_completed", "text", "selected_target", "graceful_shutdown"} \cup ServiceLines
Events == {"listener_started", "target_changed"} \cup {ConnEvents[i] : i \in 1..Len(ConnEvents)}

\* A rescan has begun, and not ended.
Open(s) == \E i \in 1..Len(s) : s[i] = "rescan_started" /\ \A k \in i..Len(s) : s[k] # "rescan_finished"

\* The order of the lines, whatever the process is doing.
Ordered(s) ==
  /\ s \in Seq(AllLines) /\ s # <<>> /\ s[1] = "startup"
  /\ \A i, j \in 1..Len(s) : s[i] = s[j] /\ s[i] \in {"config_loaded", "graceful_shutdown"} => i = j
  /\ \A i \in 2..Len(s) :
       s[i] \notin {"config_loaded", "helper_authenticated", "fatal_error"} =>
         \E j \in 1..(i - 1) : s[j] = "config_loaded"
  /\ \A b \in ServiceLines : Follows(s, "selected_target", b)
  /\ Follows(s, "listener_started", "connection_accepted")
  /\ Follows(s, "rescan_started", "active_target_changed")
  /\ Follows(s, "network_changed", "network_recovered")
  /\ Follows(s, "network_changed", "network_recovery_failed")
  /\ \A i, j \in 1..Len(s) : i < j /\ s[i] = "rescan_started" /\ s[j] = "rescan_started" =>
       \E k \in i..j : s[k] = "rescan_finished"
  /\ \A i \in 1..Len(s) : s[i] = "fatal_error" => i = Len(s)
  /\ \A i, j \in 1..Len(s) : i < j /\ s[i] = "graceful_shutdown" => s[j] \in ServiceLines

\* One more line, in a place where it may stand.
May(s, line) ==
  /\ line \in AllLines /\ ~Has(s, "fatal_error")
  /\ line = "config_loaded" => ~Has(s, "config_loaded")
  /\ line \notin {"config_loaded", "helper_authenticated", "fatal_error"} => Has(s, "config_loaded")
  /\ line \in ServiceLines => Has(s, "selected_target")
  /\ line = "connection_accepted" => Has(s, "listener_started")
  /\ line = "active_target_changed" => Has(s, "rescan_started")
  /\ line \in {"network_recovered", "network_recovery_failed"} => Has(s, "network_changed")
  /\ line = "rescan_started" => ~Open(s)
  /\ Has(s, "graceful_shutdown") => line \in ServiceLines

LEMMA OneMore ==
  ASSUME NEW s, Ordered(s), NEW line, May(s, line)
  PROVE  /\ Ordered(Append(s, line))
         /\ \A x : Has(Append(s, line), x) <=> Has(s, x) \/ x = line
         /\ Open(Append(s, line)) <=> line = "rescan_started" \/ (Open(s) /\ line # "rescan_finished")
  <1> DEFINE t == Append(s, line)
             n == Len(s) + 1
  <1>1. /\ s \in Seq(AllLines) /\ Len(s) \in Nat \ {0} /\ t \in Seq(AllLines) /\ t # <<>> /\ Len(t) = n /\ n \in Nat
        /\ \A i \in 1..Len(s) : t[i] = s[i]
        /\ t[n] = line
    BY EmptySeq, AppendProperties DEF Ordered, May
  <1> HIDE DEF t
  <1>2. \A x : Has(t, x) <=> Has(s, x) \/ x = line
    BY <1>1 DEF Has
  <1>3. t[1] = "startup" /\ \A i \in 1..Len(s) : s[i] # "fatal_error"
    BY <1>1 DEF Ordered, May, Has
  <1>4. \A i, j \in 1..n : t[i] = t[j] /\ t[i] \in {"config_loaded", "graceful_shutdown"} => i = j
    <2> SUFFICES ASSUME NEW i \in 1..n, NEW j \in 1..n, t[i] = t[j], i # j,
                        t[i] \in {"config_loaded", "graceful_shutdown"}
                 PROVE  FALSE
      OBVIOUS
    <2>1. CASE i \in 1..Len(s) /\ j \in 1..Len(s)
      BY <1>1, <2>1 DEF Ordered
    <2>2. CASE i = n /\ j \in 1..Len(s)
      BY <1>1, <2>2 DEF May, Has, ServiceLines
    <2>3. CASE j = n /\ i \in 1..Len(s)
      BY <1>1, <2>3 DEF May, Has, ServiceLines
    <2> QED BY <1>1, <2>1, <2>2, <2>3
  <1>5. \A i \in 2..n : t[i] \notin {"config_loaded", "helper_authenticated", "fatal_error"} =>
          \E j \in 1..(i - 1) : t[j] = "config_loaded"
    <2> SUFFICES ASSUME NEW i \in 2..n, t[i] \notin {"config_loaded", "helper_authenticated", "fatal_error"}
                 PROVE  \E j \in 1..(i - 1) : t[j] = "config_loaded"
      OBVIOUS
    <2>1. CASE i \in 2..Len(s)
      <3>1. PICK j \in 1..(i - 1) : s[j] = "config_loaded"
        BY <1>1, <2>1 DEF Ordered
      <3> QED BY <1>1, <2>1, <3>1
    <2>2. CASE i = n
      BY <1>1, <2>2 DEF May, Has
    <2> QED BY <1>1, <2>1, <2>2
  <1>6. ASSUME NEW a, NEW b, Follows(s, a, b), line = b => Has(s, a)
        PROVE  Follows(t, a, b)
    <2> SUFFICES ASSUME NEW j \in 1..n, t[j] = b PROVE \E i \in 1..(j - 1) : t[i] = a
      BY <1>1 DEF Follows
    <2>1. CASE j \in 1..Len(s)
      <3>1. PICK i \in 1..(j - 1) : s[i] = a
        BY <1>1, <1>6, <2>1 DEF Follows
      <3> QED BY <1>1, <2>1, <3>1
    <2>2. CASE j = n
      BY <1>1, <1>6, <2>2 DEF Has
    <2> QED BY <1>1, <2>1, <2>2
  <1>7. /\ \A b \in ServiceLines : Follows(t, "selected_target", b)
        /\ Follows(t, "listener_started", "connection_accepted")
        /\ Follows(t, "rescan_started", "active_target_changed")
        /\ Follows(t, "network_changed", "network_recovered")
        /\ Follows(t, "network_changed", "network_recovery_failed")
    BY <1>6 DEF Ordered, May
  <1>8. \A i \in 1..n : t[i] = "fatal_error" => i = n
    BY <1>1, <1>3
  <1>9. \A i, j \in 1..n : i < j /\ t[i] = "graceful_shutdown" => t[j] \in ServiceLines
    <2> SUFFICES ASSUME NEW i \in 1..n, NEW j \in 1..n, i < j, t[i] = "graceful_shutdown"
                 PROVE  t[j] \in ServiceLines
      OBVIOUS
    <2>1. i \in 1..Len(s) /\ s[i] = "graceful_shutdown"
      BY <1>1
    <2>2. CASE j \in 1..Len(s)
      BY <1>1, <2>1, <2>2 DEF Ordered
    <2>3. CASE j = n
      BY <1>1, <2>1, <2>3 DEF May, Has
    <2> QED BY <1>1, <2>2, <2>3
  <1>10. \A i, j \in 1..n : i < j /\ t[i] = "rescan_started" /\ t[j] = "rescan_started" =>
           \E k \in i..j : t[k] = "rescan_finished"
    <2> SUFFICES ASSUME NEW i \in 1..n, NEW j \in 1..n, i < j, t[i] = "rescan_started", t[j] = "rescan_started"
                 PROVE  \E k \in i..j : t[k] = "rescan_finished"
      OBVIOUS
    <2>1. i \in 1..Len(s) /\ s[i] = "rescan_started"
      BY <1>1
    <2>2. CASE j \in 1..Len(s)
      <3>1. PICK k \in i..j : s[k] = "rescan_finished"
        BY <1>1, <2>1, <2>2 DEF Ordered
      <3> QED BY <1>1, <2>1, <2>2, <3>1
    <2>3. CASE j = n
      <3>1. ~Open(s)
        BY <1>1, <2>3 DEF May
      <3>2. PICK k \in i..Len(s) : s[k] = "rescan_finished"
        BY <2>1, <3>1 DEF Open
      <3> QED BY <1>1, <2>1, <2>3, <3>2
    <2> QED BY <1>1, <2>2, <2>3
  <1>11. Open(t) <=> line = "rescan_started" \/ (Open(s) /\ line # "rescan_finished")
    <2>1. ASSUME Open(t), line # "rescan_started" PROVE Open(s) /\ line # "rescan_finished"
      <3>1. PICK i \in 1..n : t[i] = "rescan_started" /\ \A k \in i..n : t[k] # "rescan_finished"
        BY <1>1, <2>1 DEF Open
      <3>2. i \in 1..Len(s) /\ n \in i..n
        BY <1>1, <2>1, <3>1
      <3>3. \A k \in i..Len(s) : s[k] # "rescan_finished"
        BY <1>1, <3>1, <3>2
      <3> QED BY <1>1, <3>1, <3>2, <3>3 DEF Open
    <2>2. ASSUME line = "rescan_started" PROVE Open(t)
      <3>1. n \in 1..n /\ \A k \in n..n : k = n
        BY <1>1
      <3> QED BY <1>1, <2>2, <3>1 DEF Open
    <2>3. ASSUME Open(s), line # "rescan_finished" PROVE Open(t)
      <3>1. PICK i \in 1..Len(s) : s[i] = "rescan_started" /\ \A k \in i..Len(s) : s[k] # "rescan_finished"
        BY <2>3 DEF Open
      <3>2. \A k \in i..n : t[k] # "rescan_finished"
        BY <1>1, <2>3, <3>1
      <3> QED BY <1>1, <3>1, <3>2 DEF Open
    <2> QED BY <2>1, <2>2, <2>3
  <1>12. Ordered(t)
    BY <1>1, <1>3, <1>4, <1>5, <1>7, <1>8, <1>9, <1>10 DEF Ordered
  <1> QED BY <1>2, <1>11, <1>12 DEF t

LEMMA Tuples ==
  ASSUME NEW a, NEW b, NEW c
  PROVE  <<a, b>> \o <<c>> = <<a, b, c>> /\ <<a, b>> \o <<>> = <<a, b>>
  <1> DEFINE S == {a, b, c}
  <1>1. a \in S /\ b \in S /\ c \in S
    OBVIOUS
  <1> HIDE DEF S
  <1>2. <<a, b>> \in Seq(S)
    BY <1>1
  <1>3. <<a, b, c>> = Append(<<a, b>>, c)
    OBVIOUS
  <1> QED BY <1>1, <1>2, <1>3, ConcatEmptySeq, AppendIsConcat

LEMMA Written ==
  ASSUME NEW S, NEW s \in Seq(S), NEW a \in S, NEW b \in S, NEW c \in S
  PROVE  /\ s \o <<>> = s /\ s \o <<a>> = Append(s, a)
         /\ s \o <<a, b>> = Append(Append(s, a), b)
         /\ s \o <<a, b, c>> = Append(Append(Append(s, a), b), c)
         /\ <<>> \o <<a>> = <<a>>
         /\ Append(<<>>, a) = <<a>> /\ Append(<<a, b>>, c) = <<a, b, c>> /\ <<a>> \in Seq(S)
  <1>1. s \o <<>> = s
    BY ConcatEmptySeq
  <1>2. ASSUME NEW r \in Seq(S), NEW x \in S
        PROVE  Append(r, x) \in Seq(S) /\ Append(r, x) = r \o <<x>>
    BY AppendProperties, AppendIsConcat
  <1>3. <<a>> \in Seq(S) /\ <<b>> \in Seq(S) /\ <<c>> \in Seq(S) /\ <<a, b>> \in Seq(S)
    OBVIOUS
  <1>4. <<a, b>> = Append(<<a>>, b) /\ <<a, b, c>> = Append(<<a, b>>, c)
    OBVIOUS
  <1>5. s \o <<a, b>> = Append(Append(s, a), b)
    BY <1>2, <1>3, <1>4, ConcatAssociative
  <1>6. s \o <<a, b, c>> = Append(Append(Append(s, a), b), c)
    BY <1>2, <1>3, <1>4, <1>5, ConcatAssociative
  <1>7. <<>> \o <<a>> = <<a>>
    BY <1>3, ConcatEmptySeq
  <1>8. Append(<<>>, a) = <<a>>
    BY <1>2, <1>7, EmptySeq
  <1> QED BY <1>1, <1>2, <1>3, <1>4, <1>5, <1>6, <1>7, <1>8

Early == {"load", "helper", "access"}
Late == {"plane", "ttl", "monitor", "serve", "stopping", "stopped"}

\* What the tasks are doing, and before what they have not been spawned.
Recovering == task.recovery \notin {"off", "wait"}
Rescans == task.timer \in {"scan", "switched"} \/ task.recovery \in {"scan", "switched"}
Running == {"serve", "stopping", "stopped", "exit"}
Spawned ==
  /\ pc \notin Running \cup {"monitor"} => task.timer = "off"
  /\ pc \notin Running => task.recovery = "off"

\* What the logger will write, and in which order it got it.
BacklogInv ==
  /\ backlog \in Seq(Events)
  /\ proxy = "listening" => Has(out, "listener_started") \/ Has(backlog, "listener_started")
  /\ \A j \in 1..Len(backlog) : backlog[j] = "accepted" =>
       Has(out, "listener_started") \/ \E i \in 1..(j - 1) : backlog[i] = "listener_started"
  /\ \A j \in 1..Len(backlog) : backlog[j] = "target_changed" => Has(out, "rescan_started")

\* What has been written, and how far the process is.
ToldInv ==
  /\ Ordered(out)
  /\ pc \in Early => ~Has(out, "config_loaded")
  /\ pc \notin Early \cup {"exit"} => Has(out, "config_loaded")
  /\ pc \in Late => Has(out, "selected_target")
  /\ Has(out, "fatal_error") <=> exit = "err"
  /\ Has(out, "graceful_shutdown") => pc = "stopped" \/ exit = "ok"
  /\ pc = "stopped" => Has(out, "graceful_shutdown")
  /\ exit = "ok" /\ Mode \in ProxyModes => Has(out, "graceful_shutdown")
  /\ Recovering => Has(out, "network_changed")
  /\ Rescans => Has(out, "rescan_started")
  /\ Open(out) => Rescans
  /\ Spawned

StreamInv == case.json => ToldInv /\ BacklogInv

LEMMA StreamStarts == Init => StreamInv
  <1> SUFFICES ASSUME Init, case.json PROVE ToldInv /\ BacklogInv
    BY DEF StreamInv
  <1>1. out = <<"startup">> /\ backlog = <<>> /\ pc = "load" /\ exit = "none" /\ proxy = "none"
        /\ task.timer = "off" /\ task.recovery = "off"
    BY DEF Init, NoTasks
  <1>2. out \in Seq(AllLines) /\ Len(out) = 1 /\ out # <<>> /\ out[1] = "startup"
    <2>1. "startup" \in AllLines /\ <<>> \in Seq(AllLines)
      BY EmptySeq DEF AllLines
    <2>2. out \in Seq(AllLines)
      BY <1>1, <2>1, Written
    <2> QED BY <1>1, <2>2
  <1>3. Ordered(out)
    <2>1. \A a, b : b # "startup" => Follows(out, a, b)
      BY <1>2 DEF Follows
    <2> QED BY <1>2, <2>1 DEF Ordered, ServiceLines
  <1>4. (\A x : Has(out, x) <=> x = "startup") /\ ~Open(out)
    BY <1>2 DEF Has, Open
  <1>5. ToldInv
    BY <1>1, <1>3, <1>4 DEF ToldInv, Early, Late, Recovering, Rescans, Spawned
  <1>6. BacklogInv
    BY <1>1 DEF BacklogInv
  <1> QED BY <1>5, <1>6

\* A step that writes nothing.
LEMMA Silent ==
  ASSUME ToldInv, BacklogInv, UNCHANGED <<out, backlog>>, proxy' = "listening" => proxy = "listening",
         pc' \in Early => pc \in Early,
         pc' \notin Early \cup {"exit"} => pc \notin Early \cup {"exit"},
         pc' \in Late => pc \in Late,
         exit' = "err" <=> exit = "err",
         pc = "stopped" \/ exit = "ok" => pc' = "stopped" \/ exit' = "ok",
         pc' = "stopped" => pc = "stopped",
         exit' = "ok" => pc = "stopped" \/ (exit = "ok" /\ cfg' = cfg),
         Recovering' => Recovering, Rescans' <=> Rescans, Spawned'
  PROVE  ToldInv' /\ BacklogInv'
  <1>1. ToldInv'
    BY DEF ToldInv, Mode
  <1>2. BacklogInv'
    BY DEF BacklogInv
  <1> QED BY <1>1, <1>2

\* A line of the main thread.
LEMMA Speaks ==
  ASSUME BacklogInv, NEW s, out' = s, \A x : Has(out, x) => Has(s, x),
         backlog' = backlog, proxy' = proxy
  PROVE  BacklogInv'
  BY DEF BacklogInv

\* The process ends with an error.
LEMMA Dies ==
  ASSUME ToldInv, BacklogInv, case.json, exit = "none", pc \notin {"stopped", "exit"}, Fails(<<>>),
         UNCHANGED <<backlog, proxy, task>>
  PROVE  ToldInv' /\ BacklogInv'
  <1>1. Ordered(out) /\ out \in Seq(AllLines)
    BY DEF ToldInv, Ordered
  <1>2. /\ out' = Append(out, "fatal_error") /\ pc' = "exit" /\ exit' = "err"
    BY <1>1, Written DEF Fails, Lines, AllLines
  <1>3. May(out, "fatal_error")
    <2>1. ~Has(out, "fatal_error") /\ ~Has(out, "graceful_shutdown")
      BY DEF ToldInv
    <2> QED BY <2>1 DEF May, AllLines, ServiceLines
  <1>4. /\ Ordered(out') /\ (Open(out') => Open(out))
        /\ \A x : Has(out', x) <=> Has(out, x) \/ x = "fatal_error"
    BY <1>1, <1>2, <1>3, OneMore
  <1>5. ToldInv'
    BY <1>2, <1>4 DEF ToldInv, Early, Late, Recovering, Rescans, Spawned, Running
  <1> QED BY <1>4, <1>5, Speaks

\* One more event for the logger.
LEMMA Queued ==
  ASSUME BacklogInv, NEW e \in Events, backlog' = Append(backlog, e), out' = out,
         proxy' = "listening" => proxy = "listening" \/ e = "listener_started",
         e = "accepted" => proxy = "listening",
         e = "target_changed" => Has(out, "rescan_started")
  PROVE  BacklogInv'
  <1> DEFINE b == backlog'
             n == Len(backlog) + 1
  <1>1. /\ b \in Seq(Events) /\ Len(b) = n /\ Len(backlog) \in Nat /\ b[n] = e
        /\ \A i \in 1..Len(backlog) : b[i] = backlog[i]
    BY AppendProperties DEF BacklogInv
  <1> HIDE DEF b
  <1>2. Has(backlog, "listener_started") => Has(b, "listener_started")
    BY <1>1 DEF Has
  <1>3. proxy' = "listening" => Has(out, "listener_started") \/ Has(b, "listener_started")
    <2>1. CASE e = "listener_started"
      BY <1>1, <2>1 DEF Has
    <2>2. CASE proxy = "listening"
      BY <1>2, <2>2 DEF BacklogInv
    <2> QED BY <2>1, <2>2
  <1>4. ASSUME NEW j \in 1..n, b[j] = "accepted"
        PROVE  Has(out, "listener_started") \/ \E i \in 1..(j - 1) : b[i] = "listener_started"
    <2>1. CASE j \in 1..Len(backlog)
      <3>1. Has(out, "listener_started") \/ \E i \in 1..(j - 1) : backlog[i] = "listener_started"
        BY <1>1, <1>4, <2>1 DEF BacklogInv
      <3> QED BY <1>1, <2>1, <3>1
    <2>2. CASE j = n
      <3>1. Has(out, "listener_started") \/ Has(backlog, "listener_started")
        BY <1>1, <1>4, <2>2 DEF BacklogInv
      <3> QED BY <1>1, <2>2, <3>1 DEF Has
    <2> QED BY <1>1, <2>1, <2>2
  <1>5. ASSUME NEW j \in 1..n, b[j] = "target_changed"
        PROVE  Has(out, "rescan_started")
    <2>1. CASE j \in 1..Len(backlog)
      BY <1>1, <1>5, <2>1 DEF BacklogInv
    <2>2. CASE j = n
      BY <1>1, <1>5, <2>2
    <2> QED BY <1>1, <2>1, <2>2
  <1> QED BY <1>1, <1>3, <1>4, <1>5 DEF BacklogInv, b

\* The proxy task sends an event.
LEMMA Sends ==
  ASSUME LInv, ToldInv, BacklogInv, Listen \/ Connect
  PROVE  ToldInv' /\ BacklogInv'
  <1>1. UNCHANGED <<out, pc, exit, cfg, task>>
    BY DEF Listen, Connect, taskVars
  <1>2. ToldInv'
    BY <1>1 DEF ToldInv, Mode, Recovering, Rescans, Spawned
  <1>3. CASE Listen
    <2>1. backlog' = Append(backlog, "listener_started") /\ "listener_started" \in Events
      BY <1>3 DEF Listen, Events
    <2>2. BacklogInv'
      BY <1>1, <2>1, Queued
    <2> QED BY <1>2, <2>2
  <1>4. CASE Connect
    <2>1. sent + 1 \in 1..Len(ConnEvents)
      <3>1. Len(ConnEvents) \in Nat /\ case \in Cases /\ case.conn \in 0..Len(ConnEvents)
        BY CasesAssumption DEF LInv, LaunchTypeOK
      <3> QED BY <1>4, <3>1 DEF Connect, LInv, LaunchTypeOK
    <2> DEFINE e == ConnEvents[sent + 1]
    <2>2. e \in Events /\ e # "target_changed"
      <3>1. ConnEvents \in Seq(STRING \ {"target_changed"})
        BY CasesAssumption
      <3>2. e \in STRING \ {"target_changed"}
        BY <2>1, <3>1, ElementOfSeq
      <3> QED BY <2>1, <3>2 DEF Events
    <2>3. backlog' = Append(backlog, e) /\ proxy = "listening"
      BY <1>4 DEF Connect
    <2> HIDE DEF e
    <2>4. BacklogInv'
      BY <1>1, <2>2, <2>3, Queued
    <2> QED BY <1>2, <2>4
  <1> QED BY <1>3, <1>4

\* A line of a running service.
LEMMA Serves ==
  ASSUME LInv, ToldInv, pc \in {"monitor", "serve", "stopping", "stopped"},
         NEW line \in ServiceLines, out' = Append(out, line), UNCHANGED <<pc, exit, cfg>>, Spawned',
         line = "connection_accepted" => Has(out, "listener_started"),
         line = "active_target_changed" => Has(out, "rescan_started"),
         line \in {"network_recovered", "network_recovery_failed"} => Recovering,
         line = "rescan_started" => ~Rescans /\ Rescans',
         Recovering' => Recovering \/ line = "network_changed",
         Rescans' => Rescans \/ line = "rescan_started",
         Rescans => Rescans' \/ line = "rescan_finished"
  PROVE  ToldInv' /\ \A x : Has(out', x) <=> Has(out, x) \/ x = line
  <1>1. Ordered(out) /\ exit = "none"
    BY DEF ToldInv, LInv, StageInv
  <1>2. Has(out, "config_loaded") /\ Has(out, "selected_target") /\ ~Has(out, "fatal_error")
    BY <1>1 DEF ToldInv, Early, Late
  <1>3. line \in AllLines /\ line \notin {"config_loaded", "selected_target", "fatal_error", "graceful_shutdown"}
    BY DEF AllLines, ServiceLines
  <1>4. May(out, line)
    BY <1>2, <1>3 DEF May, ToldInv
  <1>5. /\ Ordered(out') /\ \A x : Has(out', x) <=> Has(out, x) \/ x = line
        /\ Open(out') <=> line = "rescan_started" \/ (Open(out) /\ line # "rescan_finished")
    BY <1>1, <1>4, OneMore
  <1>6. ToldInv'
    BY <1>3, <1>5 DEF ToldInv, Mode
  <1> QED BY <1>5, <1>6

\* A task writes a line.
LEMMA Reports ==
  ASSUME LInv, ToldInv, BacklogInv, case.json, pc \in {"monitor", "serve", "stopping", "stopped"},
         NEW line \in ServiceLines \ {"connection_accepted", "active_target_changed"},
         out' = Lines(<<line>>), backlog' = backlog, Others, Spawned',
         line \in {"network_recovered", "network_recovery_failed"} => Recovering,
         line = "rescan_started" => ~Rescans /\ Rescans',
         Recovering' => Recovering \/ line = "network_changed",
         Rescans' => Rescans \/ line = "rescan_started",
         Rescans => Rescans' \/ line = "rescan_finished"
  PROVE  ToldInv' /\ BacklogInv'
  <1>1. out \in Seq(AllLines) /\ line \in AllLines
    BY DEF ToldInv, Ordered, AllLines
  <1>2. out' = Append(out, line) /\ UNCHANGED <<pc, exit, cfg, backlog, proxy>>
    BY <1>1, Written DEF Others, Lines
  <1>3. ToldInv' /\ \A x : Has(out', x) <=> Has(out, x) \/ x = line
    BY <1>2, Serves
  <1> QED BY <1>2, <1>3, Speaks

\* The logger takes an event: what it writes may stand where it writes it.
LEMMA Logs ==
  ASSUME LInv, ToldInv, BacklogInv, case.json, LogEvent
  PROVE  ToldInv' /\ BacklogInv'
  <1>1. /\ pc \in {"serve", "stopping", "stopped"} /\ backlog # <<>>
        /\ out' = out \o Translate(Head(backlog)) /\ backlog' = Tail(backlog)
        /\ UNCHANGED <<pc, exit, cfg, proxy, task>>
    BY DEF LogEvent, Lines, taskVars
  <1> DEFINE b == Tail(backlog)
             n == Len(backlog)
             h == backlog[1]
  <1>2. /\ n \in Nat \ {0} /\ Head(backlog) = h /\ b \in Seq(Events) /\ Len(b) = n - 1
        /\ \A i \in 1..(n - 1) : b[i] = backlog[i + 1]
    BY <1>1, HeadTailProperties, EmptySeq DEF BacklogInv
  <1>3. out' = out \o Translate(h)
    BY <1>1, <1>2, Zenon
  <1>4. Ordered(out) /\ out \in Seq(AllLines)
    BY DEF ToldInv, Ordered
  <1>5. h = "accepted" => Has(out, "listener_started")
    BY <1>2 DEF BacklogInv
  <1>6. h = "target_changed" => Has(out, "rescan_started")
    BY <1>2 DEF BacklogInv
  <1>7. /\ ToldInv' /\ (\A x : Has(out, x) => Has(out', x))
        /\ (h = "listener_started" => Has(out', "listener_started"))
    <2>1. CASE Translate(h) = <<>>
      <3>1. h # "listener_started"
        BY <2>1 DEF Translate
      <3>2. out' = out
        BY <1>4, <1>3, <2>1, ConcatEmptySeq
      <3>3. ToldInv'
        BY <1>1, <3>2 DEF ToldInv, Mode, Recovering, Rescans, Spawned
      <3> QED BY <3>1, <3>2, <3>3
    <2>2. ASSUME NEW line \in {"listener_started", "connection_accepted", "bypass_finished", "relay_bytes",
                               "active_target_changed"}, Translate(h) = <<line>>,
                 line = "connection_accepted" => Has(out, "listener_started"),
                 line = "active_target_changed" => Has(out, "rescan_started"),
                 h = "listener_started" => line = "listener_started"
          PROVE  /\ ToldInv' /\ (\A x : Has(out, x) => Has(out', x))
                 /\ (h = "listener_started" => Has(out', "listener_started"))
      <3>1. line \in AllLines /\ line \in ServiceLines
        BY <2>2 DEF ServiceLines, AllLines
      <3>2. out' = Append(out, line)
        BY <1>4, <1>3, <2>2, <3>1, Written
      <3>3. (Recovering' <=> Recovering) /\ (Rescans' <=> Rescans) /\ Spawned'
        BY <1>1 DEF ToldInv, Recovering, Rescans, Spawned
      <3>4. ToldInv' /\ \A x : Has(out', x) <=> Has(out, x) \/ x = line
        BY <1>1, <2>2, <3>1, <3>2, <3>3, Serves
      <3> QED BY <2>2, <3>4
    <2>3. CASE h = "listener_started"
      BY <2>2, <2>3 DEF Translate
    <2>4. CASE h = "accepted"
      BY <1>5, <2>2, <2>4 DEF Translate
    <2>5. CASE h \in {"bypassed", "bypass_failed", "error"}
      BY <2>2, <2>5 DEF Translate
    <2>6. CASE h \in {"progress", "finished"}
      BY <2>2, <2>6 DEF Translate
    <2>7. CASE h = "target_changed"
      BY <1>6, <2>2, <2>7 DEF Translate
    <2>8. CASE h \notin {"listener_started", "accepted", "bypassed", "bypass_failed", "error", "progress", "finished",
                         "target_changed"}
      BY <2>1, <2>8 DEF Translate
    <2> QED BY <2>3, <2>4, <2>5, <2>6, <2>7, <2>8
  <1>9. BacklogInv'
    <2> HIDE DEF b
    <2>1. Has(backlog, "listener_started") => Has(b, "listener_started") \/ h = "listener_started"
      <3> SUFFICES ASSUME NEW i \in 1..n, backlog[i] = "listener_started", i # 1 PROVE Has(b, "listener_started")
        BY DEF Has
      <3>1. i - 1 \in 1..(n - 1) /\ b[i - 1] = backlog[i]
        BY <1>2
      <3> QED BY <1>2, <3>1 DEF Has
    <2>2. ASSUME NEW j \in 1..(n - 1), b[j] = "accepted"
          PROVE  Has(out', "listener_started") \/ \E i \in 1..(j - 1) : b[i] = "listener_started"
      <3>1. j + 1 \in 1..n /\ backlog[j + 1] = "accepted"
        BY <1>2, <2>2
      <3>2. Has(out, "listener_started") \/ \E i \in 1..j : backlog[i] = "listener_started"
        BY <1>2, <3>1 DEF BacklogInv
      <3>3. ASSUME NEW i \in 1..j, backlog[i] = "listener_started", i # 1
            PROVE  \E k \in 1..(j - 1) : b[k] = "listener_started"
        <4>1. i - 1 \in 1..(j - 1) /\ b[i - 1] = backlog[i]
          BY <1>2, <3>3
        <4> QED BY <3>3, <4>1
      <3> QED BY <1>7, <3>2, <3>3
    <2>3. proxy' = "listening" => Has(out', "listener_started") \/ Has(b, "listener_started")
      BY <1>1, <1>7, <2>1 DEF BacklogInv
    <2>4. ASSUME NEW j \in 1..(n - 1), b[j] = "target_changed"
          PROVE  Has(out', "rescan_started")
      <3>1. j + 1 \in 1..n /\ backlog[j + 1] = "target_changed"
        BY <1>2, <2>4
      <3> QED BY <1>7, <3>1 DEF BacklogInv
    <2> QED BY <1>1, <1>2, <2>2, <2>3, <2>4 DEF BacklogInv, b
  <1> QED BY <1>7, <1>9

\* The lines of the start-up and of a graceful stop.
LEMMA Announces ==
  ASSUME LInv, ToldInv, BacklogInv, case.json,
         ConnectHelper \/ CheckAccess \/ ScanEnds \/ SelectTarget \/ Stop
  PROVE  ToldInv' /\ BacklogInv'
  <1>1. Ordered(out) /\ out \in Seq(AllLines) /\ exit = "none" /\ pc # "exit"
    BY DEF ToldInv, Ordered, LInv, StageInv, ConnectHelper, CheckAccess, ScanEnds, SelectTarget, Stop
  <1>2. /\ ~Has(out, "fatal_error") /\ (pc # "stopped" => ~Has(out, "graceful_shutdown"))
        /\ UNCHANGED <<backlog, proxy, cfg, task>>
    BY <1>1 DEF ToldInv, ConnectHelper, CheckAccess, ScanEnds, SelectTarget, Stop, Stays, taskVars
  <1>3. ASSUME NEW s, Ordered(s), ~Has(s, "fatal_error"), ~Has(s, "graceful_shutdown"), Has(s, "config_loaded"),
               NEW line \in {"scan_started", "scan_completed", "text", "selected_target", "graceful_shutdown",
                             "root_required", "fatal_error"}
        PROVE  /\ Ordered(Append(s, line)) /\ (Open(Append(s, line)) => Open(s))
               /\ \A x : Has(Append(s, line), x) <=> Has(s, x) \/ x = line
               /\ s \in Seq(AllLines) /\ line \in AllLines
    <2>1. May(s, line) /\ line \in AllLines
      BY <1>3 DEF May, AllLines, ServiceLines
    <2> QED BY <1>3, <2>1, OneMore DEF Ordered
  <1>4. CASE ConnectHelper
    <2>1. pc = "helper" /\ ~Has(out, "config_loaded")
      BY <1>4 DEF ConnectHelper, ToldInv, Early
    <2>2. CASE pc' = "access" /\ UNCHANGED <<exit, out>>
      BY <1>1, <1>2, <2>1, <2>2, Silent DEF ToldInv, Early, Late, Recovering, Rescans, Spawned, Running
    <2>3. CASE pc' = "access" /\ out' = Lines(<<"helper_authenticated">>) /\ UNCHANGED exit
      <3>1. out' = Append(out, "helper_authenticated") /\ "helper_authenticated" \in AllLines
        BY <1>1, <2>3, Written DEF Lines, AllLines
      <3>2. May(out, "helper_authenticated")
        BY <1>2, <2>1, <3>1 DEF May, ServiceLines
      <3>3. Ordered(out') /\ (Open(out') => Open(out)) /\ \A x : Has(out', x) <=> Has(out, x) \/ x = "helper_authenticated"
        BY <1>1, <3>1, <3>2, OneMore
      <3>4. ToldInv'
        BY <1>1, <1>2, <2>1, <2>3, <3>3 DEF ToldInv, Early, Late, Recovering, Rescans, Spawned, Running
      <3> QED BY <1>2, <3>3, <3>4, Speaks
    <2>4. CASE Fails(<<>>)
      BY <1>1, <1>2, <2>1, <2>4, Dies
    <2> QED BY <1>4, <2>2, <2>3, <2>4 DEF ConnectHelper
  <1>5. CASE CheckAccess
    <2>1. pc = "access" /\ ~Has(out, "config_loaded")
      BY <1>5 DEF CheckAccess, ToldInv, Early
    <2> DEFINE s == Append(out, "config_loaded")
    <2>2. May(out, "config_loaded") /\ "config_loaded" \in AllLines
      BY <1>2, <2>1 DEF May, AllLines, ServiceLines
    <2>3. Ordered(s) /\ (Open(s) => Open(out)) /\ \A x : Has(s, x) <=> Has(out, x) \/ x = "config_loaded"
      BY <1>1, <2>2, OneMore
    <2> HIDE DEF s
    <2>4. CASE pc' \in {"scan", "select"} /\ out' = Lines(<<"config_loaded">>) /\ UNCHANGED exit
      <3>1. out' = s
        BY <1>1, <2>2, <2>4, Written DEF Lines, s
      <3>2. ToldInv'
        BY <1>1, <1>2, <2>1, <2>3, <2>4, <3>1 DEF ToldInv, Early, Late, Recovering, Rescans, Spawned, Running
      <3> QED BY <1>2, <2>3, <3>1, <3>2, Speaks
    <2>5. CASE Fails(<<"config_loaded", "root_required">>)
      <3> DEFINE t == Append(s, "root_required")
                 u == Append(t, "fatal_error")
      <3>1. Ordered(t) /\ (Open(t) => Open(s)) /\ \A x : Has(t, x) <=> Has(s, x) \/ x = "root_required"
        BY <1>2, <1>3, <2>1, <2>3
      <3>2. ~Has(t, "fatal_error") /\ ~Has(t, "graceful_shutdown") /\ Has(t, "config_loaded")
        BY <1>2, <2>1, <2>3, <3>1
      <3> HIDE DEF t
      <3>3. Ordered(u) /\ (Open(u) => Open(t)) /\ \A x : Has(u, x) <=> Has(t, x) \/ x = "fatal_error"
        BY <1>3, <3>1, <3>2
      <3>4. out' = u /\ pc' = "exit" /\ exit' = "err"
        BY <1>1, <2>5, Written DEF Fails, Lines, AllLines, s, t
      <3> HIDE DEF u
      <3>5. ToldInv'
        BY <1>2, <2>1, <2>3, <3>1, <3>3, <3>4 DEF ToldInv, Early, Late, Recovering, Rescans, Spawned, Running
      <3> QED BY <1>2, <2>3, <3>1, <3>3, <3>4, <3>5, Speaks
    <2> QED BY <1>5, <2>4, <2>5 DEF CheckAccess
  <1>6. CASE ScanEnds \/ SelectTarget
    <2>1. Has(out, "config_loaded") /\ ~Has(out, "graceful_shutdown") /\ pc \in {"scan", "select"}
      BY <1>2, <1>6 DEF ScanEnds, SelectTarget, ToldInv, Early
    <2> DEFINE s == Append(out, "scan_started")
               t == Append(s, "scan_completed")
    <2>2. Ordered(s) /\ (Open(s) => Open(out)) /\ \A x : Has(s, x) <=> Has(out, x) \/ x = "scan_started"
      BY <1>1, <1>2, <1>3, <2>1
    <2>3. ~Has(s, "fatal_error") /\ ~Has(s, "graceful_shutdown") /\ Has(s, "config_loaded")
      BY <1>2, <2>1, <2>2
    <2> HIDE DEF s
    <2>4. Ordered(t) /\ (Open(t) => Open(s)) /\ \A x : Has(t, x) <=> Has(s, x) \/ x = "scan_completed"
      BY <1>3, <2>2, <2>3
    <2>5. ~Has(t, "fatal_error") /\ ~Has(t, "graceful_shutdown") /\ Has(t, "config_loaded")
      BY <2>3, <2>4
    <2> HIDE DEF t
    <2>6. out \o <<"scan_started", "scan_completed">> = t
      BY <1>1, Written DEF AllLines, s, t
    <2>7. ASSUME NEW line \in {"text", "selected_target"}
          PROVE  /\ out \o <<"scan_started", "scan_completed", line>> = Append(t, line)
                 /\ <<"scan_started", "scan_completed">> \o <<line>> = <<"scan_started", "scan_completed", line>>
                 /\ <<"scan_started", "scan_completed">> \o <<>> = <<"scan_started", "scan_completed">>
                 /\ Ordered(Append(t, line)) /\ (Open(Append(t, line)) => Open(t))
                 /\ \A x : Has(Append(t, line), x) <=> Has(t, x) \/ x = line
      <3>1. line \in AllLines
        BY DEF AllLines
      <3>2. Ordered(Append(t, line)) /\ (Open(Append(t, line)) => Open(t)) /\ \A x : Has(Append(t, line), x) <=> Has(t, x) \/ x = line
        BY <1>3, <2>4, <2>5
      <3>3. "scan_started" \in AllLines /\ "scan_completed" \in AllLines
        BY DEF AllLines
      <3>4. out \o <<"scan_started", "scan_completed", line>> = Append(t, line)
        BY <1>1, <3>1, <3>3, Written DEF s, t
      <3>5. /\ <<"scan_started", "scan_completed">> \o <<line>> = <<"scan_started", "scan_completed", line>>
            /\ <<"scan_started", "scan_completed">> \o <<>> = <<"scan_started", "scan_completed">>
        BY Tuples
      <3> QED BY <3>2, <3>4, <3>5
    <2>8. CASE ScanEnds
      <3>1. out' = t \/ out' = Append(t, "text")
        BY <2>6, <2>7, <2>8 DEF ScanEnds, Lines
      <3>2. Ordered(out') /\ (\A x : Has(out, x) => Has(out', x)) /\ ~Has(out', "fatal_error")
            /\ ~Has(out', "graceful_shutdown") /\ (Open(out') => Open(out))
        BY <2>2, <2>4, <2>5, <2>7, <3>1
      <3>3. Mode \in ScanModes /\ Mode' = Mode
        BY <1>2, <2>8 DEF ScanEnds, LInv, StageInv, Mode
      <3>4. Mode' \notin ProxyModes
        BY <3>3 DEF ScanModes, ProxyModes
      <3>5. ToldInv'
        BY <1>2, <2>8, <3>2, <3>4 DEF ScanEnds, ToldInv, Early, Late, Recovering, Rescans, Spawned, Running
      <3> QED BY <1>2, <3>2, <3>5, Speaks
    <2>9. CASE SelectTarget
      <3>1. /\ Ordered(Append(out, "selected_target")) /\ (Open(Append(out, "selected_target")) => Open(out))
            /\ \A x : Has(Append(out, "selected_target"), x) <=> Has(out, x) \/ x = "selected_target"
        BY <1>1, <1>2, <1>3, <2>1
      <3>2. out' = Append(out, "selected_target") \/ out' = Append(t, "selected_target")
        <4>1. /\ <<>> \o <<"selected_target">> = <<"selected_target">>
              /\ out \o <<"selected_target">> = Append(out, "selected_target")
          BY <1>1, Written DEF AllLines
        <4> QED BY <2>7, <2>9, <4>1 DEF SelectTarget, Lines
      <3>3. Ordered(out') /\ (\A x : Has(out, x) => Has(out', x)) /\ ~Has(out', "fatal_error")
            /\ ~Has(out', "graceful_shutdown") /\ Has(out', "selected_target") /\ (Open(out') => Open(out))
        BY <1>2, <2>1, <2>2, <2>4, <2>5, <2>7, <3>1, <3>2
      <3>4. ToldInv'
        BY <1>1, <1>2, <2>1, <2>9, <3>3 DEF SelectTarget, ToldInv, Early, Late, Recovering, Rescans, Spawned, Running
      <3> QED BY <1>2, <3>3, <3>4, Speaks
    <2> QED BY <1>6, <2>8, <2>9
  <1>7. CASE Stop
    <2>1. /\ pc = "stopping" /\ pc' = "stopped" /\ exit' = exit /\ Has(out, "config_loaded")
          /\ Has(out, "selected_target") /\ ~Has(out, "graceful_shutdown")
      BY <1>2, <1>7 DEF Stop, ToldInv, Early, Late
    <2>2. out' = Append(out, "graceful_shutdown")
      BY <1>1, <1>7, Written DEF Stop, Lines, AllLines
    <2>3. Ordered(out') /\ (Open(out') => Open(out)) /\ \A x : Has(out', x) <=> Has(out, x) \/ x = "graceful_shutdown"
      BY <1>1, <1>2, <1>3, <2>1, <2>2
    <2>4. ToldInv'
      BY <1>1, <1>2, <2>1, <2>3 DEF ToldInv, Early, Late, Recovering, Rescans, Spawned, Running
    <2> QED BY <1>2, <2>3, <2>4, Speaks
  <1> QED BY <1>4, <1>5, <1>6, <1>7

\* A step of a task: a line it may write where it writes it, or none.
LEMMA TasksTell ==
  ASSUME LInv, ToldInv, BacklogInv, case.json, Tasks
  PROVE  ToldInv' /\ BacklogInv'
  <1>1. /\ TaskTypeOK /\ DOMAIN task = {"timer", "recovery"} /\ Spawned /\ Headless
        /\ task \in [timer : TimerSteps, recovery : RecoverySteps]
    BY DEF LInv, LaunchTypeOK, TaskTypeOK, TimerSteps, RecoverySteps, ToldInv, Headless
  <1>2. /\ pc \in {"monitor", "serve", "stopping", "stopped"} /\ Others /\ UNCHANGED <<pc, exit, cfg, proxy>>
    BY <1>1, TasksFrame DEF Alive, Others, LInv, StageInv
  <1>3. ASSUME NEW next \in TimerSteps, task' = [task EXCEPT !["timer"] = next]
        PROVE  /\ task'.timer = next /\ task'.recovery = task.recovery
               /\ Spawned' /\ (Recovering' <=> Recovering)
    <2>1. task'.timer = next /\ task'.recovery = task.recovery
      BY <1>1, <1>3, TimerDoes
    <2> QED BY <1>1, <1>2, <2>1 DEF Spawned, Running, Recovering
  <1>4. ASSUME NEW next \in RecoverySteps, task' = [task EXCEPT !["recovery"] = next], task.recovery # "off"
        PROVE  /\ task'.timer = task.timer /\ task'.recovery = next /\ Spawned'
    <2>1. task'.timer = task.timer /\ task'.recovery = next
      BY <1>1, <1>4, RecoveryDoes
    <2> QED BY <1>1, <1>2, <1>4, <2>1 DEF Spawned, Running
  <1>5. ASSUME out' = Lines(<<>>), backlog' = backlog, Spawned', Recovering' => Recovering, Rescans' <=> Rescans
        PROVE  ToldInv' /\ BacklogInv'
    <2>1. out' = out
      BY <1>5, ConcatEmptySeq DEF Lines, ToldInv, Ordered
    <2> QED BY <1>2, <1>5, <2>1, Silent
  <1> USE DEF Does, Writes
  <1>6. CASE ScheduleScan
    <2>1. /\ task' = [task EXCEPT !["timer"] = "wait"] /\ task.timer = "schedule"
          /\ out' = Lines(<<"next_scan_scheduled">>) /\ backlog' = backlog
      BY <1>6 DEF ScheduleScan
    <2>2. Spawned' /\ (Recovering' <=> Recovering) /\ (Rescans' <=> Rescans)
      BY <1>3, <2>1 DEF Rescans, TimerSteps
    <2> QED BY <1>2, <2>1, <2>2, Reports DEF ServiceLines
  <1>7. CASE RescanSpared
    <2>1. /\ task' = [task EXCEPT !["timer"] = "schedule"] /\ task.timer = "wait"
          /\ out' = Lines(<<"rescan_finished">>) /\ backlog' = backlog
      BY <1>7 DEF RescanSpared
    <2>2. Spawned' /\ (Recovering' <=> Recovering) /\ (Rescans' <=> Rescans)
      BY <1>3, <2>1 DEF Rescans, TimerSteps
    <2> QED BY <1>2, <2>1, <2>2, Reports DEF ServiceLines
  <1>8. ASSUME NEW t \in DOMAIN task, RescanStarts(t) PROVE ToldInv' /\ BacklogInv'
    <2>1. /\ task' = [task EXCEPT ![t] = "scan"] /\ (t = "recovery" => task.recovery = "queued")
          /\ out' = Lines(<<"rescan_started">>) /\ backlog' = backlog /\ ~Rescans
      BY <1>1, <1>8 DEF RescanStarts, Scanning, Rescans
    <2>2. CASE t = "timer"
      <3>1. Spawned' /\ (Recovering' <=> Recovering) /\ Rescans'
        BY <1>3, <2>1, <2>2 DEF Rescans, TimerSteps
      <3> QED BY <1>2, <2>1, <3>1, Reports DEF ServiceLines
    <2>3. CASE t = "recovery"
      <3>1. Spawned' /\ Recovering /\ Rescans'
        BY <1>4, <2>1, <2>3 DEF Rescans, Recovering, RecoverySteps
      <3> QED BY <1>2, <2>1, <3>1, Reports DEF ServiceLines
    <2> QED BY <1>1, <1>8, <2>2, <2>3
  <1>9. ASSUME NEW t \in DOMAIN task, SwitchTarget(t) PROVE ToldInv' /\ BacklogInv'
    <2>1. /\ task' = [task EXCEPT ![t] = "switched"] /\ task[t] = "scan" /\ out' = out
          /\ backlog' = Append(backlog, "target_changed")
      BY <1>9 DEF SwitchTarget
    <2>2. Spawned' /\ (Recovering' => Recovering) /\ Rescans /\ Rescans'
      <3>1. CASE t = "timer"
        BY <1>3, <2>1, <3>1 DEF Rescans, TimerSteps
      <3>2. CASE t = "recovery"
        BY <1>4, <2>1, <3>2 DEF Rescans, Recovering, RecoverySteps
      <3> QED BY <1>1, <1>9, <3>1, <3>2
    <2>3. ToldInv'
      BY <1>2, <2>1, <2>2 DEF ToldInv, Mode
    <2>4. BacklogInv'
      BY <1>2, <2>1, <2>2, Queued DEF ToldInv, Events
    <2> QED BY <2>3, <2>4
  <1>10. ASSUME NEW t \in DOMAIN task, RescanEnds(t) PROVE ToldInv' /\ BacklogInv'
    <2>1. out' = Lines(<<"rescan_finished">>) /\ backlog' = backlog /\ task[t] \in {"scan", "switched"}
      BY <1>10 DEF RescanEnds, Scanning
    <2>2. Spawned' /\ (Recovering' => Recovering) /\ (Rescans' => Rescans)
      <3>1. CASE t = "timer"
        <4>1. task' = [task EXCEPT !["timer"] = "schedule"]
          BY <1>10, <3>1 DEF RescanEnds
        <4> QED BY <1>3, <3>1, <4>1 DEF Rescans, TimerSteps
      <3>2. CASE t = "recovery"
        <4>1. \E next \in {"report", "rescanned"} : task' = [task EXCEPT !["recovery"] = next]
          BY <1>10, <3>2 DEF RescanEnds
        <4> QED BY <1>4, <2>1, <3>2, <4>1 DEF Rescans, Recovering, RecoverySteps
      <3> QED BY <1>1, <1>10, <3>1, <3>2
    <2> QED BY <1>2, <2>1, <2>2, Reports DEF ServiceLines
  <1>11. CASE NetworkEvent
    <2>1. /\ task.recovery \in {"wait", "backoff"} /\ backlog' = backlog
          /\ \/ task' = [task EXCEPT !["recovery"] = "wait"] /\ out' = Lines(<<"network_unavailable">>)
             \/ task' = [task EXCEPT !["recovery"] = "wait"] /\ out' = Lines(<<>>)
             \/ task' = [task EXCEPT !["recovery"] = "rebuild"] /\ out' = Lines(<<"network_changed">>)
      BY <1>11 DEF NetworkEvent
    <2>2. ASSUME NEW next \in {"wait", "rebuild"}, task' = [task EXCEPT !["recovery"] = next]
          PROVE  Spawned' /\ (Rescans' <=> Rescans) /\ (next = "wait" => ~Recovering')
      BY <1>4, <2>1, <2>2 DEF Rescans, Recovering, RecoverySteps
    <2>3. CASE task' = [task EXCEPT !["recovery"] = "wait"] /\ out' = Lines(<<"network_unavailable">>)
      BY <1>2, <2>1, <2>2, <2>3, Reports DEF ServiceLines
    <2>4. CASE task' = [task EXCEPT !["recovery"] = "wait"] /\ out' = Lines(<<>>)
      BY <1>5, <2>1, <2>2, <2>4
    <2>5. CASE task' = [task EXCEPT !["recovery"] = "rebuild"] /\ out' = Lines(<<"network_changed">>)
      BY <1>2, <2>1, <2>2, <2>5, Reports DEF ServiceLines
    <2> QED BY <2>1, <2>3, <2>4, <2>5
  <1>12. CASE Rebuild \/ Retry \/ NotVerified
    <2>1. /\ task.recovery \in {"rebuild", "backoff", "verify"} /\ backlog' = backlog
          /\ \E next \in {"verify", "rebuild", "queued"} : task' = [task EXCEPT !["recovery"] = next]
          /\ out' \in {out, Lines(<<>>)}
      BY <1>12 DEF Rebuild, Retry, NotVerified
    <2>2. Spawned' /\ Recovering /\ (Rescans' <=> Rescans)
      BY <1>4, <2>1 DEF Rescans, Recovering, RecoverySteps
    <2>3. out' = out
      BY <2>1, ConcatEmptySeq DEF Lines, ToldInv, Ordered
    <2> QED BY <1>2, <2>1, <2>2, <2>3, Silent
  <1>13. CASE RebuildFails \/ FoundNone \/ Recovered
    <2>1. /\ task.recovery \in {"rebuild", "verify", "rescanned", "report"} /\ backlog' = backlog
          /\ \E next \in {"backoff", "report", "wait"} : task' = [task EXCEPT !["recovery"] = next]
          /\ \E line \in {"network_recovery_failed", "network_unavailable", "network_recovered"} :
               out' = Lines(<<line>>)
      BY <1>13 DEF RebuildFails, FoundNone, Recovered
    <2>2. Spawned' /\ Recovering /\ (Rescans' <=> Rescans)
      BY <1>4, <2>1 DEF Rescans, Recovering, RecoverySteps
    <2> QED BY <1>2, <2>1, <2>2, Reports DEF ServiceLines
  <1> QED BY <1>6, <1>7, <1>8, <1>9, <1>10, <1>11, <1>12, <1>13 DEF Tasks

LEMMA StreamSteps == LInv /\ StreamInv /\ [Next]_vars => StreamInv'
  <1> SUFFICES ASSUME LInv, StreamInv, [Next]_vars, case'.json PROVE ToldInv' /\ BacklogInv'
    BY DEF StreamInv
  <1>1. case' = case
    BY TasksFrame DEF Others, Next, vars, launchVars, StartUp, Shutdown, LoadConfig, ConnectHelper, CheckAccess, ScanEnds, ScanFails,
           SelectTarget, NoTarget, OpenPlane, PlaneFails, SearchTtl, SpawnRescan, StartMonitor, MonitorFails, StartFails,
           TakeSignal, Stop, StopFails, Leave, ProxyEnded, HelperLost, Listen, ProxyEnds, Connect, LogEvent,
           Terminate, HelperDies, Ready, NotReady, Edit, Reload, RetryLoad, Quit, Finished, Stays
  <1>2. case.json /\ Headless /\ ToldInv /\ BacklogInv
    BY <1>1 DEF StreamInv, Headless
  <1>3. pc \notin {"dash", "retry"} /\ (pc = "exit" <=> exit # "none")
    BY <1>2 DEF LInv, StageInv
  <1>4. CASE LoadConfig
    <2>1. /\ pc = "load" /\ UNCHANGED <<backlog, proxy, task>>
          /\ \/ Fails(<<>>)
             \/ pc' = "helper" /\ UNCHANGED <<exit, out>>
      BY <1>4 DEF LoadConfig, Stays, taskVars
    <2>2. CASE Fails(<<>>)
      BY <1>2, <1>3, <2>1, <2>2, Dies
    <2>3. CASE pc' = "helper" /\ UNCHANGED <<exit, out>>
      BY <1>2, <1>3, <2>1, <2>3, Silent DEF ToldInv, Early, Late, Recovering, Rescans, Spawned, Running
    <2> QED BY <2>1, <2>2, <2>3
  <1>5. CASE ConnectHelper \/ CheckAccess \/ ScanEnds \/ SelectTarget \/ Stop
    BY <1>2, <1>5, Announces
  <1>6. CASE ScanFails \/ NoTarget \/ PlaneFails \/ MonitorFails \/ NotReady
    <2>1. /\ pc \in {"scan", "select", "plane", "monitor"} /\ Fails(<<>>) /\ UNCHANGED <<backlog, proxy, task>>
      BY <1>2, <1>6 DEF ScanFails, NoTarget, PlaneFails, MonitorFails, NotReady, StartFails
    <2> QED BY <1>2, <1>3, <2>1, Dies
  <1>7. CASE OpenPlane \/ TakeSignal
    <2>1. /\ pc \in {"plane", "serve"} /\ pc' \in {"ttl", "stopping"} /\ (pc' = "stopping" <=> pc = "serve")
          /\ proxy' \in {proxy, "aborted"} /\ UNCHANGED <<out, backlog, exit, task>>
      BY <1>7 DEF OpenPlane, TakeSignal, Stays, taskVars
    <2> QED BY <1>2, <1>3, <2>1, Silent DEF ToldInv, Early, Late, Recovering, Rescans, Spawned, Running
  <1>8. CASE StopFails \/ ProxyEnded \/ HelperLost
    <2>1. /\ pc \in {"serve", "stopping"} /\ Fails(<<>>) /\ UNCHANGED <<backlog, proxy, task>>
      BY <1>8 DEF StopFails, ProxyEnded, HelperLost, Stays, taskVars
    <2> QED BY <1>2, <1>3, <2>1, Dies
  <1>9. CASE Leave
    <2>1. /\ pc = "stopped" /\ pc' = "exit" /\ exit' = "ok" /\ UNCHANGED <<out, backlog, proxy, task>>
      BY <1>9 DEF Leave, Stays, taskVars
    <2> QED BY <1>2, <1>3, <2>1, Silent DEF ToldInv, Early, Late, Recovering, Rescans, Spawned, Running
  <1>10. CASE Terminate
    <2>1. /\ pc # "exit" /\ UNCHANGED <<out, backlog, proxy, cfg, task>>
          /\ \/ UNCHANGED <<pc, exit>>
             \/ pc # "stopped" /\ pc' = "exit" /\ exit' = "killed"
      BY <1>2, <1>10 DEF Terminate, taskVars
    <2> QED BY <1>2, <1>3, <2>1, Silent DEF ToldInv, Early, Late, Recovering, Rescans, Spawned, Running
  <1>11. CASE SearchTtl \/ ProxyEnds \/ HelperDies \/ Finished \/ UNCHANGED vars
    <2>1. UNCHANGED <<out, backlog, pc, exit, cfg, task>> /\ proxy' \in {proxy, "failed"}
      BY <1>11 DEF SearchTtl, ProxyEnds, HelperDies, Finished, vars, launchVars, taskVars
    <2> QED BY <1>2, <2>1, Silent DEF ToldInv, Recovering, Rescans, Spawned
  <1>12. CASE Listen \/ Connect
    BY <1>2, <1>12, Sends
  <1>13. CASE LogEvent
    BY <1>2, <1>13, Logs
  <1>14. CASE Ready \/ Edit \/ Reload \/ RetryLoad \/ Quit
    BY <1>2, <1>3, <1>14 DEF Ready, Edit, Reload, RetryLoad, Quit
  <1>15. CASE SpawnRescan \/ StartMonitor
    <2>1. /\ pc \in {"ttl", "monitor"} /\ pc' = (IF pc = "ttl" THEN "monitor" ELSE "serve")
          /\ proxy' \in {proxy, "starting"} /\ UNCHANGED <<out, backlog, exit, cfg>>
      BY <1>15 DEF SpawnRescan, StartMonitor
    <2>2. Spawned /\ TaskTypeOK
      BY <1>2 DEF ToldInv, LInv, LaunchTypeOK
    <2>3. Spawned' /\ ~Recovering' /\ (Rescans' <=> Rescans)
      <3>1. CASE SpawnRescan
        <4>1. \E next \in {"schedule", "off"} : task' = [task EXCEPT !["timer"] = next]
          BY <3>1 DEF SpawnRescan
        <4>2. task'.timer \in {"schedule", "off"} /\ task'.recovery = task.recovery
          BY <2>2, <4>1, TimerDoes DEF TimerSteps
        <4>3. pc = "ttl" /\ pc' = "monitor"
          BY <3>1 DEF SpawnRescan
        <4> QED BY <2>2, <4>2, <4>3 DEF Spawned, Running, Recovering, Rescans
      <3>2. CASE StartMonitor
        <4>1. task' = [task EXCEPT !["recovery"] = "wait"]
          BY <3>2 DEF StartMonitor
        <4>2. task'.timer = task.timer /\ task'.recovery = "wait"
          BY <2>2, <4>1, RecoveryDoes DEF RecoverySteps
        <4>3. pc = "monitor" /\ pc' = "serve"
          BY <3>2 DEF StartMonitor
        <4> QED BY <2>2, <4>2, <4>3 DEF Spawned, Running, Recovering, Rescans
      <3> QED BY <1>15, <3>1, <3>2
    <2> QED BY <1>2, <1>3, <2>1, <2>3, Silent DEF Early, Late
  <1>16. CASE Tasks
    BY <1>2, <1>16, TasksTell
  <1> QED BY <1>4, <1>5, <1>6, <1>7, <1>8, <1>9, <1>10, <1>11, <1>12, <1>13, <1>14, <1>15, <1>16
          DEF Next, StartUp, Shutdown

\* How often a line stands there.
LEMMA Counted ==
  ASSUME NEW line, out \in Seq(AllLines)
  PROVE  /\ ~Has(out, line) => Count(line) = 0
         /\ Has(out, line) /\ (\A i, j \in 1..Len(out) : out[i] = line /\ out[j] = line => i = j) =>
              Count(line) = 1
  <1> DEFINE C == {i \in DOMAIN out : out[i] = line}
  <1>1. DOMAIN out = 1..Len(out)
    OBVIOUS
  <1>2. ASSUME ~Has(out, line) PROVE Count(line) = 0
    <2>1. C = {}
      BY <1>1, <1>2 DEF Has
    <2> QED BY <2>1, FS_EmptySet DEF Count
  <1>3. ASSUME Has(out, line), \A i, j \in 1..Len(out) : out[i] = line /\ out[j] = line => i = j
        PROVE  Count(line) = 1
    <2>1. PICK i \in 1..Len(out) : out[i] = line
      BY <1>3 DEF Has
    <2>2. C = {i}
      BY <1>1, <1>3, <2>1
    <2> QED BY <2>2, FS_Singleton DEF Count
  <1> QED BY <1>2, <1>3

LEMMA StreamTells ==
  ASSUME LInv, StreamInv
  PROVE  StreamTold
  <1> SUFFICES ASSUME case.json, ToldInv
               PROVE  /\ out[1] = "startup" /\ Count("config_loaded") <= 1
                      /\ \A i \in 2..Len(out) :
                           out[i] \notin {"config_loaded", "helper_authenticated", "fatal_error"} =>
                             \E j \in 1..i - 1 : out[j] = "config_loaded"
                      /\ \A line \in ServiceLines : Before("selected_target", line)
                      /\ Before("listener_started", "connection_accepted")
                      /\ Before("rescan_started", "active_target_changed")
                      /\ Before("network_changed", "network_recovered")
                      /\ Before("network_changed", "network_recovery_failed")
                      /\ \A i, j \in DOMAIN out :
                           i < j /\ out[i] = "rescan_started" /\ out[j] = "rescan_started" =>
                             \E k \in i..j : out[k] = "rescan_finished"
                      /\ exit = "err" <=> Last(out) = "fatal_error"
                      /\ exit = "err" => Count("fatal_error") = 1 /\ Count("graceful_shutdown") = 0
                      /\ exit = "ok" /\ Mode \in ProxyModes => Count("graceful_shutdown") = 1
                      /\ \A i, j \in DOMAIN out : i < j /\ out[i] = "graceful_shutdown" =>
                           out[j] \in ServiceLines
    BY DEF StreamInv, StreamTold
  <1>1. /\ Ordered(out) /\ out \in Seq(AllLines) /\ DOMAIN out = 1..Len(out) /\ Len(out) \in Nat \ {0}
    BY EmptySeq DEF ToldInv, Ordered
  <1>2. out[1] = "startup" /\ \A i \in 2..Len(out) :
          out[i] \notin {"config_loaded", "helper_authenticated", "fatal_error"} =>
             \E j \in 1..i - 1 : out[j] = "config_loaded"
    BY <1>1 DEF Ordered
  <1>3. Count("config_loaded") <= 1
    <2>1. \A i, j \in 1..Len(out) : out[i] = "config_loaded" /\ out[j] = "config_loaded" => i = j
      BY <1>1 DEF Ordered
    <2>2. Count("config_loaded") \in {0, 1}
      BY <1>1, <2>1, Counted
    <2> QED BY <2>2
  <1>4. /\ \A line \in ServiceLines : Before("selected_target", line)
        /\ Before("listener_started", "connection_accepted") /\ Before("rescan_started", "active_target_changed")
        /\ Before("network_changed", "network_recovered") /\ Before("network_changed", "network_recovery_failed")
        /\ \A i, j \in DOMAIN out : i < j /\ out[i] = "rescan_started" /\ out[j] = "rescan_started" =>
             \E k \in i..j : out[k] = "rescan_finished"
    <2>1. \A a, b : Follows(out, a, b) => Before(a, b)
      BY <1>1 DEF Follows, Before
    <2> QED BY <1>1, <2>1 DEF Ordered
  <1>5. exit = "err" <=> Last(out) = "fatal_error"
    <2>1. Last(out) = out[Len(out)] /\ Len(out) \in 1..Len(out)
      BY <1>1 DEF Last
    <2>2. Has(out, "fatal_error") <=> out[Len(out)] = "fatal_error"
      BY <1>1, <2>1 DEF Ordered, Has
    <2> QED BY <2>1, <2>2 DEF ToldInv
  <1>6. ASSUME exit = "err" PROVE Count("fatal_error") = 1 /\ Count("graceful_shutdown") = 0
    <2>1. Has(out, "fatal_error") /\ ~Has(out, "graceful_shutdown")
      BY <1>6 DEF ToldInv, LInv, StageInv
    <2>2. \A i, j \in 1..Len(out) : out[i] = "fatal_error" /\ out[j] = "fatal_error" => i = j
      BY <1>1 DEF Ordered
    <2> QED BY <1>1, <2>1, <2>2, Counted
  <1>7. ASSUME exit = "ok", Mode \in ProxyModes PROVE Count("graceful_shutdown") = 1
    <2>1. Has(out, "graceful_shutdown")
      BY <1>7 DEF ToldInv
    <2>2. \A i, j \in 1..Len(out) : out[i] = "graceful_shutdown" /\ out[j] = "graceful_shutdown" => i = j
      BY <1>1 DEF Ordered
    <2> QED BY <1>1, <2>1, <2>2, Counted
  <1>8. \A i, j \in DOMAIN out : i < j /\ out[i] = "graceful_shutdown" =>
          out[j] \in ServiceLines
    BY <1>1 DEF Ordered
  <1> QED BY <1>2, <1>3, <1>4, <1>5, <1>6, <1>7, <1>8

\* The lines of --json-events tell what happened, whichever of the four writers puts
\* its next line there first (RuntimeEventEmitter, run_main, log_headless_proxy_events,
\* background_rescan, RecoveryCoordinator): Startup first, ConfigLoaded at most once and
\* before everything that depends on it, nothing of the service before its target, no
\* connection before the listener, no change of target without a rescan, no two rescans
\* at once, no recovery that succeeds or fails without a change of the network, one
\* FatalError exactly when the process fails, and one GracefulShutdown when a proxy ends
\* well and none when it fails, with only lines of tasks that still run after it.
THEOREM LaunchTells == Spec => []StreamTold
  <1>1. Init => LInv /\ StreamInv
    BY LaunchStarts, StreamStarts
  <1>2. LInv /\ StreamInv /\ [Next]_vars => (LInv /\ StreamInv)'
    BY LaunchSteps, StreamSteps
  <1>3. LInv /\ StreamInv => StreamTold
    BY StreamTells
  <1> QED BY <1>1, <1>2, <1>3, PTL DEF Spec
=============================================================================
