---------------------------- MODULE MCConnection ----------------------------
(* Instances of Connection. *)
EXTENDS Connection

\* A configuration with this list and these *_COMPLETE_IMMEDIATELY members;
\* the other options have their defaults.
Cfg(list, immediate, every) ==
  [list |-> list, immediate |-> immediate, every |-> every, forward |-> TRUE]

\* One list per kind of bypass: a fake that is acknowledged, a fake that
\* completes at once, a fake followed by a cut ClientHello, a rewritten
\* ClientHello, fragment-all mode behind a fake.
KindConfigs ==
  {Cfg(<<"wrong_seq">>, {}, {}),
   Cfg(<<"low_ttl">>, {"low_ttl"}, {}),
   Cfg(<<"wrong_md5", "tls_frag">>, {}, {}),
   Cfg(<<"tls_record_frag">>, {}, {}),
   Cfg(<<"wrong_seq", "disorder">>, {}, {"disorder"})}

\* A fake followed by a rewritten ClientHello: both stages, one connection.
TwoStageConfig == Cfg(<<"wrong_seq", "tls_record_frag">>, {}, {})

\* Every list of one or two methods that the configuration accepts and that
\* takes the intercepting path.
Flagged == FakePacketMethods \ {"wrong_seq"}
ShortLists == {<<m>> : m \in BaseBypassMethods}
              \cup {<<m, n>> : m \in BaseBypassMethods, n \in BaseBypassMethods}
AcceptedConfigs ==
  {c \in {Cfg(list, Flagged \cup {"fake_tls"}, every) :
            list \in ShortLists, every \in SUBSET {"ip_frag", "disorder"}} :
     ValidList(c) /\ ~IsSocketOnly(c) /\ c.every \subseteq Listed(c)}

\* The lists of AcceptedConfigs some member of which never acts.
Dormant(c) ==
  \/ "urg_sni_split" \in Listed(c)
  \/ "mixed_case_sni" \in Listed(c) /\ ~WaitsForData(c)
  \/ "ccs_prefix" \in Listed(c) /\ DataMembers(c) # {}
  \/ {"tls_frag", "tls_record_frag"} \subseteq Listed(c)

\* A fake nobody answers while the last fake method waits for the answer.
Unanswered(c) ==
  /\ ~WaitsForData(c)
  /\ CompositeHandshake(c, TRUE) = EmitAndWaitForAck
  /\ Listed(c) \cap SilentFakes # {}

WorkingConfigs == {c \in AcceptedConfigs : ~Dormant(c) /\ ~Unanswered(c)}

-----------------------------------------------------------------------------

\* The lists with wrong_timestamp, which gives up where there are no timestamps: alone,
\* first, last, and in front of a data stage.
TimestampConfigs ==
  {c \in AcceptedConfigs : "wrong_timestamp" \in Listed(c) /\ c.every = {}}
    \cup {Cfg(<<"wrong_seq", "wrong_timestamp", "tls_frag">>, {}, {}),
          Cfg(<<"low_ttl", "wrong_timestamp", "wrong_ack">>, {}, {})}

Scenario(config, clients, faults, extras, sent) ==
  [config |-> config, clients |-> clients, stamped |-> TRUE, faults |-> faults, spare |-> extras,
   sent |-> sent, eager |-> faults = {}]

Unstamped(config) ==
  [Scenario(config, Entries, {"timeout", "extra"}, 1, 2) EXCEPT !.stamped = FALSE]

\* One connection and every fault; one connection of every working list on a calm
\* network; one without TCP timestamps, with timeouts and a packet sent twice.
MCScenarios ==
  {Scenario(c, Entries, FaultKinds, 1, 2) : c \in KindConfigs}
    \cup {Scenario(c, Entries, {}, 0, 3) : c \in WorkingConfigs}
    \cup {Unstamped(c) : c \in TimestampConfigs}

\* Two connections on one port, with timeouts and cancellation.
ReuseScenarios == {Scenario(TwoStageConfig, Entries, {"timeout", "cancel"}, 0, 2)}
=============================================================================
