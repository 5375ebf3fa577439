----------------------------- MODULE FlowPromise -----------------------------
(* What a FlowController promises the connection that registers a flow, whatever *)
(* stands behind it (flow.rs: the trait and its comments).                       *)
(*   - registration succeeds only once the interceptor watches the flow, so the  *)
(*     handshake that follows is seen;                                           *)
(*   - the connection learns that its data may be sent, or that the fake was     *)
(*     acknowledged, only after the interceptor decided so;                      *)
(*   - a flow that is lost in any way is reported as closed;                     *)
(*   - the first outcome a connection learns is the last.                        *)
EXTENDS Naturals

CONSTANT Flows

VARIABLES
  asked,    \* how far the registration of each flow got
  truth,    \* what the interceptor decided about the flow
  view      \* what the connection's own entry says

promiseVars == <<asked, truth, view>>

Outcomes == {"acked", "closed"}

Init ==
  /\ asked = [f \in Flows |-> "none"]
  /\ truth = [f \in Flows |-> "none"]
  /\ view = [f \in Flows |-> "none"]

\* A connection asks for its flow to be watched and gets an undecided entry.
Ask(f) ==
  /\ asked[f] = "none"
  /\ asked' = [asked EXCEPT ![f] = "asked"]
  /\ view' = [view EXCEPT ![f] = "waiting"]
  /\ UNCHANGED truth

\* The interceptor starts to watch a flow somebody asked for.
Watch(f) ==
  /\ asked[f] # "none"
  /\ truth[f] = "none"
  /\ truth' = [truth EXCEPT ![f] = "waiting"]
  /\ UNCHANGED <<asked, view>>

\* The interceptor lets the data go, or decides the flow; a decision is final.
Decide(f) ==
  /\ \/ /\ truth[f] = "waiting"
        /\ truth' = [truth EXCEPT ![f] = "ready"]
     \/ /\ truth[f] \in {"waiting", "ready"}
        /\ \E o \in Outcomes : truth' = [truth EXCEPT ![f] = o]
  /\ UNCHANGED <<asked, view>>

\* The registration is confirmed, and by then the flow is watched.
Grant(f) ==
  /\ asked[f] = "asked"
  /\ truth[f] # "none"
  /\ asked' = [asked EXCEPT ![f] = "granted"]
  /\ UNCHANGED <<truth, view>>

\* The registration fails, or the connection is done with the flow.
Leave(f) ==
  /\ asked[f] \in {"asked", "granted"}
  /\ asked' = [asked EXCEPT ![f] = "left"]
  /\ UNCHANGED <<truth, view>>

\* What a connection may be told about flow f next.
MayLearn(f) ==
  IF view[f] \notin {"waiting", "ready"} THEN {view[f]}
  ELSE {view[f], "closed"}
       \cup (IF truth[f] \notin {"none", "waiting"} THEN {"ready"} ELSE {})
       \cup (IF truth[f] = "acked" THEN {"acked"} ELSE {})

\* Connections are told; the loss of the interceptor tells all of them at once.
Learn ==
  /\ view' \in [Flows -> {"none", "waiting", "ready"} \cup Outcomes]
  /\ \A f \in Flows : view'[f] \in MayLearn(f)
  /\ UNCHANGED <<asked, truth>>

Next == Learn \/ \E f \in Flows : Ask(f) \/ Watch(f) \/ Decide(f) \/ Grant(f) \/ Leave(f)

Spec == Init /\ [][Next]_promiseVars
=============================================================================
