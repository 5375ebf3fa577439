------------------------------ MODULE Detector ------------------------------
(***************************************************************************)
(* What the network monitor promises the recovery coordinator: what it     *)
(* last saw of the uplink changes exactly when it raises an event, an      *)
(* event is never raised for what it already saw, and as long as it runs   *)
(* an uplink that stays differs from what was seen for a while only.       *)
(***************************************************************************)
CONSTANTS Bindings, None

VARIABLES uplink,    \* the binding a probe finds, None when there is none
          seen,      \* what the monitor last saw
          news,      \* an event the coordinator has not read
          live       \* the monitor has not been told to stop

detectorVars == <<uplink, seen, news, live>>

Found == Bindings \cup {None}

Init == uplink \in Found /\ seen \in Found /\ news = FALSE /\ live = TRUE

Changes == uplink' \in Found \ {uplink} /\ UNCHANGED <<seen, news, live>>

\* A probe can fail although there is an uplink.
Notices ==
  /\ seen' \in {uplink, None} \ {seen}
  /\ news' = TRUE
  /\ UNCHANGED <<uplink, live>>

Reads == news /\ news' = FALSE /\ UNCHANGED <<uplink, seen, live>>

Stops == live /\ live' = FALSE /\ UNCHANGED <<uplink, seen, news>>

Next == Changes \/ Notices \/ Reads \/ Stops

Spec == Init /\ [][Next]_detectorVars

\* The uplink seen is the uplink there is, from some time on, unless the monitor
\* is stopped or the uplink never settles.
Follows == <>[](seen = uplink \/ ~live)
=============================================================================
