----------------------------- MODULE HelperWire -----------------------------
(* The protocol between the data plane and the root helper: which request each   *)
(* state of the helper accepts, what answers it, and which configurations pass   *)
(* the checks both ends make.                                                    *)
EXTENDS Naturals, Sequences

\* Requests carry the flow they are about, or NoFlow.
CONSTANT NoFlow

States == {"Created", "Authenticated", "Configured", "InterceptorOpen", "ShuttingDown", "Exited"}
Requests == {"Hello", "ConfigureInterceptor", "OpenInterceptor", "RegisterFlow", "RemoveFlow",
             "CloseInterceptor", "SetLowTtlValue", "Ping", "Shutdown"}

\* The answer to each request.
AnswerTo(request) ==
  CASE request = "Hello" -> "HelloAccepted"
    [] request = "ConfigureInterceptor" -> "Configured"
    [] request = "OpenInterceptor" -> "InterceptorReady"
    [] request = "RegisterFlow" -> "FlowRegistered"
    [] request = "RemoveFlow" -> "FlowRemoved"
    [] request = "CloseInterceptor" -> "InterceptorClosed"
    [] request = "SetLowTtlValue" -> "SetLowTtlAck"
    [] request = "Ping" -> "Pong"
    [] request = "Shutdown" -> "ShutdownComplete"

\* The requests a state accepts; any other request ends the helper.
Accepts(state, request) ==
  CASE request = "Hello" -> state = "Created"
    [] request = "ConfigureInterceptor" -> state \in {"Authenticated", "Configured"}
    [] request = "OpenInterceptor" -> state = "Configured"
    [] request \in {"RegisterFlow", "SetLowTtlValue"} -> state = "InterceptorOpen"
    [] request = "RemoveFlow" -> state \in {"Authenticated", "Configured", "InterceptorOpen"}
    [] request = "CloseInterceptor" -> state \in {"Configured", "InterceptorOpen"}
    [] request = "Ping" -> state \notin {"Created", "Exited"}
    [] request = "Shutdown" -> state # "Exited"

\* One frame: its kind, the request it answers (or NoRequest), the flow and the
\* progress it reports.
NoRequest == <<>>
Frame(kind, id, flow, progress) ==
  [kind |-> kind, id |-> id, flow |-> flow, progress |-> progress]
Reply(request) == Frame(AnswerTo(request.kind), request.id, request.flow, "none")
Fatal(id) == Frame("HelperFatal", id, NoFlow, "none")
=============================================================================
