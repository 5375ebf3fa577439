-------------------------------- MODULE Helper --------------------------------
(* The data plane and the root helper on the two ends of one socket.             *)
(*                                                                               *)
(* Client side (helper_client.rs, data_plane.rs): connection tasks register and  *)
(* release flows, the plane configures, opens and closes the interceptor, one    *)
(* thread reads frames and another writes heartbeats; every request has a slot   *)
(* in the pending map and a deadline.  Helper side (zerodpi-root-helper): one    *)
(* loop that publishes progress and serves one request at a time, the            *)
(* interceptor thread, and the firewall rules tagged with the helper's pid.      *)
(* Ping, Pong and HelperWarning frames change nothing the model keeps; what a    *)
(* missing heartbeat causes is the action Starve.                                *)
EXTENDS HelperWire, FiniteSets

CONSTANTS
  Tasks,        \* connections; each is also the identifier of its flow
  Keys,         \* the 4-tuples they use
  Plane,        \* the actor that speaks for the data plane
  NoKey,
  MaxPending,   \* MAX_PENDING_REQUESTS
  Scenarios     \* what may happen in a behaviour, see MCHelper

ASSUME ActorsDiffer == Plane \notin Tasks /\ NoFlow \notin Tasks /\ NoKey \notin Keys
ASSUME PendingBound == MaxPending \in Nat
ASSUME FlowsFinite == IsFiniteSet(Tasks)   \* identifiers are numbers of 64 bits
ASSUME ScenariosTyped ==
  Scenarios \subseteq
    [tasks : SUBSET Tasks, keys : SUBSET Keys, seen : SUBSET {"ready", "acked", "closed"},
     ownPorts : BOOLEAN, liveLimit : Nat, trusted : BOOLEAN, discover : BOOLEAN,
     slow : BOOLEAN, rebuilds : Nat, reloads : Nat, foreign : SUBSET {"dead", "live"},
     rival : BOOLEAN, wallFails : BOOLEAN, interceptorDies : BOOLEAN, killed : BOOLEAN,
     clientDies : BOOLEAN, clientHangs : BOOLEAN]

Actors == Tasks \cup {Plane}
Hooks == {"OUTPUT", "INPUT"}
Progresses == {"none", "waiting", "ready", "acked", "closed"}
Decided == {"acked", "closed"}

VARIABLES
  scn,
  session,    \* what the process is doing
  steps,      \* the requests the plane still has to make, "Reset" among them
  configured, \* RemotePlane.configured
  rebuilt,    \* rebuilds and reloads begun
  wanted,     \* the TTL the session asked for: "config" or "found"
  disc,       \* how far disconnect() got, and who runs it
  pending,    \* the pending map: identifiers of open requests
  flows,      \* the map from identifiers to entries, as its domain
  flowIds,    \* the map from keys to identifiers
  entry,      \* the entry handed to each connection
  req,        \* the request each actor is in
  task, key, bound, held,  \* a connection, its 4-tuple, whether its socket is open,
                           \* the identifier its guard takes back
  gone,       \* the client process has ended
  c2h, h2c,   \* the two directions of the socket
  hstate, hend, why, loop, visit,     \* the helper's loop and how it ended
  reg, truth, last,                   \* RegisteredFlow
  icpt, ttl,                          \* the interceptor thread, the TTL it stamps
  rules, foreign, damaged             \* firewall rules of this helper and of others

clientVars == <<disc, pending, flows, flowIds, entry, req>>
taskVars == <<task, key, bound, held>>
planeVars == <<session, steps, configured, rebuilt, wanted, gone>>
helperVars == <<hstate, hend, why, loop, visit, reg, truth, last, icpt, ttl>>
wallVars == <<rules, foreign, damaged>>
vars == <<scn, clientVars, taskVars, planeVars, c2h, h2c, helperVars, wallVars>>

Idle == [pc |-> "none", kind |-> "none", flow |-> NoFlow, n |-> 0, answer |-> "none"]
Done(a) == [Idle EXCEPT !.n = req[a].n]
Linked == disc.at = "up"
Alive == hend = "alive"
SocketOpen == hend \in {"alive", "leaving"}

Init ==
  /\ scn \in Scenarios
  /\ session = "connecting" /\ steps = <<>> /\ configured = FALSE
  /\ rebuilt = 0 /\ wanted = "config" /\ gone = FALSE
  /\ disc = [at |-> "up", by |-> "none"] /\ pending = {} /\ flows = {}
  /\ flowIds = [k \in Keys |-> NoFlow] /\ entry = [t \in Tasks |-> "none"]
  /\ req = [a \in Actors |-> Idle]
  /\ task = [t \in Tasks |-> "idle"] /\ key = [t \in Tasks |-> NoKey]
  /\ bound = {} /\ held = [t \in Tasks |-> NoFlow]
  /\ c2h = <<Frame("Hello", <<Plane, 0>>, NoFlow, "none")>> /\ h2c = <<>>
  /\ hstate = "Created" /\ hend = "alive" /\ why = "none" /\ loop = "top" /\ visit = {}
  /\ reg = {} /\ truth = [t \in Tasks |-> "none"] /\ last = [t \in Tasks |-> "none"]
  /\ icpt = "none" /\ ttl = "none"
  /\ rules = {} /\ foreign = scn.foreign /\ damaged = FALSE

-----------------------------------------------------------------------------
(* One request: look at the flag, take a slot and write, wait for the answer.    *)
(* Between the look and the slot the link may go down and the map be drained.    *)

Id(a) == <<a, req[a].n>>
Asking(a, kind, flow) ==
  [req[a] EXCEPT !.pc = "check", !.kind = kind, !.flow = flow, !.answer = "none"]

CheckLink(a) ==
  /\ req[a].pc = "check"
  /\ req' = IF Linked THEN [req EXCEPT ![a].pc = "submit", ![a].n = @ + 1]
            ELSE [req EXCEPT ![a].pc = "err"]
  /\ UNCHANGED <<scn, disc, pending, flows, flowIds, entry, taskVars, planeVars, c2h, h2c,
                 helperVars, wallVars>>

\* A full map and a write to a closed socket both fail the request at once.
Submit(a) ==
  /\ req[a].pc = "submit"
  /\ IF Cardinality(pending) < MaxPending /\ SocketOpen
     THEN /\ pending' = pending \cup {Id(a)}
          /\ c2h' = Append(c2h, Frame(req[a].kind, Id(a), req[a].flow, "none"))
          /\ req' = [req EXCEPT ![a].pc = "wait"]
     ELSE /\ req' = [req EXCEPT ![a].pc = "err"]
          /\ UNCHANGED <<pending, c2h>>
  /\ UNCHANGED <<scn, disc, flows, flowIds, entry, taskVars, planeVars, h2c, helperVars, wallVars>>

\* REQUEST_TIMEOUT passes; a late answer then finds no slot.
TimeOut(a) ==
  /\ req[a].pc = "wait" /\ (scn.slow \/ ~Linked)
  /\ req' = [req EXCEPT ![a].pc = "err"]
  /\ pending' = pending \ {Id(a)}
  /\ UNCHANGED <<scn, disc, flows, flowIds, entry, taskVars, planeVars, c2h, h2c, helperVars,
                 wallVars>>

-----------------------------------------------------------------------------
(* The reader thread, the heartbeat thread and disconnect().                     *)

\* FlowEntry::finish: the first outcome stays.
Finished(e, o) == IF e \in Decided THEN e ELSE o

\* Progress reaches an entry: data may be sent, or the flow is decided.
Told(e, progress) ==
  IF progress = "ready" THEN (IF e \in Decided THEN e ELSE "ready") ELSE Finished(e, progress)

ReaderFree == disc.by # "reader" \/ disc.at = "swept"

\* The open request a frame answers.
Answers(a, f) == f.id \in pending /\ req[a].pc = "wait" /\ Id(a) = f.id

\* handle_frame
HandleFrame ==
  /\ h2c # <<>> /\ ReaderFree /\ session # "connecting"
  /\ LET f == Head(h2c) IN
     /\ h2c' = Tail(h2c)
     /\ CASE f.kind = "FlowProgress" ->
               /\ entry' = IF f.flow \in flows
                           THEN [entry EXCEPT ![f.flow] = Told(@, f.progress)] ELSE entry
               /\ UNCHANGED <<disc, pending, req>>
          [] f.kind = "HelperFatal" ->
               /\ disc' = IF Linked THEN [at |-> "flagged", by |-> "reader"] ELSE disc
               /\ UNCHANGED <<entry, pending, req>>
          [] OTHER ->
               /\ pending' = pending \ {f.id}
               /\ req' = [a \in Actors |->
                            IF Answers(a, f)
                            THEN [req[a] EXCEPT !.pc = "ok", !.answer = f.kind] ELSE req[a]]
               /\ UNCHANGED <<entry, disc>>
  /\ UNCHANGED <<scn, flows, flowIds, taskVars, planeVars, c2h, helperVars, wallVars>>

\* The socket is closed: the reader finds it after the last frame, the heartbeat
\* at its next write, whichever is first.
LoseLink(by) ==
  /\ ~SocketOpen /\ Linked /\ session # "connecting"
  /\ by = "reader" => h2c = <<>>
  /\ disc' = [at |-> "flagged", by |-> by]
  /\ UNCHANGED <<scn, pending, flows, flowIds, entry, req, taskVars, planeVars, c2h, h2c,
                 helperVars, wallVars>>

\* Every open request fails.
DrainPending ==
  /\ disc.at = "flagged"
  /\ disc' = [disc EXCEPT !.at = "drained"]
  /\ req' = [a \in Actors |-> IF req[a].pc = "wait" /\ Id(a) \in pending
                              THEN [req[a] EXCEPT !.pc = "err"] ELSE req[a]]
  /\ pending' = {}
  /\ UNCHANGED <<scn, flows, flowIds, entry, taskVars, planeVars, c2h, h2c, helperVars, wallVars>>

\* Variation: the flows are forgotten instead of finished.
SweepNothing ==
  /\ disc.at = "drained"
  /\ disc' = [disc EXCEPT !.at = "swept"]
  /\ UNCHANGED <<scn, entry, pending, flows, flowIds, req, taskVars, planeVars, c2h, h2c,
                 helperVars, wallVars>>

\* Every flow is told that it is lost.
SweepFlows ==
  /\ disc.at = "drained"
  /\ disc' = [disc EXCEPT !.at = "swept"]
  /\ entry' = [t \in Tasks |-> IF t \in flows THEN Finished(entry[t], "closed") ELSE entry[t]]
  /\ UNCHANGED <<scn, pending, flows, flowIds, req, taskVars, planeVars, c2h, h2c, helperVars,
                 wallVars>>

-----------------------------------------------------------------------------
(* Connections: register_flow and remove_flow of the client.                     *)

\* A 4-tuple is free when no open socket has it.
Free(k) == \A t \in Tasks : key[t] = k => t \notin bound /\ (scn.ownPorts => task[t] = "gone")
Serving == session \in {"up", "rebuild"}

\* register_flow: a new identifier, its entry in the first map ...
Begin(t, k) ==
  /\ task[t] = "idle" /\ Serving /\ t \in scn.tasks /\ k \in scn.keys /\ Free(k)
  /\ task' = [task EXCEPT ![t] = "mapped"]
  /\ key' = [key EXCEPT ![t] = k]
  /\ bound' = bound \cup {t}
  /\ flows' = flows \cup {t}
  /\ entry' = [entry EXCEPT ![t] = "waiting"]
  /\ UNCHANGED <<scn, disc, pending, flowIds, req, held, planeVars, c2h, h2c, helperVars, wallVars>>

\* ... its key in the second, and the request.
MapKey(t) ==
  /\ task[t] = "mapped"
  /\ task' = [task EXCEPT ![t] = "asking"]
  /\ flowIds' = [flowIds EXCEPT ![key[t]] = t]
  /\ req' = [req EXCEPT ![t] = Asking(t, "RegisterFlow", t)]
  /\ UNCHANGED <<scn, disc, pending, flows, entry, key, bound, held, planeVars, c2h, h2c, helperVars,
                 wallVars>>

\* The answer: the entry is handed over, or the registration is undone.
Registered(t) ==
  /\ task[t] = "asking" /\ req[t].pc \in {"ok", "err"}
  /\ task' = [task EXCEPT ![t] = IF req[t].pc = "ok" /\ req[t].answer = "FlowRegistered"
                                 THEN "live" ELSE "undo"]
  /\ req' = [req EXCEPT ![t] = Done(t)]
  /\ UNCHANGED <<scn, disc, pending, flows, flowIds, entry, key, bound, held, planeVars, c2h, h2c,
                 helperVars, wallVars>>

\* The connection is over: its socket closes before its guard releases the flow.
EndConnection(t) ==
  /\ task[t] = "live"
  /\ task' = [task EXCEPT ![t] = "undo"]
  /\ bound' = bound \ {t}
  /\ UNCHANGED <<scn, clientVars, key, held, planeVars, c2h, h2c, helperVars, wallVars>>

\* A stop or a reload aborts the tasks: one that waits for its registration has
\* no guard yet and leaves its flow in both maps.
Abort(t) ==
  /\ session \in {"reload", "stop"}
  /\ task[t] = "asking" /\ req[t].pc = "wait"
  /\ task' = [task EXCEPT ![t] = "gone"]
  /\ bound' = bound \ {t}
  /\ req' = [req EXCEPT ![t] = Done(t)]
  /\ UNCHANGED <<scn, disc, pending, flows, flowIds, entry, key, held, planeVars, c2h, h2c, helperVars,
                 wallVars>>

\* remove_flow by key: whatever identifier the key has now is taken out ...
TakeId(t) ==
  /\ task[t] = "undo"
  /\ LET id == flowIds[key[t]] IN
     /\ flowIds' = [flowIds EXCEPT ![key[t]] = NoFlow]
     /\ held' = [held EXCEPT ![t] = id]
     /\ task' = [task EXCEPT ![t] = IF id = NoFlow THEN "gone" ELSE "dropping"]
     /\ bound' = IF id = NoFlow THEN bound \ {t} ELSE bound
  /\ UNCHANGED <<scn, disc, pending, flows, entry, req, key, planeVars, c2h, h2c, helperVars, wallVars>>

\* Variation: the helper is not told.
DropLocally(t) ==
  /\ task[t] = "dropping"
  /\ flows' = flows \ {held[t]}
  /\ task' = [task EXCEPT ![t] = "gone"]
  /\ bound' = bound \ {t} /\ held' = [held EXCEPT ![t] = NoFlow]
  /\ UNCHANGED <<scn, c2h, disc, pending, flowIds, entry, req, key, planeVars, h2c, helperVars, wallVars>>

\* ... and the helper is told, without waiting for an answer.
DropFlow(t) ==
  /\ task[t] = "dropping"
  /\ flows' = flows \ {held[t]}
  /\ c2h' = IF SocketOpen
           THEN Append(c2h, Frame("RemoveFlow", NoRequest, held[t], "none")) ELSE c2h
  /\ task' = [task EXCEPT ![t] = "gone"]
  /\ bound' = bound \ {t} /\ held' = [held EXCEPT ![t] = NoFlow]
  /\ UNCHANGED <<scn, disc, pending, flowIds, entry, req, key, planeVars, h2c, helperVars, wallVars>>

-----------------------------------------------------------------------------
(* The plane, one operation at a time under its mutex, and the session around it. *)

\* connect: the greeting is answered before any thread is started.
Welcome ==
  /\ session = "connecting" /\ (h2c # <<>> \/ ~SocketOpen)
  /\ session' = IF h2c # <<>> /\ Head(h2c).kind = "HelloAccepted" THEN "boot" ELSE "failed"
  /\ h2c' = IF h2c # <<>> THEN Tail(h2c) ELSE h2c
  /\ UNCHANGED <<scn, clientVars, taskVars, steps, configured, rebuilt, wanted, gone, c2h,
                 helperVars, wallVars>>

StartSteps == <<"ConfigureInterceptor", "OpenInterceptor">>
              \o (IF scn.discover THEN <<"SetLowTtlValue">> ELSE <<>>)

\* prepare_remote, and the TTL that discovery found.
Start ==
  /\ session = "boot"
  /\ session' = "start" /\ steps' = StartSteps
  /\ UNCHANGED <<scn, clientVars, taskVars, configured, rebuilt, wanted, gone, c2h, h2c,
                 helperVars, wallVars>>

\* rebuild: close, drop every flow, configure and open for the new address.
RebuildSteps == <<"CloseInterceptor", "Reset", "ConfigureInterceptor", "OpenInterceptor">>

\* The coordinator does not rebuild over a lost helper.
Rebuild ==
  /\ session = "up" /\ rebuilt < scn.rebuilds /\ Linked
  /\ rebuilt' = rebuilt + 1
  /\ session' = "rebuild"
  /\ steps' = RebuildSteps
  /\ UNCHANGED <<scn, clientVars, taskVars, configured, wanted, gone, c2h, h2c, helperVars, wallVars>>

\* A reload ends the service, then closes the plane and starts the next one.
CloseForReload ==
  /\ session = "up" /\ rebuilt < scn.reloads
  /\ rebuilt' = rebuilt + 1
  /\ session' = "reload"
  /\ steps' = IF configured THEN <<"CloseInterceptor", "Reset">> ELSE <<"Reset">>
  /\ UNCHANGED <<scn, clientVars, taskVars, configured, wanted, gone, c2h, h2c, helperVars, wallVars>>

StopSteps == <<"CloseInterceptor", "Shutdown">>
Stop ==
  /\ session = "up"
  /\ session' = "stop" /\ steps' = StopSteps
  /\ UNCHANGED <<scn, clientVars, taskVars, configured, rebuilt, wanted, gone, c2h, h2c,
                 helperVars, wallVars>>

\* The tasks of an ended service are gone before its plane is closed.
TasksEnded == session \in {"reload", "stop"} => \A t \in Tasks : task[t] \in {"idle", "gone"}

PlaneAsks ==
  /\ steps # <<>> /\ Head(steps) # "Reset" /\ req[Plane].pc = "none" /\ TasksEnded
  /\ req' = [req EXCEPT ![Plane] = Asking(Plane, Head(steps), NoFlow)]
  /\ UNCHANGED <<scn, disc, pending, flows, flowIds, entry, taskVars, planeVars, c2h, h2c,
                 helperVars, wallVars>>

\* reset: every flow is told that it is lost, both maps are emptied.
PlaneResets ==
  /\ steps # <<>> /\ Head(steps) = "Reset"
  /\ steps' = Tail(steps)
  /\ entry' = [t \in Tasks |-> IF t \in flows THEN Finished(entry[t], "closed") ELSE entry[t]]
  /\ flows' = {} /\ flowIds' = [k \in Keys |-> NoFlow]
  /\ UNCHANGED <<scn, disc, pending, req, taskVars, session, configured, rebuilt, wanted, gone,
                 c2h, h2c, helperVars, wallVars>>

PlaneAnswered ==
  /\ steps # <<>> /\ req[Plane].pc = "ok" /\ req[Plane].answer = AnswerTo(req[Plane].kind)
  /\ req' = [req EXCEPT ![Plane] = Done(Plane)]
  /\ steps' = Tail(steps)
  /\ configured' = (configured \/ (session = "start" /\ Head(steps) = "ConfigureInterceptor"))
  /\ wanted' = IF Head(steps) = "SetLowTtlValue" THEN "found" ELSE wanted
  /\ UNCHANGED <<scn, disc, pending, flows, flowIds, entry, taskVars, session, rebuilt, gone,
                 c2h, h2c, helperVars, wallVars>>

\* A request that fails ends the operation; a TTL that cannot be set is only logged.
PlaneFailed ==
  /\ steps # <<>>
  /\ \/ req[Plane].pc = "err"
     \/ req[Plane].pc = "ok" /\ req[Plane].answer # AnswerTo(req[Plane].kind)
  /\ req' = [req EXCEPT ![Plane] = Done(Plane)]
  /\ steps' = <<>>
  /\ session' = CASE Head(steps) = "SetLowTtlValue" -> "up"
                  [] session = "rebuild" -> "up"
                  [] OTHER -> "failed"
  /\ UNCHANGED <<scn, disc, pending, flows, flowIds, entry, taskVars, configured, rebuilt, wanted,
                 gone, c2h, h2c, helperVars, wallVars>>

PlaneDone ==
  /\ steps = <<>> /\ session \in {"start", "rebuild", "reload", "stop"} /\ TasksEnded
  /\ session' = CASE session \in {"start", "rebuild"} -> "up"
                  [] session = "reload" -> "boot"
                  [] session = "stop" -> "stopped"
  /\ UNCHANGED <<scn, clientVars, taskVars, steps, configured, rebuilt, wanted, gone, c2h, h2c,
                 helperVars, wallVars>>

\* wait_disconnected resolves: the process gives up.
SessionFatal ==
  /\ Serving /\ ~Linked
  /\ session' = "failed" /\ steps' = <<>>
  /\ UNCHANGED <<scn, clientVars, taskVars, configured, rebuilt, wanted, gone, c2h, h2c,
                 helperVars, wallVars>>

\* The process ends, by itself or killed, and its end of the socket closes.
ClientExit ==
  /\ ~gone
  /\ session \in {"failed", "stopped"} \/ scn.clientDies
  /\ gone' = TRUE
  /\ session' = IF session = "stopped" THEN "stopped" ELSE "failed"
  /\ steps' = <<>>
  /\ UNCHANGED <<scn, clientVars, taskVars, configured, rebuilt, wanted, c2h, h2c, helperVars, wallVars>>

-----------------------------------------------------------------------------
(* The helper's firewall rules.                                                  *)

\* Rules that deletions leave behind: none, or any of them where commands fail.
Leftovers(set) == IF scn.wallFails THEN SUBSET set ELSE {{}}

\* The interceptor thread ends: it removes its rules and reports what it could
\* not remove; dropping the guard tries those once more.
Removal(ok) ==
  \E after \in Leftovers(rules) :
    /\ ok = (after = {})
    /\ \E finally \in Leftovers(after) : rules' = finally
    /\ damaged' = (damaged \/ after # {})

\* Variation: rules of other live helpers are taken for stale ones.
RecoverAll(ok) ==
  /\ ok = TRUE
  /\ foreign' = {} /\ rules' = {} /\ UNCHANGED damaged
\* recover_stale_firewall_state: rules of dead owners, and those tagged with the
\* own pid, are deleted in the order they are listed; a live owner, or a command
\* that fails, ends the recovery.
Recover(ok) ==
  \/ /\ "live" \notin foreign /\ ok = TRUE
     /\ foreign' = {} /\ rules' = {} /\ UNCHANGED damaged
  \/ /\ "live" \in foreign /\ ok = FALSE
     /\ foreign' \in {foreign, {"live"}} /\ rules' \in SUBSET rules /\ UNCHANGED damaged
  \/ /\ scn.wallFails /\ ok = FALSE
     /\ foreign' \in {f \in SUBSET foreign : "live" \in foreign => "live" \in f}
     /\ rules' \in SUBSET rules /\ damaged' = TRUE

\* Installation of the two rules; a failed one is rolled back as far as that works.
Install(ok) ==
  \/ /\ ok = TRUE /\ rules' = Hooks /\ UNCHANGED damaged
  \/ /\ scn.wallFails /\ ok = FALSE
     /\ rules' \in {rules, rules \cup {"OUTPUT"}} /\ damaged' = TRUE

-----------------------------------------------------------------------------
(* The helper's loop.                                                            *)

\* The helper leaves its loop with a last frame, or none.
Leave(reason, answer) ==
  /\ hend' = "leaving" /\ why' = reason /\ loop' = "top" /\ visit' = {}
  /\ h2c' = h2c \o answer

\* What serve owns is dropped: an interceptor that is still open stops and removes
\* its rules.  Only then does the socket close.
Quit ==
  /\ hend = "leaving"
  /\ hend' = "exited" /\ reg' = {} /\ icpt' = "none"
  /\ IF icpt = "open" THEN \E ok \in BOOLEAN : Removal(ok) ELSE UNCHANGED <<rules, damaged>>
  /\ UNCHANGED <<scn, clientVars, taskVars, planeVars, c2h, h2c, hstate, why, loop, visit, truth,
                 last, ttl, foreign>>

\* The top of the loop: a finished interceptor ends the helper, otherwise every
\* registered flow is looked at before the next request.
LoopTop ==
  /\ Alive /\ loop = "top"
  /\ IF icpt = "dead"
     THEN /\ Leave("interceptor", <<Fatal(NoRequest)>>)
     ELSE /\ loop' = "serve" /\ visit' = IF icpt = "open" THEN reg ELSE {}
          /\ UNCHANGED <<hend, why, h2c>>
  /\ UNCHANGED <<scn, clientVars, taskVars, planeVars, c2h, hstate, reg, icpt, truth, last, ttl, wallVars>>

\* What publish_progress has to say about a flow.
News(t) == truth[t] \in {"ready", "acked", "closed"} /\ truth[t] # last[t]

PublishProgress(t) ==
  /\ Alive /\ loop = "serve" /\ t \in visit
  /\ visit' = visit \ {t}
  /\ IF News(t)
     THEN /\ h2c' = Append(h2c, Frame("FlowProgress", NoRequest, t, truth[t]))
          /\ last' = [last EXCEPT ![t] = truth[t]]
     ELSE UNCHANGED <<h2c, last>>
  /\ UNCHANGED <<scn, clientVars, taskVars, planeVars, c2h, hstate, hend, why, loop, reg, truth,
                 icpt, ttl, wallVars>>

\* Nothing arrived within the poll interval.
PollAgain ==
  /\ Alive /\ loop = "serve" /\ visit = {} /\ c2h = <<>> /\ ~gone
  /\ loop' = "top"
  /\ UNCHANGED <<scn, clientVars, taskVars, planeVars, c2h, h2c, hstate, hend, why, visit, reg,
                 truth, last, icpt, ttl, wallVars>>

\* The client has gone and everything it wrote is served.
Disconnected ==
  /\ Alive /\ loop = "serve" /\ visit = {} /\ c2h = <<>> /\ gone
  /\ Leave("left", <<>>)
  /\ UNCHANGED <<scn, clientVars, taskVars, planeVars, c2h, hstate, reg, icpt, truth, last, ttl, wallVars>>

\* No frame for HEARTBEAT_TIMEOUT, because the client hangs.
Starve ==
  /\ Alive /\ loop = "serve" /\ visit = {} /\ c2h = <<>> /\ scn.clientHangs
  /\ Leave("starved", <<Fatal(NoRequest)>>)
  /\ UNCHANGED <<scn, clientVars, taskVars, planeVars, c2h, hstate, reg, icpt, truth, last, ttl, wallVars>>

\* A request is taken from the socket.
Served(kind) ==
  /\ Alive /\ loop = "serve" /\ visit = {} /\ c2h # <<>> /\ Head(c2h).kind = kind
  /\ c2h' = Tail(c2h)
Continue == loop' = "top" /\ visit' = {} /\ UNCHANGED <<hend, why>>
Answer == h2c' = Append(h2c, Reply(Head(c2h)))

\* A request the state does not accept ends the helper.
Reject ==
  /\ \E kind \in Requests : Served(kind) /\ ~Accepts(hstate, kind)
  /\ Leave("rejected", <<Fatal(Head(c2h).id)>>)
  /\ UNCHANGED <<scn, clientVars, taskVars, planeVars, hstate, reg, icpt, truth, last, ttl, wallVars>>

ServeHello ==
  /\ Served("Hello") /\ Accepts(hstate, "Hello")
  /\ IF scn.trusted
     THEN hstate' = "Authenticated" /\ Continue /\ Answer
     ELSE Leave("untrusted", <<Fatal(Head(c2h).id)>>) /\ UNCHANGED hstate
  /\ UNCHANGED <<scn, clientVars, taskVars, planeVars, reg, icpt, truth, last, ttl, wallVars>>

\* Configuration recovers what dead helpers left before anything is opened.
ServeConfigure ==
  /\ Served("ConfigureInterceptor") /\ Accepts(hstate, "ConfigureInterceptor")
  /\ \E ok \in BOOLEAN :
       /\ Recover(ok)
       /\ IF ok THEN hstate' = "Configured" /\ Continue /\ Answer
          ELSE Leave("unconfigured", <<>>) /\ UNCHANGED hstate
  /\ UNCHANGED <<scn, clientVars, taskVars, planeVars, reg, icpt, truth, last, ttl>>

\* A new method is built from the configuration, its TTL with it.
ServeOpen ==
  /\ Served("OpenInterceptor") /\ Accepts(hstate, "OpenInterceptor")
  /\ ttl' = "config"
  /\ \E ok \in BOOLEAN :
       /\ Install(ok)
       /\ IF ok THEN hstate' = "InterceptorOpen" /\ icpt' = "open" /\ Continue /\ Answer
          ELSE Leave("unopened", <<>>) /\ UNCHANGED <<hstate, icpt>>
  /\ UNCHANGED <<scn, clientVars, taskVars, planeVars, reg, truth, last, foreign>>

\* A flow with this identifier or this key is registered already.
Clashes(t, k) == t \in reg \/ \E u \in reg : key[u] = k

\* Variation: the flow is acknowledged before it is in the table.
AcknowledgeFirst ==
  /\ Served("RegisterFlow") /\ Accepts(hstate, "RegisterFlow")
  /\ Continue /\ Answer
  /\ UNCHANGED <<scn, reg, truth, last, rules, damaged, clientVars, taskVars, planeVars,
                 hstate, icpt, ttl, foreign>>

\* RegisterFlow: refused for a clash or at the limit, otherwise in the table of the
\* interceptor before the answer is written.
ServeRegister ==
  /\ Served("RegisterFlow") /\ Accepts(hstate, "RegisterFlow")
  /\ LET t == Head(c2h).flow IN
     IF Clashes(t, key[t]) \/ Cardinality(reg) >= scn.liveLimit
     THEN /\ Leave("refused", <<Fatal(Head(c2h).id)>>)
                  /\ UNCHANGED <<reg, truth, last>>
     ELSE /\ reg' = reg \cup {t}
          /\ truth' = [truth EXCEPT ![t] = "waiting"]
          /\ last' = [last EXCEPT ![t] = "none"]
          /\ Continue /\ Answer
  /\ UNCHANGED <<scn, clientVars, taskVars, planeVars, hstate, icpt, ttl, wallVars>>

ServeRemove ==
  /\ Served("RemoveFlow") /\ Accepts(hstate, "RemoveFlow")
  /\ reg' = reg \ {Head(c2h).flow}
  /\ Continue /\ Answer
  /\ UNCHANGED <<scn, clientVars, taskVars, planeVars, hstate, truth, last, icpt, ttl, wallVars>>

ServeTtl ==
  /\ Served("SetLowTtlValue") /\ Accepts(hstate, "SetLowTtlValue")
  /\ ttl' = "found"
  /\ Continue /\ Answer
  /\ UNCHANGED <<scn, clientVars, taskVars, planeVars, hstate, reg, truth, last, icpt, wallVars>>

\* close_interceptor: the thread is joined; its error, a rule it could not remove
\* included, ends the helper without an answer.
ServeClose ==
  /\ Served("CloseInterceptor") /\ Accepts(hstate, "CloseInterceptor")
  /\ \E ok \in BOOLEAN :
       /\ IF icpt = "open" THEN Removal(ok)
          ELSE ok = (icpt = "none") /\ UNCHANGED <<rules, damaged>>
       /\ IF ok THEN hstate' = "Configured" /\ reg' = {} /\ icpt' = "none" /\ Continue /\ Answer
          ELSE reg' = {} /\ icpt' = "none" /\ Leave("unclosed", <<>>) /\ UNCHANGED hstate
  /\ UNCHANGED <<scn, clientVars, taskVars, planeVars, truth, last, ttl, foreign>>

ServeShutdown ==
  /\ Served("Shutdown") /\ Accepts(hstate, "Shutdown")
  /\ \E ok \in BOOLEAN :
       /\ IF icpt = "open" THEN Removal(ok)
          ELSE ok = (icpt = "none") /\ UNCHANGED <<rules, damaged>>
       /\ hstate' = IF ok THEN "Exited" ELSE "ShuttingDown"
       /\ reg' = {} /\ icpt' = "none"
       /\ Leave("left", IF ok THEN <<Reply(Head(c2h))>> ELSE <<>>)
  /\ UNCHANGED <<scn, clientVars, taskVars, planeVars, truth, last, ttl, foreign>>

-----------------------------------------------------------------------------
(* The interceptor thread, and what ends a helper from outside.                  *)

\* The packet handler lets a flow send, or decides it (see Handler).
Observe(t, progress) ==
  /\ SocketOpen /\ icpt = "open" /\ t \in reg /\ progress \in scn.seen
  /\ \/ truth[t] = "waiting"
     \/ truth[t] = "ready" /\ progress \in Decided
  /\ truth' = [truth EXCEPT ![t] = progress]
  /\ UNCHANGED <<scn, clientVars, taskVars, planeVars, c2h, h2c, hstate, hend, why, loop, visit, reg,
                 last, icpt, ttl, wallVars>>

InterceptorDies ==
  /\ SocketOpen /\ icpt = "open" /\ scn.interceptorDies
  /\ icpt' = "dead"
  /\ \E ok \in BOOLEAN : Removal(ok)
  /\ UNCHANGED <<scn, clientVars, taskVars, planeVars, c2h, h2c, hstate, hend, why, loop, visit, reg,
                 truth, last, ttl, foreign>>

\* SIGKILL: nothing is cleaned up.
Kill ==
  /\ SocketOpen /\ scn.killed
  /\ hend' = "killed" /\ icpt' = "none" /\ reg' = {}
  /\ UNCHANGED <<scn, clientVars, taskVars, planeVars, c2h, h2c, hstate, why, loop, visit,
                 truth, last, ttl, wallVars>>

\* Another helper opens an interceptor of its own.
ForeignOpens ==
  /\ scn.rival /\ "live" \notin foreign
  /\ foreign' = foreign \cup {"live"}
  /\ UNCHANGED <<scn, clientVars, taskVars, planeVars, c2h, h2c, helperVars, rules, damaged>>

-----------------------------------------------------------------------------
HelperStep ==
  \/ LoopTop \/ PollAgain \/ Disconnected \/ Reject \/ Quit
  \/ ServeHello \/ ServeConfigure \/ ServeOpen \/ ServeRegister \/ ServeRemove \/ ServeTtl
  \/ ServeClose \/ ServeShutdown
  \/ \E t \in Tasks : PublishProgress(t)

LinkStep == HandleFrame \/ LoseLink("reader") \/ LoseLink("heart") \/ DrainPending \/ SweepFlows

RequestStep == \E a \in Actors : CheckLink(a) \/ Submit(a) \/ TimeOut(a)

TaskStep(t) == MapKey(t) \/ Registered(t) \/ Abort(t) \/ TakeId(t) \/ DropFlow(t)

PlaneStep ==
  \/ Welcome \/ Start \/ PlaneAsks \/ PlaneResets \/ PlaneAnswered \/ PlaneFailed \/ PlaneDone
  \/ SessionFatal

\* A process that has gone takes no more steps.
ClientStep ==
  /\ ~gone
  /\ \/ LinkStep \/ RequestStep \/ PlaneStep \/ Rebuild \/ CloseForReload \/ Stop
     \/ \E t \in Tasks : TaskStep(t) \/ EndConnection(t) \/ \E k \in Keys : Begin(t, k)

Next ==
  \/ ClientStep
  \/ ClientExit
  \/ HelperStep
  \/ Starve
  \/ \E t \in Tasks, p \in {"ready", "acked", "closed"} : Observe(t, p)
  \/ InterceptorDies \/ Kill \/ ForeignOpens

Spec == Init /\ [][Next]_vars

\* Threads that can run do; deadlines pass; the helper's loop turns; the process
\* that is told to leave does.
FairSpec ==
  /\ Spec
  /\ WF_vars(~gone /\ HandleFrame) /\ WF_vars(~gone /\ LoseLink("reader"))
  /\ WF_vars(~gone /\ DrainPending) /\ WF_vars(~gone /\ SweepFlows)
  /\ WF_vars(~gone /\ PlaneStep) /\ WF_vars(session \in {"failed", "stopped"} /\ ClientExit)
  /\ \A a \in Actors : WF_vars(~gone /\ (CheckLink(a) \/ Submit(a) \/ TimeOut(a)))
  /\ \A t \in Tasks : WF_vars(~gone /\ TaskStep(t))
  /\ WF_vars(HelperStep)

-----------------------------------------------------------------------------
(* Properties.                                                                   *)

RequestPcs == {"none", "check", "submit", "wait", "ok", "err"}
TaskPcs == {"idle", "mapped", "asking", "live", "undo", "dropping", "gone"}

HelperTypeOK ==
  /\ session \in {"connecting", "boot", "start", "up", "rebuild", "reload", "stop", "stopped",
                  "failed"}
  /\ disc.at \in {"up", "flagged", "drained", "swept"} /\ disc.by \in {"none", "reader", "heart"}
  /\ Cardinality(pending) <= MaxPending /\ flows \subseteq Tasks
  /\ flowIds \in [Keys -> Tasks \cup {NoFlow}] /\ entry \in [Tasks -> Progresses]
  /\ \A a \in Actors : req[a].pc \in RequestPcs
  /\ task \in [Tasks -> TaskPcs] /\ key \in [Tasks -> Keys \cup {NoKey}] /\ bound \subseteq Tasks
  /\ held \in [Tasks -> Tasks \cup {NoFlow}]
  /\ hstate \in States /\ hend \in {"alive", "leaving", "exited", "killed"}
  /\ visit \subseteq Tasks /\ reg \subseteq Tasks /\ truth \in [Tasks -> Progresses]
  /\ icpt \in {"none", "open", "dead"} /\ rules \subseteq Hooks

\* The client, the helper and the socket between them keep what a FlowController
\* promises: an acknowledged registration is watched, progress is what the helper's
\* interceptor decided, a lost helper is a closed flow, the first outcome stays.
Asked(t) ==
  CASE task[t] = "idle" -> "none"
    [] task[t] \in {"mapped", "asking"} -> "asked"
    [] task[t] = "live" -> "granted"
    [] OTHER -> "left"
Promise == INSTANCE FlowPromise
             WITH Flows <- Tasks, asked <- [t \in Tasks |-> Asked(t)], truth <- truth, view <- entry
KeepsPromise == Promise!Spec

\* The frames of one kind that are on the way to the helper for flow t.
OnTheWay(kind, t) == {i \in DOMAIN c2h : c2h[i].kind = kind /\ c2h[i].flow = t}

\* A connection that is over leaves no flow behind in the helper: every flow that is
\* registered, or about to be, is followed by its removal.  A reload aborts tasks that
\* wait for their registration; what they leave is there until the reload's
\* CloseInterceptor and not after it, so the next generation starts without it.  (A
\* rebuild that empties the client's maps during a registration and the reuse of a
\* 4-tuple are the cases where only a later CloseInterceptor removes a flow.)
NoOrphanFlow ==
  /\ scn.ownPorts /\ (rebuilt = 0 \/ scn.rebuilds = 0)
  /\ Alive /\ ~gone /\ session \in {"boot", "start", "up", "reload"}
  => \A t \in Tasks : task[t] = "gone" /\ (t \in reg \/ OnTheWay("RegisterFlow", t) # {})
       => \/ \E j \in OnTheWay("RemoveFlow", t) : \A i \in OnTheWay("RegisterFlow", t) : i < j
          \/ session = "reload" /\ steps # <<>> /\ Head(steps) = "CloseInterceptor"

\* The client never makes a request that ends the helper, as long as it does not
\* rebuild the interceptor under running connections, no 4-tuple is used again
\* before its flow is released, and the helper's limit is not reached.
ProtocolKept ==
  (scn.rebuilds = 0 /\ scn.ownPorts /\ scn.liveLimit >= Cardinality(Tasks))
    => why \notin {"rejected", "refused"}

\* Rules outlive the interceptor they feed only when the helper was killed or a
\* firewall command failed; every other way out of the loop removes them.
RulesFollowInterceptor ==
  rules # {} => icpt = "open" \/ hend = "killed" \/ damaged

\* A stop that reports success leaves no rule and no interceptor behind, whatever
\* commands failed before.
StopConfirmed == session = "stopped" => rules = {} /\ icpt = "none"

\* Rules of dead helpers are removed before an interceptor is opened next to them.
StaleRulesGone == icpt = "open" => "dead" \notin foreign

\* A session that finds the rules of another live helper fails closed ("treated as a
\* conflicting session", recover_stale_firewall_state): whatever it asks, in whatever
\* order answers, losses and timeouts come, the other helper's rules stay, this one
\* opens no interceptor and installs no rule, and the client never takes the service
\* for started.
FailsClosed ==
  "live" \in scn.foreign =>
    /\ "live" \in foreign /\ icpt = "none" /\ rules = {}
    /\ session \in {"connecting", "boot", "start", "failed"}

\* What the client and the helper keep between them: the conjuncts above.
HelperInv ==
  /\ HelperTypeOK
  /\ NoOrphanFlow /\ ProtocolKept
  /\ RulesFollowInterceptor /\ StopConfirmed /\ StaleRulesGone

\* However the helper ends, and wherever a registration is at that moment, no
\* connection is left with an undecided entry; and without the client the helper
\* does not stay.
LossIsNoticed ==
  /\ \A t \in Tasks :
       (~Alive /\ task[t] \in {"mapped", "asking", "live"})
         ~> (entry[t] \in Decided \/ task[t] \in {"undo", "dropping", "gone"} \/ gone)
  /\ gone ~> ~SocketOpen
=============================================================================
