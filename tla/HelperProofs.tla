---------------------------- MODULE HelperProofs ----------------------------
(***************************************************************************)
(* Proofs about the data plane and the root helper: the helper's firewall  *)
(* rules, what a confirmed stop means, that the client, the socket and the *)
(* helper together keep what a FlowController promises, that no request of *)
(* the client ends the helper, and that no flow is left behind in it.      *)
(***************************************************************************)
EXTENDS Helper, FiniteSetTheorems, SequenceTheorems, TLAPS

USE ActorsDiffer, PendingBound

(***************************************************************************)
(* Which action changes what.  Every lemma below looks only at the actions *)
(* that touch the variables it is about.                                   *)
(***************************************************************************)
requestFrame == UNCHANGED <<scn, flows, flowIds, entry, taskVars, planeVars, helperVars, wallVars>>

WallActs == ServeConfigure \/ ServeOpen \/ ServeClose \/ ServeShutdown \/ Quit \/ InterceptorDies
            \/ Kill \/ ForeignOpens

LoopActs == LoopTop \/ PollAgain \/ Disconnected \/ Reject \/ Starve \/ ServeHello \/ ServeRegister
            \/ ServeRemove \/ ServeTtl \/ \E t \in Tasks : PublishProgress(t)

ObserveActs == \E t \in Tasks, p \in {"ready", "acked", "closed"} : Observe(t, p)

LEMMA NextSplits ==
  ASSUME Next
  PROVE  ClientStep \/ ClientExit \/ WallActs \/ LoopActs \/ ObserveActs
BY DEF Next, HelperStep, WallActs, LoopActs, ObserveActs

LEMMA LinkFrame ==
  ASSUME LinkStep
  PROVE  UNCHANGED <<scn, flows, flowIds, taskVars, planeVars, c2h, helperVars, wallVars>>
<1>1. CASE HandleFrame
  BY <1>1, Zenon DEF HandleFrame
<1>2. CASE LoseLink("reader") \/ LoseLink("heart")
  BY <1>2 DEF LoseLink
<1>3. CASE DrainPending
  BY <1>3 DEF DrainPending
<1>4. CASE SweepFlows
  BY <1>4 DEF SweepFlows
<1> QED BY <1>1, <1>2, <1>3, <1>4 DEF LinkStep

LEMMA RequestFrame ==
  ASSUME RequestStep
  PROVE  UNCHANGED <<scn, disc, flows, flowIds, entry, taskVars, planeVars, h2c, helperVars, wallVars>>
<1>1. PICK a \in Actors : CheckLink(a) \/ Submit(a) \/ TimeOut(a)
  BY DEF RequestStep
<1>2. CASE CheckLink(a)
  BY <1>2 DEF CheckLink
<1>3. CASE Submit(a)
  BY <1>3 DEF Submit
<1>4. CASE TimeOut(a)
  BY <1>4 DEF TimeOut
<1> QED BY <1>1, <1>2, <1>3, <1>4

PlaneActs == PlaneStep \/ Rebuild \/ CloseForReload \/ Stop

LEMMA PlaneFrame ==
  ASSUME PlaneActs
  PROVE  UNCHANGED <<scn, disc, pending, taskVars, c2h, helperVars, wallVars>>
<1>1. CASE Welcome \/ Start \/ PlaneDone \/ SessionFatal \/ Rebuild \/ CloseForReload \/ Stop
  BY <1>1 DEF Welcome, Start, PlaneDone, SessionFatal, Rebuild, CloseForReload, Stop, clientVars
<1>2. CASE PlaneAsks \/ PlaneResets \/ PlaneAnswered \/ PlaneFailed
  BY <1>2 DEF PlaneAsks, PlaneResets, PlaneAnswered, PlaneFailed, planeVars
<1> QED BY <1>1, <1>2 DEF PlaneActs, PlaneStep

TaskActs == \E t \in Tasks : TaskStep(t) \/ EndConnection(t) \/ \E k \in Keys : Begin(t, k)

LEMMA TaskFrame ==
  ASSUME TaskActs
  PROVE  UNCHANGED <<scn, disc, pending, planeVars, h2c, helperVars, wallVars>>
<1>1. PICK t \in Tasks : TaskStep(t) \/ EndConnection(t) \/ \E k \in Keys : Begin(t, k)
  BY DEF TaskActs
<1>2. CASE \E k \in Keys : Begin(t, k)
  BY <1>2 DEF Begin
<1>3. CASE MapKey(t) \/ Registered(t) \/ Abort(t)
  BY <1>3 DEF MapKey, Registered, Abort
<1>4. CASE EndConnection(t) \/ DropFlow(t)
  BY <1>4 DEF EndConnection, DropFlow, clientVars
<1>5. CASE TakeId(t)
  BY <1>5 DEF TakeId
<1> QED BY <1>1, <1>2, <1>3, <1>4, <1>5 DEF TaskStep

LEMMA ClientSplits ==
  ASSUME ClientStep
  PROVE  ~gone /\ (LinkStep \/ RequestStep \/ PlaneActs \/ TaskActs)
BY DEF ClientStep, PlaneActs, TaskActs

LEMMA ExitFrame ==
  ASSUME ClientExit
  PROVE  UNCHANGED <<scn, clientVars, taskVars, configured, rebuilt, wanted, c2h, h2c, helperVars, wallVars>>
BY DEF ClientExit

\* A step of the client changes nothing of the helper's.
LEMMA ClientKeepsHelper ==
  ASSUME ClientStep \/ ClientExit
  PROVE  UNCHANGED <<scn, helperVars, wallVars>>
BY ClientSplits, LinkFrame, RequestFrame, PlaneFrame, TaskFrame, ExitFrame

LEMMA LoopFrame ==
  ASSUME LoopActs
  PROVE  UNCHANGED <<scn, clientVars, taskVars, planeVars, wallVars, icpt>>
<1>1. CASE LoopTop \/ PollAgain \/ Disconnected \/ Reject \/ Starve
  BY <1>1 DEF LoopTop, PollAgain, Disconnected, Reject, Starve
<1>2. CASE ServeHello \/ ServeRegister \/ ServeRemove \/ ServeTtl
  BY <1>2, Zenon DEF ServeHello, ServeRegister, ServeRemove, ServeTtl
<1>3. CASE \E t \in Tasks : PublishProgress(t)
  BY <1>3 DEF PublishProgress
<1> QED BY <1>1, <1>2, <1>3 DEF LoopActs

LEMMA ObserveFrame ==
  ASSUME ObserveActs
  PROVE  UNCHANGED <<scn, clientVars, taskVars, planeVars, c2h, h2c, hstate, hend, why, loop, visit,
                     reg, last, icpt, ttl, wallVars>>
BY DEF ObserveActs, Observe

LEMMA WallFrame ==
  ASSUME WallActs
  PROVE  UNCHANGED <<scn, clientVars, taskVars, planeVars, truth, last>>
<1>1. CASE ServeConfigure
  BY <1>1, Zenon DEF ServeConfigure
<1>2. CASE ServeOpen
  BY <1>2, Zenon DEF ServeOpen
<1>3. CASE ServeClose
  BY <1>3, Zenon DEF ServeClose
<1>4. CASE ServeShutdown
  BY <1>4, Zenon DEF ServeShutdown
<1>5. CASE Quit
  BY <1>5, Zenon DEF Quit
<1>6. CASE InterceptorDies \/ Kill \/ ForeignOpens
  BY <1>6, Zenon DEF InterceptorDies, Kill, ForeignOpens, helperVars
<1> QED BY <1>1, <1>2, <1>3, <1>4, <1>5, <1>6 DEF WallActs

(***************************************************************************)
(* Types.                                                                  *)
(***************************************************************************)
Ids == {NoRequest} \cup (Actors \X Nat)
AnswerKinds == {AnswerTo(r) : r \in Requests}
FrameKinds == Requests \cup AnswerKinds \cup {"FlowProgress", "HelperFatal"}
Frames == [kind : FrameKinds, id : Ids, flow : Tasks \cup {NoFlow}, progress : Progresses]
Req == [pc : RequestPcs, kind : Requests \cup {"none"}, flow : Tasks \cup {NoFlow}, n : Nat,
        answer : FrameKinds \cup {"none"}]
PlaneKinds == {"ConfigureInterceptor", "OpenInterceptor", "SetLowTtlValue", "CloseInterceptor",
               "Shutdown"}
Sessions == {"connecting", "boot", "start", "up", "rebuild", "reload", "stop", "stopped", "failed"}

ReqOK == req \in [Actors -> Req]
PendingOK ==
  /\ pending \subseteq Actors \X Nat /\ IsFiniteSet(pending) /\ Cardinality(pending) <= MaxPending
MapsOK ==
  /\ flows \subseteq Tasks /\ flowIds \in [Keys -> Tasks \cup {NoFlow}]
  /\ entry \in [Tasks -> Progresses]
TasksOK ==
  /\ task \in [Tasks -> TaskPcs] /\ key \in [Tasks -> Keys \cup {NoKey}] /\ bound \subseteq Tasks
  /\ held \in [Tasks -> Tasks \cup {NoFlow}]
  /\ \A t \in Tasks : task[t] # "idle" => key[t] \in Keys
PlaneOK ==
  /\ session \in Sessions /\ steps \in Seq(PlaneKinds \cup {"Reset"}) /\ rebuilt \in Nat
  /\ disc \in [at : {"up", "flagged", "drained", "swept"}, by : {"none", "reader", "heart"}]
  /\ scn \in Scenarios
WireOK == c2h \in Seq(Frames) /\ h2c \in Seq(Frames)
HelpOK ==
  /\ hstate \in States /\ hend \in {"alive", "leaving", "exited", "killed"}
  /\ visit \subseteq Tasks /\ reg \subseteq Tasks
  /\ truth \in [Tasks -> Progresses] /\ last \in [Tasks -> Progresses]
  /\ icpt \in {"none", "open", "dead"} /\ rules \subseteq Hooks
  /\ foreign \subseteq {"dead", "live"}

TInv == ReqOK /\ PendingOK /\ MapsOK /\ TasksOK /\ PlaneOK /\ WireOK /\ HelpOK

LEMMA FrameTyped ==
  ASSUME NEW k \in FrameKinds, NEW i \in Ids, NEW f \in Tasks \cup {NoFlow}, NEW p \in Progresses
  PROVE  Frame(k, i, f, p) \in Frames
BY DEF Frame, Frames

LEMMA FatalTyped ==
  ASSUME NEW i \in Ids
  PROVE  Fatal(i) \in Frames /\ Fatal(i).kind = "HelperFatal"
<1>1. "HelperFatal" \in FrameKinds /\ "none" \in Progresses
  BY DEF FrameKinds, Progresses
<1> QED BY <1>1, FrameTyped DEF Fatal, Frame

LEMMA NoRequestTyped == NoRequest \in Ids
BY DEF Ids

LEMMA ReplyTyped ==
  ASSUME NEW f \in Frames, f.kind \in Requests
  PROVE  Reply(f) \in Frames
<1>1. AnswerTo(f.kind) \in FrameKinds /\ "none" \in Progresses
  BY DEF FrameKinds, AnswerKinds, Progresses
<1>2. f.id \in Ids /\ f.flow \in Tasks \cup {NoFlow}
  BY DEF Frames
<1> QED BY <1>1, <1>2, FrameTyped DEF Reply

LEMMA IdTyped ==
  ASSUME ReqOK, NEW a \in Actors
  PROVE  Id(a) \in Actors \X Nat /\ Id(a) \in Ids
BY DEF Id, ReqOK, Req, Ids

\* What a Cons, a Tail and a Head do, said of the elements.
LEMMA Elements ==
  ASSUME NEW S, NEW s \in Seq(S)
  PROVE  /\ \A i \in 1..Len(s) : s[i] \in S
         /\ \A e \in S : /\ Append(s, e) \in Seq(S) /\ Len(Append(s, e)) = Len(s) + 1
                        /\ \A i \in 1..Len(s) : Append(s, e)[i] = s[i]
                        /\ Append(s, e)[Len(s) + 1] = e
         /\ s # <<>> => /\ Head(s) = s[1] /\ Head(s) \in S /\ Len(s) >= 1
                       /\ Tail(s) \in Seq(S) /\ Len(Tail(s)) = Len(s) - 1
                       /\ \A i \in 1..Len(Tail(s)) : Tail(s)[i] = s[i + 1]
OBVIOUS

LEMMA Joined ==
  ASSUME NEW S, NEW s \in Seq(S), NEW e \in S
  PROVE  s \o <<e>> = Append(s, e) /\ s \o <<>> = s
OBVIOUS

LEMMA TypesInit == Init => TInv
<1> SUFFICES ASSUME Init PROVE TInv
  OBVIOUS
<1>1. ReqOK
  BY DEF Init, ReqOK, Req, Idle, RequestPcs
<1>2. PendingOK
  BY FS_EmptySet DEF Init, PendingOK
<1>3. MapsOK /\ TasksOK
  BY DEF Init, MapsOK, TasksOK, Progresses, TaskPcs
<1>4. PlaneOK
  BY DEF Init, PlaneOK, Sessions
<1>5. WireOK
  <2>1. "Hello" \in FrameKinds /\ <<Plane, 0>> \in Ids /\ "none" \in Progresses
    BY DEF FrameKinds, Requests, Ids, Actors, Progresses
  <2>2. Frame("Hello", <<Plane, 0>>, NoFlow, "none") \in Frames
    BY <2>1, FrameTyped
  <2> QED BY <2>2 DEF Init, WireOK
<1>6. HelpOK
  BY ScenariosTyped DEF Init, HelpOK, States, Progresses, Hooks
<1> QED BY <1>1, <1>2, <1>3, <1>4, <1>5, <1>6 DEF TInv

(***************************************************************************)
(* The requests keep their types, and the pending map its bound.           *)
(***************************************************************************)
ReqActs ==
  \/ RequestStep \/ HandleFrame \/ DrainPending
  \/ \E t \in Tasks : MapKey(t) \/ Registered(t) \/ Abort(t)
  \/ PlaneAsks \/ PlaneAnswered \/ PlaneFailed

LEMMA ReqFrame ==
  ASSUME Next, ~ReqActs
  PROVE  UNCHANGED <<req, pending>>
<1>1. CASE ClientExit \/ WallActs \/ LoopActs \/ ObserveActs
  BY <1>1, ExitFrame, WallFrame, LoopFrame, ObserveFrame DEF clientVars
<1>2. CASE LinkStep
  BY <1>2 DEF LinkStep, LoseLink, SweepFlows, ReqActs
<1>3. CASE PlaneActs
  BY <1>3 DEF PlaneActs, PlaneStep, ReqActs, Welcome, Start, PlaneResets, PlaneDone, SessionFatal,
              Rebuild, CloseForReload, Stop, clientVars
<1>4. CASE TaskActs
  <2>1. PICK t \in Tasks : TaskStep(t) \/ EndConnection(t) \/ \E k \in Keys : Begin(t, k)
    BY <1>4 DEF TaskActs
  <2>2. CASE \E k \in Keys : Begin(t, k)
    BY <2>2 DEF Begin
  <2>3. CASE EndConnection(t) \/ DropFlow(t)
    BY <2>3 DEF EndConnection, DropFlow, clientVars
  <2>4. CASE TakeId(t)
    BY <2>4, Zenon DEF TakeId
  <2> QED BY <2>1, <2>2, <2>3, <2>4 DEF TaskStep, ReqActs
<1> QED BY <1>1, <1>2, <1>3, <1>4, NextSplits, ClientSplits DEF ReqActs

LEMMA DoneTyped ==
  ASSUME ReqOK, NEW a \in Actors
  PROVE  Done(a) \in Req /\ Done(a).pc = "none" /\ Done(a).answer = "none" /\ Done(a).kind = "none"
BY DEF Done, Idle, ReqOK, Req, RequestPcs

LEMMA AskingTyped ==
  ASSUME ReqOK, NEW a \in Actors, NEW k \in Requests, NEW f \in Tasks \cup {NoFlow}
  PROVE  /\ Asking(a, k, f) \in Req /\ Asking(a, k, f).pc = "check" /\ Asking(a, k, f).kind = k
         /\ Asking(a, k, f).flow = f /\ Asking(a, k, f).answer = "none"
BY DEF Asking, ReqOK, Req, RequestPcs

LEMMA OneRequest ==
  ASSUME ReqOK, NEW a \in Actors, NEW r \in Req, req' = [req EXCEPT ![a] = r]
  PROVE  ReqOK'
BY DEF ReqOK

LEMMA Smaller ==
  ASSUME PendingOK, pending' \subseteq pending
  PROVE  PendingOK'
<1>1. IsFiniteSet(pending') /\ Cardinality(pending') <= Cardinality(pending)
  BY FS_Subset DEF PendingOK
<1>2. Cardinality(pending) \in Nat /\ Cardinality(pending') \in Nat
  BY <1>1, FS_CardinalityType DEF PendingOK
<1> QED BY <1>1, <1>2 DEF PendingOK

LEMMA ReqTypes ==
  ASSUME TInv, Next
  PROVE  ReqOK' /\ PendingOK'
<1>0. ReqOK /\ PendingOK /\ PlaneOK /\ WireOK
  BY DEF TInv
<1>1. CASE ~ReqActs
  BY <1>0, <1>1, ReqFrame DEF ReqOK, PendingOK
<1>2. ASSUME NEW a \in Actors, CheckLink(a) PROVE ReqOK' /\ PendingOK'
  <2>1. ReqOK'
    BY <1>0, <1>2 DEF CheckLink, ReqOK, Req, RequestPcs
  <2> QED BY <1>0, <1>2, <2>1 DEF CheckLink, PendingOK
<1>3. ASSUME NEW a \in Actors, Submit(a) PROVE ReqOK' /\ PendingOK'
  <2>1. ReqOK'
    <3>1. req' = [req EXCEPT ![a].pc = "wait"] \/ req' = [req EXCEPT ![a].pc = "err"]
      BY <1>3 DEF Submit
    <3> QED BY <1>0, <3>1 DEF ReqOK, Req, RequestPcs
  <2>2. CASE Cardinality(pending) < MaxPending /\ SocketOpen
    <3>1. pending' = pending \cup {Id(a)}
      BY <1>3, <2>2 DEF Submit
    <3>2. Id(a) \in Actors \X Nat
      BY <1>0, IdTyped
    <3>3. /\ IsFiniteSet(pending')
          /\ Cardinality(pending') = IF Id(a) \in pending THEN Cardinality(pending)
                                    ELSE Cardinality(pending) + 1
      BY <1>0, <3>1, FS_AddElement DEF PendingOK
    <3>4. Cardinality(pending) \in Nat
      BY <1>0, FS_CardinalityType DEF PendingOK
    <3>5. Cardinality(pending') <= MaxPending
      BY <2>2, <3>3, <3>4
    <3> QED BY <1>0, <2>1, <3>1, <3>2, <3>3, <3>5 DEF PendingOK
  <2>3. CASE ~(Cardinality(pending) < MaxPending /\ SocketOpen)
    <3>1. pending' = pending
      BY <1>3, <2>3 DEF Submit
    <3> QED BY <1>0, <2>1, <3>1 DEF PendingOK
  <2> QED BY <2>2, <2>3
<1>4. ASSUME NEW a \in Actors, TimeOut(a) PROVE ReqOK' /\ PendingOK'
  <2>1. ReqOK'
    BY <1>0, <1>4 DEF TimeOut, ReqOK, Req, RequestPcs
  <2> QED BY <1>0, <1>4, <2>1, Smaller DEF TimeOut
<1>5. CASE HandleFrame
  <2> DEFINE f == Head(h2c)
  <2>1. f \in Frames
    BY <1>0, <1>5, Elements DEF HandleFrame, WireOK
  <2>2. CASE f.kind \in {"FlowProgress", "HelperFatal"}
    <3>1. UNCHANGED <<req, pending>>
      BY <1>5, <2>2 DEF HandleFrame
    <3> QED BY <1>0, <3>1 DEF ReqOK, PendingOK
  <2>3. CASE f.kind \notin {"FlowProgress", "HelperFatal"}
    <3>1. /\ pending' = pending \ {f.id}
          /\ req' = [a \in Actors |-> IF Answers(a, f)
                                      THEN [req[a] EXCEPT !.pc = "ok", !.answer = f.kind] ELSE req[a]]
      BY <1>5, <2>3 DEF HandleFrame
    <3>2. f.kind \in FrameKinds
      BY <2>1 DEF Frames
    <3>3. ReqOK'
      BY ZenonT(40), <1>0, <3>1, <3>2 DEF ReqOK, Req, RequestPcs
    <3> QED BY <1>0, <3>1, <3>3, Smaller
  <2> QED BY <2>2, <2>3
<1>6. CASE DrainPending
  <2>1. ReqOK'
    BY <1>0, <1>6 DEF DrainPending, ReqOK, Req, RequestPcs
  <2> QED BY <1>0, <1>6, <2>1, Smaller DEF DrainPending
<1>7. ASSUME NEW t \in Tasks, MapKey(t) \/ Registered(t) \/ Abort(t) PROVE ReqOK' /\ PendingOK'
  <2>1. t \in Actors /\ "RegisterFlow" \in Requests
    BY DEF Actors, Requests
  <2>2. \E r \in Req : req' = [req EXCEPT ![t] = r]
    BY <1>0, <1>7, <2>1, DoneTyped, AskingTyped DEF MapKey, Registered, Abort
  <2>3. pending' = pending
    BY <1>7 DEF MapKey, Registered, Abort
  <2> QED BY <1>0, <2>1, <2>2, <2>3, OneRequest DEF PendingOK
<1>8. CASE PlaneAsks
  <2>1. Plane \in Actors /\ Head(steps) \in Requests
    BY <1>0, <1>8, Elements DEF PlaneAsks, PlaneOK, PlaneKinds, Requests, Actors
  <2>2. Asking(Plane, Head(steps), NoFlow) \in Req
    BY <1>0, <2>1, AskingTyped
  <2> QED BY <1>0, <1>8, <2>1, <2>2, OneRequest DEF PlaneAsks, PendingOK
<1>9. CASE PlaneAnswered \/ PlaneFailed
  <2>1. Plane \in Actors
    BY DEF Actors
  <2> QED BY <1>0, <1>9, <2>1, DoneTyped, OneRequest DEF PlaneAnswered, PlaneFailed, PendingOK
<1> QED BY <1>1, <1>2, <1>3, <1>4, <1>5, <1>6, <1>7, <1>8, <1>9 DEF ReqActs, RequestStep

(***************************************************************************)
(* The client's maps, its connections and the plane.                       *)
(***************************************************************************)
MapActs == HandleFrame \/ SweepFlows \/ PlaneResets \/ TaskActs

LEMMA MapFrame ==
  ASSUME Next, ~MapActs
  PROVE  UNCHANGED <<flows, flowIds, entry, taskVars>>
<1>1. CASE ClientExit \/ WallActs \/ LoopActs \/ ObserveActs
  BY <1>1, ExitFrame, WallFrame, LoopFrame, ObserveFrame DEF clientVars
<1>2. CASE LinkStep
  BY <1>2 DEF LinkStep, LoseLink, DrainPending, MapActs
<1>3. CASE RequestStep
  BY <1>3, RequestFrame
<1>4. CASE PlaneActs
  BY <1>4 DEF PlaneActs, PlaneStep, MapActs, Welcome, Start, PlaneAsks, PlaneAnswered, PlaneFailed,
              PlaneDone, SessionFatal, Rebuild, CloseForReload, Stop, clientVars
<1> QED BY <1>1, <1>2, <1>3, <1>4, NextSplits, ClientSplits DEF MapActs

LEMMA FinishedTyped ==
  ASSUME NEW e \in Progresses
  PROVE  Finished(e, "closed") \in Progresses
BY DEF Finished, Progresses

LEMMA ToldTyped ==
  ASSUME NEW e \in Progresses, NEW p \in Progresses
  PROVE  Told(e, p) \in Progresses
BY DEF Told, Finished, Progresses

LEMMA MapTypes ==
  ASSUME TInv, Next
  PROVE  MapsOK' /\ TasksOK'
<1>0. MapsOK /\ TasksOK /\ WireOK
  BY DEF TInv
<1>1. CASE ~MapActs
  BY <1>0, <1>1, MapFrame DEF taskVars, MapsOK, TasksOK
<1>2. CASE HandleFrame
  <2> DEFINE f == Head(h2c)
  <2>1. f \in Frames
    BY <1>0, <1>2, Elements DEF HandleFrame, WireOK
  <2>2. entry' = entry \/ entry' = [entry EXCEPT ![f.flow] = Told(entry[f.flow], f.progress)]
    BY <1>2 DEF HandleFrame
  <2>3. f.progress \in Progresses
    BY <2>1 DEF Frames
  <2> HIDE DEF f
  <2>4. entry' \in [Tasks -> Progresses]
    BY <1>0, <2>2, <2>3, ToldTyped DEF MapsOK
  <2>5. UNCHANGED <<flows, flowIds, taskVars>>
    BY <1>2 DEF HandleFrame
  <2> QED BY <1>0, <2>4, <2>5 DEF MapsOK, TasksOK, taskVars
<1>3. CASE SweepFlows
  <2>1. entry' \in [Tasks -> Progresses]
    BY <1>0, <1>3, FinishedTyped DEF SweepFlows, MapsOK
  <2>2. UNCHANGED <<flows, flowIds, taskVars>>
    BY <1>3 DEF SweepFlows
  <2> QED BY <1>0, <2>1, <2>2 DEF MapsOK, TasksOK, taskVars
<1>4. CASE PlaneResets
  <2>1. entry' \in [Tasks -> Progresses]
    BY <1>0, <1>4, FinishedTyped DEF PlaneResets, MapsOK
  <2>2. flows' \subseteq Tasks /\ flowIds' \in [Keys -> Tasks \cup {NoFlow}]
    BY <1>4 DEF PlaneResets
  <2> QED BY <1>0, <1>4, <2>1, <2>2 DEF PlaneResets, MapsOK, TasksOK, taskVars
<1>5. ASSUME NEW t \in Tasks, NEW k \in Keys, Begin(t, k) PROVE MapsOK' /\ TasksOK'
  BY <1>0, <1>5 DEF Begin, MapsOK, TasksOK, TaskPcs, Progresses
<1>6. ASSUME NEW t \in Tasks, MapKey(t) PROVE MapsOK' /\ TasksOK'
  BY <1>0, <1>6 DEF MapKey, MapsOK, TasksOK, TaskPcs
<1>7. ASSUME NEW t \in Tasks, Registered(t) PROVE MapsOK' /\ TasksOK'
  BY <1>0, <1>7 DEF Registered, MapsOK, TasksOK, TaskPcs
<1>8. ASSUME NEW t \in Tasks, EndConnection(t) \/ Abort(t) PROVE MapsOK' /\ TasksOK'
  BY <1>0, <1>8 DEF EndConnection, Abort, clientVars, MapsOK, TasksOK, TaskPcs
<1>9. ASSUME NEW t \in Tasks, TakeId(t) PROVE MapsOK' /\ TasksOK'
  <2> DEFINE id == flowIds[key[t]]
  <2>1. id \in Tasks \cup {NoFlow}
    BY <1>0, <1>9 DEF TakeId, MapsOK, TasksOK
  <2>2. MapsOK'
    BY <1>0, <1>9 DEF TakeId, MapsOK
  <2>3. /\ held' = [held EXCEPT ![t] = id] /\ key' = key /\ bound' \subseteq bound
        /\ task' = [task EXCEPT ![t] = IF id = NoFlow THEN "gone" ELSE "dropping"] /\ task[t] = "undo"
    BY <1>9 DEF TakeId
  <2> HIDE DEF id
  <2> QED BY <1>0, <2>1, <2>2, <2>3 DEF TasksOK, TaskPcs
<1>10. ASSUME NEW t \in Tasks, DropFlow(t) PROVE MapsOK' /\ TasksOK'
  BY <1>0, <1>10 DEF DropFlow, MapsOK, TasksOK, TaskPcs
<1> QED BY <1>1, <1>2, <1>3, <1>4, <1>5, <1>6, <1>7, <1>8, <1>9, <1>10 DEF MapActs, TaskActs, TaskStep

LEMMA PlaneTypes ==
  ASSUME TInv, Next
  PROVE  PlaneOK'
<1>0. PlaneOK
  BY DEF TInv
<1>1. CASE WallActs \/ LoopActs \/ ObserveActs
  BY <1>0, <1>1, WallFrame, LoopFrame, ObserveFrame DEF clientVars, planeVars, PlaneOK
<1>2. CASE TaskActs
  BY <1>0, <1>2, TaskFrame DEF planeVars, PlaneOK
<1>3. CASE RequestStep
  BY <1>0, <1>3, RequestFrame DEF planeVars, PlaneOK
<1>4. CASE LinkStep
  <2>1. UNCHANGED <<scn, planeVars>>
    BY <1>4, LinkFrame
  <2>2. disc' \in [at : {"up", "flagged", "drained", "swept"}, by : {"none", "reader", "heart"}]
    <3>1. CASE HandleFrame
      <4>1. disc' = disc \/ disc' = [at |-> "flagged", by |-> "reader"]
        BY <3>1 DEF HandleFrame
      <4> QED BY <1>0, <4>1 DEF PlaneOK
    <3>2. CASE LoseLink("reader") \/ LoseLink("heart")
      BY <1>0, <3>2 DEF LoseLink, PlaneOK
    <3>3. CASE DrainPending \/ SweepFlows
      BY <1>0, <3>3 DEF DrainPending, SweepFlows, PlaneOK
    <3> QED BY <1>4, <3>1, <3>2, <3>3 DEF LinkStep
  <2> QED BY <1>0, <2>1, <2>2 DEF planeVars, PlaneOK
<1>5. CASE ClientExit
  <2>1. UNCHANGED <<scn, disc, rebuilt>> /\ session' \in {"stopped", "failed"} /\ steps' = <<>>
    BY <1>5 DEF ClientExit, clientVars
  <2>2. <<>> \in Seq(PlaneKinds \cup {"Reset"})
    OBVIOUS
  <2> QED BY <1>0, <2>1, <2>2 DEF PlaneOK, Sessions
<1>6. CASE PlaneActs
  <2>1. UNCHANGED <<scn, disc>>
    BY <1>6, PlaneFrame
  <2>2. rebuilt' \in Nat
    BY <1>0, <1>6 DEF PlaneActs, PlaneStep, Welcome, Start, PlaneAsks, PlaneResets, PlaneAnswered,
         PlaneFailed, PlaneDone, SessionFatal, Rebuild, CloseForReload, Stop, planeVars, PlaneOK
  <2>3. session' \in Sessions
    <3>1. CASE PlaneFailed
      <4>1. session' = "up" \/ session' = "failed"
        BY <3>1 DEF PlaneFailed
      <4> QED BY <4>1 DEF Sessions
    <3>2. CASE PlaneDone
      <4>1. session' \in {"up", "boot", "stopped"}
        BY <3>2 DEF PlaneDone
      <4> QED BY <4>1 DEF Sessions
    <3> QED BY <1>0, <1>6, <3>1, <3>2 DEF PlaneActs, PlaneStep, Welcome, Start, PlaneAsks, PlaneResets,
         PlaneAnswered, SessionFatal, Rebuild, CloseForReload, Stop, planeVars, PlaneOK, Sessions
  <2>4. steps' \in Seq(PlaneKinds \cup {"Reset"})
    <3> DEFINE S == PlaneKinds \cup {"Reset"}
    <3>1. /\ <<>> \in Seq(S) /\ RebuildSteps \in Seq(S) /\ StopSteps \in Seq(S)
          /\ <<"CloseInterceptor", "Reset">> \in Seq(S) /\ <<"Reset">> \in Seq(S)
      BY DEF RebuildSteps, StopSteps, PlaneKinds
    <3>2. StartSteps \in Seq(S)
      <4>1. /\ <<"ConfigureInterceptor", "OpenInterceptor">> \in Seq(S)
            /\ <<"SetLowTtlValue">> \in Seq(S)
        BY DEF PlaneKinds
      <4> HIDE DEF S
      <4> QED BY <3>1, <4>1 DEF StartSteps
    <3>3. steps # <<>> => Tail(steps) \in Seq(S)
      BY <1>0, Elements DEF PlaneOK
    <3>4. steps \in Seq(S)
      BY <1>0 DEF PlaneOK
    <3> HIDE DEF S
    <3> QED BY <1>6, <3>1, <3>2, <3>3, <3>4 DEF PlaneActs, PlaneStep, Welcome, Start, PlaneAsks,
         PlaneResets, PlaneAnswered, PlaneFailed, PlaneDone, SessionFatal, Rebuild, CloseForReload,
         Stop, planeVars, S
  <2> QED BY <1>0, <2>1, <2>2, <2>3, <2>4 DEF PlaneOK
<1> QED BY <1>1, <1>2, <1>3, <1>4, <1>5, <1>6, NextSplits, ClientSplits

(***************************************************************************)
(* What the helper reads and writes.                                       *)
(***************************************************************************)
Takes == c2h # <<>> /\ Head(c2h).kind \in Requests /\ c2h' = Tail(c2h)

\* The helper writes nothing, a fatal frame, the answer to the request it takes,
\* or what the interceptor decided about a flow.
Writes ==
  \/ h2c' = h2c
  \/ \E i \in Ids : h2c' = Append(h2c, Fatal(i))
  \/ Takes /\ h2c' = Append(h2c, Reply(Head(c2h)))
  \/ \E t \in Tasks :
       /\ truth[t] \in {"ready", "acked", "closed"} /\ UNCHANGED truth
       /\ h2c' = Append(h2c, Frame("FlowProgress", NoRequest, t, truth[t]))

LEMMA LeaveWrites ==
  ASSUME TInv, NEW r, NEW e \in Frames, Leave(r, <<e>>)
  PROVE  h2c' = Append(h2c, e)
<1>1. h2c \in Seq(Frames)
  BY DEF TInv, WireOK
<1> QED BY <1>1, Joined DEF Leave

LEMMA LeaveSilent ==
  ASSUME TInv, NEW r, Leave(r, <<>>)
  PROVE  h2c' = h2c
<1>1. h2c \in Seq(Frames)
  BY DEF TInv, WireOK
<1> QED BY <1>1 DEF Leave

LEMMA HeadTyped ==
  ASSUME TInv, c2h # <<>>
  PROVE  Head(c2h) \in Frames /\ Head(c2h).id \in Ids /\ Head(c2h).flow \in Tasks \cup {NoFlow}
<1>1. Head(c2h) \in Frames
  BY Elements DEF TInv, WireOK
<1> QED BY <1>1 DEF Frames

LEMMA HelperWrites ==
  ASSUME TInv, LoopActs \/ WallActs
  PROVE  Writes /\ (c2h' = c2h \/ Takes)
<1>0. \A k \in Requests : Served(k) => Takes
  BY DEF Served, Takes
<1>1. CASE LoopTop \/ Starve
  <2>1. UNCHANGED c2h /\ (h2c' = h2c \/ \E r : Leave(r, <<Fatal(NoRequest)>>))
    BY <1>1 DEF LoopTop, Starve
  <2> QED BY <2>1, LeaveWrites, FatalTyped, NoRequestTyped DEF Writes
<1>2. CASE PollAgain
  BY <1>2 DEF PollAgain, Writes
<1>3. CASE Disconnected
  <2>1. h2c' = h2c /\ c2h' = c2h
    BY <1>3, LeaveSilent DEF Disconnected
  <2> QED BY <2>1 DEF Writes
<1>4. CASE Reject
  <2>1. Takes /\ Leave("rejected", <<Fatal(Head(c2h).id)>>)
    BY <1>0, <1>4 DEF Reject
  <2>2. Head(c2h).id \in Ids
    BY <2>1, HeadTyped DEF Takes
  <2> QED BY <2>1, <2>2, LeaveWrites, FatalTyped DEF Writes
<1>5. CASE ServeHello
  <2>1. Takes /\ (Leave("untrusted", <<Fatal(Head(c2h).id)>>) \/ Answer)
    BY <1>0, <1>5 DEF ServeHello, Requests
  <2>2. Head(c2h).id \in Ids
    BY <2>1, HeadTyped DEF Takes
  <2> QED BY <2>1, <2>2, LeaveWrites, FatalTyped DEF Writes, Answer
<1>6. CASE ServeRegister
  <2>1. Takes /\ (Leave("refused", <<Fatal(Head(c2h).id)>>) \/ Answer)
    BY <1>0, <1>6 DEF ServeRegister, Requests
  <2>2. Head(c2h).id \in Ids
    BY <2>1, HeadTyped DEF Takes
  <2> QED BY <2>1, <2>2, LeaveWrites, FatalTyped DEF Writes, Answer
<1>7. CASE ServeRemove \/ ServeTtl
  BY <1>0, <1>7 DEF ServeRemove, ServeTtl, Requests, Answer, Writes
<1>8. ASSUME NEW t \in Tasks, PublishProgress(t) PROVE Writes /\ c2h' = c2h
  BY <1>8 DEF PublishProgress, News, Writes
<1>9. CASE ServeConfigure
  <2>1. Takes /\ (Answer \/ Leave("unconfigured", <<>>))
    BY <1>0, <1>9 DEF ServeConfigure, Requests
  <2> QED BY <2>1, LeaveSilent DEF Answer, Writes
<1>10. CASE ServeOpen
  <2>1. Takes /\ (Answer \/ Leave("unopened", <<>>))
    BY <1>0, <1>10 DEF ServeOpen, Requests
  <2> QED BY <2>1, LeaveSilent DEF Answer, Writes
<1>11. CASE ServeClose
  <2>1. Takes /\ (Answer \/ Leave("unclosed", <<>>))
    BY <1>0, <1>11 DEF ServeClose, Requests
  <2> QED BY <2>1, LeaveSilent DEF Answer, Writes
<1>12. CASE ServeShutdown
  <2>1. Takes /\ (Leave("left", <<Reply(Head(c2h))>>) \/ Leave("left", <<>>))
    BY <1>0, <1>12 DEF ServeShutdown, Requests
  <2>2. Reply(Head(c2h)) \in Frames
    BY <2>1, HeadTyped, ReplyTyped DEF Takes
  <2> QED BY <2>1, <2>2, LeaveWrites, LeaveSilent DEF Writes
<1>13. CASE Quit \/ InterceptorDies \/ Kill \/ ForeignOpens
  BY <1>13 DEF Quit, InterceptorDies, Kill, ForeignOpens, Writes
<1> QED BY <1>1, <1>2, <1>3, <1>4, <1>5, <1>6, <1>7, <1>8, <1>9, <1>10, <1>11, <1>12, <1>13
        DEF LoopActs, WallActs

\* Requests and removals are written by the client, and nothing else.
Sends ==
  \/ c2h' = c2h
  \/ \E a \in Actors : Submit(a) /\ c2h' = Append(c2h, Frame(req[a].kind, Id(a), req[a].flow, "none"))
  \/ \E t \in Tasks : /\ DropFlow(t)
                      /\ c2h' = Append(c2h, Frame("RemoveFlow", NoRequest, held[t], "none"))

LEMMA ClientSends ==
  ASSUME ClientStep \/ ClientExit
  PROVE  Sends
<1>1. CASE ClientExit \/ LinkStep \/ PlaneActs
  BY <1>1, ExitFrame, LinkFrame, PlaneFrame DEF Sends
<1>2. ASSUME NEW a \in Actors, CheckLink(a) \/ TimeOut(a) PROVE Sends
  BY <1>2 DEF CheckLink, TimeOut, Sends
<1>3. ASSUME NEW a \in Actors, Submit(a) PROVE Sends
  <2>1. \/ c2h' = c2h
        \/ c2h' = Append(c2h, Frame(req[a].kind, Id(a), req[a].flow, "none"))
    BY <1>3 DEF Submit
  <2> QED BY <1>3, <2>1 DEF Sends
<1>4. CASE TaskActs
  <2>1. PICK t \in Tasks : TaskStep(t) \/ EndConnection(t) \/ \E k \in Keys : Begin(t, k)
    BY <1>4 DEF TaskActs
  <2>2. CASE \E k \in Keys : Begin(t, k)
    BY <2>2 DEF Begin, Sends
  <2>3. CASE MapKey(t) \/ Registered(t) \/ Abort(t) \/ EndConnection(t)
    BY <2>3 DEF MapKey, Registered, Abort, EndConnection, Sends
  <2>4. CASE TakeId(t)
    BY <2>4 DEF TakeId, Sends
  <2>5. CASE DropFlow(t)
    <3>1. \/ c2h' = c2h
          \/ c2h' = Append(c2h, Frame("RemoveFlow", NoRequest, held[t], "none"))
      BY <2>5 DEF DropFlow
    <3> QED BY <2>5, <3>1 DEF Sends
  <2> QED BY <2>1, <2>2, <2>3, <2>4, <2>5 DEF TaskStep
<1> QED BY <1>1, <1>2, <1>3, <1>4, ClientSplits DEF RequestStep

\* The requests that are being made are requests of the protocol.
LEMMA SubmitTyped ==
  ASSUME TInv, NEW a \in Actors, req[a].kind \in Requests
  PROVE  Frame(req[a].kind, Id(a), req[a].flow, "none") \in Frames
<1>1. req[a].kind \in FrameKinds /\ req[a].flow \in Tasks \cup {NoFlow} /\ "none" \in Progresses
  BY DEF TInv, ReqOK, Req, FrameKinds, Progresses
<1>2. Id(a) \in Ids
  BY IdTyped DEF TInv
<1> QED BY <1>1, <1>2, FrameTyped

\* An actor that is in a request has its kind.
KindsOK == \A a \in Actors : req[a].pc # "none" => req[a].kind \in Requests

LEMMA KindsStep ==
  ASSUME TInv, KindsOK, Next
  PROVE  KindsOK'
<1>0. ReqOK /\ ReqOK' /\ PlaneOK
  BY ReqTypes DEF TInv
<1>1. CASE ~ReqActs
  BY <1>0, <1>1, ReqFrame DEF KindsOK
<1>2. ASSUME NEW a \in Actors, CheckLink(a) \/ Submit(a) \/ TimeOut(a) PROVE KindsOK'
  <2>1. req[a].pc # "none" /\ \A b \in Actors : req'[b].kind = req[b].kind
    BY SMTT(30), <1>0, <1>2 DEF CheckLink, Submit, TimeOut, ReqOK, Req
  <2>2. \A b \in Actors : b # a => req'[b] = req[b]
    BY <1>0, <1>2 DEF CheckLink, Submit, TimeOut, ReqOK, Req
  <2> QED BY <2>1, <2>2 DEF KindsOK
<1>3. CASE HandleFrame \/ DrainPending
  <2>1. \A b \in Actors : req'[b].kind = req[b].kind /\ (req[b].pc = "none" => req'[b].pc = "none")
    <3>1. CASE HandleFrame
      <4> DEFINE f == Head(h2c)
      <4>1. \/ req' = req
            \/ req' = [a \in Actors |-> IF Answers(a, f)
                                 THEN [req[a] EXCEPT !.pc = "ok", !.answer = f.kind] ELSE req[a]]
        BY <3>1 DEF HandleFrame
      <4> HIDE DEF f
      <4>2. \A b \in Actors :
              \/ req'[b] = req[b]
              \/ req[b].pc = "wait" /\ req'[b] = [req[b] EXCEPT !.pc = "ok", !.answer = f.kind]
        BY <4>1 DEF Answers
      <4>3. \A b \in Actors : req[b] \in Req
        BY <1>0 DEF ReqOK
      <4> QED BY ZenonT(40), <4>2, <4>3 DEF Req
    <3>2. CASE DrainPending
      BY <1>0, <3>2 DEF DrainPending, ReqOK, Req
    <3> QED BY <1>3, <3>1, <3>2
  <2> QED BY <2>1 DEF KindsOK
<1>4. ASSUME NEW t \in Tasks, MapKey(t) \/ Registered(t) \/ Abort(t) PROVE KindsOK'
  <2>1. t \in Actors /\ "RegisterFlow" \in Requests
    BY DEF Actors, Requests
  <2>2. \/ req' = [req EXCEPT ![t] = Done(t)]
        \/ req' = [req EXCEPT ![t] = Asking(t, "RegisterFlow", t)]
    BY <1>4 DEF MapKey, Registered, Abort
  <2> QED BY <1>0, <2>1, <2>2, DoneTyped, AskingTyped DEF KindsOK, ReqOK
<1>5. CASE PlaneAsks
  <2>1. Plane \in Actors /\ Head(steps) \in Requests
    BY <1>0, <1>5, Elements DEF PlaneAsks, PlaneOK, PlaneKinds, Requests, Actors
  <2>2. req' = [req EXCEPT ![Plane] = Asking(Plane, Head(steps), NoFlow)]
    BY <1>5 DEF PlaneAsks
  <2> QED BY <1>0, <2>1, <2>2, AskingTyped DEF KindsOK, ReqOK
<1>6. CASE PlaneAnswered \/ PlaneFailed
  <2>1. Plane \in Actors /\ req' = [req EXCEPT ![Plane] = Done(Plane)]
    BY <1>6 DEF PlaneAnswered, PlaneFailed, Actors
  <2> QED BY <1>0, <2>1, DoneTyped DEF KindsOK, ReqOK
<1> QED BY <1>1, <1>2, <1>3, <1>4, <1>5, <1>6 DEF ReqActs, RequestStep

LEMMA WireTypes ==
  ASSUME TInv, KindsOK, Next
  PROVE  WireOK'
<1>0. c2h \in Seq(Frames) /\ h2c \in Seq(Frames)
  BY DEF TInv, WireOK
<1>1. CASE ObserveActs
  BY <1>0, <1>1, ObserveFrame DEF WireOK
<1>2. CASE ClientStep \/ ClientExit
  <2>1. c2h' \in Seq(Frames)
    <3>1. ASSUME NEW a \in Actors, Submit(a)
          PROVE  Frame(req[a].kind, Id(a), req[a].flow, "none") \in Frames
      <4>1. req[a].kind \in Requests
        BY <3>1 DEF Submit, KindsOK
      <4> QED BY <4>1, SubmitTyped
    <3>2. ASSUME NEW t \in Tasks
          PROVE  Frame("RemoveFlow", NoRequest, held[t], "none") \in Frames
      <4>1. held[t] \in Tasks \cup {NoFlow} /\ "RemoveFlow" \in FrameKinds /\ "none" \in Progresses
        BY DEF TInv, TasksOK, FrameKinds, Requests, Progresses
      <4> QED BY <4>1, FrameTyped, NoRequestTyped
    <3>3. Sends
      BY <1>2, ClientSends
    <3>4. c2h' = c2h \/ \E e \in Frames : c2h' = Append(c2h, e)
      BY <3>1, <3>2, <3>3 DEF Sends
    <3> QED BY <1>0, <3>4, Elements
  <2>2. h2c' \in Seq(Frames)
    <3>1. h2c' = h2c \/ (h2c # <<>> /\ h2c' = Tail(h2c))
      <4>1. CASE HandleFrame
        BY <4>1 DEF HandleFrame
      <4>2. CASE Welcome
        BY <4>2 DEF Welcome
      <4>3. CASE LinkStep /\ ~HandleFrame
        BY <4>3 DEF LinkStep, LoseLink, DrainPending, SweepFlows
      <4>4. CASE PlaneActs /\ ~Welcome
        BY <4>4 DEF PlaneActs, PlaneStep, Start, PlaneAsks, PlaneResets, PlaneAnswered,
                    PlaneFailed, PlaneDone, SessionFatal, Rebuild, CloseForReload, Stop
      <4>5. CASE RequestStep \/ TaskActs \/ ClientExit
        BY <4>5, RequestFrame, TaskFrame, ExitFrame
      <4> QED BY <1>2, <4>1, <4>2, <4>3, <4>4, <4>5, ClientSplits
    <3> QED BY SMTT(30), <1>0, <3>1, Elements
  <2> QED BY <2>1, <2>2 DEF WireOK
<1>3. CASE LoopActs \/ WallActs
  <2>1. Writes /\ (c2h' = c2h \/ Takes)
    BY <1>3, HelperWrites
  <2>2. c2h' \in Seq(Frames)
    BY <1>0, <2>1, Elements DEF Takes
  <2>3. Takes => Reply(Head(c2h)) \in Frames
    BY HeadTyped, ReplyTyped DEF Takes
  <2>4. \A t \in Tasks : Frame("FlowProgress", NoRequest, t, truth[t]) \in Frames
    <3>1. \A t \in Tasks : truth[t] \in Progresses /\ "FlowProgress" \in FrameKinds
      BY DEF TInv, HelpOK, FrameKinds
    <3> QED BY <3>1, FrameTyped, NoRequestTyped
  <2>5. h2c' \in Seq(Frames)
    <3>1. h2c' = h2c \/ \E e \in Frames : h2c' = Append(h2c, e)
      BY <2>1, <2>3, <2>4, FatalTyped DEF Writes
    <3> QED BY <1>0, <3>1, Elements
  <2> QED BY <2>2, <2>5 DEF WireOK
<1> QED BY <1>1, <1>2, <1>3, NextSplits

\* Only connections register flows, each its own, and the frames say so.
RegOK ==
  /\ \A a \in Actors : req[a].kind = "RegisterFlow" => a \in Tasks /\ req[a].flow = a
  /\ \A i \in 1..Len(c2h) : c2h[i].kind = "RegisterFlow" =>
       c2h[i].flow \in Tasks /\ \E n \in Nat : c2h[i].id = <<c2h[i].flow, n>>

LEMMA RegStep ==
  ASSUME TInv, KindsOK, RegOK, Next
  PROVE  RegOK'
<1>0. ReqOK /\ PlaneOK /\ WireOK
  BY DEF TInv
<1> DEFINE Own(r, a) == r.kind = "RegisterFlow" => a \in Tasks /\ r.flow = a
           Good(f) == f.kind = "RegisterFlow" =>
                        f.flow \in Tasks /\ \E n \in Nat : f.id = <<f.flow, n>>
<1>1. ASSUME NEW a \in Actors PROVE Own(req'[a], a)
  <2>0. Own(req[a], a) /\ req[a] \in Req
    BY <1>0 DEF RegOK, ReqOK
  <2>1. CASE ~ReqActs
    BY <2>0, <2>1, ReqFrame
  <2>2. CASE RequestStep \/ HandleFrame \/ DrainPending
    <3>1. req'[a].kind = req[a].kind /\ req'[a].flow = req[a].flow
      <4>1. CASE HandleFrame
        <5> DEFINE f == Head(h2c)
        <5>1. \/ req' = req
              \/ req' = [b \in Actors |-> IF Answers(b, f)
                                   THEN [req[b] EXCEPT !.pc = "ok", !.answer = f.kind] ELSE req[b]]
          BY <4>1 DEF HandleFrame
        <5> HIDE DEF f
        <5>2. req'[a] = req[a] \/ req'[a] = [req[a] EXCEPT !.pc = "ok", !.answer = f.kind]
          BY <5>1
        <5> QED BY <2>0, <5>2 DEF Req
      <4>2. CASE DrainPending
        BY <1>0, <4>2 DEF DrainPending, ReqOK, Req
      <4>3. ASSUME NEW b \in Actors, CheckLink(b) \/ Submit(b) \/ TimeOut(b)
            PROVE  req'[a].kind = req[a].kind /\ req'[a].flow = req[a].flow
        BY <1>0, <4>3 DEF CheckLink, Submit, TimeOut, ReqOK, Req
      <4> QED BY <2>2, <4>1, <4>2, <4>3 DEF RequestStep
    <3> QED BY <2>0, <3>1
  <2>3. ASSUME NEW t \in Tasks, MapKey(t) \/ Registered(t) \/ Abort(t) PROVE Own(req'[a], a)
    <3>1. t \in Actors /\ "RegisterFlow" \in Requests
      BY DEF Actors, Requests
    <3>2. \/ req' = [req EXCEPT ![t] = Done(t)]
          \/ req' = [req EXCEPT ![t] = Asking(t, "RegisterFlow", t)]
      BY <2>3 DEF MapKey, Registered, Abort
    <3> QED BY <1>0, <2>0, <3>1, <3>2, DoneTyped, AskingTyped DEF ReqOK
  <2>4. CASE PlaneAsks
    <3>1. Plane \in Actors /\ Head(steps) \in Requests /\ Head(steps) # "RegisterFlow"
      BY <1>0, <2>4, Elements DEF PlaneAsks, PlaneOK, PlaneKinds, Requests, Actors
    <3>2. req' = [req EXCEPT ![Plane] = Asking(Plane, Head(steps), NoFlow)]
      BY <2>4 DEF PlaneAsks
    <3> QED BY <1>0, <2>0, <3>1, <3>2, AskingTyped DEF ReqOK
  <2>5. CASE PlaneAnswered \/ PlaneFailed
    <3>1. Plane \in Actors /\ req' = [req EXCEPT ![Plane] = Done(Plane)]
      BY <2>5 DEF PlaneAnswered, PlaneFailed, Actors
    <3> QED BY <1>0, <2>0, <3>1, DoneTyped DEF ReqOK
  <2> QED BY <2>1, <2>2, <2>3, <2>4, <2>5 DEF ReqActs
<1>2. \A i \in 1..Len(c2h) : Good(c2h[i])
  BY DEF RegOK
<1>3. \A i \in 1..Len(c2h') : Good(c2h'[i])
  <2>1. CASE c2h' = c2h
    BY <1>2, <2>1
  <2>2. CASE Takes
    <3>1. /\ c2h # <<>> /\ c2h' = Tail(c2h) /\ Len(c2h') = Len(c2h) - 1
          /\ \A i \in 1..Len(c2h') : c2h'[i] = c2h[i + 1]
      BY <1>0, <2>2, Elements DEF Takes, WireOK
    <3>2. \A i \in 1..Len(c2h') : i + 1 \in 1..Len(c2h)
      BY <1>0, <3>1 DEF WireOK
    <3> HIDE DEF Good
    <3> QED BY <1>2, <3>1, <3>2
  <2>3. ASSUME NEW e \in Frames, c2h' = Append(c2h, e), Good(e)
        PROVE  \A i \in 1..Len(c2h') : Good(c2h'[i])
    <3>1. /\ Len(c2h') = Len(c2h) + 1 /\ c2h'[Len(c2h) + 1] = e
          /\ \A i \in 1..Len(c2h) : c2h'[i] = c2h[i]
      BY <1>0, <2>3, Elements DEF WireOK
    <3>2. Len(c2h) \in Nat
      BY <1>0 DEF WireOK
    <3>3. \A i \in 1..Len(c2h') : i \in 1..Len(c2h) \/ i = Len(c2h) + 1
      BY <3>1, <3>2
    <3> HIDE DEF Good
    <3> QED BY <1>2, <2>3, <3>1, <3>3
  <2>4. CASE Sends
    <3>1. ASSUME NEW a \in Actors, Submit(a),
                 c2h' = Append(c2h, Frame(req[a].kind, Id(a), req[a].flow, "none"))
          PROVE  \A i \in 1..Len(c2h') : Good(c2h'[i])
      <4> DEFINE e == Frame(req[a].kind, Id(a), req[a].flow, "none")
      <4>1. e \in Frames
        BY <3>1, SubmitTyped DEF Submit, KindsOK
      <4>2. Good(e)
        <5>1. Own(req[a], a) /\ req[a].n \in Nat
          BY <1>0 DEF RegOK, ReqOK, Req
        <5> QED BY <5>1 DEF Frame, Id
      <4> HIDE DEF e, Good
      <4> QED BY <2>3, <3>1, <4>1, <4>2 DEF e
    <3>2. ASSUME NEW t \in Tasks, c2h' = Append(c2h, Frame("RemoveFlow", NoRequest, held[t], "none"))
          PROVE  \A i \in 1..Len(c2h') : Good(c2h'[i])
      <4> DEFINE e == Frame("RemoveFlow", NoRequest, held[t], "none")
      <4>1. held[t] \in Tasks \cup {NoFlow} /\ "RemoveFlow" \in FrameKinds /\ "none" \in Progresses
        BY DEF TInv, TasksOK, FrameKinds, Requests, Progresses
      <4>2. e \in Frames
        BY <4>1, FrameTyped, NoRequestTyped
      <4>3. Good(e)
        BY DEF Frame
      <4> HIDE DEF e, Good
      <4> QED BY <2>3, <3>2, <4>2, <4>3 DEF e
    <3> HIDE DEF Good
    <3> QED BY <2>1, <2>4, <3>1, <3>2 DEF Sends
  <2> HIDE DEF Good
  <2> QED BY <2>1, <2>2, <2>4, NextSplits, HelperWrites, ClientSends, ObserveFrame
<1> QED BY <1>1, <1>3 DEF RegOK

LEMMA ScenarioForeign ==
  ASSUME PlaneOK
  PROVE  scn.foreign \subseteq {"dead", "live"} /\ scn.wallFails \in BOOLEAN
BY ScenariosTyped DEF PlaneOK

\* What the interceptor's end leaves behind.
LEMMA RemovalEnds ==
  ASSUME NEW ok, Removal(ok)
  PROVE  /\ rules' \subseteq rules /\ (ok => rules' = {})
         /\ rules' # {} => damaged'
         /\ damaged => damaged'
<1>1. PICK after \in Leftovers(rules) : /\ ok = (after = {})
                                       /\ \E finally \in Leftovers(after) : rules' = finally
                                       /\ damaged' = (damaged \/ after # {})
  BY DEF Removal
<1>2. after \subseteq rules /\ rules' \subseteq after
  BY <1>1 DEF Leftovers
<1> QED BY <1>1, <1>2

LEMMA RecoverEnds ==
  ASSUME NEW ok, Recover(ok)
  PROVE  /\ rules' \subseteq rules /\ foreign' \subseteq foreign /\ (damaged => damaged')
         /\ ok => foreign' = {}
BY DEF Recover

LEMMA HelpTypes ==
  ASSUME TInv, RegOK, Next
  PROVE  HelpOK'
<1>0. HelpOK
  BY DEF TInv
<1>1. CASE ClientStep \/ ClientExit
  BY <1>0, <1>1, ClientKeepsHelper DEF helperVars, wallVars, HelpOK
<1>2. CASE ObserveActs
  <2>1. truth' \in [Tasks -> Progresses]
    BY <1>0, <1>2 DEF ObserveActs, Observe, HelpOK, Progresses
  <2> QED BY <1>0, <1>2, <2>1, ObserveFrame DEF wallVars, HelpOK
<1>3. CASE LoopActs
  <2>1. UNCHANGED <<rules, foreign, icpt>>
    BY <1>3, LoopFrame DEF wallVars
  <2>2. hend' \in {hend, "leaving"} /\ hstate' \in {hstate, "Authenticated"} /\ hend = "alive"
    BY <1>3 DEF LoopActs, LoopTop, PollAgain, Disconnected, Reject, Starve, ServeHello, ServeRegister,
         ServeRemove, ServeTtl, PublishProgress, Served, Alive, Leave, Continue
  <2>3. visit' \subseteq Tasks
    BY <1>0, <1>3 DEF LoopActs, LoopTop, PollAgain, Disconnected, Reject, Starve, ServeHello,
         ServeRegister, ServeRemove, ServeTtl, PublishProgress, Leave, Continue, HelpOK
  <2>4. CASE ~ServeRegister
    <3>1. reg' \subseteq reg /\ UNCHANGED truth
      BY <1>3, <2>4 DEF LoopActs, LoopTop, PollAgain, Disconnected, Reject, Starve, ServeHello,
           ServeRemove, ServeTtl, PublishProgress
    <3>2. last' \in [Tasks -> Progresses]
      BY <1>0, <1>3, <2>4 DEF LoopActs, LoopTop, PollAgain, Disconnected, Reject, Starve, ServeHello,
           ServeRemove, ServeTtl, PublishProgress, HelpOK
    <3> QED BY <1>0, <2>1, <2>2, <2>3, <3>1, <3>2 DEF HelpOK, States
  <2>5. CASE ServeRegister
    <3> DEFINE t == Head(c2h).flow
    <3>1. /\ truth' = truth \/ truth' = [truth EXCEPT ![t] = "waiting"]
          /\ last' = last \/ last' = [last EXCEPT ![t] = "none"]
          /\ reg' = reg \/ (reg' = reg \cup {t})
      BY <2>5 DEF ServeRegister
    <3>2. truth' \in [Tasks -> Progresses] /\ last' \in [Tasks -> Progresses]
      <4> HIDE DEF t
      <4> QED BY <1>0, <3>1 DEF HelpOK, Progresses
    <3>3. reg' \subseteq Tasks
      <4>1. t \in Tasks
        <5>1. c2h # <<>> /\ Head(c2h).kind = "RegisterFlow" /\ c2h \in Seq(Frames)
          BY <2>5 DEF ServeRegister, Served, TInv, WireOK
        <5>2. Head(c2h) = c2h[1] /\ 1 \in 1..Len(c2h)
          BY <5>1, Elements
        <5> QED BY <5>1, <5>2 DEF RegOK
      <4> QED BY <1>0, <3>1, <4>1 DEF HelpOK
    <3> QED BY <1>0, <2>1, <2>2, <2>3, <3>2, <3>3 DEF HelpOK, States
  <2> QED BY <2>4, <2>5
<1>4. CASE WallActs
  <2>1. UNCHANGED <<truth, last>>
    BY <1>4, WallFrame
  <2>2. hend' \in {hend, "leaving", "exited", "killed"}
    BY <1>4 DEF WallActs, ServeConfigure, ServeOpen, ServeClose, ServeShutdown, Quit, InterceptorDies,
         Kill, ForeignOpens, Leave, Continue, helperVars
  <2>3. hstate' \in {hstate, "Configured", "InterceptorOpen", "Exited", "ShuttingDown"}
    BY <1>4 DEF WallActs, ServeConfigure, ServeOpen, ServeClose, ServeShutdown, Quit, InterceptorDies,
         Kill, ForeignOpens, helperVars
  <2>4. visit' \subseteq visit /\ reg' \subseteq reg
    BY <1>4 DEF WallActs, ServeConfigure, ServeOpen, ServeClose, ServeShutdown, Quit, InterceptorDies,
         Kill, ForeignOpens, Leave, Continue, helperVars
  <2>5. icpt' \in {icpt, "none", "open", "dead"}
    BY <1>4 DEF WallActs, ServeConfigure, ServeOpen, ServeClose, ServeShutdown, Quit, InterceptorDies,
         Kill, ForeignOpens, helperVars
  <2>6. rules' \subseteq Hooks
    BY <1>0, <1>4, RemovalEnds, RecoverEnds DEF WallActs, ServeConfigure, ServeOpen, ServeClose,
         ServeShutdown, Quit, InterceptorDies, Kill, ForeignOpens, Install, Hooks, wallVars, HelpOK
  <2>7. foreign' \subseteq {"dead", "live"}
    BY <1>0, <1>4, RecoverEnds DEF WallActs, ServeConfigure, ServeOpen, ServeClose,
         ServeShutdown, Quit, InterceptorDies, Kill, ForeignOpens, wallVars, HelpOK
  <2> QED BY <1>0, <2>1, <2>2, <2>3, <2>4, <2>5, <2>6, <2>7 DEF HelpOK, States
<1> QED BY <1>1, <1>2, <1>3, <1>4, NextSplits

(***************************************************************************)
(* The base of everything below: types, and what requests are about.       *)
(***************************************************************************)
Base == TInv /\ KindsOK /\ RegOK

LEMMA BaseInit == Init => Base
<1> SUFFICES ASSUME Init PROVE Base
  OBVIOUS
<1>1. TInv
  BY TypesInit
<1>2. KindsOK
  BY DEF Init, KindsOK, Idle
<1>3. Len(c2h) = 1 /\ c2h[1].kind = "Hello"
  BY DEF Init, Frame
<1>4. RegOK
  BY <1>3 DEF Init, RegOK, Idle
<1> QED BY <1>1, <1>2, <1>4 DEF Base

LEMMA BaseStep ==
  ASSUME Base, [Next]_vars
  PROVE  Base'
<1>1. CASE Next
  BY <1>1, ReqTypes, MapTypes, PlaneTypes, WireTypes, HelpTypes, KindsStep, RegStep DEF Base, TInv
<1>2. CASE UNCHANGED vars
  <2>1. /\ UNCHANGED <<scn, disc, pending, flows, flowIds, entry, req, task, key, bound, held, session>>
        /\ UNCHANGED <<steps, rebuilt, c2h, h2c, hstate, hend, visit, reg, truth, last, icpt, rules, foreign>>
    BY <1>2 DEF vars, clientVars, taskVars, planeVars, helperVars, wallVars
  <2> QED BY <2>1 DEF Base, TInv, ReqOK, PendingOK, MapsOK, TasksOK, PlaneOK, WireOK, HelpOK,
               KindsOK, RegOK
<1> QED BY <1>1, <1>2

LEMMA BaseHolds == Spec => []Base
BY BaseInit, BaseStep, PTL DEF Spec

(***************************************************************************)
(* The firewall rules.                                                     *)
(***************************************************************************)
WallInv ==
  /\ RulesFollowInterceptor /\ StaleRulesGone
  /\ hstate \in {"Configured", "InterceptorOpen"} => "dead" \notin foreign
  /\ hend = "alive" /\ icpt = "none" => rules = {}

LEMMA WallInit == Init => WallInv
BY DEF Init, WallInv, RulesFollowInterceptor, StaleRulesGone

LEMMA LoopEnds ==
  ASSUME LoopActs
  PROVE  /\ hend = "alive" /\ hend' \in {"alive", "leaving"} /\ UNCHANGED <<wallVars, icpt>>
         /\ hstate' \in {hstate, "Authenticated"}
<1>1. hend = "alive" /\ hend' \in {hend, "leaving"} /\ hstate' \in {hstate, "Authenticated"}
  BY DEF LoopActs, LoopTop, PollAgain, Disconnected, Reject, Starve, ServeHello, ServeRegister,
         ServeRemove, ServeTtl, PublishProgress, Served, Alive, Leave, Continue
<1> QED BY <1>1, LoopFrame

LEMMA WallStep ==
  ASSUME Base, WallInv, [Next]_vars
  PROVE  WallInv'
<1> USE DEF WallInv, RulesFollowInterceptor, StaleRulesGone
<1>1. CASE ClientStep \/ ClientExit
  BY <1>1, ClientKeepsHelper DEF helperVars, wallVars
<1>2. CASE ObserveActs
  BY <1>2, ObserveFrame DEF wallVars
<1>3. CASE LoopActs
  BY <1>3, LoopEnds DEF wallVars
<1>4. CASE ServeConfigure
  <2>1. PICK ok \in BOOLEAN : /\ Recover(ok)
                             /\ IF ok THEN hstate' = "Configured" /\ Continue
                                ELSE Leave("unconfigured", <<>>) /\ UNCHANGED hstate
    BY <1>4 DEF ServeConfigure
  <2>2. /\ rules' \subseteq rules /\ foreign' \subseteq foreign /\ (damaged => damaged')
        /\ ok => foreign' = {}
    BY <2>1, RecoverEnds
  <2>3. hend = "alive" /\ hend' \in {"alive", "leaving"} /\ icpt' = icpt
    BY <1>4, <2>1 DEF ServeConfigure, Served, Alive, Continue, Leave
  <2> QED BY <2>1, <2>2, <2>3
<1>5. CASE ServeOpen
  <2>1. hstate = "Configured" /\ hend = "alive" /\ foreign' = foreign
    BY <1>5 DEF ServeOpen, Accepts, Served, Alive
  <2>2. PICK ok \in BOOLEAN : /\ Install(ok)
                             /\ IF ok THEN hstate' = "InterceptorOpen" /\ icpt' = "open" /\ Continue
                                ELSE Leave("unopened", <<>>) /\ UNCHANGED <<hstate, icpt>>
    BY <1>5 DEF ServeOpen
  <2>3. CASE ok
    BY <2>1, <2>2, <2>3 DEF Continue
  <2>4. CASE ~ok
    <3>1. damaged' = TRUE /\ hend' = "leaving" /\ UNCHANGED <<hstate, icpt>>
      BY <2>2, <2>4 DEF Install, Leave
    <3> QED BY <2>1, <3>1
  <2> QED BY <2>3, <2>4
<1>6. CASE ServeClose
  <2>1. /\ hstate \in {"Configured", "InterceptorOpen"} /\ hend = "alive" /\ foreign' = foreign
        /\ icpt' = "none"
    BY <1>6 DEF ServeClose, Accepts, Served, Alive
  <2>2. PICK ok \in BOOLEAN : /\ IF icpt = "open" THEN Removal(ok)
                                ELSE ok = (icpt = "none") /\ UNCHANGED <<rules, damaged>>
                             /\ IF ok THEN hstate' = "Configured" /\ Continue
                                ELSE Leave("unclosed", <<>>) /\ UNCHANGED hstate
    BY <1>6 DEF ServeClose
  <2>3. hstate' \in {"Configured", "InterceptorOpen"}
    BY <2>1, <2>2
  <2>4. CASE icpt = "open"
    <3>1. /\ ok => rules' = {}
          /\ rules' # {} => damaged'
      BY <2>2, <2>4, RemovalEnds
    <3> QED BY <2>1, <2>2, <2>3, <3>1 DEF Continue, Leave
  <2>5. CASE icpt # "open"
    BY <2>1, <2>2, <2>3, <2>5 DEF Continue, Leave
  <2> QED BY <2>4, <2>5
<1>7. CASE ServeShutdown
  <2>1. hend = "alive" /\ foreign' = foreign /\ icpt' = "none" /\ hend' = "leaving"
    BY <1>7 DEF ServeShutdown, Served, Alive, Leave
  <2>2. PICK ok \in BOOLEAN : /\ IF icpt = "open" THEN Removal(ok)
                                ELSE ok = (icpt = "none") /\ UNCHANGED <<rules, damaged>>
                             /\ hstate' = IF ok THEN "Exited" ELSE "ShuttingDown"
    BY <1>7 DEF ServeShutdown
  <2>3. CASE icpt = "open"
    <3>1. rules' # {} => damaged'
      BY <2>2, <2>3, RemovalEnds
    <3> QED BY <2>1, <2>2, <3>1
  <2>4. CASE icpt # "open"
    BY <2>1, <2>2, <2>4
  <2> QED BY <2>3, <2>4
<1>8. CASE Quit
  <2>1. hend = "leaving" /\ hend' = "exited" /\ icpt' = "none" /\ UNCHANGED <<foreign, hstate>>
    BY <1>8 DEF Quit
  <2>2. CASE icpt = "open"
    <3>1. rules' # {} => damaged'
      BY <1>8, <2>2, RemovalEnds DEF Quit
    <3> QED BY <2>1, <3>1
  <2>3. CASE icpt # "open"
    <3>1. UNCHANGED <<rules, damaged>>
      BY <1>8, <2>3 DEF Quit
    <3> QED BY <2>1, <2>3, <3>1
  <2> QED BY <2>2, <2>3
<1>9. CASE InterceptorDies
  <2>1. icpt' = "dead" /\ UNCHANGED <<foreign, hstate, hend>>
    BY <1>9 DEF InterceptorDies
  <2>2. rules' # {} => damaged'
    BY <1>9, RemovalEnds DEF InterceptorDies
  <2> QED BY <2>1, <2>2
<1>10. CASE Kill
  BY <1>10 DEF Kill, wallVars
<1>11. CASE ForeignOpens
  BY <1>11 DEF ForeignOpens, helperVars
<1>12. CASE UNCHANGED vars
  BY <1>12 DEF vars, helperVars, wallVars
<1> QED BY <1>1, <1>2, <1>3, <1>4, <1>5, <1>6, <1>7, <1>8, <1>9, <1>10, <1>11, <1>12, NextSplits
        DEF WallActs

LEMMA WallHolds == Spec => []WallInv
BY WallInit, WallStep, BaseHolds, PTL DEF Spec

(***************************************************************************)
(* A confirmed stop.  A ShutdownComplete is written only when nothing is   *)
(* left behind, and from then on nothing can be left behind; the plane     *)
(* takes an answer for the confirmation only when it asked for it last.    *)
(***************************************************************************)
Confirmed == hend # "alive" /\ rules = {} /\ icpt = "none"

AnswersInv ==
  /\ \A i \in 1..Len(h2c) : h2c[i].kind = "ShutdownComplete" => Confirmed
  /\ \A a \in Actors : req[a].answer = "ShutdownComplete" => Confirmed

StepsInv ==
  /\ session = "stop" => steps \in {StopSteps, <<"Shutdown">>, <<>>}
  /\ session \in {"connecting", "boot", "up", "stopped", "failed"} => steps = <<>>
  /\ session # "failed" /\ steps = <<>> => req[Plane].pc = "none"
  /\ steps # <<>> /\ req[Plane].pc # "none" => req[Plane].kind = Head(steps)
  /\ session = "stopped" \/ (session = "stop" /\ steps = <<>>) => Confirmed

StopInv == AnswersInv /\ StepsInv

LEMMA StopInit == Init => StopInv
<1> SUFFICES ASSUME Init PROVE StopInv
  OBVIOUS
<1>1. Len(h2c) = 0
  BY DEF Init
<1>2. AnswersInv
  BY <1>1 DEF Init, AnswersInv, Idle
<1>3. StepsInv
  BY DEF Init, StepsInv, Idle, Actors
<1> QED BY <1>2, <1>3 DEF StopInv

LEMMA ConfirmedStays ==
  ASSUME Confirmed, [Next]_vars
  PROVE  Confirmed'
<1>1. CASE ClientStep \/ ClientExit \/ ObserveActs \/ UNCHANGED vars
  BY <1>1, ClientKeepsHelper, ObserveFrame DEF vars, helperVars, wallVars, Confirmed
<1>2. CASE LoopActs
  BY <1>2, LoopEnds DEF Confirmed
<1>3. CASE WallActs
  BY <1>3 DEF WallActs, ServeConfigure, ServeOpen, ServeClose, ServeShutdown, Served, Alive, Quit,
       InterceptorDies, Kill, ForeignOpens, helperVars, wallVars, Confirmed
<1> QED BY <1>1, <1>2, <1>3, NextSplits

LEMMA ShutdownConfirms ==
  ASSUME WallInv, ServeShutdown, h2c' # h2c, Base
  PROVE  Confirmed'
<1>1. hend' = "leaving" /\ icpt' = "none" /\ hend = "alive"
  BY DEF ServeShutdown, Served, Alive, Leave
<1>2. PICK ok \in BOOLEAN : /\ IF icpt = "open" THEN Removal(ok)
                              ELSE ok = (icpt = "none") /\ UNCHANGED <<rules, damaged>>
                           /\ Leave("left", IF ok THEN <<Reply(Head(c2h))>> ELSE <<>>)
  BY DEF ServeShutdown
<1>3. ok
  BY <1>2, LeaveSilent DEF Base
<1>4. CASE icpt = "open"
  BY <1>1, <1>2, <1>3, <1>4, RemovalEnds DEF Confirmed
<1>5. CASE icpt # "open"
  BY <1>1, <1>2, <1>3, <1>5 DEF Confirmed, WallInv
<1> QED BY <1>4, <1>5

\* A shutdown is confirmed, and a configuration, only where it is served.
LEMMA OnlyServed ==
  ASSUME Base, LoopActs \/ WallActs, NEW k \in {"Shutdown", "ConfigureInterceptor"},
         ~(k = "Shutdown" /\ ServeShutdown), ~(k = "ConfigureInterceptor" /\ ServeConfigure)
  PROVE  \/ h2c' = h2c
         \/ \E e \in Frames : h2c' = Append(h2c, e) /\ e.kind # AnswerTo(k)
<1>0. AnswerTo(k) \notin {"HelperFatal", "FlowProgress"}
  BY DEF AnswerTo
<1>1. Writes
  BY HelperWrites DEF Base
<1>2. ASSUME Takes, h2c' = Append(h2c, Reply(Head(c2h)))
      PROVE  \E e \in Frames : h2c' = Append(h2c, e) /\ e.kind # AnswerTo(k)
  <2>1. Reply(Head(c2h)) \in Frames
    BY <1>2, HeadTyped, ReplyTyped DEF Takes, Base
  <2>2. CASE Head(c2h).kind = k
    <3>1. \/ LoopTop \/ PollAgain \/ Disconnected \/ Reject \/ Starve
          \/ \E t \in Tasks : PublishProgress(t)
          \/ Quit \/ InterceptorDies \/ Kill \/ ForeignOpens
      BY <2>2 DEF LoopActs, WallActs, ServeHello, ServeRegister, ServeRemove, ServeTtl,
           ServeConfigure, ServeOpen, ServeClose, ServeShutdown, Served
    <3>2. Len(c2h') = Len(c2h) - 1 /\ Len(c2h) \in Nat
      BY <1>2, Elements DEF Takes, Base, TInv, WireOK
    <3>3. c2h' # c2h
      BY <3>2
    <3>4. Reject
      BY <3>1, <3>3 DEF LoopTop, PollAgain, Disconnected, Starve, PublishProgress, Quit,
           InterceptorDies, Kill, ForeignOpens
    <3>5. Head(c2h).id \in Ids
      BY <1>2, HeadTyped DEF Takes, Base
    <3>6. h2c' = Append(h2c, Fatal(Head(c2h).id))
      BY <3>4, <3>5, LeaveWrites, FatalTyped DEF Reject, Base
    <3>7. Fatal(Head(c2h).id) \in Frames /\ Fatal(Head(c2h).id).kind = "HelperFatal"
      BY <3>5, FatalTyped
    <3> QED BY <1>0, <3>6, <3>7
  <2>3. CASE Head(c2h).kind # k
    <3>1. Reply(Head(c2h)).kind # AnswerTo(k)
      <4>1. Reply(Head(c2h)).kind = AnswerTo(Head(c2h).kind)
        BY DEF Reply, Frame
      <4>2. \A r \in Requests : r # k => AnswerTo(r) # AnswerTo(k)
        BY DEF Requests, AnswerTo
      <4> QED BY <1>2, <2>3, <4>1, <4>2 DEF Takes
    <3> QED BY <1>2, <2>1, <3>1
  <2> QED BY <2>2, <2>3
<1>3. ASSUME NEW t \in Tasks, h2c' = Append(h2c, Frame("FlowProgress", NoRequest, t, truth[t]))
      PROVE  \E e \in Frames : h2c' = Append(h2c, e) /\ e.kind # AnswerTo(k)
  <2>1. truth[t] \in Progresses /\ "FlowProgress" \in FrameKinds
    BY DEF Base, TInv, HelpOK, FrameKinds
  <2>2. Frame("FlowProgress", NoRequest, t, truth[t]) \in Frames
    BY <2>1, FrameTyped, NoRequestTyped
  <2>3. Frame("FlowProgress", NoRequest, t, truth[t]).kind # AnswerTo(k)
    BY <1>0 DEF Frame
  <2> QED BY <1>3, <2>2, <2>3
<1>4. ASSUME NEW i \in Ids, h2c' = Append(h2c, Fatal(i))
      PROVE  \E e \in Frames : h2c' = Append(h2c, e) /\ e.kind # AnswerTo(k)
  BY <1>0, <1>4, FatalTyped
<1> QED BY <1>1, <1>2, <1>3, <1>4 DEF Writes

LEMMA AnswersStep ==
  ASSUME Base, WallInv, AnswersInv, [Next]_vars
  PROVE  AnswersInv'
<1>0. Confirmed => Confirmed'
  BY ConfirmedStays
<1>w. h2c \in Seq(Frames) /\ req \in [Actors -> Req]
  BY DEF Base, TInv, WireOK, ReqOK
<1>1. \A i \in 1..Len(h2c') : h2c'[i].kind = "ShutdownComplete" => Confirmed'
  <2>1. CASE h2c' = h2c
    BY <1>0, <2>1 DEF AnswersInv
  <2>2. CASE h2c # <<>> /\ h2c' = Tail(h2c)
    <3>1. /\ Len(h2c') = Len(h2c) - 1 /\ Len(h2c) \in Nat
          /\ \A i \in 1..Len(h2c') : h2c'[i] = h2c[i + 1]
      BY <1>w, <2>2, Elements
    <3>2. \A i \in 1..Len(h2c') : i + 1 \in 1..Len(h2c)
      BY <3>1
    <3> QED BY <1>0, <3>1, <3>2 DEF AnswersInv
  <2>3. ASSUME NEW e \in Frames, h2c' = Append(h2c, e), e.kind # "ShutdownComplete"
        PROVE  \A i \in 1..Len(h2c') : h2c'[i].kind = "ShutdownComplete" => Confirmed'
    <3>1. /\ Len(h2c') = Len(h2c) + 1 /\ h2c'[Len(h2c) + 1] = e /\ Len(h2c) \in Nat
          /\ \A i \in 1..Len(h2c) : h2c'[i] = h2c[i]
      BY <1>w, <2>3, Elements
    <3>2. \A i \in 1..Len(h2c') : i \in 1..Len(h2c) \/ i = Len(h2c) + 1
      BY <3>1
    <3> QED BY <1>0, <2>3, <3>1, <3>2 DEF AnswersInv
  <2>4. CASE ServeShutdown /\ h2c' # h2c
    <3>1. Confirmed'
      BY <2>4, ShutdownConfirms
    <3> QED BY <3>1
  <2>5. CASE (LoopActs \/ WallActs) /\ ~ServeShutdown
    <3>1. AnswerTo("Shutdown") = "ShutdownComplete"
      BY DEF AnswerTo
    <3> QED BY <2>1, <2>3, <2>5, <3>1, OnlyServed
  <2>6. CASE ClientStep \/ ClientExit
    <3>1. CASE HandleFrame
      BY <2>2, <3>1 DEF HandleFrame
    <3>2. CASE Welcome
      BY <2>1, <2>2, <3>2 DEF Welcome
    <3>3. CASE LinkStep /\ ~HandleFrame
      BY <2>1, <3>3 DEF LinkStep, LoseLink, DrainPending, SweepFlows
    <3>4. CASE PlaneActs /\ ~Welcome
      BY <2>1, <3>4 DEF PlaneActs, PlaneStep, Start, PlaneAsks, PlaneResets, PlaneAnswered,
                  PlaneFailed, PlaneDone, SessionFatal, Rebuild, CloseForReload, Stop
    <3>5. CASE RequestStep \/ TaskActs \/ ClientExit
      BY <2>1, <3>5, RequestFrame, TaskFrame, ExitFrame
    <3> QED BY <2>6, <3>1, <3>2, <3>3, <3>4, <3>5, ClientSplits
  <2>7. CASE ObserveActs \/ UNCHANGED vars
    BY <2>1, <2>7, ObserveFrame DEF vars
  <2> QED BY <2>1, <2>4, <2>5, <2>6, <2>7, NextSplits DEF WallActs
<1>2. ASSUME NEW a \in Actors, req'[a].answer = "ShutdownComplete" PROVE Confirmed'
  <2>1. CASE req'[a].answer = req[a].answer
    BY <1>0, <1>2, <2>1 DEF AnswersInv
  <2>2. CASE HandleFrame
    <3> DEFINE f == Head(h2c)
    <3>1. \/ req' = req
          \/ req' = [b \in Actors |-> IF Answers(b, f)
                               THEN [req[b] EXCEPT !.pc = "ok", !.answer = f.kind] ELSE req[b]]
      BY <2>2 DEF HandleFrame
    <3>0. h2c # <<>>
      BY <2>2 DEF HandleFrame
    <3>2. f = h2c[1] /\ 1 \in 1..Len(h2c)
      BY <1>w, <3>0, Elements
    <3> HIDE DEF f
    <3>3. req'[a] = req[a] \/ req'[a] = [req[a] EXCEPT !.pc = "ok", !.answer = f.kind]
      BY <3>1
    <3>4. CASE req'[a] = [req[a] EXCEPT !.pc = "ok", !.answer = f.kind]
      <4>1. f.kind = "ShutdownComplete"
        BY <1>2, <1>w, <3>4 DEF Req
      <4> QED BY <1>0, <3>2, <4>1 DEF AnswersInv
    <3> QED BY <2>1, <3>3, <3>4
  <2>3. CASE DrainPending
    BY <1>w, <2>1, <2>3 DEF DrainPending, Req
  <2>4. CASE RequestStep
    <3>1. PICK b \in Actors : CheckLink(b) \/ Submit(b) \/ TimeOut(b)
      BY <2>4 DEF RequestStep
    <3>2. CASE CheckLink(b)
      BY <1>w, <2>1, <3>2 DEF CheckLink, Req
    <3>3. CASE Submit(b)
      <4>1. req' = [req EXCEPT ![b].pc = "wait"] \/ req' = [req EXCEPT ![b].pc = "err"]
        BY <3>3 DEF Submit
      <4>2. req[a] \in Req /\ req \in [Actors -> Req]
        BY <1>w
      <4>3. \/ req'[a] = req[a] \/ req'[a] = [req[a] EXCEPT !.pc = "wait"]
            \/ req'[a] = [req[a] EXCEPT !.pc = "err"]
        BY <4>1, <4>2
      <4>4. req'[a].answer = req[a].answer
        BY <4>2, <4>3 DEF Req
      <4> QED BY <2>1, <4>4
    <3>4. CASE TimeOut(b)
      BY <1>w, <2>1, <3>4 DEF TimeOut, Req
    <3> QED BY <3>1, <3>2, <3>3, <3>4
  <2>5. ASSUME NEW t \in Tasks, MapKey(t) \/ Registered(t) \/ Abort(t) PROVE Confirmed'
    <3>1. t \in Actors /\ "RegisterFlow" \in Requests /\ ReqOK
      BY <1>w DEF Actors, Requests, ReqOK
    <3>2. \/ req' = [req EXCEPT ![t] = Done(t)]
          \/ req' = [req EXCEPT ![t] = Asking(t, "RegisterFlow", t)]
      BY <2>5 DEF MapKey, Registered, Abort
    <3> QED BY <1>2, <1>w, <2>1, <3>1, <3>2, DoneTyped, AskingTyped
  <2>6. CASE PlaneAsks
    <3>1. Plane \in Actors /\ Head(steps) \in Requests /\ ReqOK
      BY <1>w, <2>6, Elements DEF PlaneAsks, Base, TInv, PlaneOK, PlaneKinds, Requests, Actors
    <3>2. req' = [req EXCEPT ![Plane] = Asking(Plane, Head(steps), NoFlow)]
      BY <2>6 DEF PlaneAsks
    <3> QED BY <1>2, <1>w, <2>1, <3>1, <3>2, AskingTyped
  <2>7. CASE PlaneAnswered \/ PlaneFailed
    <3>1. Plane \in Actors /\ req' = [req EXCEPT ![Plane] = Done(Plane)] /\ ReqOK
      BY <1>w, <2>7 DEF PlaneAnswered, PlaneFailed, Actors, ReqOK
    <3> QED BY <1>2, <1>w, <2>1, <3>1, DoneTyped
  <2>8. CASE Next /\ ~ReqActs
    BY <2>1, <2>8, ReqFrame
  <2>9. CASE UNCHANGED vars
    BY <2>1, <2>9 DEF vars, clientVars
  <2> QED BY <2>2, <2>3, <2>4, <2>5, <2>6, <2>7, <2>8, <2>9 DEF ReqActs
<1> QED BY <1>1, <1>2 DEF AnswersInv

LEMMA StepsTails ==
  /\ Head(StopSteps) = "CloseInterceptor" /\ Tail(StopSteps) = <<"Shutdown">> /\ StopSteps # <<>>
  /\ Head(<<"Shutdown">>) = "Shutdown" /\ Tail(<<"Shutdown">>) = <<>> /\ <<"Shutdown">> # <<>>
BY DEF StopSteps

LEMMA StepsStep ==
  ASSUME Base, AnswersInv, StepsInv, [Next]_vars
  PROVE  StepsInv'
<1>0. Confirmed => Confirmed'
  BY ConfirmedStays
<1>w. /\ req \in [Actors -> Req] /\ Plane \in Actors /\ steps \in Seq(PlaneKinds \cup {"Reset"})
      /\ ReqOK
  BY DEF Base, TInv, ReqOK, PlaneOK, Actors
<1>1. ASSUME UNCHANGED <<session, steps>>,
             req'[Plane].pc = "none" <=> req[Plane].pc = "none", req'[Plane].kind = req[Plane].kind
      PROVE  StepsInv'
  BY <1>0, <1>1 DEF StepsInv
<1>2. CASE UNCHANGED vars
  BY <1>1, <1>2 DEF vars, planeVars, clientVars
<1>3. CASE WallActs \/ LoopActs \/ ObserveActs
  <2>1. UNCHANGED <<session, steps, req>>
    BY <1>3, WallFrame, LoopFrame, ObserveFrame DEF planeVars, clientVars
  <2> QED BY <1>1, <2>1
<1>4. CASE ClientExit
  <2>1. UNCHANGED req /\ steps' = <<>> /\ session' = IF session = "stopped" THEN "stopped" ELSE "failed"
    BY <1>4 DEF ClientExit, clientVars
  <2> QED BY <1>0, <2>1 DEF StepsInv
<1>5. CASE LinkStep
  <2>1. UNCHANGED <<session, steps>>
    BY <1>5, LinkFrame DEF planeVars
  <2>2. CASE HandleFrame
    <3> DEFINE f == Head(h2c)
    <3>1. \/ req' = req
          \/ req' = [b \in Actors |-> IF Answers(b, f)
                               THEN [req[b] EXCEPT !.pc = "ok", !.answer = f.kind] ELSE req[b]]
      BY <2>2 DEF HandleFrame
    <3> HIDE DEF f
    <3>2. \/ req'[Plane] = req[Plane]
          \/ /\ req[Plane].pc = "wait"
             /\ req'[Plane] = [req[Plane] EXCEPT !.pc = "ok", !.answer = f.kind]
      BY <1>w, <3>1 DEF Answers
    <3>3. req[Plane] \in Req
      BY <1>w
    <3> QED BY <1>1, <2>1, <3>2, <3>3 DEF Req
  <2>3. CASE DrainPending
    BY <1>1, <1>w, <2>1, <2>3 DEF DrainPending, Req
  <2>4. CASE LoseLink("reader") \/ LoseLink("heart") \/ SweepFlows
    BY <1>1, <2>1, <2>4 DEF LoseLink, SweepFlows
  <2> QED BY <1>5, <2>2, <2>3, <2>4 DEF LinkStep
<1>6. CASE RequestStep
  <2>1. UNCHANGED <<session, steps>>
    BY <1>6, RequestFrame DEF planeVars
  <2>2. PICK b \in Actors : CheckLink(b) \/ Submit(b) \/ TimeOut(b)
    BY <1>6 DEF RequestStep
  <2>3. CASE CheckLink(b)
    BY <1>1, <1>w, <2>1, <2>3 DEF CheckLink, Req
  <2>4. CASE Submit(b)
    <3>1. req' = [req EXCEPT ![b].pc = "wait"] \/ req' = [req EXCEPT ![b].pc = "err"]
      BY <2>4 DEF Submit
    <3>2. req[b].pc = "submit"
      BY <2>4 DEF Submit
    <3> QED BY <1>1, <1>w, <2>1, <3>1, <3>2 DEF Req
  <2>5. CASE TimeOut(b)
    BY <1>1, <1>w, <2>1, <2>5 DEF TimeOut, Req
  <2> QED BY <2>2, <2>3, <2>4, <2>5
<1>7. CASE TaskActs
  <2>1. UNCHANGED <<session, steps>>
    BY <1>7, TaskFrame DEF planeVars
  <2>2. req'[Plane] = req[Plane]
    <3>2. PICK t \in Tasks : TaskStep(t) \/ EndConnection(t) \/ \E k \in Keys : Begin(t, k)
      BY <1>7 DEF TaskActs
    <3>3. t # Plane
      OBVIOUS
    <3>4. CASE MapKey(t) \/ Registered(t) \/ Abort(t)
      BY <1>w, <3>3, <3>4 DEF MapKey, Registered, Abort
    <3>5. CASE EndConnection(t) \/ DropFlow(t) \/ TakeId(t) \/ \E k \in Keys : Begin(t, k)
      <4>1. req' = req
        BY <3>5 DEF EndConnection, DropFlow, TakeId, Begin, clientVars
      <4> QED BY <4>1
    <3> QED BY <3>2, <3>4, <3>5 DEF TaskStep
  <2> QED BY <1>1, <2>1, <2>2
<1>8. CASE PlaneActs
  <2>1. CASE Welcome
    BY <1>0, <2>1 DEF Welcome, StepsInv, clientVars
  <2>2. CASE Start
    <3>1. StartSteps # <<>>
      <4>1. Len(<<"ConfigureInterceptor", "OpenInterceptor">> \o <<"SetLowTtlValue">>) = 3
        OBVIOUS
      <4>2. Len(<<"ConfigureInterceptor", "OpenInterceptor">> \o <<>>) = 2
        OBVIOUS
      <4> QED BY <4>1, <4>2 DEF StartSteps
    <3> QED BY <1>0, <2>2, <3>1 DEF Start, StepsInv, clientVars
  <2>3. CASE PlaneAsks
    <3>1. Head(steps) \in Requests
      BY <1>w, <2>3, Elements DEF PlaneAsks, PlaneKinds, Requests
    <3>2. req' = [req EXCEPT ![Plane] = Asking(Plane, Head(steps), NoFlow)]
      BY <2>3 DEF PlaneAsks
    <3>3. req'[Plane].kind = Head(steps) /\ req'[Plane].pc = "check"
      BY <1>w, <3>1, <3>2, AskingTyped
    <3>4. UNCHANGED <<session, steps>> /\ steps # <<>>
      BY <2>3 DEF PlaneAsks, planeVars
    <3> QED BY <1>0, <3>3, <3>4 DEF StepsInv
  <2>4. CASE PlaneResets
    <3>1. /\ steps # <<>> /\ Head(steps) = "Reset" /\ steps' = Tail(steps)
          /\ UNCHANGED <<session, req>>
      BY <2>4 DEF PlaneResets
    <3>2. req[Plane].pc = "none"
      <4>1. req[Plane].kind # "Reset"
        BY <1>w DEF Req, Requests
      <4> QED BY <3>1, <4>1 DEF StepsInv
    <3>3. session # "stop"
      BY <3>1, StepsTails DEF StepsInv
    <3> QED BY <1>0, <3>1, <3>2, <3>3 DEF StepsInv
  <2>5. CASE PlaneAnswered
    <3>1. /\ steps # <<>> /\ req[Plane].pc = "ok" /\ req[Plane].answer = AnswerTo(req[Plane].kind)
          /\ req' = [req EXCEPT ![Plane] = Done(Plane)] /\ steps' = Tail(steps) /\ session' = session
      BY <2>5 DEF PlaneAnswered
    <3>2. req'[Plane].pc = "none"
      BY <1>w, <3>1, DoneTyped
    <3>3. session = "stop" => steps' \in {<<"Shutdown">>, <<>>}
      BY <3>1, StepsTails DEF StepsInv
    <3>4. session = "stop" /\ steps' = <<>> => Confirmed
      <4>1. SUFFICES ASSUME session = "stop", steps' = <<>> PROVE Confirmed
        OBVIOUS
      <4>2. steps = <<"Shutdown">>
        BY <3>1, <4>1, StepsTails DEF StepsInv
      <4>3. req[Plane].kind = "Shutdown"
        BY <3>1, <4>2, StepsTails DEF StepsInv
      <4>4. req[Plane].answer = "ShutdownComplete"
        BY <3>1, <4>3 DEF AnswerTo
      <4> QED BY <1>w, <4>4 DEF AnswersInv
    <3>5. session \notin {"connecting", "boot", "up", "stopped", "failed"}
      BY <3>1 DEF StepsInv
    <3> QED BY <1>0, <3>1, <3>2, <3>3, <3>4, <3>5 DEF StepsInv
  <2>6. CASE PlaneFailed
    <3>1. /\ steps' = <<>> /\ session' \in {"up", "failed"}
          /\ req' = [req EXCEPT ![Plane] = Done(Plane)]
      BY <2>6 DEF PlaneFailed
    <3>2. req'[Plane].pc = "none"
      BY <1>w, <3>1, DoneTyped
    <3> QED BY <3>1, <3>2 DEF StepsInv
  <2>7. CASE PlaneDone
    <3>1. /\ steps = <<>> /\ steps' = <<>> /\ UNCHANGED req /\ session # "failed"
          /\ session' \in {"up", "boot", "stopped"}
          /\ session' = "stopped" => session = "stop"
      BY <2>7 DEF PlaneDone, clientVars
    <3> QED BY <1>0, <3>1 DEF StepsInv
  <2>8. CASE SessionFatal
    BY <2>8 DEF SessionFatal, StepsInv
  <2>9. CASE Rebuild \/ CloseForReload \/ Stop
    <3>1. session = "up" /\ UNCHANGED req /\ session' \in {"rebuild", "reload", "stop"}
      BY <2>9 DEF Rebuild, CloseForReload, Stop, clientVars
    <3>2. steps' # <<>> /\ (session' = "stop" => steps' = StopSteps)
      BY <2>9, StepsTails DEF Rebuild, CloseForReload, Stop, RebuildSteps
    <3>3. req[Plane].pc = "none"
      BY <3>1 DEF StepsInv
    <3> QED BY <3>1, <3>2, <3>3 DEF StepsInv
  <2> QED BY <1>8, <2>1, <2>2, <2>3, <2>4, <2>5, <2>6, <2>7, <2>8, <2>9 DEF PlaneActs, PlaneStep
<1> QED BY <1>2, <1>3, <1>4, <1>5, <1>6, <1>7, <1>8, NextSplits, ClientSplits

LEMMA StopHolds == Spec => []StopInv
<1>1. Base /\ WallInv /\ StopInv /\ [Next]_vars => StopInv'
  BY AnswersStep, StepsStep DEF StopInv
<1> QED BY <1>1, StopInit, BaseHolds, WallHolds, PTL DEF Spec

\* A stop that reports success leaves no rule and no interceptor behind,
\* whatever happened before (data_plane.rs shutdown, the helper's Shutdown).
THEOREM StopIsConfirmed == Spec => []StopConfirmed
<1>1. StopInv => StopConfirmed
  BY DEF StopInv, StepsInv, Confirmed, StopConfirmed
<1> QED BY <1>1, StopHolds, PTL

\* Rules outlive the interceptor only when the helper was killed or a command
\* failed, and no interceptor is opened next to the rules of a dead helper.
THEOREM RulesFollow == Spec => [](RulesFollowInterceptor /\ StaleRulesGone)
<1>1. WallInv => RulesFollowInterceptor /\ StaleRulesGone
  BY DEF WallInv
<1> QED BY <1>1, WallHolds, PTL

(***************************************************************************)
(* Flows, from the connection to the interceptor and back.  A registration *)
(* is asked for once; what travels about it stays true while it travels.   *)
(***************************************************************************)
\* A connection whose registration is not on its way yet.
Fresh(t) == task[t] \in {"idle", "mapped"} \/ req[t].pc \in {"check", "submit"}
IsAsk(f, t) == f.kind = "RegisterFlow" /\ f.flow = t

\* The entry and the request of a connection follow its program counter.
EntryInv ==
  \A t \in Tasks :
    /\ task[t] = "idle" <=> entry[t] = "none"
    /\ task[t] = "idle" => t \notin flows
    /\ req[t].pc # "none" => task[t] = "asking"

\* A registration is asked for once, and until it is served the helper knows nothing.
AskInv ==
  /\ \A t \in Tasks : Fresh(t) => truth[t] = "none" /\ \A i \in 1..Len(c2h) : ~IsAsk(c2h[i], t)
  /\ \A i \in 1..Len(c2h) : c2h[i].kind = "RegisterFlow" => truth[c2h[i].flow] = "none"
  /\ \A t \in Tasks : \A i, j \in 1..Len(c2h) :
       IsAsk(c2h[i], t) /\ IsAsk(c2h[j], t) => i = j

\* What a frame may say of a flow the helper has decided so much about.
Says(p, v) ==
  /\ p \in {"ready", "acked", "closed"}
  /\ p = "ready" => v \in {"ready", "acked", "closed"}
  /\ p = "acked" => v = "acked"

\* What the helper reports about a flow is still true of it.
ReportInv ==
  /\ \A i \in 1..Len(h2c) : h2c[i].kind = "FlowRegistered" =>
       \A t \in Tasks, n \in Nat : h2c[i].id = <<t, n>> => truth[t] # "none"
  /\ \A i \in 1..Len(h2c) : h2c[i].kind = "FlowProgress" =>
       h2c[i].flow \in Tasks /\ Says(h2c[i].progress, truth[h2c[i].flow])
  /\ \A t \in Tasks : req[t].pc = "ok" /\ req[t].answer = "FlowRegistered" => truth[t] # "none"

FlowInv == EntryInv /\ AskInv /\ ReportInv

LEMMA FlowInit == Init => FlowInv
<1> SUFFICES ASSUME Init PROVE FlowInv
  OBVIOUS
<1>1. Len(c2h) = 1 /\ c2h[1].kind = "Hello" /\ h2c = <<>>
  BY DEF Init, Frame
<1>2. \A t \in Tasks : /\ task[t] = "idle" /\ entry[t] = "none" /\ truth[t] = "none"
                      /\ req[t].pc = "none" /\ t \notin flows
  BY DEF Init, Idle, Actors
<1>3. EntryInv
  BY <1>2 DEF EntryInv
<1>4. AskInv
  BY <1>1, <1>2 DEF AskInv, IsAsk
<1>5. ReportInv
  BY <1>1, <1>2 DEF ReportInv
<1> QED BY <1>3, <1>4, <1>5 DEF FlowInv

\* How the request of a connection moves, and in which actions.
LEMMA RequestMoves ==
  ASSUME Base, Next, NEW t \in Tasks
  PROVE  \/ req'[t] = req[t]
         \/ /\ req[t].pc = "check" /\ req'[t].pc \in {"submit", "err"}
            /\ req'[t].answer = req[t].answer
         \/ Submit(t) /\ req[t].pc = "submit" /\ req'[t].pc \in {"wait", "err"}
         \/ req[t].pc = "wait" /\ req'[t].pc = "err"
         \/ /\ HandleFrame /\ h2c # <<>> /\ req[t].pc = "wait" /\ req'[t].pc = "ok"
            /\ req'[t].answer = Head(h2c).kind /\ Head(h2c).id = <<t, req[t].n>>
         \/ MapKey(t) /\ req'[t].pc = "check"
         \/ (Registered(t) \/ Abort(t)) /\ req'[t].pc = "none"
<1>0. req \in [Actors -> Req] /\ ReqOK /\ t \in Actors /\ req[t] \in Req
  BY DEF Base, TInv, ReqOK, Actors
<1>1. CASE ~ReqActs
  BY <1>1, ReqFrame
<1>2. ASSUME NEW a \in Actors, CheckLink(a) \/ TimeOut(a)
      PROVE  \/ req'[t] = req[t]
             \/ /\ req[t].pc = "check" /\ req'[t].pc \in {"submit", "err"}
                /\ req'[t].answer = req[t].answer
             \/ req[t].pc = "wait" /\ req'[t].pc = "err"
  BY <1>0, <1>2 DEF CheckLink, TimeOut, Req
<1>3. ASSUME NEW a \in Actors, Submit(a)
      PROVE  \/ req'[t] = req[t]
             \/ Submit(t) /\ req[t].pc = "submit" /\ req'[t].pc \in {"wait", "err"}
  <2>1. /\ req[a].pc = "submit"
        /\ req' = [req EXCEPT ![a].pc = "wait"] \/ req' = [req EXCEPT ![a].pc = "err"]
    BY <1>3 DEF Submit
  <2>2. CASE a = t
    BY <1>0, <1>3, <2>1, <2>2 DEF Req
  <2>3. CASE a # t
    BY <1>0, <2>1, <2>3
  <2> QED BY <2>2, <2>3
<1>4. CASE HandleFrame
  <2> DEFINE f == Head(h2c)
  <2>1. h2c # <<>>
    BY <1>4 DEF HandleFrame
  <2>2. \/ req' = req
        \/ req' = [a \in Actors |-> IF Answers(a, f)
                             THEN [req[a] EXCEPT !.pc = "ok", !.answer = f.kind] ELSE req[a]]
    BY <1>4 DEF HandleFrame
  <2> HIDE DEF f
  <2>3. \/ req'[t] = req[t]
        \/ Answers(t, f) /\ req'[t] = [req[t] EXCEPT !.pc = "ok", !.answer = f.kind]
    BY <1>0, <2>2
  <2>4. Answers(t, f) => req[t].pc = "wait" /\ f.id = <<t, req[t].n>>
    BY DEF Answers, Id
  <2> QED BY <1>0, <1>4, <2>1, <2>3, <2>4 DEF Req, f
<1>5. CASE DrainPending
  BY <1>0, <1>5 DEF DrainPending, Req
<1>6. ASSUME NEW u \in Tasks, MapKey(u)
      PROVE  req'[t] = req[t] \/ (MapKey(t) /\ req'[t].pc = "check")
  <2>1. req' = [req EXCEPT ![u] = Asking(u, "RegisterFlow", u)] /\ "RegisterFlow" \in Requests
    BY <1>6 DEF MapKey, Requests
  <2>2. u \in Actors /\ u \in Tasks \cup {NoFlow}
    BY DEF Actors
  <2> QED BY <1>0, <1>6, <2>1, <2>2, AskingTyped
<1>7. ASSUME NEW u \in Tasks, Registered(u) \/ Abort(u)
      PROVE  req'[t] = req[t] \/ ((Registered(t) \/ Abort(t)) /\ req'[t].pc = "none")
  <2>1. req' = [req EXCEPT ![u] = Done(u)] /\ u \in Actors
    BY <1>7 DEF Registered, Abort, Actors
  <2> QED BY <1>0, <1>7, <2>1, DoneTyped
<1>8. CASE PlaneAsks \/ PlaneAnswered \/ PlaneFailed
  <2>1. t # Plane
    OBVIOUS
  <2> QED BY <1>0, <1>8, <2>1 DEF PlaneAsks, PlaneAnswered, PlaneFailed
<1> QED BY <1>1, <1>2, <1>3, <1>4, <1>5, <1>6, <1>7, <1>8 DEF ReqActs, RequestStep

\* What the interceptor decided only moves forward, from the one registration on.
LEMMA TruthMoves ==
  ASSUME Base, AskInv, [Next]_vars, NEW t \in Tasks
  PROVE  \/ truth'[t] = truth[t]
         \/ truth[t] = "none" /\ truth'[t] = "waiting" /\ Takes /\ IsAsk(Head(c2h), t)
         \/ truth[t] = "waiting" /\ truth'[t] \in {"ready", "acked", "closed"}
         \/ truth[t] = "ready" /\ truth'[t] \in {"acked", "closed"}
<1>0. truth \in [Tasks -> Progresses] /\ c2h \in Seq(Frames)
  BY DEF Base, TInv, HelpOK, WireOK
<1>1. CASE ClientStep \/ ClientExit
  BY <1>1, ClientKeepsHelper DEF helperVars
<1>2. CASE WallActs
  BY <1>2, WallFrame
<1>3. CASE ObserveActs
  <2>1. PICK u \in Tasks, p \in {"ready", "acked", "closed"} : Observe(u, p)
    BY <1>3 DEF ObserveActs
  <2>2. /\ truth' = [truth EXCEPT ![u] = p]
        /\ truth[u] = "waiting" \/ (truth[u] = "ready" /\ p \in {"acked", "closed"})
    BY <2>1 DEF Observe, Decided
  <2> QED BY <1>0, <2>2
<1>4. CASE ServeRegister
  <2> DEFINE u == Head(c2h).flow
  <2>1. Takes /\ Head(c2h).kind = "RegisterFlow"
    BY <1>4 DEF ServeRegister, Served, Takes, Requests
  <2>2. truth' = truth \/ truth' = [truth EXCEPT ![u] = "waiting"]
    BY <1>4 DEF ServeRegister
  <2>3. Head(c2h) = c2h[1] /\ 1 \in 1..Len(c2h)
    BY <1>0, <2>1, Elements DEF Takes
  <2>4. truth[u] = "none"
    BY <2>1, <2>3 DEF AskInv
  <2>5. u = t => IsAsk(Head(c2h), t)
    BY <2>1 DEF IsAsk
  <2> HIDE DEF u
  <2> QED BY <1>0, <2>1, <2>2, <2>4, <2>5
<1>5. CASE LoopActs /\ ~ServeRegister
  <2>1. UNCHANGED truth
    BY <1>5 DEF LoopActs, LoopTop, PollAgain, Disconnected, Reject, Starve, ServeHello, ServeRemove,
                ServeTtl, PublishProgress
  <2> QED BY <2>1
<1>6. CASE UNCHANGED vars
  BY <1>6 DEF vars, helperVars
<1> QED BY <1>1, <1>2, <1>3, <1>4, <1>5, <1>6, NextSplits

\* A connection that is fresh after a step was fresh before it.
LEMMA FreshMoves ==
  ASSUME Base, EntryInv, Next, NEW t \in Tasks, Fresh(t)'
  PROVE  Fresh(t) /\ ~(Submit(t) /\ req'[t].pc = "wait")
<1>0. task \in [Tasks -> TaskPcs]
  BY DEF Base, TInv, TasksOK
<1>1. task'[t] \in {"idle", "mapped"} => task[t] \in {"idle", "mapped"}
  <2>1. CASE ~TaskActs
    <3>1. task' = task
      <4>1. CASE HandleFrame \/ SweepFlows
        BY <4>1, LinkFrame DEF LinkStep, taskVars
      <4>2. CASE PlaneResets
        BY <4>2, PlaneFrame DEF PlaneActs, PlaneStep, taskVars
      <4>3. CASE ~MapActs
        BY <4>3, MapFrame DEF taskVars
      <4> QED BY <2>1, <4>1, <4>2, <4>3 DEF MapActs
    <3> QED BY <3>1
  <2>2. ASSUME NEW u \in Tasks, TaskStep(u) \/ EndConnection(u) \/ \E k \in Keys : Begin(u, k)
        PROVE  task'[t] \in {"idle", "mapped"} => task[t] \in {"idle", "mapped"}
    <3>1. CASE \E k \in Keys : Begin(u, k)
      BY <1>0, <3>1 DEF Begin
    <3>2. CASE MapKey(u) \/ Registered(u) \/ Abort(u) \/ EndConnection(u) \/ DropFlow(u)
      BY <1>0, <3>2 DEF MapKey, Registered, Abort, EndConnection, DropFlow
    <3>3. CASE TakeId(u)
      BY <1>0, <3>3 DEF TakeId
    <3> QED BY <2>2, <3>1, <3>2, <3>3 DEF TaskStep
  <2> QED BY <2>1, <2>2 DEF TaskActs
<1>2. req'[t].pc \in {"check", "submit"} => req[t].pc \in {"check", "submit"} \/ task[t] = "mapped"
  BY RequestMoves DEF MapKey
<1>3. Submit(t) => task[t] = "asking" /\ task' = task
  BY DEF Submit, EntryInv, taskVars
<1> QED BY <1>1, <1>2, <1>3 DEF Fresh

\* What a step does to the frames on their way to the helper.
LEMMA RequestsMove ==
  ASSUME Base, Next
  PROVE  \/ c2h' = c2h
         \/ /\ c2h # <<>> /\ Len(c2h') = Len(c2h) - 1
            /\ \A i \in 1..Len(c2h') : i + 1 \in 1..Len(c2h) /\ c2h'[i] = c2h[i + 1]
         \/ /\ truth' = truth /\ Len(c2h') = Len(c2h) + 1
            /\ \A i \in 1..Len(c2h) : c2h'[i] = c2h[i]
            /\ c2h'[Len(c2h) + 1].kind = "RegisterFlow" =>
                 \E a \in Tasks : Submit(a) /\ req'[a].pc = "wait" /\ c2h'[Len(c2h) + 1].flow = a
<1>0. c2h \in Seq(Frames) /\ TInv /\ KindsOK /\ RegOK
  BY DEF Base, TInv, WireOK
<1>1. CASE WallActs \/ LoopActs \/ ObserveActs
  <2>1. c2h' = c2h \/ Takes
    BY <1>0, <1>1, HelperWrites, ObserveFrame
  <2>2. CASE Takes
    <3>1. /\ c2h # <<>> /\ Len(c2h') = Len(c2h) - 1 /\ Len(c2h) \in Nat
          /\ \A i \in 1..Len(c2h') : c2h'[i] = c2h[i + 1]
      BY <1>0, <2>2, Elements DEF Takes
    <3>2. \A i \in 1..Len(c2h') : i + 1 \in 1..Len(c2h)
      BY <3>1
    <3> QED BY <3>1, <3>2
  <2> QED BY <2>1, <2>2
<1>2. CASE ClientStep \/ ClientExit
  <2>1. truth' = truth /\ Sends
    BY <1>2, ClientKeepsHelper, ClientSends DEF helperVars
  <2>2. ASSUME NEW e \in Frames, c2h' = Append(c2h, e)
        PROVE  /\ Len(c2h') = Len(c2h) + 1 /\ c2h'[Len(c2h) + 1] = e
               /\ \A i \in 1..Len(c2h) : c2h'[i] = c2h[i]
    BY <1>0, <2>2, Elements
  <2>3. ASSUME NEW a \in Actors, Submit(a),
               c2h' = Append(c2h, Frame(req[a].kind, Id(a), req[a].flow, "none"))
        PROVE  /\ Len(c2h') = Len(c2h) + 1
               /\ \A i \in 1..Len(c2h) : c2h'[i] = c2h[i]
               /\ c2h'[Len(c2h) + 1].kind = "RegisterFlow" =>
                 \E b \in Tasks : Submit(b) /\ req'[b].pc = "wait" /\ c2h'[Len(c2h) + 1].flow = b
    <3> DEFINE e == Frame(req[a].kind, Id(a), req[a].flow, "none")
    <3>1. req[a].kind \in Requests /\ req[a] \in Req /\ req \in [Actors -> Req]
      BY <1>0, <2>3 DEF Submit, KindsOK, TInv, ReqOK
    <3>2. e \in Frames /\ e.kind = req[a].kind /\ e.flow = req[a].flow
      BY <1>0, <3>1, SubmitTyped DEF Frame
    <3>3. req[a].kind = "RegisterFlow" => a \in Tasks /\ req[a].flow = a
      BY <1>0 DEF RegOK
    <3>4. req'[a].pc = "wait"
      <4>1. c2h' # c2h
        <5>1. Len(c2h') = Len(c2h) + 1 /\ Len(c2h) \in Nat
          BY <1>0, <2>2, <2>3, <3>2
        <5> QED BY <5>1
      <4>2. req' = [req EXCEPT ![a].pc = "wait"]
        BY <2>3, <4>1 DEF Submit
      <4> QED BY <3>1, <4>2 DEF Req
    <3> HIDE DEF e
    <3>5. c2h' = Append(c2h, e)
      BY <2>3 DEF e
    <3> QED BY <2>2, <2>3, <3>2, <3>3, <3>4, <3>5
  <2>4. ASSUME NEW t \in Tasks, c2h' = Append(c2h, Frame("RemoveFlow", NoRequest, held[t], "none"))
        PROVE  /\ Len(c2h') = Len(c2h) + 1
               /\ \A i \in 1..Len(c2h) : c2h'[i] = c2h[i]
               /\ c2h'[Len(c2h) + 1].kind = "RemoveFlow"
    <3> DEFINE e == Frame("RemoveFlow", NoRequest, held[t], "none")
    <3>1. held[t] \in Tasks \cup {NoFlow} /\ "RemoveFlow" \in FrameKinds /\ "none" \in Progresses
      BY <1>0 DEF TInv, TasksOK, FrameKinds, Requests, Progresses
    <3>2. e \in Frames /\ e.kind = "RemoveFlow"
      BY <3>1, FrameTyped, NoRequestTyped DEF Frame
    <3> HIDE DEF e
    <3>3. c2h' = Append(c2h, e)
      BY <2>4 DEF e
    <3> QED BY <2>2, <3>2, <3>3
  <2> QED BY <2>1, <2>3, <2>4 DEF Sends
<1> QED BY <1>1, <1>2, NextSplits

LEMMA AskStep ==
  ASSUME Base, EntryInv, AskInv, [Next]_vars
  PROVE  AskInv'
<1>1. CASE UNCHANGED vars
  <2>1. UNCHANGED <<task, req, truth, c2h>>
    BY <1>1 DEF vars, clientVars, taskVars, helperVars
  <2> QED BY <2>1 DEF AskInv, Fresh, IsAsk
<1> SUFFICES ASSUME Next PROVE AskInv'
  BY <1>1
<1>0. c2h \in Seq(Frames) /\ Len(c2h) \in Nat /\ RegOK
  BY DEF Base, TInv, WireOK
<1>2. Takes => /\ Head(c2h) = c2h[1] /\ 1 \in 1..Len(c2h) /\ Len(c2h') = Len(c2h) - 1
               /\ \A i \in 1..Len(c2h') : i + 1 \in 1..Len(c2h) /\ c2h'[i] = c2h[i + 1]
  <2>1. Takes => /\ Head(c2h) = c2h[1] /\ Len(c2h) >= 1 /\ Len(c2h') = Len(c2h) - 1
                 /\ \A i \in 1..Len(c2h') : c2h'[i] = c2h[i + 1]
    BY <1>0, Elements DEF Takes
  <2> QED BY <1>0, <2>1
<1>3. ASSUME NEW t \in Tasks, Fresh(t)'
      PROVE  truth'[t] = "none" /\ \A i \in 1..Len(c2h') : ~IsAsk(c2h'[i], t)
  <2>1. /\ Fresh(t) /\ ~(Submit(t) /\ req'[t].pc = "wait")
        /\ truth[t] = "none" /\ \A i \in 1..Len(c2h) : ~IsAsk(c2h[i], t)
    BY <1>3, FreshMoves DEF AskInv
  <2>2. truth'[t] = "none"
    BY <1>2, <2>1, TruthMoves
  <2>3. \A i \in 1..Len(c2h') : ~IsAsk(c2h'[i], t)
    <3>1. CASE c2h' = c2h
      BY <2>1, <3>1
    <3>2. CASE /\ c2h # <<>> /\ Len(c2h') = Len(c2h) - 1
               /\ \A i \in 1..Len(c2h') : i + 1 \in 1..Len(c2h) /\ c2h'[i] = c2h[i + 1]
      BY <2>1, <3>2
    <3>3. CASE /\ Len(c2h') = Len(c2h) + 1
               /\ \A i \in 1..Len(c2h) : c2h'[i] = c2h[i]
               /\ c2h'[Len(c2h) + 1].kind = "RegisterFlow" =>
                 \E a \in Tasks : Submit(a) /\ req'[a].pc = "wait" /\ c2h'[Len(c2h) + 1].flow = a
      <4>1. ~IsAsk(c2h'[Len(c2h) + 1], t)
        BY <2>1, <3>3 DEF IsAsk
      <4>2. \A i \in 1..Len(c2h') : i \in 1..Len(c2h) \/ i = Len(c2h) + 1
        BY <1>0, <3>3
      <4> QED BY <2>1, <3>3, <4>1, <4>2
    <3> QED BY <3>1, <3>2, <3>3, RequestsMove
  <2> QED BY <2>2, <2>3
<1>4. CASE c2h' = c2h
  <2>1. ~Takes
    BY <1>0, <1>2, <1>4
  <2>2. \A t \in Tasks : truth[t] = "none" => truth'[t] = "none"
    BY <2>1, TruthMoves
  <2>3. \A i \in 1..Len(c2h) : c2h[i].kind = "RegisterFlow" => c2h[i].flow \in Tasks
    BY <1>0 DEF RegOK
  <2> QED BY <1>3, <1>4, <2>2, <2>3 DEF AskInv
<1>5. CASE /\ c2h # <<>> /\ Len(c2h') = Len(c2h) - 1
           /\ \A i \in 1..Len(c2h') : i + 1 \in 1..Len(c2h) /\ c2h'[i] = c2h[i + 1]
  <2>1. ASSUME NEW i \in 1..Len(c2h'), c2h'[i].kind = "RegisterFlow"
        PROVE  truth'[c2h'[i].flow] = "none"
    <3> DEFINE t == c2h'[i].flow
    <3>1. i + 1 \in 1..Len(c2h) /\ c2h'[i] = c2h[i + 1] /\ i \in Nat /\ i >= 1
      BY <1>0, <1>5
    <3>2. t \in Tasks /\ truth[t] = "none" /\ IsAsk(c2h[i + 1], t)
      BY <1>0, <2>1, <3>1 DEF RegOK, AskInv, IsAsk
    <3> HIDE DEF t
    <3>3. ASSUME Takes, IsAsk(Head(c2h), t) PROVE FALSE
      <4>1. 1 \in 1..Len(c2h) /\ IsAsk(c2h[1], t)
        BY <1>2, <3>3
      <4>2. i + 1 = 1
        BY <3>1, <3>2, <4>1 DEF AskInv
      <4> QED BY <3>1, <4>2
    <3>4. truth'[t] = "none"
      BY <3>2, <3>3, TruthMoves
    <3> QED BY <3>4 DEF t
  <2>2. ASSUME NEW t \in Tasks, NEW i \in 1..Len(c2h'), NEW j \in 1..Len(c2h'),
               IsAsk(c2h'[i], t), IsAsk(c2h'[j], t)
        PROVE  i = j
    <3>1. i + 1 \in 1..Len(c2h) /\ IsAsk(c2h[i + 1], t) /\ j + 1 \in 1..Len(c2h) /\ IsAsk(c2h[j + 1], t)
      BY <1>5, <2>2
    <3>2. i + 1 = j + 1
      BY <3>1 DEF AskInv
    <3>3. i \in Int /\ j \in Int
      OBVIOUS
    <3> QED BY <3>2, <3>3
  <2> QED BY <1>3, <2>1, <2>2 DEF AskInv
<1>6. CASE /\ truth' = truth /\ Len(c2h') = Len(c2h) + 1
           /\ \A i \in 1..Len(c2h) : c2h'[i] = c2h[i]
           /\ c2h'[Len(c2h) + 1].kind = "RegisterFlow" =>
                \E a \in Tasks : Submit(a) /\ req'[a].pc = "wait" /\ c2h'[Len(c2h) + 1].flow = a
  <2> DEFINE n == Len(c2h) + 1
  <2>1. \A i \in 1..Len(c2h') : i \in 1..Len(c2h) \/ i = n
    BY <1>0, <1>6
  <2>2. ASSUME NEW t \in Tasks, IsAsk(c2h'[n], t)
        PROVE  truth'[t] = "none" /\ \A i \in 1..Len(c2h) : ~IsAsk(c2h[i], t)
    <3>1. Submit(t)
      BY <1>6, <2>2 DEF IsAsk
    <3>2. Fresh(t)
      BY <3>1 DEF Submit, Fresh
    <3> QED BY <1>6, <3>2 DEF AskInv
  <2>3. c2h'[n].kind = "RegisterFlow" => c2h'[n].flow \in Tasks
    BY <1>6
  <2>4. /\ \A i \in 1..Len(c2h) : c2h'[i] = c2h[i]
        /\ \A i \in 1..Len(c2h) : c2h[i].kind = "RegisterFlow" => truth'[c2h[i].flow] = "none"
    BY <1>6 DEF AskInv
  <2> HIDE DEF n
  <2>5. ASSUME NEW i \in 1..Len(c2h'), c2h'[i].kind = "RegisterFlow"
        PROVE  truth'[c2h'[i].flow] = "none"
    BY <2>1, <2>2, <2>3, <2>4, <2>5 DEF IsAsk
  <2>6. ASSUME NEW t \in Tasks, NEW i \in 1..Len(c2h'), NEW j \in 1..Len(c2h'),
               IsAsk(c2h'[i], t), IsAsk(c2h'[j], t)
        PROVE  i = j
    BY <2>1, <2>2, <2>4, <2>6 DEF AskInv
  <2> QED BY <1>3, <2>5, <2>6 DEF AskInv
<1> QED BY <1>4, <1>5, <1>6, RequestsMove

\* A frame never makes an entry forget that it exists.
LEMMA ToldKeeps ==
  ASSUME NEW e \in Progresses, e # "none", NEW p \in {"ready", "acked", "closed"}
  PROVE  Told(e, p) # "none" /\ Finished(e, "closed") # "none"
BY DEF Told, Finished, Decided, Progresses

\* What handle_frame does to the entries.
LEMMA EntriesTold ==
  ASSUME Base, ReportInv, HandleFrame
  PROVE  \/ entry' = entry
         \/ \E t \in flows, p \in {"ready", "acked", "closed"} :
              t \in Tasks /\ Says(p, truth[t]) /\ entry' = [entry EXCEPT ![t] = Told(entry[t], p)]
<1> DEFINE f == Head(h2c)
<1>1. h2c # <<>> /\ h2c \in Seq(Frames)
  BY DEF HandleFrame, Base, TInv, WireOK
<1>2. f = h2c[1] /\ 1 \in 1..Len(h2c)
  BY <1>1, Elements
<1>3. \/ entry' = entry
      \/ /\ f.kind = "FlowProgress" /\ f.flow \in flows
         /\ entry' = [entry EXCEPT ![f.flow] = Told(entry[f.flow], f.progress)]
  BY DEF HandleFrame
<1> HIDE DEF f
<1>4. f.kind = "FlowProgress" => f.flow \in Tasks /\ Says(f.progress, truth[f.flow])
  BY <1>2 DEF ReportInv
<1>5. f.kind = "FlowProgress" => f.progress \in {"ready", "acked", "closed"}
  BY <1>4 DEF Says
<1> QED BY <1>3, <1>4, <1>5

LEMMA EntryStep ==
  ASSUME Base, FlowInv, [Next]_vars
  PROVE  EntryInv'
<1>1. CASE UNCHANGED vars
  <2>1. UNCHANGED <<task, req, entry, flows>>
    BY <1>1 DEF vars, clientVars, taskVars
  <2> QED BY <2>1 DEF FlowInv, EntryInv
<1> SUFFICES ASSUME Next, NEW t \in Tasks
             PROVE  /\ (task'[t] = "idle" <=> entry'[t] = "none")
                    /\ (task'[t] = "idle" => t \notin flows')
                    /\ (req'[t].pc # "none" => task'[t] = "asking")
  BY <1>1 DEF EntryInv
<1>0. /\ task \in [Tasks -> TaskPcs] /\ entry \in [Tasks -> Progresses] /\ flows \subseteq Tasks
      /\ (task[t] = "idle" <=> entry[t] = "none") /\ (task[t] = "idle" => t \notin flows)
      /\ (req[t].pc # "none" => task[t] = "asking")
      /\ \A u \in flows : u \in Tasks /\ entry[u] # "none"
  BY DEF Base, TInv, TasksOK, MapsOK, FlowInv, EntryInv
<1>2. ASSUME ~TaskActs, task' = task PROVE req'[t].pc # "none" => task'[t] = "asking"
  <2>1. ~MapKey(t)
    BY <1>2 DEF TaskActs, TaskStep
  <2>2. req'[t].pc # "none" => req[t].pc # "none"
    BY <2>1, RequestMoves
  <2> QED BY <1>0, <1>2, <2>2
<1>3. CASE ~MapActs
  <2>1. UNCHANGED <<flows, entry, task>> /\ ~TaskActs
    BY <1>3, MapFrame DEF taskVars, MapActs
  <2> QED BY <1>0, <1>2, <2>1
<1>4. CASE HandleFrame /\ ~TaskActs
  <2>1. task' = task /\ flows' = flows
    BY <1>4, LinkFrame DEF LinkStep, taskVars
  <2>2. entry'[t] = "none" <=> entry[t] = "none"
    <3>1. CASE entry' = entry
      BY <3>1
    <3>2. ASSUME NEW u \in flows, NEW p \in {"ready", "acked", "closed"},
                 entry' = [entry EXCEPT ![u] = Told(entry[u], p)]
          PROVE  entry'[t] = "none" <=> entry[t] = "none"
      <4>1. u \in Tasks /\ entry[u] \in Progresses /\ entry[u] # "none"
        BY <1>0
      <4>2. Told(entry[u], p) # "none"
        BY <4>1, ToldKeeps
      <4> QED BY <1>0, <3>2, <4>1, <4>2
    <3> QED BY <1>4, <3>1, <3>2, EntriesTold DEF FlowInv
  <2> QED BY <1>0, <1>2, <1>4, <2>1, <2>2
<1>5. CASE (SweepFlows \/ PlaneResets) /\ ~TaskActs
  <2>1. task' = task /\ flows' \subseteq flows
    <3>1. CASE SweepFlows
      BY <3>1 DEF SweepFlows, taskVars
    <3>2. CASE PlaneResets
      BY <3>2 DEF PlaneResets, taskVars
    <3> QED BY <1>5, <3>1, <3>2
  <2>2. entry' = [u \in Tasks |-> IF u \in flows THEN Finished(entry[u], "closed") ELSE entry[u]]
    BY <1>5 DEF SweepFlows, PlaneResets
  <2>3. \A e \in Progresses : e # "none" => Finished(e, "closed") # "none"
    BY ToldKeeps
  <2>4. entry'[t] = "none" <=> entry[t] = "none"
    BY <1>0, <2>2, <2>3
  <2> QED BY <1>0, <1>2, <1>5, <2>1, <2>4
<1>6. ASSUME NEW u \in Tasks, NEW k \in Keys, Begin(u, k)
      PROVE  /\ (task'[t] = "idle" <=> entry'[t] = "none")
             /\ (task'[t] = "idle" => t \notin flows')
             /\ (req'[t].pc # "none" => task'[t] = "asking")
  <2>1. /\ task[u] = "idle" /\ task' = [task EXCEPT ![u] = "mapped"] /\ req' = req
        /\ entry' = [entry EXCEPT ![u] = "waiting"] /\ flows' = flows \cup {u}
    BY <1>6 DEF Begin
  <2> QED BY <1>0, <2>1
<1>7. ASSUME NEW u \in Tasks, TaskStep(u) \/ EndConnection(u)
      PROVE  /\ (task'[t] = "idle" <=> entry'[t] = "none")
             /\ (task'[t] = "idle" => t \notin flows')
             /\ (req'[t].pc # "none" => task'[t] = "asking")
  <2>1. /\ task[u] \notin {"idle", "gone"} /\ flows' \subseteq flows /\ entry' = entry
        /\ \A v \in Tasks : v # u => task'[v] = task[v]
        /\ task'[u] # "idle"
    <3>1. CASE MapKey(u) \/ Registered(u) \/ Abort(u) \/ EndConnection(u) \/ DropFlow(u)
      BY <1>0, <3>1 DEF MapKey, Registered, Abort, EndConnection, DropFlow, clientVars
    <3>2. CASE TakeId(u)
      BY <1>0, <3>2 DEF TakeId
    <3> QED BY <1>7, <3>1, <3>2 DEF TaskStep
  <2>2. (task'[t] = "idle" <=> entry'[t] = "none") /\ (task'[t] = "idle" => t \notin flows')
    BY <1>0, <2>1
  <2>3. req'[t].pc # "none" => task'[t] = "asking"
    <3>1. CASE MapKey(u)
      <4>1. task' = [task EXCEPT ![u] = "asking"] /\ task[u] = "mapped"
        BY <3>1 DEF MapKey
      <4>2. MapKey(t) => t = u
        BY <1>0, <4>1 DEF MapKey
      <4>3. req'[t].pc # "none" => req[t].pc # "none" \/ t = u
        BY <4>2, RequestMoves
      <4> QED BY <1>0, <4>1, <4>3
    <3>2. CASE Registered(u) \/ Abort(u)
      <4>1. /\ req' = [req EXCEPT ![u] = Done(u)] /\ u \in Actors /\ ReqOK
        BY <3>2 DEF Registered, Abort, Actors, Base, TInv
      <4>2. req'[u].pc = "none" /\ \A v \in Tasks : v # u => req'[v] = req[v]
        BY <4>1, DoneTyped DEF ReqOK
      <4> QED BY <1>0, <2>1, <4>2
    <3>3. CASE TakeId(u) \/ DropFlow(u) \/ EndConnection(u)
      <4>1. req' = req /\ task[u] # "asking"
        BY <3>3 DEF TakeId, DropFlow, EndConnection, clientVars
      <4> QED BY <1>0, <2>1, <4>1
    <3> QED BY <1>7, <3>1, <3>2, <3>3 DEF TaskStep
  <2> QED BY <2>2, <2>3
<1> QED BY <1>3, <1>4, <1>5, <1>6, <1>7 DEF MapActs, TaskActs

\* What a step does to the frames on their way to the client.
LEMMA AnswersMove ==
  ASSUME Base, Next
  PROVE  \/ h2c' = h2c
         \/ /\ h2c # <<>> /\ Len(h2c') = Len(h2c) - 1
            /\ \A i \in 1..Len(h2c') : i + 1 \in 1..Len(h2c) /\ h2c'[i] = h2c[i + 1]
         \/ /\ Len(h2c') = Len(h2c) + 1 /\ \A i \in 1..Len(h2c) : h2c'[i] = h2c[i]
            /\ LET e == h2c'[Len(h2c) + 1] IN
               \/ e.kind = "HelperFatal"
               \/ Takes /\ e = Reply(Head(c2h))
               \/ \E t \in Tasks :
                    /\ truth[t] \in {"ready", "acked", "closed"} /\ truth' = truth
                    /\ e = Frame("FlowProgress", NoRequest, t, truth[t])
<1>0. h2c \in Seq(Frames) /\ TInv
  BY DEF Base, TInv, WireOK
<1>1. CASE WallActs \/ LoopActs
  <2>1. Writes
    BY <1>0, <1>1, HelperWrites
  <2>2. ASSUME NEW e \in Frames, h2c' = Append(h2c, e)
        PROVE  /\ Len(h2c') = Len(h2c) + 1 /\ h2c'[Len(h2c) + 1] = e
               /\ \A i \in 1..Len(h2c) : h2c'[i] = h2c[i]
    BY <1>0, <2>2, Elements
  <2>3. Takes => Reply(Head(c2h)) \in Frames
    BY <1>0, HeadTyped, ReplyTyped DEF Takes
  <2>4. \A t \in Tasks : Frame("FlowProgress", NoRequest, t, truth[t]) \in Frames
    <3>1. \A t \in Tasks : truth[t] \in Progresses /\ "FlowProgress" \in FrameKinds
      BY <1>0 DEF TInv, HelpOK, FrameKinds
    <3> QED BY <3>1, FrameTyped, NoRequestTyped
  <2> QED BY <2>1, <2>2, <2>3, <2>4, FatalTyped DEF Writes
<1>2. CASE ObserveActs
  BY <1>2, ObserveFrame
<1>3. CASE ClientStep \/ ClientExit
  <2>1. h2c' = h2c \/ (h2c # <<>> /\ h2c' = Tail(h2c))
    <3>1. CASE HandleFrame
      BY <3>1 DEF HandleFrame
    <3>2. CASE Welcome
      BY <3>2 DEF Welcome
    <3>3. CASE LinkStep /\ ~HandleFrame
      BY <3>3 DEF LinkStep, LoseLink, DrainPending, SweepFlows
    <3>4. CASE PlaneActs /\ ~Welcome
      BY <3>4 DEF PlaneActs, PlaneStep, Start, PlaneAsks, PlaneResets, PlaneAnswered,
                  PlaneFailed, PlaneDone, SessionFatal, Rebuild, CloseForReload, Stop
    <3>5. CASE RequestStep \/ TaskActs \/ ClientExit
      BY <3>5, RequestFrame, TaskFrame, ExitFrame
    <3> QED BY <1>3, <3>1, <3>2, <3>3, <3>4, <3>5, ClientSplits
  <2>2. CASE h2c # <<>> /\ h2c' = Tail(h2c)
    <3>1. /\ Len(h2c') = Len(h2c) - 1 /\ Len(h2c) \in Nat
          /\ \A i \in 1..Len(h2c') : h2c'[i] = h2c[i + 1]
      BY <1>0, <2>2, Elements
    <3>2. \A i \in 1..Len(h2c') : i + 1 \in 1..Len(h2c)
      BY <3>1
    <3> QED BY <2>2, <3>1, <3>2
  <2> QED BY <2>1, <2>2
<1> QED BY <1>1, <1>2, <1>3, NextSplits

\* What has been said of a flow stays true while the interceptor goes on.
LEMMA SaysKept ==
  ASSUME Base, AskInv, [Next]_vars, NEW t \in Tasks
  PROVE  /\ truth[t] # "none" => truth'[t] # "none"
         /\ \A p : Says(p, truth[t]) => Says(p, truth'[t])
BY TruthMoves DEF Says

\* FlowRegistered is written only once the flow is in the interceptor's table.
LEMMA RegisterAnswered ==
  ASSUME Base, Next, Takes, Head(c2h).kind = "RegisterFlow",
         Len(h2c') = Len(h2c) + 1, h2c'[Len(h2c) + 1].kind = "FlowRegistered"
  PROVE  truth'[Head(c2h).flow] = "waiting"
<1> DEFINE g == Head(c2h)
<1>0. /\ h2c \in Seq(Frames) /\ c2h \in Seq(Frames) /\ TInv /\ KindsOK /\ RegOK
      /\ truth \in [Tasks -> Progresses]
  BY DEF Base, TInv, WireOK, HelpOK
<1>1. c2h # <<>> /\ Len(c2h') = Len(c2h) - 1 /\ Len(c2h) \in Nat /\ g = c2h[1] /\ 1 \in 1..Len(c2h)
  BY <1>0, Elements DEF Takes
<1>2. g.flow \in Tasks /\ g.id \in Ids
  BY <1>0, <1>1, HeadTyped DEF RegOK
<1>3. ~(ClientStep \/ ClientExit)
  <2>1. ASSUME NEW a \in Actors, Submit(a),
               c2h' = Append(c2h, Frame(req[a].kind, Id(a), req[a].flow, "none"))
        PROVE  FALSE
    <3>1. req[a].kind \in Requests
      BY <1>0, <2>1 DEF Submit, KindsOK
    <3>2. Len(c2h') = Len(c2h) + 1
      BY <1>0, <2>1, <3>1, SubmitTyped, Elements
    <3> QED BY <1>1, <3>2
  <2>2. ASSUME NEW t \in Tasks, c2h' = Append(c2h, Frame("RemoveFlow", NoRequest, held[t], "none"))
        PROVE  FALSE
    <3>1. held[t] \in Tasks \cup {NoFlow} /\ "RemoveFlow" \in FrameKinds /\ "none" \in Progresses
      BY <1>0 DEF TInv, TasksOK, FrameKinds, Requests, Progresses
    <3>2. Len(c2h') = Len(c2h) + 1
      BY <1>0, <2>2, <3>1, FrameTyped, NoRequestTyped, Elements
    <3> QED BY <1>1, <3>2
  <2> QED BY <1>1, <2>1, <2>2, ClientSends DEF Sends
<1>4. c2h' # c2h
  BY <1>1
<1>5. ServeRegister \/ Reject
  <2>1. ~ObserveActs
    BY <1>4, ObserveFrame
  <2>2. CASE LoopActs
    BY <1>4, <2>2 DEF LoopActs, LoopTop, PollAgain, Disconnected, Starve, PublishProgress,
         ServeHello, ServeRemove, ServeTtl, Served
  <2>3. CASE WallActs
    BY <1>4, <2>3 DEF WallActs, Quit, InterceptorDies, Kill, ForeignOpens, ServeConfigure, ServeOpen,
         ServeClose, ServeShutdown, Served
  <2> QED BY <1>3, <2>1, <2>2, <2>3, NextSplits
<1>6. ASSUME NEW r PROVE ~Leave(r, <<Fatal(g.id)>>)
  <2> SUFFICES ASSUME Leave(r, <<Fatal(g.id)>>) PROVE FALSE
    OBVIOUS
  <2>1. Fatal(g.id) \in Frames /\ Fatal(g.id).kind = "HelperFatal"
    BY <1>2, FatalTyped
  <2>2. h2c' = Append(h2c, Fatal(g.id))
    BY <1>0, <2>1, LeaveWrites
  <2>3. h2c'[Len(h2c) + 1] = Fatal(g.id)
    BY <1>0, <2>1, <2>2, Elements
  <2> QED BY <2>1, <2>3
<1>7. truth' = [truth EXCEPT ![g.flow] = "waiting"]
  BY <1>5, <1>6 DEF ServeRegister, Reject
<1> HIDE DEF g
<1>8. truth'[g.flow] = "waiting"
  BY <1>0, <1>2, <1>7
<1> QED BY <1>8 DEF g

LEMMA ReportStep ==
  ASSUME Base, FlowInv, [Next]_vars
  PROVE  ReportInv'
<1>1. CASE UNCHANGED vars
  <2>1. UNCHANGED <<h2c, req, truth>>
    BY <1>1 DEF vars, clientVars, helperVars
  <2> QED BY <2>1 DEF FlowInv, ReportInv
<1> SUFFICES ASSUME Next PROVE ReportInv'
  BY <1>1
<1>0. h2c \in Seq(Frames) /\ c2h \in Seq(Frames) /\ Len(h2c) \in Nat /\ AskInv /\ ReportInv /\ RegOK
  BY DEF Base, TInv, WireOK, FlowInv
<1> DEFINE True(f) ==
      /\ f.kind = "FlowRegistered" => \A t \in Tasks, n \in Nat : f.id = <<t, n>> => truth'[t] # "none"
      /\ f.kind = "FlowProgress" => f.flow \in Tasks /\ Says(f.progress, truth'[f.flow])
<1>2. \A i \in 1..Len(h2c) : True(h2c[i])
  BY <1>0, SaysKept DEF ReportInv
<1>3. \A i \in 1..Len(h2c') : True(h2c'[i])
  <2>1. CASE h2c' = h2c
    BY <1>2, <2>1
  <2>2. CASE /\ h2c # <<>> /\ Len(h2c') = Len(h2c) - 1
             /\ \A i \in 1..Len(h2c') : i + 1 \in 1..Len(h2c) /\ h2c'[i] = h2c[i + 1]
    <3> HIDE DEF True
    <3> QED BY <1>2, <2>2
  <2>3. CASE /\ Len(h2c') = Len(h2c) + 1 /\ \A i \in 1..Len(h2c) : h2c'[i] = h2c[i]
             /\ True(h2c'[Len(h2c) + 1])
    <3>1. \A i \in 1..Len(h2c') : i \in 1..Len(h2c) \/ i = Len(h2c) + 1
      BY <1>0, <2>3
    <3> HIDE DEF True
    <3> QED BY <1>2, <2>3, <3>1
  <2>4. ASSUME NEW e, e.kind = "HelperFatal" PROVE True(e)
    BY <2>4
  <2>5. ASSUME Takes, Len(h2c') = Len(h2c) + 1, h2c'[Len(h2c) + 1] = Reply(Head(c2h))
        PROVE  True(h2c'[Len(h2c) + 1])
    <3> DEFINE g == Head(c2h)
    <3>1. g = c2h[1] /\ 1 \in 1..Len(c2h) /\ g.kind \in Requests
      BY <1>0, <2>5, Elements DEF Takes
    <3>2. Reply(g).kind = AnswerTo(g.kind) /\ Reply(g).id = g.id
      BY DEF Reply, Frame
    <3>3. Reply(g).kind # "FlowProgress" /\ (Reply(g).kind = "FlowRegistered" => g.kind = "RegisterFlow")
      BY <3>1, <3>2 DEF AnswerTo, Requests
    <3>4. ASSUME Reply(g).kind = "FlowRegistered", NEW t \in Tasks, NEW n \in Nat, g.id = <<t, n>>
          PROVE  truth'[t] # "none"
      <4>1. PICK m \in Nat : g.id = <<g.flow, m>>
        BY <1>0, <3>1, <3>3, <3>4 DEF RegOK
      <4>2. g.flow = t
        BY <3>4, <4>1
      <4>3. truth'[g.flow] = "waiting"
        BY <2>5, <3>3, <3>4, RegisterAnswered
      <4> QED BY <4>2, <4>3
    <3> HIDE DEF g
    <3>5. h2c'[Len(h2c) + 1] = Reply(g)
      BY <2>5 DEF g
    <3> QED BY <3>2, <3>3, <3>4, <3>5
  <2>6. ASSUME NEW t \in Tasks, truth[t] \in {"ready", "acked", "closed"}, truth' = truth
        PROVE  True(Frame("FlowProgress", NoRequest, t, truth[t]))
    BY <2>6 DEF Frame, Says
  <2> HIDE DEF True
  <2>7. CASE h2c' # h2c /\ Len(h2c') = Len(h2c) + 1
    <3>1. True(h2c'[Len(h2c) + 1]) /\ \A i \in 1..Len(h2c) : h2c'[i] = h2c[i]
      BY <1>0, <2>4, <2>5, <2>6, <2>7, AnswersMove
    <3> QED BY <2>3, <2>7, <3>1
  <2>8. CASE Len(h2c') # Len(h2c) + 1
    BY <2>1, <2>2, <2>8, AnswersMove
  <2> QED BY <2>1, <2>7, <2>8
<1>4. ASSUME NEW t \in Tasks, req'[t].pc = "ok", req'[t].answer = "FlowRegistered"
      PROVE  truth'[t] # "none"
  <2>1. CASE req'[t] = req[t]
    BY <1>0, <1>4, <2>1, SaysKept DEF ReportInv
  <2>2. CASE /\ HandleFrame /\ h2c # <<>> /\ req'[t].answer = Head(h2c).kind
             /\ Head(h2c).id = <<t, req[t].n>>
    <3>1. Head(h2c) = h2c[1] /\ 1 \in 1..Len(h2c)
      BY <1>0, <2>2, Elements
    <3>2. req[t].n \in Nat
      BY DEF Base, TInv, ReqOK, Req, Actors
    <3> QED BY <1>2, <1>4, <2>2, <3>1, <3>2
  <2> QED BY <1>4, <2>1, <2>2, RequestMoves
<1> QED BY <1>3, <1>4 DEF ReportInv

LEMMA FlowHolds == Spec => []FlowInv
<1>1. Base /\ FlowInv /\ [Next]_vars => FlowInv'
  BY EntryStep, AskStep, ReportStep DEF FlowInv
<1> QED BY FlowInit, BaseHolds, <1>1, PTL DEF Spec

LEMMA PromiseInit == Init => Promise!Init
BY DEF Init, Promise!Init, Asked

LEMMA PromiseStep ==
  ASSUME Base, FlowInv, [Next]_vars
  PROVE  [Promise!Next]_(Promise!promiseVars)
<1>0. /\ task \in [Tasks -> TaskPcs] /\ entry \in [Tasks -> Progresses] /\ flows \subseteq Tasks
      /\ truth \in [Tasks -> Progresses] /\ EntryInv /\ AskInv /\ ReportInv
      /\ \A u \in flows : u \in Tasks /\ entry[u] # "none"
  BY DEF Base, TInv, TasksOK, MapsOK, HelpOK, FlowInv, EntryInv
<1> DEFINE asked == [t \in Tasks |-> Asked(t)]
<1>s. ASSUME task' = task PROVE asked' = asked
  BY <1>s DEF Asked
<1>1. ASSUME UNCHANGED <<task, truth, entry>> PROVE UNCHANGED Promise!promiseVars
  BY <1>1, <1>s DEF Promise!promiseVars
<1>2. ASSUME UNCHANGED <<task, truth>>, entry' \in [Tasks -> Progresses],
             \A t \in Tasks : \/ entry'[t] = entry[t]
                              \/ /\ entry[t] \in {"waiting", "ready"}
                                 /\ \/ entry'[t] = "closed"
                                    \/ entry'[t] \in {"ready", "acked"} /\ Says(entry'[t], truth[t])
      PROVE  Promise!Learn
  <2>1. asked' = asked
    BY <1>2, <1>s
  <2>2. \A t \in Tasks : entry'[t] \in Promise!MayLearn(t)
    BY <1>2 DEF Promise!MayLearn, Says
  <2>3. Progresses = {"none", "waiting", "ready"} \cup {"acked", "closed"}
    BY DEF Progresses
  <2> QED BY <1>2, <2>1, <2>2, <2>3 DEF Promise!Learn, Promise!Outcomes
<1>3. CASE HandleFrame
  <2>1. UNCHANGED <<task, truth>>
    BY <1>3, LinkFrame DEF LinkStep, taskVars, helperVars
  <2>2. CASE entry' = entry
    BY <1>1, <2>1, <2>2
  <2>3. ASSUME NEW u \in flows, NEW p \in {"ready", "acked", "closed"},
               Says(p, truth[u]), entry' = [entry EXCEPT ![u] = Told(entry[u], p)]
        PROVE  Promise!Learn
    <3>1. u \in Tasks /\ entry[u] \in Progresses /\ entry[u] # "none"
      BY <1>0
    <3>2. Told(entry[u], p) \in Progresses
      BY <3>1, ToldTyped DEF Progresses
    <3>3. Told(entry[u], p) = entry[u] \/ (entry[u] \in {"waiting", "ready"} /\ Told(entry[u], p) = p)
      BY <3>1 DEF Told, Finished, Decided, Progresses
    <3> QED BY <1>0, <1>2, <2>1, <2>3, <3>1, <3>2, <3>3
  <2> QED BY <1>0, <1>3, <2>2, <2>3, EntriesTold DEF Promise!Next
<1>4. CASE SweepFlows \/ PlaneResets
  <2>1. UNCHANGED <<task, truth>>
    BY <1>4, LinkFrame, PlaneFrame DEF LinkStep, PlaneActs, PlaneStep, taskVars, helperVars
  <2>2. entry' = [u \in Tasks |-> IF u \in flows THEN Finished(entry[u], "closed") ELSE entry[u]]
    BY <1>4 DEF SweepFlows, PlaneResets
  <2>3. \A u \in flows : /\ Finished(entry[u], "closed") \in Progresses
                         /\ \/ Finished(entry[u], "closed") = entry[u]
                            \/ /\ entry[u] \in {"waiting", "ready"}
                               /\ Finished(entry[u], "closed") = "closed"
    BY <1>0 DEF Finished, Decided, Progresses
  <2>4. Promise!Learn
    BY <1>0, <1>2, <2>1, <2>2, <2>3
  <2> QED BY <2>4 DEF Promise!Next
<1>5. ASSUME NEW u \in Tasks, NEW k \in Keys, Begin(u, k) PROVE Promise!Ask(u)
  <2>1. /\ task[u] = "idle" /\ task' = [task EXCEPT ![u] = "mapped"] /\ truth' = truth
        /\ entry' = [entry EXCEPT ![u] = "waiting"]
    BY <1>5 DEF Begin, helperVars
  <2>2. asked[u] = "none" /\ asked' = [asked EXCEPT ![u] = "asked"]
    BY <1>0, <2>1 DEF Asked
  <2> QED BY <2>1, <2>2 DEF Promise!Ask
<1>6. ASSUME NEW u \in Tasks, MapKey(u) \/ TakeId(u) \/ DropFlow(u)
      PROVE  UNCHANGED Promise!promiseVars
  <2>1. UNCHANGED <<truth, entry>>
    BY <1>6 DEF MapKey, TakeId, DropFlow, helperVars
  <2>2. \/ task[u] = "mapped" /\ task' = [task EXCEPT ![u] = "asking"]
        \/ task[u] = "undo" /\ \E s \in {"gone", "dropping"} : task' = [task EXCEPT ![u] = s]
        \/ task[u] = "dropping" /\ task' = [task EXCEPT ![u] = "gone"]
    BY <1>6 DEF MapKey, TakeId, DropFlow
  <2>3. asked' = asked
    BY <1>0, <2>2 DEF Asked
  <2> QED BY <2>1, <2>3 DEF Promise!promiseVars
<1>7. ASSUME NEW u \in Tasks, Registered(u) PROVE Promise!Grant(u) \/ Promise!Leave(u)
  <2>1. UNCHANGED <<truth, entry>> /\ task[u] = "asking"
    BY <1>7 DEF Registered, helperVars
  <2>2. CASE req[u].pc = "ok" /\ req[u].answer = "FlowRegistered"
    <3>1. task' = [task EXCEPT ![u] = "live"] /\ truth[u] # "none"
      BY <1>0, <1>7, <2>2 DEF Registered, ReportInv
    <3>2. asked[u] = "asked" /\ asked' = [asked EXCEPT ![u] = "granted"]
      BY <1>0, <2>1, <3>1 DEF Asked
    <3> QED BY <2>1, <3>1, <3>2 DEF Promise!Grant
  <2>3. CASE ~(req[u].pc = "ok" /\ req[u].answer = "FlowRegistered")
    <3>1. task' = [task EXCEPT ![u] = "undo"]
      BY <1>7, <2>3 DEF Registered
    <3>2. asked[u] = "asked" /\ asked' = [asked EXCEPT ![u] = "left"]
      BY <1>0, <2>1, <3>1 DEF Asked
    <3> QED BY <2>1, <3>2 DEF Promise!Leave
  <2> QED BY <2>2, <2>3
<1>8. ASSUME NEW u \in Tasks, EndConnection(u) \/ Abort(u) PROVE Promise!Leave(u)
  <2>1. UNCHANGED <<truth, entry>>
    BY <1>8 DEF EndConnection, Abort, clientVars, helperVars
  <2>2. task[u] \in {"live", "asking"} /\ \E s \in {"undo", "gone"} : task' = [task EXCEPT ![u] = s]
    BY <1>8 DEF EndConnection, Abort
  <2>3. asked[u] \in {"asked", "granted"} /\ asked' = [asked EXCEPT ![u] = "left"]
    BY <1>0, <2>2 DEF Asked
  <2> QED BY <2>1, <2>3 DEF Promise!Leave
<1>9. CASE ServeRegister
  <2> DEFINE u == Head(c2h).flow
  <2>1. UNCHANGED <<task, entry>> /\ Takes /\ Head(c2h).kind = "RegisterFlow"
    BY <1>9, LoopFrame DEF LoopActs, taskVars, clientVars, ServeRegister, Served, Takes, Requests
  <2>2. truth' = truth \/ truth' = [truth EXCEPT ![u] = "waiting"]
    BY <1>9 DEF ServeRegister
  <2>3. Head(c2h) = c2h[1] /\ 1 \in 1..Len(c2h)
    BY <2>1, Elements DEF Takes, Base, TInv, WireOK
  <2>4. u \in Tasks /\ truth[u] = "none" /\ ~Fresh(u)
    BY <1>0, <2>1, <2>3 DEF Base, RegOK, AskInv, IsAsk
  <2>5. CASE truth' = truth
    BY <1>1, <2>1, <2>5
  <2>6. CASE truth' = [truth EXCEPT ![u] = "waiting"]
    <3>1. asked[u] # "none"
      BY <1>0, <2>4 DEF Asked, Fresh, TaskPcs
    <3>2. asked' = asked
      BY <1>s, <2>1
    <3> HIDE DEF u
    <3>3. Promise!Watch(u)
      BY <2>1, <2>4, <2>6, <3>1, <3>2 DEF Promise!Watch
    <3> QED BY <2>4, <3>3 DEF Promise!Next
  <2> QED BY <2>2, <2>5, <2>6
<1>10. ASSUME NEW u \in Tasks, NEW p \in {"ready", "acked", "closed"}, Observe(u, p) PROVE Promise!Decide(u)
  <2>1. UNCHANGED <<task, entry>>
    BY <1>10 DEF Observe, taskVars, clientVars
  <2>2. /\ truth' = [truth EXCEPT ![u] = p]
        /\ truth[u] = "waiting" \/ (truth[u] = "ready" /\ p \in {"acked", "closed"})
    BY <1>10 DEF Observe, Decided
  <2>3. asked' = asked
    BY <1>s, <2>1
  <2> QED BY <2>1, <2>2, <2>3 DEF Promise!Decide, Promise!Outcomes
<1>11. CASE UNCHANGED vars
  BY <1>1, <1>11 DEF vars, taskVars, clientVars, helperVars
<1>12. CASE Next /\ ~MapActs /\ ~ServeRegister /\ ~ObserveActs
  <2>1. UNCHANGED <<task, entry>>
    BY <1>12, MapFrame DEF taskVars
  <2>2. UNCHANGED truth
    <3>1. CASE ClientStep \/ ClientExit
      BY <3>1, ClientKeepsHelper DEF helperVars
    <3>2. CASE WallActs
      BY <3>2, WallFrame
    <3>3. CASE LoopActs
      BY <1>12, <3>3 DEF LoopActs, LoopTop, PollAgain, Disconnected, Reject, Starve, ServeHello,
                  ServeRemove, ServeTtl, PublishProgress
    <3> QED BY <1>12, <3>1, <3>2, <3>3, NextSplits
  <2> QED BY <1>1, <2>1, <2>2
<1>13. CASE TaskActs
  BY <1>5, <1>6, <1>7, <1>8, <1>13 DEF TaskActs, TaskStep, Promise!Next
<1>14. CASE ObserveActs
  BY <1>10, <1>14 DEF ObserveActs, Promise!Next
<1> QED BY <1>3, <1>4, <1>9, <1>11, <1>12, <1>13, <1>14 DEF MapActs

\* The client, the socket and the helper keep what a FlowController promises a
\* connection: an acknowledged registration is watched, progress is what the
\* interceptor decided, a lost helper is a closed flow and the first outcome stays
\* (helper_client.rs register_flow and handle_frame, server.rs publish_progress).
THEOREM HelperKeepsPromise == Spec => KeepsPromise
BY PromiseInit, PromiseStep, BaseHolds, FlowHolds, PTL DEF Spec, Promise!Spec, KeepsPromise
(***************************************************************************)
(* The whole protocol.  As long as no rebuild goes on under running        *)
(* connections and no 4-tuple is used again before its flow is released,   *)
(* every frame in the socket is one the helper will accept when it gets    *)
(* there, and every registration that nobody owns any more is followed by  *)
(* its removal.                                                            *)
(***************************************************************************)
Calm == scn.ownPorts /\ (rebuilt = 0 \/ scn.rebuilds = 0)

\* Requests that move the helper to another state.
Turning == {"Hello", "ConfigureInterceptor", "OpenInterceptor", "CloseInterceptor", "Shutdown"}
Turned(kind) ==
  CASE kind = "Hello" -> "Authenticated"
    [] kind \in {"ConfigureInterceptor", "CloseInterceptor"} -> "Configured"
    [] kind = "OpenInterceptor" -> "InterceptorOpen"
    [] OTHER -> "Exited"

IsDrop(f, t) == f.kind = "RemoveFlow" /\ f.flow = t
Active(t) == task[t] \notin {"idle", "gone"}

\* What one step does to the frames on their way to the helper.
Shifts ==
  /\ Takes /\ Len(c2h') = Len(c2h) - 1 /\ 1 \in 1..Len(c2h) /\ Head(c2h) = c2h[1]
  /\ \A i \in 1..Len(c2h') : i + 1 \in 1..Len(c2h) /\ c2h'[i] = c2h[i + 1]
Grows(e) ==
  /\ e \in Frames /\ Len(c2h') = Len(c2h) + 1 /\ c2h'[Len(c2h) + 1] = e
  /\ \A i \in 1..Len(c2h) : i \in 1..Len(c2h') /\ c2h'[i] = c2h[i]
  /\ \A i \in 1..Len(c2h') : i \in 1..Len(c2h) \/ i = Len(c2h) + 1

LEMMA TakesShifts ==
  ASSUME Base, Takes
  PROVE  Shifts
<1>0. c2h \in Seq(Frames) /\ Len(c2h) \in Nat
  BY DEF Base, TInv, WireOK
<1>1. /\ Head(c2h) = c2h[1] /\ Len(c2h) >= 1 /\ Len(c2h') = Len(c2h) - 1
      /\ \A i \in 1..Len(c2h') : c2h'[i] = c2h[i + 1]
  BY <1>0, Elements DEF Takes
<1> QED BY <1>0, <1>1 DEF Shifts

LEMMA AppendGrows ==
  ASSUME Base, NEW e \in Frames, c2h' = Append(c2h, e)
  PROVE  Grows(e)
<1>0. c2h \in Seq(Frames) /\ Len(c2h) \in Nat
  BY DEF Base, TInv, WireOK
<1>1. /\ Len(c2h') = Len(c2h) + 1 /\ c2h'[Len(c2h) + 1] = e
      /\ \A i \in 1..Len(c2h) : c2h'[i] = c2h[i]
  BY <1>0, Elements
<1> QED BY <1>0, <1>1 DEF Grows

\* The client's steps: nothing is written, or a request, or a removal.
LEMMA ClientGrows ==
  ASSUME Base, ClientStep \/ ClientExit
  PROVE  \/ c2h' = c2h
         \/ \E a \in Actors, e \in Frames :
              /\ Submit(a) /\ Grows(e) /\ e.kind = req[a].kind /\ e.flow = req[a].flow
              /\ e.id = Id(a) /\ req'[a].pc = "wait"
         \/ \E t \in Tasks, e \in Frames :
              DropFlow(t) /\ Grows(e) /\ e.kind = "RemoveFlow" /\ e.flow = held[t] /\ e.id = NoRequest
<1>0. c2h \in Seq(Frames) /\ Len(c2h) \in Nat /\ TInv /\ KindsOK /\ RegOK /\ req \in [Actors -> Req]
  BY DEF Base, TInv, WireOK, ReqOK
<1>1. Sends
  BY ClientSends
<1>2. ASSUME NEW a \in Actors, Submit(a),
             c2h' = Append(c2h, Frame(req[a].kind, Id(a), req[a].flow, "none"))
      PROVE  \E e \in Frames :
               /\ Submit(a) /\ Grows(e) /\ e.kind = req[a].kind /\ e.flow = req[a].flow
               /\ e.id = Id(a) /\ req'[a].pc = "wait"
  <2> DEFINE e == Frame(req[a].kind, Id(a), req[a].flow, "none")
  <2>1. req[a].kind \in Requests /\ req[a] \in Req
    BY <1>0, <1>2 DEF Submit, KindsOK
  <2>2. e \in Frames /\ e.kind = req[a].kind /\ e.flow = req[a].flow /\ e.id = Id(a)
    BY <1>0, <2>1, SubmitTyped DEF Frame
  <2> HIDE DEF e
  <2>3. Grows(e)
    BY <1>2, <2>2, AppendGrows DEF e
  <2>4. c2h' # c2h
    BY <1>0, <2>3 DEF Grows
  <2>5. req' = [req EXCEPT ![a].pc = "wait"]
    BY <1>2, <2>4 DEF Submit
  <2>6. req'[a].pc = "wait"
    BY <1>0, <2>1, <2>5 DEF Req
  <2> QED BY <1>2, <2>2, <2>3, <2>6
<1>3. ASSUME NEW t \in Tasks, DropFlow(t),
             c2h' = Append(c2h, Frame("RemoveFlow", NoRequest, held[t], "none"))
      PROVE  \E e \in Frames : DropFlow(t) /\ Grows(e) /\ e.kind = "RemoveFlow" /\ e.flow = held[t]
                               /\ e.id = NoRequest
  <2> DEFINE e == Frame("RemoveFlow", NoRequest, held[t], "none")
  <2>1. held[t] \in Tasks \cup {NoFlow} /\ "RemoveFlow" \in FrameKinds /\ "none" \in Progresses
    BY <1>0 DEF TInv, TasksOK, FrameKinds, Requests, Progresses
  <2>2. e \in Frames /\ e.kind = "RemoveFlow" /\ e.flow = held[t] /\ e.id = NoRequest
    BY <2>1, FrameTyped, NoRequestTyped DEF Frame
  <2> HIDE DEF e
  <2>3. Grows(e)
    BY <1>3, <2>2, AppendGrows DEF e
  <2> QED BY <1>3, <2>2, <2>3
<1> QED BY <1>1, <1>2, <1>3 DEF Sends

\* The helper's steps that leave it alive: the queue, the state and the table.
LEMMA HelperMoves ==
  ASSUME Base, WallActs \/ LoopActs \/ ObserveActs, Alive'
  PROVE  /\ Alive
         /\ \/ UNCHANGED <<c2h, hstate, reg>>
            \/ LET f == Head(c2h) IN
               /\ Shifts /\ Accepts(hstate, f.kind)
               /\ f.kind \in Turning => hstate' = Turned(f.kind)
               /\ f.kind \notin Turning => hstate' = hstate
               /\ f.kind = "RegisterFlow" => reg' = reg \cup {f.flow}
               /\ f.kind = "RemoveFlow" => reg' = reg \ {f.flow}
               /\ f.kind # "RegisterFlow" => reg' \subseteq reg
               /\ f.kind = "CloseInterceptor" => reg' = {}
               /\ f.kind # "Shutdown"
<1>0. \A k \in Requests : Served(k) => Shifts /\ Alive /\ Head(c2h).kind = k
  BY TakesShifts DEF Served, Takes
<1>l. \A r, f : ~Leave(r, f)
  BY DEF Leave, Alive
<1>1. CASE ObserveActs
  BY <1>1, ObserveFrame DEF Alive
<1>2. CASE LoopTop \/ PollAgain \/ Disconnected \/ Starve \/ \E t \in Tasks : PublishProgress(t)
  BY <1>2 DEF LoopTop, PollAgain, Disconnected, Starve, PublishProgress, Leave, Alive
<1>3. CASE Reject
  BY <1>3, <1>l DEF Reject
<1>4. CASE ServeHello
  <2>1. Served("Hello") /\ Accepts(hstate, "Hello") /\ hstate' = "Authenticated" /\ reg' = reg
    BY <1>4, <1>l DEF ServeHello
  <2> QED BY <1>0, <2>1 DEF Requests, Turning, Turned
<1>5. CASE ServeRegister
  <2>1. /\ Served("RegisterFlow") /\ Accepts(hstate, "RegisterFlow") /\ hstate' = hstate
        /\ reg' = reg \cup {Head(c2h).flow}
    BY <1>5, <1>l DEF ServeRegister
  <2> QED BY <1>0, <2>1 DEF Requests, Turning
<1>6. CASE ServeRemove
  <2>1. /\ Served("RemoveFlow") /\ Accepts(hstate, "RemoveFlow") /\ hstate' = hstate
        /\ reg' = reg \ {Head(c2h).flow}
    BY <1>6 DEF ServeRemove
  <2> QED BY <1>0, <2>1 DEF Requests, Turning
<1>7. CASE ServeTtl
  <2>1. /\ Served("SetLowTtlValue") /\ Accepts(hstate, "SetLowTtlValue") /\ hstate' = hstate
        /\ reg' = reg
    BY <1>7 DEF ServeTtl
  <2> QED BY <1>0, <2>1 DEF Requests, Turning
<1>8. CASE ServeConfigure
  <2>1. /\ Served("ConfigureInterceptor") /\ Accepts(hstate, "ConfigureInterceptor")
        /\ hstate' = "Configured" /\ reg' = reg
    BY <1>8, <1>l DEF ServeConfigure
  <2> QED BY <1>0, <2>1 DEF Requests, Turning, Turned
<1>9. CASE ServeOpen
  <2>1. /\ Served("OpenInterceptor") /\ Accepts(hstate, "OpenInterceptor")
        /\ hstate' = "InterceptorOpen" /\ reg' = reg
    BY <1>9, <1>l DEF ServeOpen
  <2> QED BY <1>0, <2>1 DEF Requests, Turning, Turned
<1>10. CASE ServeClose
  <2>1. /\ Served("CloseInterceptor") /\ Accepts(hstate, "CloseInterceptor")
        /\ hstate' = "Configured" /\ reg' = {}
    BY <1>10, <1>l DEF ServeClose
  <2> QED BY <1>0, <2>1 DEF Requests, Turning, Turned
<1>11. CASE ServeShutdown
  BY <1>11, <1>l DEF ServeShutdown
<1>12. CASE Quit \/ Kill
  BY <1>12 DEF Quit, Kill, Alive
<1>13. CASE InterceptorDies \/ ForeignOpens
  BY <1>13 DEF InterceptorDies, ForeignOpens, Alive, helperVars
<1> QED BY <1>1, <1>2, <1>3, <1>4, <1>5, <1>6, <1>7, <1>8, <1>9, <1>10, <1>11, <1>12, <1>13
        DEF WallActs, LoopActs

\* How the request of an actor moves, and in which actions.
LEMMA ActorMoves ==
  ASSUME Base, Next, NEW a \in Actors
  PROVE  \/ req'[a] = req[a]
         \/ /\ CheckLink(a) /\ req[a].pc = "check" /\ req'[a].kind = req[a].kind
            /\ \/ req'[a].pc = "submit" /\ req'[a].n = req[a].n + 1
               \/ req'[a].pc = "err" /\ req'[a].n = req[a].n
         \/ /\ Submit(a) /\ req[a].pc = "submit" /\ req'[a].pc \in {"wait", "err"}
            /\ req'[a].n = req[a].n /\ req'[a].kind = req[a].kind
         \/ /\ req[a].pc = "wait" /\ req'[a].pc = "err"
            /\ req'[a].n = req[a].n /\ req'[a].kind = req[a].kind
         \/ /\ HandleFrame /\ h2c # <<>> /\ req[a].pc = "wait" /\ req'[a].pc = "ok"
            /\ req'[a].answer = Head(h2c).kind /\ Head(h2c).id = Id(a)
            /\ req'[a].n = req[a].n /\ req'[a].kind = req[a].kind
         \/ /\ a \in Tasks /\ (MapKey(a) \/ Registered(a) \/ Abort(a))
            /\ req'[a].n = req[a].n /\ req'[a].pc \in {"check", "none"}
         \/ /\ a = Plane /\ PlaneAsks /\ req[a].pc = "none" /\ req'[a].pc = "check"
            /\ req'[a].n = req[a].n /\ req'[a].kind = Head(steps)
         \/ /\ a = Plane /\ (PlaneAnswered \/ PlaneFailed)
            /\ req'[a].n = req[a].n /\ req'[a].pc = "none"
<1>0. req \in [Actors -> Req] /\ ReqOK /\ req[a] \in Req /\ steps \in Seq(PlaneKinds \cup {"Reset"})
  BY DEF Base, TInv, ReqOK, PlaneOK
<1>1. CASE ~ReqActs
  BY <1>1, ReqFrame
<1>2. ASSUME NEW b \in Actors, CheckLink(b)
      PROVE  \/ req'[a] = req[a]
             \/ /\ CheckLink(a) /\ req[a].pc = "check" /\ req'[a].kind = req[a].kind
                /\ \/ req'[a].pc = "submit" /\ req'[a].n = req[a].n + 1
                   \/ req'[a].pc = "err" /\ req'[a].n = req[a].n
  <2>1. CASE b = a
    BY <1>0, <1>2, <2>1 DEF CheckLink, Req
  <2>2. CASE b # a
    BY <1>0, <1>2, <2>2 DEF CheckLink
  <2> QED BY <2>1, <2>2
<1>3. ASSUME NEW b \in Actors, TimeOut(b)
      PROVE  \/ req'[a] = req[a]
             \/ /\ req[a].pc = "wait" /\ req'[a].pc = "err"
                /\ req'[a].n = req[a].n /\ req'[a].kind = req[a].kind
  BY <1>0, <1>3 DEF TimeOut, Req
<1>4. ASSUME NEW b \in Actors, Submit(b)
      PROVE  \/ req'[a] = req[a]
             \/ /\ Submit(a) /\ req[a].pc = "submit" /\ req'[a].pc \in {"wait", "err"}
                /\ req'[a].n = req[a].n /\ req'[a].kind = req[a].kind
  <2>1. /\ req[b].pc = "submit"
        /\ req' = [req EXCEPT ![b].pc = "wait"] \/ req' = [req EXCEPT ![b].pc = "err"]
    BY <1>4 DEF Submit
  <2>2. CASE b = a
    BY <1>0, <1>4, <2>1, <2>2 DEF Req
  <2>3. CASE b # a
    BY <1>0, <2>1, <2>3
  <2> QED BY <2>2, <2>3
<1>5. CASE HandleFrame
  <2> DEFINE f == Head(h2c)
  <2>1. h2c # <<>>
    BY <1>5 DEF HandleFrame
  <2>2. \/ req' = req
        \/ req' = [b \in Actors |-> IF Answers(b, f)
                             THEN [req[b] EXCEPT !.pc = "ok", !.answer = f.kind] ELSE req[b]]
    BY <1>5 DEF HandleFrame
  <2> HIDE DEF f
  <2>3. \/ req'[a] = req[a]
        \/ Answers(a, f) /\ req'[a] = [req[a] EXCEPT !.pc = "ok", !.answer = f.kind]
    BY <1>0, <2>2
  <2>4. Answers(a, f) => req[a].pc = "wait" /\ f.id = Id(a)
    BY DEF Answers
  <2> QED BY <1>0, <1>5, <2>1, <2>3, <2>4 DEF Req, f
<1>6. CASE DrainPending
  BY <1>0, <1>6 DEF DrainPending, Req
<1>7. ASSUME NEW u \in Tasks, MapKey(u)
      PROVE  \/ req'[a] = req[a]
             \/ a \in Tasks /\ MapKey(a) /\ req'[a].n = req[a].n /\ req'[a].pc = "check"
  <2>1. req' = [req EXCEPT ![u] = Asking(u, "RegisterFlow", u)] /\ u \in Actors
    BY <1>7 DEF MapKey, Actors
  <2>2. Asking(u, "RegisterFlow", u).n = req[u].n /\ Asking(u, "RegisterFlow", u).pc = "check"
    BY <1>0, <2>1 DEF Asking, Req
  <2> QED BY <1>0, <1>7, <2>1, <2>2
<1>8. ASSUME NEW u \in Tasks, Registered(u) \/ Abort(u)
      PROVE  \/ req'[a] = req[a]
             \/ /\ a \in Tasks /\ (Registered(a) \/ Abort(a))
                /\ req'[a].n = req[a].n /\ req'[a].pc = "none"
  <2>1. req' = [req EXCEPT ![u] = Done(u)] /\ u \in Actors
    BY <1>8 DEF Registered, Abort, Actors
  <2>2. Done(u).n = req[u].n /\ Done(u).pc = "none"
    BY DEF Done, Idle
  <2> QED BY <1>0, <1>8, <2>1, <2>2
<1>9. CASE PlaneAsks
  <2>1. req' = [req EXCEPT ![Plane] = Asking(Plane, Head(steps), NoFlow)] /\ Plane \in Actors
        /\ req[Plane].pc = "none"
    BY <1>9 DEF PlaneAsks, Actors
  <2>2. /\ Asking(Plane, Head(steps), NoFlow).n = req[Plane].n
        /\ Asking(Plane, Head(steps), NoFlow).pc = "check"
        /\ Asking(Plane, Head(steps), NoFlow).kind = Head(steps)
    BY <1>0, <2>1 DEF Asking, Req
  <2> QED BY <1>0, <1>9, <2>1, <2>2
<1>10. CASE PlaneAnswered \/ PlaneFailed
  <2>1. req' = [req EXCEPT ![Plane] = Done(Plane)] /\ Plane \in Actors
    BY <1>10 DEF PlaneAnswered, PlaneFailed, Actors
  <2>2. Done(Plane).n = req[Plane].n /\ Done(Plane).pc = "none"
    BY DEF Done, Idle
  <2> QED BY <1>0, <1>10, <2>1, <2>2
<1> QED BY <1>1, <1>2, <1>3, <1>4, <1>5, <1>6, <1>7, <1>8, <1>9, <1>10 DEF ReqActs, RequestStep

\* Which step makes a connection active: the one that begins it.
LEMMA ActiveMoves ==
  ASSUME Base, Next, NEW t \in Tasks, Active(t)', ~Active(t)
  PROVE  Serving /\ session' = session /\ \E k \in Keys : Begin(t, k)
<1>0. task \in [Tasks -> TaskPcs]
  BY DEF Base, TInv, TasksOK
<1>1. CASE ~TaskActs
  <2>1. task' = task
    <3>1. CASE HandleFrame \/ SweepFlows
      BY <3>1, LinkFrame DEF LinkStep, taskVars
    <3>2. CASE PlaneResets
      BY <3>2, PlaneFrame DEF PlaneActs, PlaneStep, taskVars
    <3>3. CASE ~MapActs
      BY <3>3, MapFrame DEF taskVars
    <3> QED BY <1>1, <3>1, <3>2, <3>3 DEF MapActs
  <2> QED BY <2>1 DEF Active
<1>2. ASSUME NEW u \in Tasks, TaskStep(u) \/ EndConnection(u) PROVE FALSE
  <2>1. CASE MapKey(u) \/ Registered(u) \/ Abort(u) \/ EndConnection(u) \/ DropFlow(u)
    BY <1>0, <2>1 DEF MapKey, Registered, Abort, EndConnection, DropFlow, Active
  <2>2. CASE TakeId(u)
    BY <1>0, <2>2 DEF TakeId, Active
  <2> QED BY <1>2, <2>1, <2>2 DEF TaskStep
<1>3. ASSUME NEW u \in Tasks, NEW k \in Keys, Begin(u, k) PROVE u = t /\ Serving /\ session' = session
  BY <1>0, <1>3 DEF Begin, Active, planeVars
<1> QED BY <1>1, <1>2, <1>3 DEF TaskActs

(***************************************************************************)
(* Where the session is: what the plane still has to ask, whether it was   *)
(* configured, and which connections can be there.                         *)
(***************************************************************************)
StartTails ==
  {<<"OpenInterceptor">>, <<"OpenInterceptor", "SetLowTtlValue">>, <<"SetLowTtlValue">>, <<>>}
ReloadSteps == {<<"CloseInterceptor", "Reset">>, <<"Reset">>, <<>>}

PhaseInv ==
  /\ session = "rebuild" => rebuilt > 0 /\ scn.rebuilds > 0
  /\ session = "start" => steps = StartSteps \/ (steps \in StartTails /\ configured)
  /\ session \in {"up", "rebuild", "reload"} => configured
  /\ session = "reload" => steps \in ReloadSteps
  /\ Calm /\ ~gone /\ session = "failed" => req[Plane].pc = "none"
  /\ \A t \in Tasks : Active(t) =>
       /\ session \notin {"connecting", "boot", "start", "stopped"}
       /\ session \in {"reload", "stop"} =>
            steps # <<>> /\ Head(steps) = "CloseInterceptor" /\ req[Plane].pc = "none"

LEMMA Tuples ==
  ASSUME NEW a, NEW b, NEW c
  PROVE  <<a, b>> \o <<c>> = <<a, b, c>>
<1> DEFINE S == {a, b, c}
<1>1. a \in S /\ b \in S /\ c \in S
  OBVIOUS
<1> HIDE DEF S
<1>2. <<a, b>> \in Seq(S)
  BY <1>1
<1>3. <<a, b, c>> = Append(<<a, b>>, c)
  OBVIOUS
<1> QED BY <1>1, <1>2, <1>3, AppendIsConcat

LEMMA StartStepsAre ==
  /\ StartSteps \in {<<"ConfigureInterceptor", "OpenInterceptor">>,
                     <<"ConfigureInterceptor", "OpenInterceptor", "SetLowTtlValue">>}
  /\ StartSteps # <<>> /\ Head(StartSteps) = "ConfigureInterceptor" /\ Tail(StartSteps) \in StartTails
<1>1. StartSteps \in {<<"ConfigureInterceptor", "OpenInterceptor">>,
                      <<"ConfigureInterceptor", "OpenInterceptor", "SetLowTtlValue">>}
  <2>1. <<"ConfigureInterceptor", "OpenInterceptor">> \o <<"SetLowTtlValue">>
          = <<"ConfigureInterceptor", "OpenInterceptor", "SetLowTtlValue">>
    BY Tuples
  <2>2. <<"ConfigureInterceptor", "OpenInterceptor">> \o <<>> = <<"ConfigureInterceptor", "OpenInterceptor">>
    OBVIOUS
  <2> QED BY <2>1, <2>2 DEF StartSteps
<1>2. /\ Head(<<"ConfigureInterceptor", "OpenInterceptor">>) = "ConfigureInterceptor"
      /\ Tail(<<"ConfigureInterceptor", "OpenInterceptor">>) = <<"OpenInterceptor">>
      /\ <<"ConfigureInterceptor", "OpenInterceptor">> # <<>>
  OBVIOUS
<1>3. /\ Head(<<"ConfigureInterceptor", "OpenInterceptor", "SetLowTtlValue">>) = "ConfigureInterceptor"
      /\ Tail(<<"ConfigureInterceptor", "OpenInterceptor", "SetLowTtlValue">>)
           = <<"OpenInterceptor", "SetLowTtlValue">>
      /\ <<"ConfigureInterceptor", "OpenInterceptor", "SetLowTtlValue">> # <<>>
  OBVIOUS
<1> QED BY <1>1, <1>2, <1>3, Zenon DEF StartTails

LEMMA TailsAre ==
  /\ \A s \in StartTails : s # <<>> => /\ Tail(s) \in StartTails
                                       /\ Head(s) \in {"OpenInterceptor", "SetLowTtlValue"}
  /\ \A s \in ReloadSteps : s # <<>> => /\ Tail(s) \in ReloadSteps
                                        /\ Head(s) \in {"CloseInterceptor", "Reset"}
BY DEF StartTails, ReloadSteps

LEMMA PhaseInit == Init => PhaseInv
<1> SUFFICES ASSUME Init PROVE PhaseInv
  OBVIOUS
<1>1. \A t \in Tasks : ~Active(t)
  BY DEF Init, Active
<1>2. session = "connecting"
  BY DEF Init
<1> QED BY <1>1, <1>2 DEF PhaseInv

\* Only the plane itself takes up and ends a request of the plane.
LEMMA PlaneWaits ==
  ASSUME Base, LinkStep \/ RequestStep \/ TaskActs
  PROVE  req[Plane].pc = "none" => req'[Plane].pc = "none"
<1>0. req \in [Actors -> Req] /\ Plane \in Actors /\ req[Plane] \in Req
  BY DEF Base, TInv, ReqOK, Actors
<1>1. CASE HandleFrame
  <2> DEFINE f == Head(h2c)
  <2>1. \/ req' = req
        \/ req' = [b \in Actors |-> IF Answers(b, f)
                             THEN [req[b] EXCEPT !.pc = "ok", !.answer = f.kind] ELSE req[b]]
    BY <1>1 DEF HandleFrame
  <2> HIDE DEF f
  <2>2. req'[Plane] = req[Plane] \/ req[Plane].pc = "wait"
    BY <1>0, <2>1 DEF Answers
  <2> QED BY <2>2
<1>2. CASE DrainPending
  BY <1>0, <1>2 DEF DrainPending, Req
<1>3. CASE LoseLink("reader") \/ LoseLink("heart") \/ SweepFlows
  BY <1>3 DEF LoseLink, SweepFlows
<1>4. ASSUME NEW b \in Actors, CheckLink(b) \/ Submit(b) \/ TimeOut(b)
      PROVE  req[Plane].pc = "none" => req'[Plane].pc = "none"
  <2>1. req[b].pc # "none" /\ \A a \in Actors : a # b => req'[a] = req[a]
    BY <1>0, <1>4 DEF CheckLink, Submit, TimeOut
  <2> QED BY <1>0, <2>1
<1>5. CASE TaskActs
  <2>1. PICK t \in Tasks : TaskStep(t) \/ EndConnection(t) \/ \E k \in Keys : Begin(t, k)
    BY <1>5 DEF TaskActs
  <2>2. t # Plane
    OBVIOUS
  <2>3. CASE MapKey(t) \/ Registered(t) \/ Abort(t)
    BY <1>0, <2>2, <2>3 DEF MapKey, Registered, Abort
  <2>4. CASE EndConnection(t) \/ DropFlow(t) \/ TakeId(t) \/ \E k \in Keys : Begin(t, k)
    <3>1. req' = req
      BY <2>4 DEF EndConnection, DropFlow, TakeId, Begin, clientVars
    <3> QED BY <3>1
  <2> QED BY <2>1, <2>3, <2>4 DEF TaskStep
<1> QED BY <1>1, <1>2, <1>3, <1>4, <1>5 DEF LinkStep, RequestStep

LEMMA RebuildsTyped ==
  ASSUME Base
  PROVE  scn.rebuilds \in Nat /\ scn.reloads \in Nat /\ rebuilt \in Nat
BY ScenariosTyped DEF Base, TInv, PlaneOK

LEMMA PhaseStep ==
  ASSUME Base, StepsInv, PhaseInv, [Next]_vars
  PROVE  PhaseInv'
<1>0. /\ rebuilt \in Nat /\ scn.rebuilds \in Nat /\ Plane \in Actors /\ session \in Sessions
      /\ task \in [Tasks -> TaskPcs]
  BY RebuildsTyped DEF Actors, Base, TInv, PlaneOK, TasksOK
<1>a. \A t \in Tasks : Next /\ Active(t)' /\ ~Active(t) => session \in {"up", "rebuild"}
  BY ActiveMoves DEF Serving
\* Steps that leave the session where it is.
<1>1. ASSUME UNCHANGED <<scn, session, steps, configured, rebuilt, gone>>, Next,
             req[Plane].pc = "none" => req'[Plane].pc = "none"
      PROVE  PhaseInv'
  <2>1. StartSteps' = StartSteps
    BY <1>1 DEF StartSteps
  <2>2. Calm' = Calm
    BY <1>1 DEF Calm
  <2> QED BY <1>1, <1>a, <2>1, <2>2 DEF PhaseInv
<1>2. CASE UNCHANGED vars
  <2>1. UNCHANGED <<scn, session, steps, configured, rebuilt, gone, req, task>>
    BY <1>2 DEF vars, planeVars, clientVars, taskVars
  <2>2. StartSteps' = StartSteps /\ Calm' = Calm
    BY <2>1 DEF StartSteps, Calm
  <2> QED BY <2>1, <2>2 DEF PhaseInv, Active
<1>3. ASSUME Next, WallActs \/ LoopActs \/ ObserveActs PROVE PhaseInv'
  <2>1. UNCHANGED <<scn, session, steps, configured, rebuilt, gone, req>>
    BY <1>3, WallFrame, LoopFrame, ObserveFrame DEF planeVars, clientVars
  <2> QED BY <1>1, <1>3, <2>1
<1>4. ASSUME Next, LinkStep \/ RequestStep \/ TaskActs PROVE PhaseInv'
  <2>1. UNCHANGED <<scn, session, steps, configured, rebuilt, gone>>
    BY <1>4, LinkFrame, RequestFrame, TaskFrame DEF planeVars
  <2>2. req[Plane].pc = "none" => req'[Plane].pc = "none"
    BY <1>4, PlaneWaits
  <2> QED BY <1>1, <1>4, <2>1, <2>2
<1>5. CASE ClientExit
  <2>1. /\ UNCHANGED <<scn, configured, rebuilt, task, req>> /\ gone' = TRUE
        /\ session' = IF session = "stopped" THEN "stopped" ELSE "failed"
    BY <1>5, ExitFrame DEF ClientExit, clientVars, taskVars
  <2>2. session' \in {"stopped", "failed"}
    BY <2>1
  <2> QED BY <2>1, <2>2 DEF PhaseInv, Active
<1>6. CASE PlaneActs /\ ~gone
  <2>0. UNCHANGED <<scn, task>> /\ StartSteps' = StartSteps
    BY <1>6, PlaneFrame DEF taskVars, StartSteps
  <2>1. CASE Welcome
    <3>1. session = "connecting" /\ session' \in {"boot", "failed"} /\ UNCHANGED req
      BY <2>1 DEF Welcome, clientVars
    <3>2. req[Plane].pc = "none"
      BY <3>1 DEF StepsInv
    <3> QED BY <2>0, <3>1, <3>2 DEF PhaseInv, Active
  <2>2. CASE Start
    <3>1. session = "boot" /\ session' = "start" /\ steps' = StartSteps
      BY <2>2 DEF Start
    <3> QED BY <2>0, <3>1 DEF PhaseInv, Active
  <2>3. CASE PlaneAsks
    <3>1. /\ UNCHANGED <<session, steps, configured, rebuilt, gone>> /\ TasksEnded
          /\ steps # <<>>
      BY <2>3 DEF PlaneAsks, planeVars
    <3>2. session # "failed" /\ Calm' = Calm
      BY <2>0, <3>1 DEF StepsInv, Calm
    <3>3. \A t \in Tasks : Active(t) => session \notin {"reload", "stop"}
      BY <3>1 DEF TasksEnded, Active
    <3> QED BY <2>0, <3>1, <3>2, <3>3 DEF PhaseInv, Active
  <2>4. CASE PlaneResets
    <3>1. /\ UNCHANGED <<session, configured, rebuilt, gone, req>> /\ steps' = Tail(steps)
          /\ steps # <<>> /\ Head(steps) = "Reset"
      BY <2>4 DEF PlaneResets
    <3>2. session \notin {"failed", "start", "stop"}
      BY <3>1, StartStepsAre, TailsAre, StepsTails DEF StepsInv, PhaseInv
    <3>3. session = "reload" => steps' \in ReloadSteps
      BY <3>1, TailsAre DEF PhaseInv
    <3>4. \A t \in Tasks : Active(t) => session # "reload"
      BY <3>1 DEF PhaseInv
    <3> QED BY <2>0, <3>1, <3>2, <3>3, <3>4 DEF PhaseInv, Active
  <2>5. CASE PlaneAnswered
    <3>1. /\ UNCHANGED <<session, rebuilt, gone>> /\ steps' = Tail(steps) /\ steps # <<>>
          /\ configured' = (configured \/ (session = "start" /\ Head(steps) = "ConfigureInterceptor"))
          /\ req[Plane].pc = "ok"
      BY <2>5 DEF PlaneAnswered
    <3>2. session # "failed"
      BY <3>1 DEF StepsInv
    <3>3. session = "start" => steps' \in StartTails /\ configured'
      BY <3>1, StartStepsAre, TailsAre DEF PhaseInv
    <3>4. session = "reload" => steps' \in ReloadSteps
      BY <3>1, TailsAre DEF PhaseInv
    <3>5. \A t \in Tasks : Active(t) => session \notin {"reload", "stop"}
      BY <3>1 DEF PhaseInv
    <3> QED BY <2>0, <3>1, <3>2, <3>3, <3>4, <3>5 DEF PhaseInv, Active
  <2>6. CASE PlaneFailed
    <3>1. /\ UNCHANGED <<rebuilt, configured, gone>> /\ steps # <<>>
          /\ session' = CASE Head(steps) = "SetLowTtlValue" -> "up"
                          [] session = "rebuild" -> "up"
                          [] OTHER -> "failed"
          /\ req' = [req EXCEPT ![Plane] = Done(Plane)] /\ req[Plane].pc \in {"ok", "err"}
      BY <2>6 DEF PlaneFailed
    <3>2. req'[Plane].pc = "none"
      BY <1>0, <3>1, DoneTyped DEF Base, TInv, ReqOK
    <3>3. session' \in {"up", "failed"}
      BY <3>1
    <3>4. session' = "up" => configured
      <4>1. CASE session \in {"start", "reload", "stop"}
        <5>1. session' = "up" => Head(steps) = "SetLowTtlValue"
          BY <3>1, <4>1
        <5> QED BY <3>1, <4>1, <5>1, StartStepsAre, TailsAre, StepsTails DEF PhaseInv, StepsInv
      <4>2. CASE session = "rebuild"
        BY <4>2 DEF PhaseInv
      <4> QED BY <1>0, <3>1, <4>1, <4>2 DEF Sessions, StepsInv
    <3> QED BY <2>0, <3>1, <3>2, <3>3, <3>4 DEF PhaseInv, Active
  <2>7. CASE PlaneDone
    <3>1. /\ steps = <<>> /\ session \in {"start", "rebuild", "reload", "stop"} /\ TasksEnded
          /\ session' = CASE session \in {"start", "rebuild"} -> "up"
                          [] session = "reload" -> "boot"
                          [] session = "stop" -> "stopped"
          /\ UNCHANGED <<configured, rebuilt, gone, req>>
      BY <2>7 DEF PlaneDone, clientVars
    <3>2. session' \in {"up", "boot", "stopped"} /\ (session' \in {"boot", "stopped"} <=> session \in {"reload", "stop"})
      BY <3>1
    <3>3. \A t \in Tasks : Active(t) => session \notin {"reload", "stop"}
      BY <3>1 DEF TasksEnded, Active
    <3>4. session' = "up" => configured
      BY <3>1, <3>2, StartStepsAre DEF PhaseInv
    <3> QED BY <2>0, <3>1, <3>2, <3>3, <3>4 DEF PhaseInv, Active
  <2>8. CASE SessionFatal
    <3>1. session \in {"up", "rebuild"} /\ session' = "failed" /\ UNCHANGED <<rebuilt, gone, req>>
      BY <2>8 DEF SessionFatal, Serving, clientVars
    <3>2. Calm' => session = "up"
      BY <1>0, <2>0, <3>1 DEF Calm, PhaseInv
    <3>3. Calm' => req[Plane].pc = "none"
      BY <3>2 DEF StepsInv
    <3> QED BY <2>0, <3>1, <3>3 DEF PhaseInv, Active
  <2>9. CASE Rebuild \/ CloseForReload \/ Stop
    <3>1. /\ session = "up" /\ UNCHANGED <<req, configured>> /\ session' \in {"rebuild", "reload", "stop"}
          /\ session' = "rebuild" => rebuilt < scn.rebuilds /\ rebuilt' = rebuilt + 1
          /\ session' = "reload" => steps' = <<"CloseInterceptor", "Reset">>
          /\ session' = "stop" => steps' = StopSteps
      BY <2>9 DEF Rebuild, CloseForReload, Stop, clientVars, PhaseInv
    <3>2. req[Plane].pc = "none"
      BY <3>1 DEF StepsInv
    <3>3. session' \in {"reload", "stop"} => steps' # <<>> /\ Head(steps') = "CloseInterceptor"
      BY <3>1, StepsTails
    <3>4. <<"CloseInterceptor", "Reset">> \in ReloadSteps
      BY DEF ReloadSteps
    <3>5. session' = "rebuild" => rebuilt' > 0 /\ scn.rebuilds > 0
      BY <1>0, <3>1
    <3> QED BY <2>0, <3>1, <3>2, <3>3, <3>4, <3>5 DEF PhaseInv, Active
  <2> QED BY <1>6, <2>1, <2>2, <2>3, <2>4, <2>5, <2>6, <2>7, <2>8, <2>9 DEF PlaneActs, PlaneStep
<1> QED BY <1>2, <1>3, <1>4, <1>5, <1>6, NextSplits, ClientSplits

LEMMA CalmBefore ==
  ASSUME Base, PhaseInv, [Next]_vars, Calm'
  PROVE  Calm /\ session # "rebuild"
<1>0. rebuilt \in Nat /\ scn.rebuilds \in Nat
  BY RebuildsTyped
<1>1. UNCHANGED scn /\ rebuilt' \in {rebuilt, rebuilt + 1}
  <2>1. CASE UNCHANGED vars
    BY <2>1 DEF vars, planeVars
  <2>2. CASE WallActs \/ LoopActs \/ ObserveActs \/ ClientExit
    BY <2>2, WallFrame, LoopFrame, ObserveFrame, ExitFrame DEF planeVars
  <2>3. CASE LinkStep \/ RequestStep \/ TaskActs
    BY <2>3, LinkFrame, RequestFrame, TaskFrame DEF planeVars
  <2>4. CASE PlaneActs
    BY <2>4, PlaneFrame DEF PlaneActs, PlaneStep, Welcome, Start, PlaneAsks, PlaneResets, PlaneAnswered,
            PlaneFailed, PlaneDone, SessionFatal, Rebuild, CloseForReload, Stop, planeVars
  <2> QED BY <2>1, <2>2, <2>3, <2>4, NextSplits, ClientSplits
<1> QED BY <1>0, <1>1 DEF Calm, PhaseInv

(***************************************************************************)
(* Keys.  Two connections that are active never have one 4-tuple, and the  *)
(* map leads from it to the connection that has it.                        *)
(***************************************************************************)
KeyInv == Calm =>
  /\ \A t, u \in Tasks : Active(t) /\ Active(u) /\ key[t] = key[u] => t = u
  /\ \A t \in Tasks : task[t] \in {"asking", "live", "undo"} => flowIds[key[t]] = t
  /\ \A t \in Tasks : task[t] = "dropping" => held[t] = t

LEMMA KeyInit == Init => KeyInv
BY DEF Init, KeyInv, Active

LEMMA KeyFrame ==
  ASSUME Next, ~TaskActs, ~PlaneResets
  PROVE  UNCHANGED <<flowIds, task, key, held, bound>>
<1>1. CASE HandleFrame \/ SweepFlows
  BY <1>1, LinkFrame DEF LinkStep, taskVars
<1>2. CASE ~MapActs
  BY <1>2, MapFrame DEF taskVars
<1> QED BY <1>1, <1>2 DEF MapActs

LEMMA KeyStep ==
  ASSUME Base, StepsInv, PhaseInv, KeyInv, [Next]_vars
  PROVE  KeyInv'
<1> SUFFICES ASSUME Calm' PROVE KeyInv'
  BY DEF KeyInv
<1>0. /\ Calm /\ session # "rebuild" /\ KeyInv!2 /\ scn.ownPorts
      /\ task \in [Tasks -> TaskPcs] /\ key \in [Tasks -> Keys \cup {NoKey}]
      /\ held \in [Tasks -> Tasks \cup {NoFlow}] /\ flowIds \in [Keys -> Tasks \cup {NoFlow}]
      /\ \A t \in Tasks : task[t] # "idle" => key[t] \in Keys
  BY CalmBefore DEF KeyInv, Calm, Base, TInv, TasksOK, MapsOK
<1>1. CASE UNCHANGED vars
  BY <1>0, <1>1 DEF vars, clientVars, taskVars, KeyInv, Active
<1>2. CASE Next /\ ~TaskActs /\ ~PlaneResets
  BY <1>0, <1>2, KeyFrame DEF KeyInv, Active
<1>3. CASE PlaneResets
  <2>1. UNCHANGED <<task, key, held, session>> /\ steps # <<>> /\ Head(steps) = "Reset"
    BY <1>3 DEF PlaneResets, taskVars
  <2>2. session = "reload"
    <3>1. session \notin {"connecting", "boot", "up", "stopped", "failed", "start", "stop"}
      BY <2>1, StartStepsAre, TailsAre, StepsTails DEF StepsInv, PhaseInv
    <3> QED BY <1>0, <3>1 DEF Base, TInv, PlaneOK, Sessions
  <2>3. \A t \in Tasks : ~Active(t)
    BY <2>1, <2>2 DEF PhaseInv
  <2> QED BY <2>1, <2>3 DEF KeyInv, Active
<1>4. ASSUME NEW t \in Tasks, NEW k \in Keys, Begin(t, k) PROVE KeyInv'
  <2>1. /\ Free(k) /\ UNCHANGED <<flowIds, held>> /\ task[t] = "idle"
        /\ task' = [task EXCEPT ![t] = "mapped"] /\ key' = [key EXCEPT ![t] = k]
    BY <1>4 DEF Begin
  <2>2. \A u \in Tasks : key[u] = k => task[u] = "gone"
    BY <1>0, <2>1 DEF Free
  <2>3. \A u \in Tasks : u # t => task'[u] = task[u] /\ key'[u] = key[u] /\ (Active(u)' <=> Active(u))
    BY <1>0, <2>1 DEF Active
  <2>4. task'[t] = "mapped" /\ key'[t] = k
    BY <1>0, <2>1
  <2>5. \A u \in Tasks : u # t /\ Active(u)' => key'[u] # k
    BY <2>2, <2>3 DEF Active
  <2> QED BY <1>0, <2>1, <2>3, <2>4, <2>5 DEF KeyInv
<1>5. ASSUME NEW t \in Tasks, MapKey(t) PROVE KeyInv'
  <2>1. /\ task[t] = "mapped" /\ task' = [task EXCEPT ![t] = "asking"] /\ UNCHANGED <<key, held>>
        /\ flowIds' = [flowIds EXCEPT ![key[t]] = t]
    BY <1>5 DEF MapKey
  <2>2. \A u \in Tasks : u # t => task'[u] = task[u] /\ (Active(u) => key[u] # key[t])
    BY <1>0, <2>1 DEF Active
  <2>3. \A u \in Tasks : Active(u)' <=> Active(u)
    BY <1>0, <2>1 DEF Active
  <2>4. flowIds'[key[t]] = t /\ \A u \in Tasks : u # t /\ Active(u) => flowIds'[key[u]] = flowIds[key[u]]
    BY <1>0, <2>1, <2>2 DEF Active
  <2> QED BY <1>0, <2>1, <2>2, <2>3, <2>4 DEF KeyInv, Active
<1>6. ASSUME NEW t \in Tasks, Registered(t) \/ EndConnection(t) \/ Abort(t) PROVE KeyInv'
  <2>1. /\ task[t] \in {"asking", "live"} /\ UNCHANGED <<key, held, flowIds>>
        /\ \E p \in {"live", "undo", "gone"} : task' = [task EXCEPT ![t] = p]
    BY <1>6 DEF Registered, EndConnection, Abort, clientVars
  <2> QED BY <1>0, <2>1 DEF KeyInv, Active
<1>7. ASSUME NEW t \in Tasks, TakeId(t) PROVE KeyInv'
  <2>1. /\ task[t] = "undo" /\ UNCHANGED key
        /\ flowIds' = [flowIds EXCEPT ![key[t]] = NoFlow]
        /\ held' = [held EXCEPT ![t] = flowIds[key[t]]]
        /\ task' = [task EXCEPT ![t] = IF flowIds[key[t]] = NoFlow THEN "gone" ELSE "dropping"]
    BY <1>7 DEF TakeId
  <2>2. flowIds[key[t]] = t /\ t # NoFlow
    BY <1>0, <2>1
  <2>3. task' = [task EXCEPT ![t] = "dropping"] /\ held' = [held EXCEPT ![t] = t]
    BY <2>1, <2>2
  <2>4. \A u \in Tasks : u # t => task'[u] = task[u] /\ held'[u] = held[u] /\ (Active(u) => key[u] # key[t])
    BY <1>0, <2>1, <2>3 DEF Active
  <2>5. \A u \in Tasks : Active(u)' <=> Active(u)
    BY <1>0, <2>1, <2>3 DEF Active
  <2>6. \A u \in Tasks : u # t /\ Active(u) => flowIds'[key[u]] = flowIds[key[u]]
    BY <1>0, <2>1, <2>4 DEF Active
  <2>7. task'[t] = "dropping" /\ held'[t] = t
    BY <1>0, <2>3
  <2> QED BY <1>0, <2>1, <2>4, <2>5, <2>6, <2>7 DEF KeyInv, Active
<1>8. ASSUME NEW t \in Tasks, DropFlow(t) PROVE KeyInv'
  <2>1. /\ task' = [task EXCEPT ![t] = "gone"] /\ held' = [held EXCEPT ![t] = NoFlow]
        /\ UNCHANGED <<key, flowIds>>
    BY <1>8 DEF DropFlow
  <2> QED BY <1>0, <2>1 DEF KeyInv, Active
<1> QED BY <1>1, <1>2, <1>3, <1>4, <1>5, <1>6, <1>7, <1>8 DEF TaskActs, TaskStep

(***************************************************************************)
(* Frames in the socket: where each one came from.                         *)
(***************************************************************************)
LEMMA AnswerFrom ==
  ASSUME Base, Next, NEW i \in 1..Len(h2c')
  PROVE  \/ \E j \in 1..Len(h2c) : h2c'[i] = h2c[j]
         \/ h2c'[i].kind \in {"HelperFatal", "FlowProgress"}
         \/ Takes /\ h2c'[i] = Reply(Head(c2h))
<1>0. Len(h2c) \in Nat
  BY DEF Base, TInv, WireOK
<1>1. CASE h2c' = h2c
  BY <1>1
<1>2. CASE /\ h2c # <<>> /\ Len(h2c') = Len(h2c) - 1
           /\ \A k \in 1..Len(h2c') : k + 1 \in 1..Len(h2c) /\ h2c'[k] = h2c[k + 1]
  BY <1>2
<1>3. CASE /\ Len(h2c') = Len(h2c) + 1 /\ \A k \in 1..Len(h2c) : h2c'[k] = h2c[k]
           /\ LET e == h2c'[Len(h2c) + 1] IN
               \/ e.kind = "HelperFatal"
               \/ Takes /\ e = Reply(Head(c2h))
               \/ \E t \in Tasks :
                    /\ truth[t] \in {"ready", "acked", "closed"} /\ truth' = truth
                    /\ e = Frame("FlowProgress", NoRequest, t, truth[t])
  <2>1. i \in 1..Len(h2c) \/ i = Len(h2c) + 1
    BY <1>0, <1>3
  <2>2. CASE i \in 1..Len(h2c)
    BY <1>3, <2>2
  <2>3. CASE i = Len(h2c) + 1
    <3>1. \A t \in Tasks : Frame("FlowProgress", NoRequest, t, truth[t]).kind = "FlowProgress"
      BY DEF Frame
    <3> QED BY <1>3, <2>3, <3>1
  <2> QED BY <2>1, <2>2, <2>3
<1> QED BY <1>1, <1>2, <1>3, AnswersMove

LEMMA QueueMoves ==
  ASSUME Base, Next
  PROVE  \/ c2h' = c2h
         \/ Shifts /\ (WallActs \/ LoopActs)
         \/ \E a \in Actors, e \in Frames :
              /\ Submit(a) /\ Grows(e) /\ e.kind = req[a].kind /\ e.flow = req[a].flow
              /\ e.id = Id(a) /\ req'[a].pc = "wait"
         \/ \E t \in Tasks, e \in Frames :
              DropFlow(t) /\ Grows(e) /\ e.kind = "RemoveFlow" /\ e.flow = held[t] /\ e.id = NoRequest
<1>1. CASE WallActs \/ LoopActs
  BY <1>1, HelperWrites, TakesShifts DEF Base
<1>2. CASE ObserveActs
  BY <1>2, ObserveFrame
<1>3. CASE ClientStep \/ ClientExit
  BY <1>3, ClientGrows
<1> QED BY <1>1, <1>2, <1>3, NextSplits

\* A number the plane has given a request, and that it does not give again.
Past(n) == n <= req[Plane].n /\ (req[Plane].pc = "submit" => n < req[Plane].n)
IdsInv ==
  /\ \A i \in 1..Len(c2h) : \A n \in Nat : c2h[i].id = <<Plane, n>> => Past(n)
  /\ \A i \in 1..Len(h2c) : \A n \in Nat :
       h2c[i].kind # "HelperFatal" /\ h2c[i].id = <<Plane, n>> => Past(n)
  /\ \A i \in 1..Len(h2c) : h2c[i].kind = "FlowProgress" => h2c[i].id = NoRequest

LEMMA IdsInit == Init => IdsInv
<1> SUFFICES ASSUME Init PROVE IdsInv
  OBVIOUS
<1>1. Len(h2c) = 0 /\ Len(c2h) = 1 /\ c2h[1].id = <<Plane, 0>>
  BY DEF Init, Frame
<1>2. req[Plane].n = 0 /\ req[Plane].pc = "none"
  BY DEF Init, Idle, Actors
<1> QED BY <1>1, <1>2 DEF IdsInv, Past

LEMMA PastStays ==
  ASSUME Base, Next, NEW n \in Nat, Past(n)
  PROVE  Past(n)'
<1>0. Plane \in Actors /\ req[Plane] \in Req /\ req'[Plane] \in Req
  BY ReqTypes DEF Base, TInv, ReqOK, Actors
<1> QED BY <1>0, ActorMoves DEF Past, Req

LEMMA ProgressHasNoId ==
  ASSUME Base, IdsInv, Next, NEW i \in 1..Len(h2c'), h2c'[i].kind = "FlowProgress"
  PROVE  h2c'[i].id = NoRequest
<1>0. Len(h2c) \in Nat
  BY DEF Base, TInv, WireOK
<1>1. CASE h2c' = h2c
  BY <1>1 DEF IdsInv
<1>2. CASE /\ h2c # <<>> /\ Len(h2c') = Len(h2c) - 1
           /\ \A k \in 1..Len(h2c') : k + 1 \in 1..Len(h2c) /\ h2c'[k] = h2c[k + 1]
  BY <1>2 DEF IdsInv
<1>3. CASE /\ Len(h2c') = Len(h2c) + 1 /\ \A k \in 1..Len(h2c) : h2c'[k] = h2c[k]
           /\ LET e == h2c'[Len(h2c) + 1] IN
               \/ e.kind = "HelperFatal"
               \/ Takes /\ e = Reply(Head(c2h))
               \/ \E t \in Tasks :
                    /\ truth[t] \in {"ready", "acked", "closed"} /\ truth' = truth
                    /\ e = Frame("FlowProgress", NoRequest, t, truth[t])
  <2>1. i \in 1..Len(h2c) \/ i = Len(h2c) + 1
    BY <1>0, <1>3
  <2>2. CASE i \in 1..Len(h2c)
    BY <1>3, <2>2 DEF IdsInv
  <2>3. CASE i = Len(h2c) + 1
    <3>1. Takes => Reply(Head(c2h)).kind # "FlowProgress"
      BY DEF Takes, Reply, Frame, AnswerTo, Requests
    <3>2. \A t \in Tasks : Frame("FlowProgress", NoRequest, t, truth[t]).id = NoRequest
      BY DEF Frame
    <3> QED BY <1>3, <2>3, <3>1, <3>2
  <2> QED BY <2>1, <2>2, <2>3
<1> QED BY <1>1, <1>2, <1>3, AnswersMove

LEMMA IdsStep ==
  ASSUME Base, IdsInv, [Next]_vars
  PROVE  IdsInv'
<1>1. CASE UNCHANGED vars
  BY <1>1 DEF vars, clientVars, IdsInv, Past
<1> SUFFICES ASSUME Next PROVE IdsInv'
  BY <1>1
<1>0. Len(c2h) \in Nat /\ req \in [Actors -> Req] /\ Plane \in Actors
  BY DEF Base, TInv, WireOK, ReqOK, Actors
<1>2. ASSUME NEW i \in 1..Len(c2h'), NEW n \in Nat, c2h'[i].id = <<Plane, n>> PROVE Past(n)'
  <2>1. ASSUME NEW j \in 1..Len(c2h), c2h'[i] = c2h[j] PROVE Past(n)'
    BY <1>2, <2>1, PastStays DEF IdsInv
  <2>2. CASE c2h' = c2h
    BY <2>1, <2>2
  <2>3. CASE Shifts
    BY <2>1, <2>3 DEF Shifts
  <2>4. ASSUME NEW a \in Actors, NEW e \in Frames, Submit(a), Grows(e), e.id = Id(a), req'[a].pc = "wait"
        PROVE  Past(n)'
    <3>1. CASE i \in 1..Len(c2h)
      BY <2>1, <2>4, <3>1 DEF Grows
    <3>2. CASE i = Len(c2h) + 1
      <4>1. Id(a) = <<Plane, n>>
        BY <1>2, <2>4, <3>2 DEF Grows
      <4>2. a = Plane /\ n = req[Plane].n
        BY <4>1 DEF Id
      <4>3. req'[Plane].n = req[Plane].n
        <5>1. req' = [req EXCEPT ![a].pc = "wait"] \/ req' = [req EXCEPT ![a].pc = "err"]
          BY <2>4 DEF Submit
        <5> QED BY <1>0, <4>2, <5>1 DEF Req
      <4> QED BY <1>0, <2>4, <4>2, <4>3 DEF Past, Req
    <3> QED BY <2>4, <3>1, <3>2 DEF Grows
  <2>5. ASSUME NEW e \in Frames, Grows(e), e.id = NoRequest PROVE Past(n)'
    <3>1. CASE i \in 1..Len(c2h)
      BY <2>1, <2>5, <3>1 DEF Grows
    <3>2. CASE i = Len(c2h) + 1
      <4>1. NoRequest = <<Plane, n>>
        BY <1>2, <2>5, <3>2 DEF Grows
      <4> QED BY <4>1 DEF NoRequest
    <3> QED BY <2>5, <3>1, <3>2 DEF Grows
  <2> QED BY <2>2, <2>3, <2>4, <2>5, QueueMoves
<1>3. ASSUME NEW i \in 1..Len(h2c'), NEW n \in Nat, h2c'[i].kind # "HelperFatal",
             h2c'[i].id = <<Plane, n>>
      PROVE  Past(n)'
  <2>1. CASE \E j \in 1..Len(h2c) : h2c'[i] = h2c[j]
    BY <1>3, <2>1, PastStays DEF IdsInv
  <2>2. CASE h2c'[i].kind = "FlowProgress"
    <3>1. NoRequest = <<Plane, n>>
      BY <1>3, <2>2, ProgressHasNoId
    <3> QED BY <3>1 DEF NoRequest
  <2>3. CASE Takes /\ h2c'[i] = Reply(Head(c2h))
    <3>1. Shifts /\ h2c'[i].id = Head(c2h).id
      BY <2>3, TakesShifts DEF Reply, Frame
    <3>2. c2h[1].id = <<Plane, n>> /\ 1 \in 1..Len(c2h)
      BY <1>3, <3>1 DEF Shifts
    <3> QED BY <3>2, PastStays DEF IdsInv
  <2> QED BY <1>3, <2>1, <2>2, <2>3, AnswerFrom
<1> QED BY <1>2, <1>3, ProgressHasNoId DEF IdsInv

\* Connections make no request but their registration.
TaskKinds == \A t \in Tasks : req[t].pc # "none" => req[t].kind = "RegisterFlow"

LEMMA TaskKindsStep ==
  ASSUME Base, TaskKinds, [Next]_vars
  PROVE  TaskKinds'
<1>1. CASE UNCHANGED vars
  BY <1>1 DEF vars, clientVars, TaskKinds
<1> SUFFICES ASSUME Next, NEW t \in Tasks, req'[t].pc # "none" PROVE req'[t].kind = "RegisterFlow"
  BY <1>1 DEF TaskKinds
<1>0. t \in Actors /\ t # Plane /\ req \in [Actors -> Req] /\ ReqOK
  BY DEF Actors, Base, TInv, ReqOK
<1>2. req[t].pc # "none" => req[t].kind = "RegisterFlow"
  BY DEF TaskKinds
<1>3. ASSUME MapKey(t) PROVE req'[t].kind = "RegisterFlow"
  <2>1. req' = [req EXCEPT ![t] = Asking(t, "RegisterFlow", t)]
    BY <1>3 DEF MapKey
  <2>2. Asking(t, "RegisterFlow", t).kind = "RegisterFlow"
    BY <1>0 DEF Asking, Req
  <2> QED BY <1>0, <2>1, <2>2
<1>4. ASSUME Registered(t) \/ Abort(t) PROVE FALSE
  <2>1. req' = [req EXCEPT ![t] = Done(t)]
    BY <1>4 DEF Registered, Abort
  <2> QED BY <1>0, <2>1, DoneTyped
<1> QED BY <1>0, <1>2, <1>3, <1>4, ActorMoves

(***************************************************************************)
(* Whose turn it is.  A frame that moves the helper to another state is    *)
(* the last one in the socket: the plane waits for its answer, and no      *)
(* connection is active unless the interceptor is open to stay.            *)
(***************************************************************************)
Steady == hstate = "InterceptorOpen" /\ \A i \in 1..Len(c2h) : c2h[i].kind \notin Turning
Greeted == c2h = <<>> /\ hstate \in {"Authenticated", "Configured"}
Closed == c2h = <<>> /\ hstate = "Configured"

\* The plane is about to make a request, waits for an answer that is there, has it.
At(kind) == steps # <<>> /\ Head(steps) = kind
Asks(kind) == At(kind) /\ req[Plane].pc \in {"none", "check", "submit"}
Comes(kind) ==
  /\ At(kind) /\ req[Plane].pc = "wait"
  /\ \E i \in 1..Len(h2c) : h2c[i].id = Id(Plane) /\ h2c[i].kind = AnswerTo(kind)
Has(kind) == At(kind) /\ req[Plane].pc = "ok" /\ req[Plane].answer = AnswerTo(kind)
Greets == session = "connecting" /\ \E i \in 1..Len(h2c) : h2c[i].kind = "HelloAccepted"

NeedsGreeted == Greets \/ session = "boot" \/ Asks("ConfigureInterceptor")
NeedsClosed ==
  \/ Asks("OpenInterceptor") \/ Asks("Shutdown")
  \/ Comes("ConfigureInterceptor") \/ Has("ConfigureInterceptor")
  \/ Comes("CloseInterceptor") \/ Has("CloseInterceptor")
  \/ session = "reload" /\ (steps = <<>> \/ At("Reset"))
NeedsSteady ==
  \/ Comes("OpenInterceptor") \/ Has("OpenInterceptor")
  \/ At("SetLowTtlValue") \/ Asks("CloseInterceptor")
  \/ session = "up" \/ (session = "start" /\ steps = <<>>)

PlaneTurn ==
  /\ NeedsGreeted => Greeted
  /\ NeedsClosed => Closed
  /\ NeedsSteady => Steady

Acceptable ==
  \A i \in 1..Len(c2h) :
    Accepts(hstate, c2h[i].kind) /\ (c2h[i].kind \in Turning => i = Len(c2h))

TurnInv ==
  Calm /\ Alive =>
    /\ Acceptable
    /\ \A t \in Tasks : Active(t) => Steady
    /\ ~gone => PlaneTurn

LEMMA TurnInit == Init => TurnInv
<1> SUFFICES ASSUME Init PROVE TurnInv
  OBVIOUS
<1>1. Len(c2h) = 1 /\ c2h[1].kind = "Hello" /\ hstate = "Created" /\ Len(h2c) = 0
  BY DEF Init, Frame
<1>2. session = "connecting" /\ steps = <<>> /\ \A t \in Tasks : ~Active(t)
  BY DEF Init, Active
<1>3. Accepts("Created", "Hello")
  BY DEF Accepts
<1>4. Acceptable
  BY <1>1, <1>3 DEF Acceptable
<1>5. ~NeedsGreeted /\ ~NeedsClosed /\ ~NeedsSteady
  BY <1>1, <1>2 DEF NeedsGreeted, NeedsClosed, NeedsSteady, Greets, Asks, Comes, Has, At
<1> QED BY <1>2, <1>4, <1>5 DEF TurnInv, PlaneTurn

\* A step of the helper: the states of rest stay, and a turning frame was the last.
LEMMA ServingTurns ==
  ASSUME Base, WallActs \/ LoopActs \/ ObserveActs, Alive', Acceptable
  PROVE  \/ UNCHANGED <<c2h, hstate>>
         \/ /\ Shifts /\ c2h' = <<>> /\ Len(c2h') = 0
            /\ Head(c2h).kind \in Turning /\ hstate' = Turned(Head(c2h).kind)
         \/ Shifts /\ hstate' = hstate /\ Head(c2h).kind \notin Turning
<1>0. c2h \in Seq(Frames) /\ Len(c2h) \in Nat
  BY DEF Base, TInv, WireOK
<1>2. CASE /\ Shifts /\ Accepts(hstate, Head(c2h).kind)
           /\ Head(c2h).kind \in Turning => hstate' = Turned(Head(c2h).kind)
           /\ Head(c2h).kind \notin Turning => hstate' = hstate
  <2>2. CASE Head(c2h).kind \in Turning
    <3>1. 1 = Len(c2h)
      BY <1>2, <2>2 DEF Acceptable, Shifts
    <3>2. Len(c2h') = 0 /\ c2h' = Tail(c2h) /\ c2h # <<>>
      BY <1>0, <1>2, <3>1 DEF Shifts, Takes
    <3>3. c2h' = <<>>
      BY <1>0, <3>2
    <3> QED BY <1>2, <2>2, <3>2, <3>3
  <2> QED BY <1>2, <2>2
<1> QED BY <1>2, HelperMoves

LEMMA ServingKeeps ==
  ASSUME Base, WallActs \/ LoopActs \/ ObserveActs, Alive', Acceptable
  PROVE  /\ Acceptable' /\ (Steady => Steady') /\ (Greeted => Greeted') /\ (Closed => Closed')
<1>0. Len(c2h) \in Nat
  BY DEF Base, TInv, WireOK
<1>1. CASE UNCHANGED <<c2h, hstate>>
  BY <1>1 DEF Acceptable, Steady, Greeted, Closed
<1>2. CASE /\ Shifts /\ c2h' = <<>> /\ Len(c2h') = 0
           /\ Head(c2h).kind \in Turning /\ hstate' = Turned(Head(c2h).kind)
  <2>1. c2h # <<>> /\ 1 \in 1..Len(c2h) /\ c2h[1].kind \in Turning
    BY <1>2 DEF Shifts, Takes
  <2>2. ~Steady /\ ~Greeted /\ ~Closed
    BY <2>1 DEF Steady, Greeted, Closed
  <2> QED BY <1>2, <2>2 DEF Acceptable
<1>3. CASE Shifts /\ hstate' = hstate
  <2>1. \A i \in 1..Len(c2h') : i + 1 \in 1..Len(c2h) /\ c2h'[i] = c2h[i + 1]
    BY <1>3 DEF Shifts
  <2>2. Acceptable'
    <3> SUFFICES ASSUME NEW i \in 1..Len(c2h')
                 PROVE  /\ Accepts(hstate, c2h'[i].kind)
                        /\ c2h'[i].kind \in Turning => i = Len(c2h')
      BY <1>3 DEF Acceptable
    <3>1. i + 1 \in 1..Len(c2h) /\ c2h'[i] = c2h[i + 1] /\ i \in Int
      BY <2>1
    <3>2. Len(c2h') = Len(c2h) - 1
      BY <1>3 DEF Shifts
    <3> QED BY <1>0, <3>1, <3>2 DEF Acceptable
  <2>3. Steady => Steady'
    BY <1>3, <2>1 DEF Steady
  <2>4. ~Greeted /\ ~Closed
    BY <1>3 DEF Shifts, Takes, Greeted, Closed
  <2> QED BY <2>2, <2>3, <2>4
<1> QED BY <1>1, <1>2, <1>3, ServingTurns

LEMMA AnswersDiffer ==
  ASSUME NEW r \in Requests, NEW q \in Requests, AnswerTo(r) = AnswerTo(q)
  PROVE  r = q
BY DEF Requests, AnswerTo

LEMMA AnswersAre ==
  ASSUME NEW r \in Requests
  PROVE  AnswerTo(r) \notin {"HelperFatal", "FlowProgress"}
BY DEF Requests, AnswerTo

\* The plane is in a request only of the step it is at.
LEMMA PlaneKind ==
  ASSUME Base, StepsInv, PhaseInv, Calm, ~gone, req[Plane].pc # "none"
  PROVE  steps # <<>> /\ req[Plane].kind = Head(steps) /\ Head(steps) \in Requests /\ Head(steps) # "Reset"
<1>1. Plane \in Actors
  BY DEF Actors
<1>2. session # "failed"
  BY DEF PhaseInv
<1>3. steps # <<>> /\ req[Plane].kind = Head(steps)
  BY <1>2 DEF StepsInv
<1>4. Head(steps) \in Requests
  BY <1>1, <1>3 DEF Base, KindsOK
<1> QED BY <1>3, <1>4 DEF Requests

\* An answer the plane waits for is on its way: it was, or the helper has just
\* taken the request.
LEMMA ComesFrom ==
  ASSUME Base, WallActs \/ LoopActs \/ ObserveActs, Next, NEW r \in Requests, NEW i \in 1..Len(h2c'),
         h2c'[i].kind = AnswerTo(r)
  PROVE  (\E j \in 1..Len(h2c) : h2c'[i] = h2c[j]) \/ (Takes /\ Head(c2h).kind = r)
<1>1. h2c'[i].kind \notin {"HelperFatal", "FlowProgress"}
  BY AnswersAre
<1>2. CASE Takes /\ h2c'[i] = Reply(Head(c2h))
  <2>1. h2c'[i].kind = AnswerTo(Head(c2h).kind) /\ Head(c2h).kind \in Requests
    BY <1>2 DEF Reply, Frame, Takes
  <2> QED BY <1>2, <2>1, AnswersDiffer
<1> QED BY <1>1, <1>2, AnswerFrom

LEMMA HelperComes ==
  ASSUME Base, TurnInv, Next, WallActs \/ LoopActs \/ ObserveActs, Calm, Alive', ~gone,
         NEW r \in {"ConfigureInterceptor", "CloseInterceptor", "OpenInterceptor"}, Comes(r)'
  PROVE  Comes(r) \/ (c2h' = <<>> /\ Len(c2h') = 0 /\ hstate' = Turned(r))
<1>0. UNCHANGED <<steps, req>>
  BY WallFrame, LoopFrame, ObserveFrame DEF planeVars, clientVars
<1>1. Alive /\ Acceptable
  BY HelperMoves DEF TurnInv
<1>2. /\ At(r) /\ req[Plane].pc = "wait"
      /\ \E i \in 1..Len(h2c') : h2c'[i].id = Id(Plane) /\ h2c'[i].kind = AnswerTo(r)
  BY <1>0 DEF Comes, At, Id
<1>3. PICK i \in 1..Len(h2c') : h2c'[i].id = Id(Plane) /\ h2c'[i].kind = AnswerTo(r)
  BY <1>2
<1>4. r \in Requests /\ r \in Turning
  BY DEF Requests, Turning
<1>5. CASE \E j \in 1..Len(h2c) : h2c'[i] = h2c[j]
  BY <1>2, <1>3, <1>5 DEF Comes
<1>6. CASE Takes /\ Head(c2h).kind = r
  <2>1. c2h # c2h'
    <3>1. Shifts /\ Len(c2h) \in Nat
      BY <1>6, TakesShifts DEF Base, TInv, WireOK
    <3> QED BY <3>1 DEF Shifts
  <2> QED BY <1>1, <1>4, <1>6, <2>1, ServingTurns
<1> QED BY <1>3, <1>4, <1>5, <1>6, ComesFrom

LEMMA HelperGreets ==
  ASSUME Base, TurnInv, Next, WallActs \/ LoopActs \/ ObserveActs, Calm, Alive', ~gone, Greets'
  PROVE  Greets \/ Greeted'
<1>0. UNCHANGED session
  BY WallFrame, LoopFrame, ObserveFrame DEF planeVars
<1>1. Alive /\ Acceptable
  BY HelperMoves DEF TurnInv
<1>2. session = "connecting" /\ \E i \in 1..Len(h2c') : h2c'[i].kind = "HelloAccepted"
  BY <1>0 DEF Greets
<1>3. PICK i \in 1..Len(h2c') : h2c'[i].kind = "HelloAccepted"
  BY <1>2
<1>4. "Hello" \in Requests /\ "Hello" \in Turning /\ AnswerTo("Hello") = "HelloAccepted"
      /\ Turned("Hello") = "Authenticated"
  BY DEF Requests, Turning, AnswerTo, Turned
<1>5. CASE \E j \in 1..Len(h2c) : h2c'[i] = h2c[j]
  BY <1>2, <1>3, <1>5 DEF Greets
<1>6. CASE Takes /\ Head(c2h).kind = "Hello"
  <2>1. c2h # c2h'
    <3>1. Shifts /\ Len(c2h) \in Nat
      BY <1>6, TakesShifts DEF Base, TInv, WireOK
    <3> QED BY <3>1 DEF Shifts
  <2>2. c2h' = <<>> /\ hstate' = "Authenticated"
    BY <1>1, <1>4, <1>6, <2>1, ServingTurns
  <2> QED BY <2>2 DEF Greeted
<1> QED BY <1>3, <1>4, <1>5, <1>6, ComesFrom

LEMMA HelperTurn ==
  ASSUME Base, TurnInv, Next, WallActs \/ LoopActs \/ ObserveActs, Calm, Alive'
  PROVE  TurnInv'
<1>0. UNCHANGED <<scn, session, steps, configured, rebuilt, gone, req, task>>
  BY WallFrame, LoopFrame, ObserveFrame DEF planeVars, clientVars, taskVars
<1>1. Alive /\ Acceptable /\ (\A t \in Tasks : Active(t) => Steady) /\ (~gone => PlaneTurn)
  BY HelperMoves DEF TurnInv
<1>3. Acceptable' /\ (Steady => Steady') /\ (Greeted => Greeted') /\ (Closed => Closed')
  BY <1>1, ServingKeeps
<1>4. \A t \in Tasks : Active(t)' => Steady'
  BY <1>0, <1>1, <1>3 DEF Active
<1>5. ASSUME ~gone PROVE PlaneTurn'
  <2>0. /\ Turned("ConfigureInterceptor") = "Configured" /\ Turned("CloseInterceptor") = "Configured"
        /\ Turned("OpenInterceptor") = "InterceptorOpen"
    BY DEF Turned
  <2>1. NeedsGreeted' => Greeted'
    <3>1. NeedsGreeted' => NeedsGreeted \/ Greeted'
      BY <1>0, <1>5, HelperGreets DEF NeedsGreeted, Asks, At
    <3> QED BY <1>1, <1>3, <1>5, <3>1 DEF PlaneTurn
  <2>2. NeedsClosed' => Closed'
    <3>1. Comes("ConfigureInterceptor")' => Comes("ConfigureInterceptor") \/ Closed'
      BY <1>5, <2>0, HelperComes DEF Closed
    <3>2. Comes("CloseInterceptor")' => Comes("CloseInterceptor") \/ Closed'
      BY <1>5, <2>0, HelperComes DEF Closed
    <3>3. NeedsClosed' => NeedsClosed \/ Closed'
      BY <1>0, <3>1, <3>2 DEF NeedsClosed, Asks, At, Has
    <3> QED BY <1>1, <1>3, <1>5, <3>3 DEF PlaneTurn
  <2>3. NeedsSteady' => Steady'
    <3>1. Comes("OpenInterceptor")' => Comes("OpenInterceptor") \/ Steady'
      BY <1>5, <2>0, HelperComes DEF Steady
    <3>2. NeedsSteady' => NeedsSteady \/ Steady'
      BY <1>0, <3>1 DEF NeedsSteady, Asks, At, Has
    <3> QED BY <1>1, <1>3, <1>5, <3>2 DEF PlaneTurn
  <2> QED BY <2>1, <2>2, <2>3 DEF PlaneTurn
<1> QED BY <1>0, <1>3, <1>4, <1>5 DEF TurnInv

\* The states of rest while nothing is written.
LEMMA QuietKeeps ==
  ASSUME UNCHANGED <<c2h, hstate>>
  PROVE  (Acceptable' <=> Acceptable) /\ (Steady' <=> Steady) /\ (Greeted' <=> Greeted) /\ (Closed' <=> Closed)
BY DEF Acceptable, Steady, Greeted, Closed

\* The client takes frames out of the socket and writes none into it.
LEMMA ClientReads ==
  ASSUME Base, ClientStep, NEW i \in 1..Len(h2c')
  PROVE  \E j \in 1..Len(h2c) : h2c'[i] = h2c[j]
<1>0. h2c \in Seq(Frames) /\ Len(h2c) \in Nat
  BY DEF Base, TInv, WireOK
<1>1. h2c' = h2c \/ (h2c # <<>> /\ h2c' = Tail(h2c))
  <2>1. CASE HandleFrame
    BY <2>1 DEF HandleFrame
  <2>2. CASE Welcome
    BY <2>2 DEF Welcome
  <2>3. CASE LoseLink("reader") \/ LoseLink("heart") \/ DrainPending \/ SweepFlows
    BY <2>3 DEF LoseLink, DrainPending, SweepFlows
  <2>4. CASE RequestStep \/ TaskActs
    BY <2>4, RequestFrame, TaskFrame
  <2>5. CASE PlaneActs /\ ~Welcome
    BY <2>5 DEF PlaneActs, PlaneStep, Start, PlaneAsks, PlaneResets, PlaneAnswered,
            PlaneFailed, PlaneDone, SessionFatal, Rebuild, CloseForReload, Stop
  <2> QED BY <2>1, <2>2, <2>3, <2>4, <2>5, ClientSplits DEF LinkStep
<1>2. CASE h2c # <<>> /\ h2c' = Tail(h2c)
  <2>1. Len(h2c') = Len(h2c) - 1 /\ \A k \in 1..Len(h2c') : h2c'[k] = h2c[k + 1]
    BY <1>0, <1>2, Elements
  <2> QED BY <1>0, <2>1
<1> QED BY <1>1, <1>2

\* Outside the plane's own steps, and unless the plane writes a request, nothing
\* new is needed of the helper.
LEMMA QuietNeeds ==
  ASSUME Base, Next, ClientStep, LinkStep \/ RequestStep \/ TaskActs,
         ~(Submit(Plane) /\ req'[Plane].pc = "wait")
  PROVE  /\ NeedsGreeted' => NeedsGreeted
         /\ NeedsClosed' => NeedsClosed
         /\ NeedsSteady' => NeedsSteady
<1>0. UNCHANGED <<session, steps>> /\ ~PlaneAsks /\ ~PlaneAnswered /\ ~PlaneFailed
  <2>1. UNCHANGED <<session, steps>>
    BY LinkFrame, RequestFrame, TaskFrame DEF planeVars
  <2>2. ~PlaneAnswered /\ ~PlaneFailed
    <3>1. CASE PlaneAnswered \/ PlaneFailed
      <4>1. steps # <<>> /\ steps' \in {<<>>, Tail(steps)}
        BY <3>1 DEF PlaneAnswered, PlaneFailed
      <4>2. steps \in Seq(PlaneKinds \cup {"Reset"})
        BY DEF Base, TInv, PlaneOK
      <4>3. Len(steps) \in Nat /\ Len(steps) > 0 /\ Len(Tail(steps)) = Len(steps) - 1
        BY <4>1, <4>2
      <4>4. steps = Tail(steps)
        BY <2>1, <4>1
      <4>5. Len(steps) = Len(steps) - 1
        BY <4>3, <4>4
      <4> QED BY <4>3, <4>5
    <3> QED BY <3>1
  <2>3. ~PlaneAsks
    <3>1. CASE PlaneAsks
      <4>1. req[Plane].pc = "none" /\ req' = [req EXCEPT ![Plane] = Asking(Plane, Head(steps), NoFlow)]
        BY <3>1 DEF PlaneAsks
      <4>2. req'[Plane].pc = "none"
        BY <4>1, PlaneWaits
      <4>3. Plane \in Actors /\ req \in [Actors -> Req] /\ req[Plane] \in Req
        BY DEF Actors, Base, TInv, ReqOK
      <4>4. Asking(Plane, Head(steps), NoFlow).pc = "check"
        BY <4>3 DEF Asking, Req
      <4> QED BY <4>1, <4>2, <4>3, <4>4
    <3> QED BY <3>1
  <2> QED BY <2>1, <2>2, <2>3
<1>1. \/ req'[Plane] = req[Plane]
      \/ req[Plane].pc = "check" /\ req'[Plane].pc \in {"submit", "err"}
      \/ req'[Plane].pc = "err"
      \/ /\ HandleFrame /\ h2c # <<>> /\ req[Plane].pc = "wait" /\ req'[Plane].pc = "ok"
         /\ req'[Plane].answer = Head(h2c).kind /\ Head(h2c).id = Id(Plane)
  BY <1>0, ActorMoves DEF Actors
<1>2. Greets' => Greets
  <2>1. ASSUME Greets' PROVE Greets
    <3>1. PICK i \in 1..Len(h2c') : h2c'[i].kind = "HelloAccepted"
      BY <2>1 DEF Greets
    <3>2. PICK j \in 1..Len(h2c) : h2c'[i] = h2c[j]
      BY ClientReads
    <3> QED BY <1>0, <2>1, <3>1, <3>2 DEF Greets
  <2> QED BY <2>1
<1>3. ASSUME NEW r \in Requests PROVE (Asks(r)' => Asks(r)) /\ (At(r)' => At(r))
  BY <1>0, <1>1 DEF Asks, At
<1>4. ASSUME NEW r \in Requests PROVE (Comes(r)' => Comes(r)) /\ (Has(r)' => Has(r) \/ Comes(r))
  <2>1. ASSUME Comes(r)' PROVE Comes(r)
    <3>1. At(r) /\ req'[Plane].pc = "wait" /\ Id(Plane)' = Id(Plane) /\ req[Plane].pc = "wait"
      BY <1>0, <1>1, <2>1 DEF Comes, At, Id
    <3>2. PICK i \in 1..Len(h2c') : h2c'[i].id = Id(Plane) /\ h2c'[i].kind = AnswerTo(r)
      BY <2>1, <3>1 DEF Comes
    <3>3. PICK j \in 1..Len(h2c) : h2c'[i] = h2c[j]
      BY ClientReads
    <3> QED BY <3>1, <3>2, <3>3 DEF Comes
  <2>2. ASSUME Has(r)' PROVE Has(r) \/ Comes(r)
    <3>1. At(r) /\ req'[Plane].pc = "ok" /\ req'[Plane].answer = AnswerTo(r)
      BY <1>0, <2>2 DEF Has, At
    <3>2. CASE req'[Plane] = req[Plane]
      BY <3>1, <3>2 DEF Has
    <3>3. CASE /\ HandleFrame /\ h2c # <<>> /\ req[Plane].pc = "wait" /\ req'[Plane].pc = "ok"
               /\ req'[Plane].answer = Head(h2c).kind /\ Head(h2c).id = Id(Plane)
      <4>1. 1 \in 1..Len(h2c) /\ Head(h2c) = h2c[1]
        BY <3>3 DEF Base, TInv, WireOK
      <4> QED BY <3>1, <3>3, <4>1 DEF Comes
    <3> QED BY <1>1, <3>1, <3>2, <3>3
  <2> QED BY <2>1, <2>2
<1>5. {"ConfigureInterceptor", "CloseInterceptor", "OpenInterceptor", "SetLowTtlValue", "Shutdown"} \subseteq Requests
  BY DEF Requests
<1>6. NeedsGreeted' => NeedsGreeted
  BY <1>0, <1>2, <1>3, <1>5 DEF NeedsGreeted
<1>7. NeedsClosed' => NeedsClosed
  <2>1. At("Reset")' => At("Reset")
    BY <1>0 DEF At
  <2> QED BY <1>0, <1>3, <1>4, <1>5, <2>1 DEF NeedsClosed
<1>8. NeedsSteady' => NeedsSteady
  BY <1>0, <1>3, <1>4, <1>5 DEF NeedsSteady
<1> QED BY <1>6, <1>7, <1>8

LEMMA FrameInStates ==
  /\ Accepts("InterceptorOpen", "RegisterFlow") /\ Accepts("InterceptorOpen", "RemoveFlow")
  /\ Accepts("InterceptorOpen", "SetLowTtlValue") /\ Accepts("InterceptorOpen", "CloseInterceptor")
  /\ Accepts("Authenticated", "ConfigureInterceptor") /\ Accepts("Configured", "ConfigureInterceptor")
  /\ Accepts("Configured", "OpenInterceptor") /\ Accepts("Configured", "Shutdown")
BY DEF Accepts

\* A frame that moves nothing joins an open interceptor's queue.
LEMMA SteadyGrows ==
  ASSUME Base, Acceptable, Steady, NEW e \in Frames, Grows(e), UNCHANGED hstate,
         Accepts("InterceptorOpen", e.kind)
  PROVE  Acceptable' /\ (e.kind \notin Turning => Steady')
<1>0. Len(c2h) \in Nat /\ hstate = "InterceptorOpen"
  BY DEF Base, TInv, WireOK, Steady
<1>1. ASSUME NEW i \in 1..Len(c2h')
      PROVE  /\ Accepts(hstate, c2h'[i].kind) /\ (c2h'[i].kind \in Turning => i = Len(c2h'))
             /\ e.kind \notin Turning => c2h'[i].kind \notin Turning
  <2>1. CASE i \in 1..Len(c2h)
    BY <2>1 DEF Grows, Acceptable, Steady
  <2>2. CASE i = Len(c2h) + 1
    BY <1>0, <2>2 DEF Grows
  <2> QED BY <2>1, <2>2 DEF Grows
<1>2. Acceptable'
  BY <1>1 DEF Acceptable
<1>3. e.kind \notin Turning => Steady'
  BY <1>0, <1>1 DEF Steady
<1> QED BY <1>2, <1>3

\* Any frame that is accepted may be the only one.
LEMMA EmptyGrows ==
  ASSUME Base, c2h = <<>>, NEW e \in Frames, Grows(e), UNCHANGED hstate, Accepts(hstate, e.kind)
  PROVE  Acceptable'
<1>1. Len(c2h) = 0
  OBVIOUS
<1> QED BY <1>1 DEF Grows, Acceptable

\* Connections write only while the interceptor is open to stay.
LEMMA TaskWrites ==
  ASSUME Base, StepsInv, PhaseInv, TurnInv, Next, ClientStep, Calm, Calm', Alive,
         LinkStep \/ RequestStep \/ TaskActs, ~(Submit(Plane) /\ req'[Plane].pc = "wait"),
         NEW t \in Tasks, Active(t), NEW e \in Frames, Grows(e), e.kind \in {"RegisterFlow", "RemoveFlow"}
  PROVE  TurnInv'
<1>0. UNCHANGED <<hstate, hend>> /\ ~gone /\ gone' = gone
  BY ClientKeepsHelper, ClientSplits, LinkFrame, RequestFrame, TaskFrame DEF helperVars, planeVars
<1>1. Acceptable /\ Steady /\ PlaneTurn
  BY <1>0 DEF TurnInv
<1>2. Acceptable' /\ Steady'
  BY <1>0, <1>1, SteadyGrows, FrameInStates DEF Turning
<1>3. ~NeedsGreeted /\ ~NeedsClosed
  BY <1>1 DEF PlaneTurn, Greeted, Closed, Steady
<1>4. PlaneTurn'
  BY <1>2, <1>3, QuietNeeds DEF PlaneTurn
<1> QED BY <1>2, <1>4 DEF TurnInv

\* The plane writes the request it is at.
LEMMA PlaneWrites ==
  ASSUME Base, StepsInv, PhaseInv, IdsInv, TurnInv, Next, ClientStep, Calm, Alive, Submit(Plane),
         req'[Plane].pc = "wait", NEW e \in Frames, Grows(e), e.kind = req[Plane].kind
  PROVE  TurnInv'
<1>0. /\ UNCHANGED <<hstate, hend, session, steps, gone, task, h2c>> /\ ~gone /\ req[Plane].pc = "submit"
      /\ Plane \in Actors /\ req \in [Actors -> Req] /\ req[Plane] \in Req
  BY ClientSplits DEF Submit, helperVars, planeVars, taskVars, Actors, Base, TInv, ReqOK
<1>1. Acceptable /\ PlaneTurn /\ \A t \in Tasks : Active(t) => Steady
  BY <1>0 DEF TurnInv
<1>2. steps # <<>> /\ e.kind = Head(steps) /\ Asks(e.kind) /\ At(e.kind) /\ e.kind \in Requests /\ e.kind # "Reset"
  BY <1>0, PlaneKind DEF Asks, At
<1>3. e.kind \in PlaneKinds
  <2>1. steps \in Seq(PlaneKinds \cup {"Reset"})
    BY DEF Base, TInv, PlaneOK
  <2>2. Head(steps) \in PlaneKinds \cup {"Reset"}
    BY <1>2, <2>1
  <2> QED BY <1>2, <2>2
<1>4. \A t \in Tasks : ~Active(t)
  <2>1. session \notin {"up", "failed", "rebuild"}
    BY <1>0, <1>2, RebuildsTyped DEF StepsInv, PhaseInv, Calm
  <2>2. session \in Sessions
    BY DEF Base, TInv, PlaneOK
  <2> QED BY <1>0, <2>1, <2>2 DEF PhaseInv, Sessions
<1>5. \A t \in Tasks : ~Active(t)'
  BY <1>0, <1>4 DEF Active
<1>6. \A r \in Requests : ~Asks(r)' /\ ~Has(r)'
  BY DEF Asks, Has
<1>7. ASSUME NEW r \in Requests PROVE ~Comes(r)'
  <2> SUFFICES ASSUME Comes(r)' PROVE FALSE
    OBVIOUS
  <2>1. Id(Plane)' = <<Plane, req[Plane].n>>
    <3>1. req' = [req EXCEPT ![Plane].pc = "wait"] \/ req' = [req EXCEPT ![Plane].pc = "err"]
      BY DEF Submit
    <3>2. req'[Plane].n = req[Plane].n
      BY <1>0, <3>1 DEF Req
    <3> QED BY <3>2 DEF Id
  <2>2. PICK i \in 1..Len(h2c) : h2c[i].id = <<Plane, req[Plane].n>> /\ h2c[i].kind = AnswerTo(r)
    BY <1>0, <2>1 DEF Comes
  <2>3. h2c[i].kind # "HelperFatal" /\ req[Plane].n \in Nat
    BY <1>0, <2>2, AnswersAre DEF Req
  <2>4. Past(req[Plane].n)
    BY <2>2, <2>3 DEF IdsInv
  <2> QED BY <1>0, <2>3, <2>4 DEF Past
<1>8. session \notin {"connecting", "boot", "up"} /\ ~(steps = <<>>) /\ ~At("Reset")
  BY <1>2 DEF StepsInv, At
<1>9. {"ConfigureInterceptor", "CloseInterceptor", "OpenInterceptor", "SetLowTtlValue", "Shutdown"} \subseteq Requests
  BY DEF Requests
<1>10. ~NeedsGreeted' /\ ~NeedsClosed' /\ (NeedsSteady' => e.kind = "SetLowTtlValue")
  <2>1. ~NeedsGreeted'
    BY <1>0, <1>6, <1>8, <1>9 DEF NeedsGreeted, Greets
  <2>2. ~At("Reset")' /\ steps' # <<>>
    BY <1>0, <1>8 DEF At
  <2>3. ~NeedsClosed'
    BY <1>6, <1>7, <1>9, <2>2 DEF NeedsClosed
  <2>4. At("SetLowTtlValue")' => e.kind = "SetLowTtlValue"
    BY <1>0, <1>2 DEF At
  <2>5. NeedsSteady' => At("SetLowTtlValue")'
    BY <1>0, <1>6, <1>7, <1>8, <1>9, <2>2 DEF NeedsSteady
  <2> QED BY <2>1, <2>3, <2>4, <2>5
<1>11. CASE e.kind = "ConfigureInterceptor"
  <2>1. Greeted
    BY <1>1, <1>2, <1>11 DEF PlaneTurn, NeedsGreeted
  <2>2. Acceptable'
    BY <1>0, <1>11, <2>1, EmptyGrows, FrameInStates DEF Greeted
  <2> QED BY <1>5, <1>10, <1>11, <2>2 DEF TurnInv, PlaneTurn
<1>12. CASE e.kind \in {"OpenInterceptor", "Shutdown"}
  <2>1. Closed
    BY <1>1, <1>2, <1>12 DEF PlaneTurn, NeedsClosed
  <2>2. Acceptable'
    BY <1>0, <1>12, <2>1, EmptyGrows, FrameInStates DEF Closed
  <2> QED BY <1>5, <1>10, <1>12, <2>2 DEF TurnInv, PlaneTurn
<1>13. CASE e.kind \in {"CloseInterceptor", "SetLowTtlValue"}
  <2>1. Steady
    BY <1>1, <1>2, <1>13 DEF PlaneTurn, NeedsSteady
  <2>2. Acceptable' /\ (e.kind = "SetLowTtlValue" => Steady')
    BY <1>0, <1>1, <1>13, <2>1, SteadyGrows, FrameInStates DEF Turning
  <2> QED BY <1>5, <1>10, <2>2 DEF TurnInv, PlaneTurn
<1> QED BY <1>3, <1>11, <1>12, <1>13 DEF PlaneKinds

\* What each tail of the plane's steps begins with.
LEMMA TailHeads ==
  /\ Tail(StartSteps) # <<>> /\ Head(Tail(StartSteps)) = "OpenInterceptor"
  /\ \A s \in StartTails : s # <<>> /\ Tail(s) # <<>> => Head(Tail(s)) = "SetLowTtlValue"
  /\ \A s \in StartTails : s # <<>> /\ Head(s) = "SetLowTtlValue" => Tail(s) = <<>>
  /\ \A s \in ReloadSteps : s # <<>> /\ Head(s) = "CloseInterceptor" => Tail(s) = <<"Reset">>
  /\ \A s \in ReloadSteps : s # <<>> /\ Head(s) = "Reset" => Tail(s) = <<>>
  /\ Head(<<"Reset">>) = "Reset" /\ <<"Reset">> # <<>>
<1>1. /\ Tail(<<"ConfigureInterceptor", "OpenInterceptor">>) = <<"OpenInterceptor">>
      /\ Tail(<<"ConfigureInterceptor", "OpenInterceptor", "SetLowTtlValue">>)
           = <<"OpenInterceptor", "SetLowTtlValue">>
      /\ Head(<<"OpenInterceptor">>) = "OpenInterceptor" /\ <<"OpenInterceptor">> # <<>>
      /\ Head(<<"OpenInterceptor", "SetLowTtlValue">>) = "OpenInterceptor"
      /\ <<"OpenInterceptor", "SetLowTtlValue">> # <<>>
  OBVIOUS
<1>7. Head(<<"Reset">>) = "Reset" /\ <<"Reset">> # <<>>
  OBVIOUS
<1>2. Tail(StartSteps) # <<>> /\ Head(Tail(StartSteps)) = "OpenInterceptor"
  <2>1. StartSteps \in {<<"ConfigureInterceptor", "OpenInterceptor">>,
                        <<"ConfigureInterceptor", "OpenInterceptor", "SetLowTtlValue">>}
    BY StartStepsAre
  <2> QED BY <1>1, <2>1, Zenon
<1>3. \A s \in StartTails : s # <<>> /\ Tail(s) # <<>> => Head(Tail(s)) = "SetLowTtlValue"
  BY DEF StartTails
<1>4. \A s \in StartTails : s # <<>> /\ Head(s) = "SetLowTtlValue" => Tail(s) = <<>>
  <2>1. Tail(<<"SetLowTtlValue">>) = <<>> /\ "OpenInterceptor" # "SetLowTtlValue"
    OBVIOUS
  <2> QED BY <1>1, <2>1, Zenon DEF StartTails
<1>5. \A s \in ReloadSteps : s # <<>> /\ Head(s) = "CloseInterceptor" => Tail(s) = <<"Reset">>
  <2>1. Tail(<<"CloseInterceptor", "Reset">>) = <<"Reset">>
    OBVIOUS
  <2> QED BY <1>7, <2>1, Zenon DEF ReloadSteps
<1>6. \A s \in ReloadSteps : s # <<>> /\ Head(s) = "Reset" => Tail(s) = <<>>
  <2>1. /\ Tail(<<"Reset">>) = <<>> /\ "CloseInterceptor" # "Reset"
        /\ Head(<<"CloseInterceptor", "Reset">>) = "CloseInterceptor"
    OBVIOUS
  <2> QED BY <1>7, <2>1, Zenon DEF ReloadSteps
<1> QED BY <1>2, <1>3, <1>4, <1>5, <1>6, <1>7

\* In an undisturbed session the plane's steps are those of a start, a reload or a stop.
LEMMA SessionAt ==
  ASSUME Base, StepsInv, PhaseInv, Calm, steps # <<>>
  PROVE  session \in {"start", "reload", "stop"}
<1>1. session \in Sessions
  BY DEF Base, TInv, PlaneOK
<1> QED BY <1>1, RebuildsTyped DEF StepsInv, PhaseInv, Calm, Sessions

\* A session that makes no requests needs at most what its name says.
LEMMA RestNeeds ==
  ASSUME steps = <<>>
  PROVE  /\ NeedsGreeted => session \in {"connecting", "boot"}
         /\ NeedsClosed => session = "reload"
         /\ NeedsSteady => session \in {"up", "start"}
BY DEF NeedsGreeted, NeedsClosed, NeedsSteady, Greets, Asks, At, Comes, Has

LEMMA AnsweredTurn ==
  ASSUME Base, StepsInv, PhaseInv, PlaneTurn, Calm, ~gone, PlaneAnswered
  PROVE  PlaneTurn'
<1>0. /\ UNCHANGED <<session, c2h, hstate>> /\ steps # <<>> /\ steps' = Tail(steps)
      /\ req[Plane].pc = "ok" /\ req[Plane].answer = AnswerTo(req[Plane].kind)
      /\ req' = [req EXCEPT ![Plane] = Done(Plane)]
  BY DEF PlaneAnswered, helperVars
<1>1. Has(Head(steps)) /\ Head(steps) \in Requests /\ Head(steps) # "Reset"
  BY <1>0, PlaneKind DEF Has, At
<1>2. req'[Plane].pc = "none"
  BY <1>0, DoneTyped DEF Base, TInv, ReqOK, Actors
<1>3. \A r \in Requests : ~Comes(r)' /\ ~Has(r)'
  BY <1>2 DEF Comes, Has
<1>4. {"ConfigureInterceptor", "CloseInterceptor", "OpenInterceptor", "SetLowTtlValue", "Shutdown"} \subseteq Requests
  BY DEF Requests
<1>5. session \in {"start", "reload", "stop"}
  BY <1>0, SessionAt
<1>6. (Steady' <=> Steady) /\ (Greeted' <=> Greeted) /\ (Closed' <=> Closed)
  BY <1>0, QuietKeeps
<1>7. ~Greets' /\ session' \notin {"boot", "up", "connecting"}
  BY <1>0, <1>5 DEF Greets
<1>8. CASE session = "start"
  <2>0. session' = "start"
    BY <1>0, <1>8
  <2>1. CASE steps = StartSteps
    <3>1. At("OpenInterceptor")' /\ Head(steps) = "ConfigureInterceptor" /\ steps' # <<>>
      BY <1>0, <2>1, TailHeads, StartStepsAre DEF At
    <3>2. Closed
      BY <1>1, <3>1 DEF PlaneTurn, NeedsClosed
    <3>3. ~NeedsGreeted' /\ ~NeedsSteady'
      BY <1>3, <1>4, <1>7, <2>0, <3>1 DEF NeedsGreeted, NeedsSteady, Asks, At
    <3> QED BY <1>6, <3>2, <3>3 DEF PlaneTurn
  <2>2. CASE steps \in StartTails
    <3>1. Head(steps) \in {"OpenInterceptor", "SetLowTtlValue"}
      BY <1>0, <2>2, TailsAre
    <3>2. Steady
      BY <1>1, <3>1 DEF PlaneTurn, NeedsSteady, Has
    <3>3. steps' = <<>> \/ At("SetLowTtlValue")'
      BY <1>0, <2>2, TailHeads DEF At
    <3>4. ~NeedsGreeted' /\ ~NeedsClosed'
      BY <1>3, <1>4, <1>7, <2>0, <3>3 DEF NeedsGreeted, NeedsClosed, Asks, At
    <3> QED BY <1>6, <3>2, <3>4 DEF PlaneTurn
  <2> QED BY <1>8, <2>1, <2>2 DEF PhaseInv
<1>9. CASE session = "reload"
  <2>1. Head(steps) = "CloseInterceptor" /\ steps' = <<"Reset">>
    BY <1>0, <1>1, <1>9, TailsAre, TailHeads DEF PhaseInv
  <2>2. Closed
    BY <1>1, <2>1 DEF PlaneTurn, NeedsClosed
  <2>3. At("Reset")' /\ session' = "reload" /\ steps' # <<>>
    BY <1>0, <1>9, <2>1, TailHeads DEF At
  <2>4. ~NeedsGreeted' /\ ~NeedsSteady'
    BY <1>3, <1>4, <1>7, <2>3 DEF NeedsGreeted, NeedsSteady, Asks, At
  <2> QED BY <1>6, <2>2, <2>4 DEF PlaneTurn
<1>10. CASE session = "stop"
  <2>0. session' = "stop"
    BY <1>0, <1>10
  <2>1. CASE steps = StopSteps
    <3>1. At("Shutdown")' /\ Head(steps) = "CloseInterceptor" /\ steps' # <<>>
      BY <1>0, <2>1, StepsTails DEF At
    <3>2. Closed
      BY <1>1, <3>1 DEF PlaneTurn, NeedsClosed
    <3>3. ~NeedsGreeted' /\ ~NeedsSteady'
      BY <1>3, <1>4, <1>7, <2>0, <3>1 DEF NeedsGreeted, NeedsSteady, Asks, At
    <3> QED BY <1>6, <3>2, <3>3 DEF PlaneTurn
  <2>2. CASE steps = <<"Shutdown">>
    <3>1. steps' = <<>>
      BY <1>0, <2>2, StepsTails
    <3>2. ~NeedsGreeted' /\ ~NeedsClosed' /\ ~NeedsSteady'
      BY <1>3, <1>4, <1>7, <2>0, <3>1 DEF NeedsGreeted, NeedsClosed, NeedsSteady, Asks, At
    <3> QED BY <3>2 DEF PlaneTurn
  <2> QED BY <1>0, <1>10, <2>1, <2>2 DEF StepsInv
<1> QED BY <1>5, <1>8, <1>9, <1>10

LEMMA PlaneTurns ==
  ASSUME Base, StepsInv, PhaseInv, PlaneTurn, Next, PlaneActs, Calm, Calm', ~gone
  PROVE  PlaneTurn'
<1>0. /\ UNCHANGED <<c2h, hstate>> /\ ~Rebuild
      /\ h2c \in Seq(Frames) /\ req \in [Actors -> Req] /\ Plane \in Actors /\ session # "rebuild"
  <2>1. ~Rebuild
    <3>1. CASE Rebuild
      <4>1. rebuilt < scn.rebuilds /\ rebuilt' = rebuilt + 1 /\ UNCHANGED scn
        BY <3>1 DEF Rebuild
      <4> QED BY <4>1, RebuildsTyped DEF Calm
    <3> QED BY <3>1
  <2> QED BY <2>1, PlaneFrame, CalmBefore DEF helperVars, Base, TInv, WireOK, ReqOK, Actors
<1>1. (Steady' <=> Steady) /\ (Greeted' <=> Greeted) /\ (Closed' <=> Closed)
  BY <1>0, QuietKeeps
<1>n. ASSUME steps' = <<>>
      PROVE  /\ NeedsGreeted' => session' \in {"connecting", "boot"}
             /\ NeedsClosed' => session' = "reload"
             /\ NeedsSteady' => session' \in {"up", "start"}
  BY <1>n DEF NeedsGreeted, NeedsClosed, NeedsSteady, Greets, Asks, At, Comes, Has
<1>2. CASE Welcome
  <2>1. /\ session = "connecting" /\ UNCHANGED steps
        /\ session' = IF h2c # <<>> /\ Head(h2c).kind = "HelloAccepted" THEN "boot" ELSE "failed"
    BY <1>2 DEF Welcome
  <2>2. steps' = <<>>
    BY <2>1 DEF StepsInv
  <2>3. session' = "boot" => Greeted
    <3>1. ASSUME session' = "boot" PROVE Greeted
      <4>1. h2c # <<>> /\ Head(h2c).kind = "HelloAccepted"
        BY <2>1, <3>1
      <4>2. 1 \in 1..Len(h2c) /\ h2c[1].kind = "HelloAccepted"
        BY <1>0, <4>1
      <4> QED BY <2>1, <4>2 DEF PlaneTurn, NeedsGreeted, Greets
    <3> QED BY <3>1
  <2>4. session' \in {"boot", "failed"}
    BY <2>1
  <2> QED BY <1>1, <1>n, <2>2, <2>3, <2>4 DEF PlaneTurn
<1>3. CASE Start
  <2>1. session = "boot" /\ session' = "start" /\ steps' = StartSteps /\ req' = req
    BY <1>3 DEF Start, clientVars
  <2>2. steps' # <<>> /\ At("ConfigureInterceptor")' /\ steps = <<>> /\ req'[Plane].pc = "none"
    BY <2>1, StartStepsAre DEF At, StepsInv
  <2>3. Greeted
    BY <2>1 DEF PlaneTurn, NeedsGreeted
  <2>4. ~NeedsClosed' /\ ~NeedsSteady'
    BY <2>1, <2>2 DEF NeedsClosed, NeedsSteady, Asks, At, Comes, Has
  <2> QED BY <1>1, <2>3, <2>4 DEF PlaneTurn
<1>4. CASE PlaneAsks
  <2>1. /\ UNCHANGED <<session, steps, h2c>> /\ req[Plane].pc = "none"
        /\ req' = [req EXCEPT ![Plane] = Asking(Plane, Head(steps), NoFlow)]
    BY <1>4 DEF PlaneAsks, planeVars
  <2>2. Asking(Plane, Head(steps), NoFlow).pc = "check"
    BY <1>0 DEF Asking, Req
  <2>3. req'[Plane].pc = "check"
    BY <1>0, <2>1, <2>2
  <2>4. (NeedsGreeted' => NeedsGreeted) /\ (NeedsClosed' => NeedsClosed) /\ (NeedsSteady' => NeedsSteady)
    BY <2>1, <2>3 DEF NeedsGreeted, NeedsClosed, NeedsSteady, Greets, Asks, At, Comes, Has
  <2> QED BY <1>1, <2>4 DEF PlaneTurn
<1>5. CASE PlaneResets
  <2>1. /\ UNCHANGED session /\ steps' = Tail(steps)
        /\ steps # <<>> /\ Head(steps) = "Reset"
    BY <1>5 DEF PlaneResets
  <2>2. session = "reload"
    <3>1. session \notin {"start", "stop"}
      BY <2>1, StartStepsAre, TailsAre, StepsTails DEF StepsInv, PhaseInv
    <3> QED BY <2>1, <3>1, SessionAt
  <2>3. steps' = <<>>
    BY <2>1, <2>2, TailHeads DEF PhaseInv
  <2>4. Closed
    BY <2>1, <2>2 DEF PlaneTurn, NeedsClosed, At
  <2> QED BY <1>1, <1>n, <2>1, <2>2, <2>3, <2>4 DEF PlaneTurn
<1>6. CASE PlaneAnswered
  BY <1>6, AnsweredTurn
<1>7. CASE PlaneFailed
  <2>1. /\ steps # <<>> /\ steps' = <<>>
        /\ session' = CASE Head(steps) = "SetLowTtlValue" -> "up"
                        [] session = "rebuild" -> "up"
                        [] OTHER -> "failed"
    BY <1>7 DEF PlaneFailed
  <2>2. session' \in {"up", "failed"} /\ (session' = "up" => At("SetLowTtlValue"))
    BY <1>0, <2>1 DEF At
  <2>3. session' = "up" => Steady
    BY <2>2 DEF PlaneTurn, NeedsSteady
  <2> QED BY <1>1, <1>n, <2>1, <2>2, <2>3 DEF PlaneTurn
<1>8. CASE PlaneDone
  <2>1. /\ steps = <<>> /\ session \in {"start", "rebuild", "reload", "stop"} /\ steps' = steps
        /\ session' = CASE session \in {"start", "rebuild"} -> "up"
                        [] session = "reload" -> "boot"
                        [] session = "stop" -> "stopped"
    BY <1>8 DEF PlaneDone
  <2>2. CASE session = "start"
    <3>1. Steady /\ session' = "up"
      BY <2>1, <2>2 DEF PlaneTurn, NeedsSteady
    <3> QED BY <1>1, <1>n, <2>1, <3>1 DEF PlaneTurn
  <2>3. CASE session = "reload"
    <3>1. Closed /\ session' = "boot"
      BY <2>1, <2>3 DEF PlaneTurn, NeedsClosed
    <3>2. Greeted
      BY <3>1 DEF Closed, Greeted
    <3> QED BY <1>1, <1>n, <2>1, <3>1, <3>2 DEF PlaneTurn
  <2>4. CASE session = "stop"
    <3>1. session' = "stopped"
      BY <2>1, <2>4
    <3> QED BY <1>n, <2>1, <3>1 DEF PlaneTurn
  <2> QED BY <1>0, <2>1, <2>2, <2>3, <2>4
<1>9. CASE SessionFatal
  <2>1. session' = "failed" /\ steps' = <<>>
    BY <1>9 DEF SessionFatal
  <2> QED BY <1>n, <2>1 DEF PlaneTurn
<1>10. CASE CloseForReload \/ Stop
  <2>1. /\ session = "up" /\ req' = req /\ session' \in {"reload", "stop"}
        /\ steps' = <<"CloseInterceptor", "Reset">> \/ steps' = StopSteps
    BY <1>10 DEF CloseForReload, Stop, clientVars, PhaseInv
  <2>2. steps' # <<>> /\ Head(steps') = "CloseInterceptor" /\ req'[Plane].pc = "none"
    BY <2>1, StepsTails DEF StepsInv
  <2>3. Steady
    BY <2>1 DEF PlaneTurn, NeedsSteady
  <2>4. ~NeedsGreeted' /\ ~NeedsClosed'
    BY <2>1, <2>2 DEF NeedsGreeted, NeedsClosed, Greets, Asks, At, Comes, Has
  <2> QED BY <1>1, <2>3, <2>4 DEF PlaneTurn
<1> QED BY <1>0, <1>2, <1>3, <1>4, <1>5, <1>6, <1>7, <1>8, <1>9, <1>10 DEF PlaneActs, PlaneStep

LEMMA TurnStep ==
  ASSUME Base, EntryInv, TaskKinds, StepsInv, PhaseInv, IdsInv, TurnInv, [Next]_vars
  PROVE  TurnInv'
<1>1. CASE UNCHANGED vars
  BY <1>1 DEF vars, clientVars, taskVars, planeVars, helperVars, TurnInv, Calm, Alive, Acceptable, Active,
          Steady, PlaneTurn, NeedsGreeted, NeedsClosed, NeedsSteady, Greeted, Closed, Greets, Asks, At,
          Comes, Has, Id
<1> SUFFICES ASSUME Next, Calm', Alive' PROVE TurnInv'
  BY <1>1 DEF TurnInv
<1>2. Calm /\ session # "rebuild"
  BY CalmBefore
<1>3. CASE WallActs \/ LoopActs \/ ObserveActs
  BY <1>2, <1>3, HelperTurn
<1>4. ASSUME ClientStep \/ ClientExit PROVE Alive /\ UNCHANGED <<hstate, hend>>
  BY <1>4, ClientKeepsHelper DEF helperVars, Alive
<1>5. CASE ClientExit
  <2>1. Alive /\ UNCHANGED <<hstate, c2h, task>> /\ gone' = TRUE
    BY <1>4, <1>5, ExitFrame DEF taskVars, ClientExit
  <2>2. Acceptable /\ \A t \in Tasks : Active(t) => Steady
    BY <1>2, <2>1 DEF TurnInv
  <2>3. (Acceptable' <=> Acceptable) /\ (Steady' <=> Steady)
    BY <2>1, QuietKeeps
  <2> QED BY <2>1, <2>2, <2>3 DEF TurnInv, Active
<1>6. CASE ClientStep
  <2>0. /\ Alive /\ UNCHANGED hstate /\ ~gone /\ Acceptable /\ PlaneTurn
        /\ \A t \in Tasks : Active(t) => Steady
    BY <1>2, <1>4, <1>6, ClientSplits DEF TurnInv
  <2>1. CASE c2h' = c2h
    <3>1. (Acceptable' <=> Acceptable) /\ (Steady' <=> Steady) /\ (Greeted' <=> Greeted) /\ (Closed' <=> Closed)
      BY <2>0, <2>1, QuietKeeps
    <3>2. ASSUME NEW t \in Tasks, Active(t)' PROVE Steady'
      <4>1. CASE Active(t)
        BY <2>0, <3>1, <4>1
      <4>2. CASE ~Active(t)
        <5>1. session = "up"
          BY <1>2, <3>2, <4>2, ActiveMoves DEF Serving
        <5>2. Steady
          BY <2>0, <5>1 DEF PlaneTurn, NeedsSteady
        <5> QED BY <3>1, <5>2
      <4> QED BY <4>1, <4>2
    <3>3. PlaneTurn'
      <4>1. CASE PlaneActs
        BY <1>2, <2>0, <4>1, PlaneTurns
      <4>2. CASE LinkStep \/ RequestStep \/ TaskActs
        <5>1. CASE Submit(Plane) /\ req'[Plane].pc = "wait"
          <6>1. c2h' = Append(c2h, Frame(req[Plane].kind, Id(Plane), req[Plane].flow, "none"))
            <7>1. req \in [Actors -> Req] /\ Plane \in Actors
              BY DEF Base, TInv, ReqOK, Actors
            <7>2. req' # [req EXCEPT ![Plane].pc = "err"]
              BY <5>1, <7>1 DEF Req
            <7> QED BY <5>1, <7>2 DEF Submit
          <6>2. c2h \in Seq(Frames) /\ Len(c2h) \in Nat
            BY DEF Base, TInv, WireOK
          <6>3. Len(c2h') = Len(c2h) + 1
            BY <6>1, <6>2, Elements
          <6> QED BY <2>1, <6>2, <6>3
        <5>2. CASE ~(Submit(Plane) /\ req'[Plane].pc = "wait")
          <6>1. (NeedsGreeted' => NeedsGreeted) /\ (NeedsClosed' => NeedsClosed) /\ (NeedsSteady' => NeedsSteady)
            BY <1>6, <4>2, <5>2, QuietNeeds
          <6> QED BY <2>0, <3>1, <6>1 DEF PlaneTurn
        <5> QED BY <5>1, <5>2
      <4> QED BY <1>6, <4>1, <4>2, ClientSplits
    <3> QED BY <2>0, <3>1, <3>2, <3>3 DEF TurnInv
  <2>2. ASSUME NEW a \in Actors, NEW e \in Frames, Submit(a), Grows(e), e.kind = req[a].kind,
               req'[a].pc = "wait"
        PROVE  TurnInv'
    <3>1. CASE a = Plane
      BY <1>2, <1>6, <2>0, <2>2, <3>1, PlaneWrites
    <3>2. CASE a \in Tasks
      <4>0. req \in [Actors -> Req] /\ Plane \in Actors
        BY DEF Base, TInv, ReqOK, Actors
      <4>1. req[a].pc = "submit" /\ req[a].kind = "RegisterFlow" /\ Active(a)
        BY <2>2, <3>2 DEF Submit, TaskKinds, EntryInv, Active
      <4>2. ~(Submit(Plane) /\ req'[Plane].pc = "wait")
        <5>1. req' = [req EXCEPT ![a].pc = "wait"] \/ req' = [req EXCEPT ![a].pc = "err"]
          BY <2>2 DEF Submit
        <5>2. a # Plane
          BY <3>2
        <5>3. req'[Plane] = req[Plane]
          BY <4>0, <5>1, <5>2
        <5> QED BY <5>3 DEF Submit
      <4>3. RequestStep
        BY <2>2 DEF RequestStep
      <4> QED BY <1>2, <1>6, <2>0, <2>2, <3>2, <4>1, <4>2, <4>3, TaskWrites
    <3> QED BY <3>1, <3>2 DEF Actors
  <2>3. ASSUME NEW t \in Tasks, NEW e \in Frames, DropFlow(t), Grows(e), e.kind = "RemoveFlow"
        PROVE  TurnInv'
    <3>1. Active(t) /\ req' = req
      BY <2>3 DEF DropFlow, Active
    <3>2. ~(Submit(Plane) /\ req'[Plane].pc = "wait")
      BY <3>1 DEF Submit
    <3>3. TaskActs
      BY <2>3 DEF TaskActs, TaskStep
    <3> QED BY <1>2, <1>6, <2>0, <2>3, <3>1, <3>2, <3>3, TaskWrites
  <2> QED BY <1>6, <2>1, <2>2, <2>3, ClientGrows
<1> QED BY <1>3, <1>5, <1>6, NextSplits

(***************************************************************************)
(* The table of the helper and the registrations on their way to it.       *)
(***************************************************************************)
TableInv ==
  /\ Alive /\ hstate # "InterceptorOpen" => reg = {}
  /\ \A t \in reg : truth[t] # "none"

LEMMA TableInit == Init => TableInv
BY DEF Init, TableInv

LEMMA TableStep ==
  ASSUME Base, AskInv, TableInv, [Next]_vars
  PROVE  TableInv'
<1>1. CASE UNCHANGED vars
  BY <1>1 DEF vars, helperVars, TableInv, Alive
<1> SUFFICES ASSUME Next PROVE TableInv'
  BY <1>1
<1>0. reg \subseteq Tasks /\ reg' \subseteq Tasks
  BY BaseStep DEF Base, TInv, HelpOK
<1>2. CASE ClientStep \/ ClientExit
  BY <1>2, ClientKeepsHelper DEF helperVars, TableInv, Alive
<1>3. ASSUME WallActs \/ LoopActs \/ ObserveActs, Alive', hstate' # "InterceptorOpen" PROVE reg' = {}
  <2>1. Alive
    BY <1>3, HelperMoves
  <2>2. CASE UNCHANGED <<c2h, hstate, reg>>
    BY <1>3, <2>1, <2>2 DEF TableInv
  <2>3. CASE LET f == Head(c2h) IN
               /\ Shifts /\ Accepts(hstate, f.kind)
               /\ f.kind \in Turning => hstate' = Turned(f.kind)
               /\ f.kind \notin Turning => hstate' = hstate
               /\ f.kind = "RegisterFlow" => reg' = reg \cup {f.flow}
               /\ f.kind = "RemoveFlow" => reg' = reg \ {f.flow}
               /\ f.kind # "RegisterFlow" => reg' \subseteq reg
               /\ f.kind = "CloseInterceptor" => reg' = {}
               /\ f.kind # "Shutdown"
    <3>1. Head(c2h).kind \in Requests
      BY <2>3 DEF Shifts, Takes
    <3>2. Head(c2h).kind # "CloseInterceptor" => hstate # "InterceptorOpen" \/ Head(c2h).kind \notin Turning
                                                  \/ Head(c2h).kind = "Shutdown"
      BY <2>3 DEF Accepts, Turning
    <3>3. Head(c2h).kind # "RegisterFlow"
      BY <1>3, <2>3 DEF Accepts, Turning
    <3> QED BY <1>3, <2>1, <2>3, <3>2, <3>3 DEF TableInv
  <2> QED BY <1>3, <2>2, <2>3, HelperMoves
<1>4. ASSUME NEW t \in reg' PROVE truth'[t] # "none"
  <2>0. t \in Tasks
    BY <1>0
  <2>1. CASE t \in reg
    <3>1. truth[t] # "none"
      BY <2>1 DEF TableInv
    <3> QED BY <2>0, <3>1, TruthMoves
  <2>2. CASE t \notin reg
    <3>1. CASE ServeRegister
      <4>1. t = Head(c2h).flow /\ truth' = [truth EXCEPT ![Head(c2h).flow] = "waiting"]
        BY <1>4, <2>2, <3>1 DEF ServeRegister
      <4>2. truth'[t] = "waiting"
        BY <2>0, <4>1 DEF Base, TInv, HelpOK
      <4> QED BY <4>2
    <3>2. CASE ~ServeRegister
      <4>1. CASE WallActs
        BY <1>4, <2>2, <4>1 DEF WallActs, ServeConfigure, ServeOpen, ServeClose, ServeShutdown, Quit,
                InterceptorDies, Kill, ForeignOpens, helperVars
      <4>2. CASE LoopActs
        BY <1>4, <2>2, <3>2, <4>2 DEF LoopActs, LoopTop, PollAgain, Disconnected, Reject, Starve,
                ServeHello, ServeRemove, ServeTtl, PublishProgress
      <4>3. CASE ObserveActs
        BY <1>4, <2>2, <4>3, ObserveFrame
      <4>4. CASE ClientStep \/ ClientExit
        BY <1>4, <2>2, <4>4, ClientKeepsHelper DEF helperVars
      <4> QED BY <4>1, <4>2, <4>3, <4>4, NextSplits
    <3> QED BY <3>1, <3>2
  <2> QED BY <2>1, <2>2
<1>5. Alive' /\ hstate' # "InterceptorOpen" => reg' = {}
  BY <1>2, <1>3, NextSplits DEF TableInv
<1> QED BY <1>4, <1>5 DEF TableInv

Known(u) == u \in reg \/ \E i \in 1..Len(c2h) : IsAsk(c2h[i], u)

\* Whatever the helper knows of the flow, or will know, is followed by its removal.
Covered(u) ==
  Known(u) => \E j \in 1..Len(c2h) :
                IsDrop(c2h[j], u) /\ \A i \in 1..Len(c2h) : IsAsk(c2h[i], u) => i < j

\* A flow nobody owns any more is covered; one that an abort left behind waits for
\* the interceptor to be closed, and nobody uses its 4-tuple until then.
OrphanInv ==
  Calm /\ Alive =>
    \A u \in Tasks : task[u] = "gone" =>
      \/ Covered(u)
      \/ /\ session \notin {"connecting", "boot", "start", "up"}
         /\ \A t \in Tasks : Active(t) => key[t] # key[u]

\* A registration meets no other flow with its 4-tuple when it reaches the helper.
ClashInv ==
  Calm /\ Alive =>
    \A t, u \in Tasks : \A i \in 1..Len(c2h) :
      /\ IsAsk(c2h[i], t) /\ u # t /\ key[u] = key[t]
      /\ u \in reg \/ \E j \in 1..Len(c2h) : j < i /\ IsAsk(c2h[j], u)
      => \E k \in 1..Len(c2h) :
           /\ k < i /\ IsDrop(c2h[k], u)
           /\ \A j \in 1..Len(c2h) : j < i /\ IsAsk(c2h[j], u) => j < k

LEMMA OrphanInit == Init => OrphanInv /\ ClashInv
<1> SUFFICES ASSUME Init PROVE OrphanInv /\ ClashInv
  OBVIOUS
<1>1. Len(c2h) = 1 /\ c2h[1].kind = "Hello"
  BY DEF Init, Frame
<1>2. \A t \in Tasks : task[t] # "gone"
  BY DEF Init
<1>3. \A i \in 1..Len(c2h) : \A t \in Tasks : ~IsAsk(c2h[i], t)
  BY <1>1 DEF IsAsk
<1> QED BY <1>2, <1>3 DEF OrphanInv, ClashInv

\* The helper reaches a removal: the flow is unknown from then on.
LEMMA HelperCovers ==
  ASSUME Base, WallActs \/ LoopActs \/ ObserveActs, Alive', NEW u \in Tasks, Covered(u)
  PROVE  Covered(u)'
<1>0. Len(c2h) \in Nat
  BY DEF Base, TInv, WireOK
<1>1. CASE UNCHANGED <<c2h, hstate, reg>>
  BY <1>1 DEF Covered, Known
<1>2. CASE /\ Shifts
           /\ Head(c2h).kind = "RegisterFlow" => reg' = reg \cup {Head(c2h).flow}
           /\ Head(c2h).kind = "RemoveFlow" => reg' = reg \ {Head(c2h).flow}
           /\ Head(c2h).kind # "RegisterFlow" => reg' \subseteq reg
  <2> SUFFICES ASSUME Known(u)'
               PROVE  \E j \in 1..Len(c2h') : /\ IsDrop(c2h'[j], u)
                                               /\ \A i \in 1..Len(c2h') : IsAsk(c2h'[i], u) => i < j
    BY DEF Covered
  <2>1. /\ Len(c2h') = Len(c2h) - 1 /\ 1 \in 1..Len(c2h) /\ Head(c2h) = c2h[1]
        /\ \A i \in 1..Len(c2h') : i + 1 \in 1..Len(c2h) /\ c2h'[i] = c2h[i + 1]
    BY <1>2 DEF Shifts
  <2>2. Known(u)
    BY <1>2, <2>1 DEF Known, IsAsk
  <2>3. PICK j \in 1..Len(c2h) : IsDrop(c2h[j], u) /\ \A i \in 1..Len(c2h) : IsAsk(c2h[i], u) => i < j
    BY <2>2 DEF Covered
  <2>4. j # 1
    <3>1. ASSUME j = 1 PROVE FALSE
      <4>1. u \notin reg'
        BY <1>2, <2>1, <2>3, <3>1 DEF IsDrop
      <4>2. \A i \in 1..Len(c2h) : ~IsAsk(c2h[i], u)
        BY <2>3, <3>1
      <4> QED BY <2>1, <4>1, <4>2 DEF Known
    <3> QED BY <3>1
  <2>5. j - 1 \in 1..Len(c2h') /\ c2h'[j - 1] = c2h[j]
    BY <1>0, <2>1, <2>4
  <2>6. \A i \in 1..Len(c2h') : IsAsk(c2h'[i], u) => i < j - 1
    BY <1>0, <2>1, <2>3
  <2> QED BY <2>3, <2>5, <2>6
<1> QED BY <1>1, <1>2, HelperMoves

LEMMA HelperClash ==
  ASSUME Base, ClashInv, Calm, WallActs \/ LoopActs \/ ObserveActs, Alive'
  PROVE  ClashInv'
<1>0. Len(c2h) \in Nat /\ UNCHANGED <<key, scn, rebuilt>>
  BY WallFrame, LoopFrame, ObserveFrame DEF taskVars, planeVars, Base, TInv, WireOK
<1>1. Alive
  BY HelperMoves
<1>2. CASE UNCHANGED <<c2h, hstate, reg>>
  BY <1>0, <1>1, <1>2 DEF ClashInv
<1>3. CASE /\ Shifts
           /\ Head(c2h).kind = "RegisterFlow" => reg' = reg \cup {Head(c2h).flow}
           /\ Head(c2h).kind = "RemoveFlow" => reg' = reg \ {Head(c2h).flow}
           /\ Head(c2h).kind # "RegisterFlow" => reg' \subseteq reg
  <2> SUFFICES ASSUME NEW t \in Tasks, NEW u \in Tasks, NEW i \in 1..Len(c2h'),
                      IsAsk(c2h'[i], t), u # t, key[u] = key[t],
                      u \in reg' \/ \E j \in 1..Len(c2h') : j < i /\ IsAsk(c2h'[j], u)
               PROVE  \E k \in 1..Len(c2h') :
                        /\ k < i /\ IsDrop(c2h'[k], u)
                        /\ \A j \in 1..Len(c2h') : j < i /\ IsAsk(c2h'[j], u) => j < k
    BY <1>0 DEF ClashInv
  <2>1. /\ Len(c2h') = Len(c2h) - 1 /\ 1 \in 1..Len(c2h) /\ Head(c2h) = c2h[1]
        /\ \A m \in 1..Len(c2h') : m + 1 \in 1..Len(c2h) /\ c2h'[m] = c2h[m + 1]
    BY <1>3 DEF Shifts
  <2>2. i + 1 \in 1..Len(c2h) /\ IsAsk(c2h[i + 1], t) /\ i \in Int /\ i >= 1
    BY <2>1
  <2>3. u \in reg \/ \E j \in 1..Len(c2h) : j < i + 1 /\ IsAsk(c2h[j], u)
    <3>1. CASE u \in reg' /\ u \notin reg
      BY <1>3, <2>1, <2>2, <3>1 DEF IsAsk
    <3>2. CASE \E j \in 1..Len(c2h') : j < i /\ IsAsk(c2h'[j], u)
      <4>1. PICK j \in 1..Len(c2h') : j < i /\ IsAsk(c2h'[j], u)
        BY <3>2
      <4>2. j + 1 \in 1..Len(c2h) /\ IsAsk(c2h[j + 1], u) /\ j + 1 < i + 1
        BY <2>1, <2>2, <4>1
      <4> QED BY <4>2
    <3> QED BY <3>1, <3>2
  <2>4. PICK k \in 1..Len(c2h) :
           /\ k < i + 1 /\ IsDrop(c2h[k], u)
           /\ \A j \in 1..Len(c2h) : j < i + 1 /\ IsAsk(c2h[j], u) => j < k
    BY <1>1, <2>2, <2>3 DEF ClashInv
  <2>5. k # 1
    <3>1. ASSUME k = 1 PROVE FALSE
      <4>1. u \notin reg'
        BY <1>3, <2>1, <2>4, <3>1 DEF IsDrop
      <4>2. PICK j \in 1..Len(c2h') : j < i /\ IsAsk(c2h'[j], u)
        BY <4>1
      <4>3. j + 1 \in 1..Len(c2h) /\ IsAsk(c2h[j + 1], u) /\ j + 1 < i + 1 /\ j >= 1
        BY <2>1, <2>2, <4>2
      <4> QED BY <2>4, <3>1, <4>3
    <3> QED BY <3>1
  <2>6. k - 1 \in 1..Len(c2h') /\ c2h'[k - 1] = c2h[k] /\ k - 1 < i
    BY <1>0, <2>1, <2>2, <2>4, <2>5
  <2>7. ASSUME NEW j \in 1..Len(c2h'), j < i, IsAsk(c2h'[j], u) PROVE j < k - 1
    <3>1. j + 1 \in 1..Len(c2h) /\ IsAsk(c2h[j + 1], u) /\ j + 1 < i + 1
      BY <2>1, <2>2, <2>7
    <3> QED BY <2>4, <3>1
  <2> QED BY <2>4, <2>6, <2>7
<1> QED BY <1>2, <1>3, HelperMoves

\* Which steps end a connection: its removal, or an abort.
LEMMA GoneMoves ==
  ASSUME Base, KeyInv, Calm, Next, NEW u \in Tasks
  PROVE  /\ task[u] = "gone" => task'[u] = "gone" /\ key'[u] = key[u]
         /\ task[u] # "gone" /\ task'[u] = "gone" => DropFlow(u) \/ Abort(u)
         /\ task[u] # "idle" => key'[u] = key[u]
<1>0. /\ task \in [Tasks -> TaskPcs] /\ key \in [Tasks -> Keys \cup {NoKey}]
      /\ \A t \in Tasks : task[t] = "undo" => flowIds[key[t]] = t
  BY DEF Base, TInv, TasksOK, KeyInv
<1>1. CASE ~TaskActs /\ ~PlaneResets
  BY <1>1, KeyFrame
<1>2. CASE PlaneResets
  BY <1>2 DEF PlaneResets, taskVars
<1>3. ASSUME NEW t \in Tasks, NEW k \in Keys, Begin(t, k)
      PROVE  /\ task[u] = "gone" => task'[u] = "gone" /\ key'[u] = key[u]
             /\ task'[u] = "gone" => task[u] = "gone"
             /\ task[u] # "idle" => key'[u] = key[u]
  BY <1>0, <1>3 DEF Begin
<1>4. ASSUME NEW t \in Tasks, MapKey(t) \/ Registered(t) \/ EndConnection(t) \/ TakeId(t)
      PROVE  /\ key' = key /\ (task[u] = "gone" => task'[u] = "gone")
             /\ task'[u] = "gone" => task[u] = "gone"
  <2>1. CASE MapKey(t) \/ Registered(t) \/ EndConnection(t)
    BY <1>0, <2>1 DEF MapKey, Registered, EndConnection
  <2>2. CASE TakeId(t)
    <3>1. /\ task[t] = "undo" /\ UNCHANGED key
          /\ task' = [task EXCEPT ![t] = IF flowIds[key[t]] = NoFlow THEN "gone" ELSE "dropping"]
      BY <2>2 DEF TakeId
    <3>2. flowIds[key[t]] # NoFlow
      BY <1>0, <3>1
    <3> QED BY <1>0, <3>1, <3>2
  <2> QED BY <1>4, <2>1, <2>2
<1>5. ASSUME NEW t \in Tasks, Abort(t) \/ DropFlow(t)
      PROVE  /\ key' = key /\ (task[u] = "gone" => task'[u] = "gone")
             /\ task[u] # "gone" /\ task'[u] = "gone" => u = t
  BY <1>0, <1>5 DEF Abort, DropFlow
<1> QED BY <1>1, <1>2, <1>3, <1>4, <1>5 DEF TaskActs, TaskStep

\* Nothing of the helper's, and no frame for u: what is known of u stays.
LEMMA ClientCovers ==
  ASSUME Base, UNCHANGED reg, NEW u \in Tasks, Covered(u),
         \/ c2h' = c2h
         \/ \E e \in Frames : Grows(e) /\ ~IsAsk(e, u)
  PROVE  Covered(u)'
<1>0. Len(c2h) \in Nat
  BY DEF Base, TInv, WireOK
<1>1. CASE c2h' = c2h
  BY <1>1 DEF Covered, Known
<1>2. ASSUME NEW e \in Frames, Grows(e), ~IsAsk(e, u) PROVE Covered(u)'
  <2> SUFFICES ASSUME Known(u)'
               PROVE  \E j \in 1..Len(c2h') : /\ IsDrop(c2h'[j], u)
                                              /\ \A i \in 1..Len(c2h') : IsAsk(c2h'[i], u) => i < j
    BY DEF Covered
  <2>1. \A i \in 1..Len(c2h') : IsAsk(c2h'[i], u) => i \in 1..Len(c2h) /\ IsAsk(c2h[i], u)
    BY <1>2 DEF Grows
  <2>2. Known(u)
    BY <2>1 DEF Known
  <2>3. PICK j \in 1..Len(c2h) : IsDrop(c2h[j], u) /\ \A i \in 1..Len(c2h) : IsAsk(c2h[i], u) => i < j
    BY <2>2 DEF Covered
  <2>4. j \in 1..Len(c2h') /\ c2h'[j] = c2h[j]
    BY <1>2 DEF Grows
  <2> QED BY <2>1, <2>3, <2>4
<1> QED BY <1>1, <1>2

\* A session whose service has ended starts the next one only over a closed interceptor.
LEMMA EndedStays ==
  ASSUME Base, StepsInv, PhaseInv, Next, Calm, Calm', ClientStep \/ ClientExit,
         session \notin {"connecting", "boot", "start", "up"}
  PROVE  \/ session' \notin {"connecting", "boot", "start", "up"}
         \/ session = "reload" /\ steps = <<>>
<1>0. session # "rebuild" /\ session \in Sessions
  BY CalmBefore DEF Base, TInv, PlaneOK
<1>1. CASE ClientExit
  BY <1>1 DEF ClientExit
<1>2. CASE LinkStep \/ RequestStep \/ TaskActs
  <2>1. session' = session
    BY <1>2, LinkFrame, RequestFrame, TaskFrame DEF planeVars
  <2> QED BY <2>1
<1>3. CASE Welcome \/ Start \/ PlaneAsks \/ PlaneResets \/ PlaneAnswered \/ SessionFatal
  BY <1>3 DEF Welcome, Start, PlaneAsks, PlaneResets, PlaneAnswered, SessionFatal, planeVars
<1>4. CASE PlaneFailed
  <2>1. /\ steps # <<>>
        /\ session' = CASE Head(steps) = "SetLowTtlValue" -> "up"
                        [] session = "rebuild" -> "up"
                        [] OTHER -> "failed"
    BY <1>4 DEF PlaneFailed
  <2>2. session \in {"reload", "stop"}
    BY <2>1, SessionAt
  <2>3. Head(steps) # "SetLowTtlValue"
    BY <2>1, <2>2, TailsAre, StepsTails DEF PhaseInv, StepsInv
  <2>4. session' = "failed"
    BY <1>0, <2>1, <2>3
  <2> QED BY <2>4
<1>5. CASE PlaneDone
  BY <1>0, <1>5 DEF PlaneDone
<1>6. CASE Rebuild \/ CloseForReload \/ Stop
  BY <1>6 DEF Rebuild, CloseForReload, Stop
<1> QED BY <1>1, <1>2, <1>3, <1>4, <1>5, <1>6, ClientSplits DEF PlaneActs, PlaneStep

\* With the interceptor closed the helper knows no flow.
LEMMA ClosedKnowsNone ==
  ASSUME Base, TableInv, Alive, Closed, NEW u \in Tasks
  PROVE  ~Known(u)
<1>1. Len(c2h) = 0 /\ reg = {}
  BY DEF Closed, TableInv
<1> QED BY <1>1 DEF Known

\* What a frame the client writes can be.
LEMMA ClientFrames ==
  ASSUME Base, EntryInv, TaskKinds, StepsInv, PhaseInv, KeyInv, Calm, ClientStep, c2h' # c2h
  PROVE  \/ \E t \in Tasks, e \in Frames :
              /\ Submit(t) /\ Grows(e) /\ IsAsk(e, t) /\ task[t] = "asking" /\ req[t].pc = "submit"
              /\ UNCHANGED <<task, key, session>>
         \/ \E t \in Tasks, e \in Frames :
              DropFlow(t) /\ Grows(e) /\ IsDrop(e, t) /\ UNCHANGED <<key, session>>
         \/ \E e \in Frames : /\ Grows(e) /\ e.kind \notin {"RegisterFlow", "RemoveFlow"}
                              /\ UNCHANGED <<task, key, session>>
<1>1. ASSUME NEW a \in Actors, NEW e \in Frames, Submit(a), Grows(e), e.kind = req[a].kind, e.flow = req[a].flow
      PROVE  \/ a \in Tasks /\ IsAsk(e, a) /\ task[a] = "asking" /\ req[a].pc = "submit"
             \/ e.kind \notin {"RegisterFlow", "RemoveFlow"}
  <2>1. CASE a \in Tasks
    <3>1. req[a].pc = "submit" /\ req[a].kind = "RegisterFlow" /\ task[a] = "asking" /\ req[a].flow = a
      BY <1>1, <2>1 DEF Submit, TaskKinds, EntryInv, Base, RegOK
    <3> QED BY <1>1, <2>1, <3>1 DEF IsAsk
  <2>2. CASE a = Plane
    <3>1. ~gone /\ req[Plane].pc # "none"
      BY <1>1, <2>2, ClientSplits DEF Submit
    <3>2. steps # <<>> /\ req[Plane].kind = Head(steps) /\ Head(steps) # "Reset"
      BY <3>1, PlaneKind
    <3>3. steps \in Seq(PlaneKinds \cup {"Reset"})
      BY DEF Base, TInv, PlaneOK
    <3>4. Head(steps) \in PlaneKinds
      BY <3>2, <3>3
    <3> QED BY <1>1, <2>2, <3>2, <3>4 DEF PlaneKinds
  <2> QED BY <2>1, <2>2 DEF Actors
<1>2. \A a \in Actors : Submit(a) => UNCHANGED <<task, key, session>>
  BY DEF Submit, taskVars, planeVars
<1>3. ASSUME NEW t \in Tasks, NEW e \in Frames, DropFlow(t), Grows(e), e.kind = "RemoveFlow", e.flow = held[t]
      PROVE  IsDrop(e, t) /\ UNCHANGED <<key, session>>
  <2>1. task[t] = "dropping" /\ UNCHANGED <<key, session>>
    BY <1>3 DEF DropFlow, planeVars
  <2>2. held[t] = t
    BY <2>1 DEF KeyInv
  <2> QED BY <1>3, <2>1, <2>2 DEF IsDrop
<1>4. CASE \E a \in Actors, e \in Frames :
             /\ Submit(a) /\ Grows(e) /\ e.kind = req[a].kind /\ e.flow = req[a].flow
             /\ e.id = Id(a) /\ req'[a].pc = "wait"
  <2>1. PICK a \in Actors, e \in Frames : Submit(a) /\ Grows(e) /\ e.kind = req[a].kind /\ e.flow = req[a].flow
    BY <1>4
  <2> QED BY <1>1, <1>2, <2>1
<1> QED BY <1>3, <1>4, ClientGrows

LEMMA OrphanStep ==
  ASSUME Base, EntryInv, TaskKinds, StepsInv, PhaseInv, KeyInv, TurnInv, TableInv, OrphanInv, [Next]_vars
  PROVE  OrphanInv'
<1>1. CASE UNCHANGED vars
  BY <1>1 DEF vars, clientVars, taskVars, planeVars, helperVars, OrphanInv, Calm, Alive, Covered, Known, Active
<1> SUFFICES ASSUME Next, Calm', Alive', NEW u \in Tasks, task'[u] = "gone"
             PROVE  \/ Covered(u)'
                    \/ /\ session' \notin {"connecting", "boot", "start", "up"}
                       /\ \A t \in Tasks : Active(t)' => key'[t] # key'[u]
  BY <1>1 DEF OrphanInv
<1>2. Calm /\ session # "rebuild"
  BY CalmBefore
<1>3. CASE WallActs \/ LoopActs \/ ObserveActs
  <2>1. Alive /\ UNCHANGED <<session, task, key>>
    BY <1>3, HelperMoves, WallFrame, LoopFrame, ObserveFrame DEF planeVars, taskVars
  <2> QED BY <1>2, <1>3, <2>1, HelperCovers DEF OrphanInv, Active
<1>4. CASE ClientStep \/ ClientExit
  <2>0. Alive /\ UNCHANGED <<reg, hstate>>
    BY <1>4, ClientKeepsHelper DEF helperVars, Alive
  <2>1. ASSUME NEW t \in Tasks, NEW e \in Frames, DropFlow(t), Grows(e), IsDrop(e, t), u = t PROVE Covered(u)'
    <3>1. Len(c2h) \in Nat
      BY DEF Base, TInv, WireOK
    <3>2. Len(c2h) + 1 \in 1..Len(c2h') /\ IsDrop(c2h'[Len(c2h) + 1], u)
      BY <2>1, <3>1 DEF Grows
    <3>3. \A i \in 1..Len(c2h') : IsAsk(c2h'[i], u) => i < Len(c2h) + 1
      <4>1. ~IsAsk(e, u)
        BY <2>1 DEF IsDrop, IsAsk
      <4> QED BY <2>1, <3>1, <4>1 DEF Grows
    <3> QED BY <3>2, <3>3 DEF Covered
  <2>2. CASE task[u] = "gone" /\ Covered(u)
    <3>1. CASE c2h' = c2h
      BY <2>0, <2>2, <3>1, ClientCovers
    <3>2. CASE c2h' # c2h
      <4>1. ClientStep
        BY <1>4, <3>2, ExitFrame
      <4>2. \E e \in Frames : Grows(e) /\ ~IsAsk(e, u)
        BY <1>2, <2>2, <3>2, <4>1, ClientFrames DEF IsAsk, IsDrop
      <4> QED BY <2>0, <2>2, <4>2, ClientCovers
    <3> QED BY <3>1, <3>2
  <2>3. CASE task[u] = "gone" /\ ~Covered(u)
    <3>1. session \notin {"connecting", "boot", "start", "up"} /\ \A t \in Tasks : Active(t) => key[t] # key[u]
      BY <1>2, <2>0, <2>3 DEF OrphanInv
    <3>2. CASE session' \notin {"connecting", "boot", "start", "up"}
      <4>1. ASSUME NEW t \in Tasks, Active(t)' PROVE key'[t] # key'[u]
        <5>1. Active(t)
          BY <1>2, <3>1, <4>1, ActiveMoves DEF Serving
        <5>2. task[t] # "idle"
          BY <5>1 DEF Active
        <5>3. key'[t] = key[t] /\ key'[u] = key[u]
          BY <1>2, <2>3, <5>2, GoneMoves
        <5> QED BY <3>1, <5>1, <5>3
      <4> QED BY <3>2, <4>1
    <3>3. CASE session = "reload" /\ steps = <<>>
      <4>1. ASSUME ClientStep PROVE Covered(u)
        <5>1. Closed
          BY <1>2, <2>0, <3>3, <4>1, ClientSplits DEF TurnInv, PlaneTurn, NeedsClosed
        <5> QED BY <2>0, <5>1, ClosedKnowsNone DEF Covered
      <4>2. ASSUME ClientExit PROVE session' \notin {"connecting", "boot", "start", "up"}
        BY <4>2 DEF ClientExit
      <4> QED BY <1>4, <2>3, <3>2, <4>1, <4>2
    <3> QED BY <1>2, <1>4, <3>1, <3>2, <3>3, EndedStays
  <2>4. CASE task[u] # "gone"
    <3>1. DropFlow(u) \/ Abort(u)
      BY <1>2, <2>4, GoneMoves
    <3>2. CASE DropFlow(u)
      <4>1. c2h' # c2h
        <5>1. c2h' = Append(c2h, Frame("RemoveFlow", NoRequest, held[u], "none"))
          BY <2>0, <3>2 DEF DropFlow, SocketOpen, Alive
        <5>2. c2h \in Seq(Frames) /\ Len(c2h) \in Nat
          BY DEF Base, TInv, WireOK
        <5>3. Len(Append(c2h, Frame("RemoveFlow", NoRequest, held[u], "none"))) = Len(c2h) + 1
          BY <5>2
        <5> QED BY <5>1, <5>2, <5>3
      <4>2. ClientStep /\ task' # task
        BY <1>4, <2>4, <4>1, ExitFrame
      <4>3. PICK t \in Tasks, e \in Frames : DropFlow(t) /\ Grows(e) /\ IsDrop(e, t)
        BY <1>2, <4>1, <4>2, ClientFrames
      <4>4. t = u
        BY <2>4, <4>3 DEF DropFlow, Base, TInv, TasksOK
      <4> QED BY <2>1, <4>3, <4>4
    <3>3. CASE Abort(u)
      <4>1. session \in {"reload", "stop"} /\ session' = session /\ Active(u) /\ key' = key
        BY <3>3 DEF Abort, Active, planeVars
      <4>2. ASSUME NEW t \in Tasks, Active(t)' PROVE key'[t] # key'[u]
        <5>1. Active(t)
          BY <1>2, <4>1, <4>2, ActiveMoves DEF Serving
        <5>2. t # u
          BY <4>2 DEF Active
        <5> QED BY <1>2, <4>1, <5>1, <5>2 DEF KeyInv
      <4> QED BY <4>1, <4>2
    <3> QED BY <3>1, <3>2, <3>3
  <2> QED BY <2>2, <2>3, <2>4
<1> QED BY <1>3, <1>4, NextSplits

LEMMA ClashStep ==
  ASSUME Base, EntryInv, AskInv, TaskKinds, StepsInv, PhaseInv, KeyInv, TableInv, OrphanInv, ClashInv, [Next]_vars
  PROVE  ClashInv'
<1>1. CASE UNCHANGED vars
  BY <1>1 DEF vars, taskVars, planeVars, helperVars, ClashInv, Calm, Alive
<1> SUFFICES ASSUME Next, Calm', Alive' PROVE ClashInv'
  BY <1>1 DEF ClashInv
<1>2. Calm
  BY CalmBefore
<1>3. CASE WallActs \/ LoopActs \/ ObserveActs
  BY <1>2, <1>3, HelperClash
<1>4. CASE ClientStep \/ ClientExit
  <2>0. Alive /\ UNCHANGED <<reg, hstate>> /\ Len(c2h) \in Nat
    BY <1>4, ClientKeepsHelper DEF helperVars, Alive, Base, TInv, WireOK
  <2>1. ASSUME NEW v \in Tasks, Known(v) PROVE ~Fresh(v) /\ task[v] # "idle" /\ key'[v] = key[v]
    <3>1. ~Fresh(v)
      <4>1. CASE v \in reg
        BY <4>1 DEF TableInv, AskInv
      <4>2. CASE \E i \in 1..Len(c2h) : IsAsk(c2h[i], v)
        BY <4>2 DEF AskInv
      <4> QED BY <2>1, <4>1, <4>2 DEF Known
    <3>2. task[v] # "idle"
      BY <3>1 DEF Fresh
    <3> QED BY <1>2, <3>1, <3>2, GoneMoves
  <2>2. ASSUME NEW t \in Tasks, NEW u \in Tasks, NEW i \in 1..Len(c2h'), i \in 1..Len(c2h),
               \A j \in 1..Len(c2h) : j \in 1..Len(c2h') /\ c2h'[j] = c2h[j],
               IsAsk(c2h'[i], t), u # t, key'[u] = key'[t],
               u \in reg' \/ \E j \in 1..Len(c2h') : j < i /\ IsAsk(c2h'[j], u)
        PROVE  \E k \in 1..Len(c2h') :
                 /\ k < i /\ IsDrop(c2h'[k], u)
                 /\ \A j \in 1..Len(c2h') : j < i /\ IsAsk(c2h'[j], u) => j < k
    <3>1. \A j \in 1..Len(c2h') : j < i => j \in 1..Len(c2h) /\ c2h'[j] = c2h[j]
      BY <2>0, <2>2
    <3>2. IsAsk(c2h[i], t) /\ (u \in reg \/ \E j \in 1..Len(c2h) : j < i /\ IsAsk(c2h[j], u))
      BY <2>0, <2>2, <3>1
    <3>3. Known(t) /\ Known(u)
      BY <2>2, <3>2 DEF Known
    <3>4. key[u] = key[t]
      BY <2>1, <2>2, <3>3
    <3>5. PICK k \in 1..Len(c2h) :
             /\ k < i /\ IsDrop(c2h[k], u)
             /\ \A j \in 1..Len(c2h) : j < i /\ IsAsk(c2h[j], u) => j < k
      BY <1>2, <2>0, <2>2, <3>2, <3>4 DEF ClashInv
    <3>6. k \in 1..Len(c2h') /\ c2h'[k] = c2h[k]
      BY <2>2
    <3> QED BY <3>1, <3>5, <3>6
  <2>3. CASE c2h' = c2h
    <3>1. \A j \in 1..Len(c2h) : j \in 1..Len(c2h') /\ c2h'[j] = c2h[j]
      BY <2>3
    <3>2. 1..Len(c2h') = 1..Len(c2h)
      BY <2>3
    <3> QED BY <2>2, <3>1, <3>2 DEF ClashInv
  <2>4. ASSUME NEW e \in Frames, Grows(e),
               \A t \in Tasks : IsAsk(e, t) => Active(t) /\ Fresh(t) /\ UNCHANGED <<task, key>>
        PROVE  ClashInv'
    <3> SUFFICES ASSUME NEW t \in Tasks, NEW u \in Tasks, NEW i \in 1..Len(c2h'),
                        IsAsk(c2h'[i], t), u # t, key'[u] = key'[t],
                        u \in reg' \/ \E j \in 1..Len(c2h') : j < i /\ IsAsk(c2h'[j], u)
                 PROVE  \E k \in 1..Len(c2h') :
                          /\ k < i /\ IsDrop(c2h'[k], u)
                          /\ \A j \in 1..Len(c2h') : j < i /\ IsAsk(c2h'[j], u) => j < k
      BY DEF ClashInv
    <3>0. \A j \in 1..Len(c2h) : j \in 1..Len(c2h') /\ c2h'[j] = c2h[j]
      BY <2>4 DEF Grows
    <3>1. CASE i \in 1..Len(c2h)
      BY <2>2, <3>0, <3>1
    <3>2. CASE i = Len(c2h) + 1
      <4>1. IsAsk(e, t)
        BY <2>4, <3>2 DEF Grows
      <4>2. Active(t) /\ UNCHANGED <<task, key>>
        BY <2>4, <4>1
      <4>3. \A j \in 1..Len(c2h') : j < i => j \in 1..Len(c2h) /\ c2h'[j] = c2h[j]
        BY <2>0, <2>4, <3>2 DEF Grows
      <4>4. Known(u)
        BY <2>0, <4>3 DEF Known
      <4>5. task[u] # "idle" /\ key[u] = key[t]
        BY <2>1, <4>2, <4>4
      <4>6. task[u] = "gone"
        <5>1. ~Active(u)
          BY <1>2, <4>2, <4>5 DEF KeyInv
        <5> QED BY <4>5, <5>1 DEF Active
      <4>7. Covered(u)
        BY <1>2, <2>0, <4>2, <4>5, <4>6 DEF OrphanInv
      <4>8. PICK k \in 1..Len(c2h) : IsDrop(c2h[k], u) /\ \A j \in 1..Len(c2h) : IsAsk(c2h[j], u) => j < k
        BY <4>4, <4>7 DEF Covered
      <4>9. k \in 1..Len(c2h') /\ c2h'[k] = c2h[k] /\ k < i
        BY <2>0, <3>0, <3>2
      <4> QED BY <4>3, <4>8, <4>9
    <3> QED BY <2>4, <3>1, <3>2 DEF Grows
  <2>5. CASE c2h' # c2h
    <3>0. ClientStep
      BY <1>4, <2>5, ExitFrame
    <3>1. ASSUME NEW t \in Tasks, NEW e \in Frames, Submit(t), Grows(e), IsAsk(e, t), task[t] = "asking",
                 req[t].pc = "submit", UNCHANGED <<task, key>>
          PROVE  ClashInv'
      <4>1. \A v \in Tasks : IsAsk(e, v) => v = t
        BY <3>1 DEF IsAsk
      <4>2. Active(t) /\ Fresh(t)
        BY <3>1 DEF Active, Fresh
      <4> QED BY <2>4, <3>1, <4>1, <4>2
    <3>2. ASSUME NEW e \in Frames, Grows(e), e.kind # "RegisterFlow" PROVE ClashInv'
      BY <2>4, <3>2 DEF IsAsk
    <3> QED BY <1>2, <2>5, <3>0, <3>1, <3>2, ClientFrames DEF IsDrop
  <2> QED BY <2>3, <2>5
<1> QED BY <1>3, <1>4, NextSplits

(***************************************************************************)
(* No request ends the helper.                                             *)
(***************************************************************************)
LEMMA RejectsNothing ==
  ASSUME Base, Acceptable, Reject
  PROVE  FALSE
<1>1. PICK kind \in Requests : Served(kind) /\ ~Accepts(hstate, kind)
  BY DEF Reject
<1>2. c2h # <<>> /\ Head(c2h).kind = kind
  BY <1>1 DEF Served
<1>3. 1 \in 1..Len(c2h) /\ Head(c2h) = c2h[1]
  BY <1>2 DEF Base, TInv, WireOK
<1> QED BY <1>1, <1>2, <1>3 DEF Acceptable

LEMMA RefusesNothing ==
  ASSUME Base, AskInv, TableInv, ClashInv, Calm, scn.liveLimit >= Cardinality(Tasks), ServeRegister
  PROVE  why' = why
<1> DEFINE t == Head(c2h).flow
<1>0. reg \subseteq Tasks /\ scn.liveLimit \in Nat /\ Len(c2h) \in Nat
  BY ScenariosTyped DEF Base, TInv, HelpOK, PlaneOK, WireOK
<1>1. Served("RegisterFlow") /\ Alive /\ c2h # <<>> /\ Head(c2h).kind = "RegisterFlow"
  BY DEF ServeRegister, Served
<1>2. 1 \in 1..Len(c2h) /\ Head(c2h) = c2h[1]
  BY <1>1 DEF Base, TInv, WireOK
<1>3. t \in Tasks /\ IsAsk(c2h[1], t) /\ truth[t] = "none"
  BY <1>1, <1>2 DEF Base, RegOK, AskInv, IsAsk
<1>4. t \notin reg
  BY <1>3 DEF TableInv
<1>5. \A u \in reg : key[u] # key[t]
  <2>1. ASSUME NEW u \in reg, key[u] = key[t] PROVE FALSE
    <3>1. u # t /\ u \in Tasks
      BY <1>0, <1>4, <2>1
    <3>2. \E k \in 1..Len(c2h) : k < 1
      BY <1>1, <1>2, <1>3, <2>1, <3>1 DEF ClashInv
    <3> QED BY <1>0, <3>2
  <2> QED BY <2>1
<1>6. Cardinality(reg) < Cardinality(Tasks)
  <2>1. IsFiniteSet(reg) /\ Cardinality(reg) <= Cardinality(Tasks)
    BY <1>0, FlowsFinite, FS_Subset
  <2>2. Cardinality(reg) \in Nat /\ Cardinality(Tasks) \in Nat
    BY <2>1, FlowsFinite, FS_CardinalityType
  <2>3. Cardinality(reg \cup {t}) = Cardinality(reg) + 1
    BY <1>4, <2>1, FS_AddElement
  <2>4. Cardinality(reg \cup {t}) <= Cardinality(Tasks)
    BY <1>0, <1>3, FlowsFinite, FS_Subset
  <2> QED BY <2>2, <2>3, <2>4
<1>7. Cardinality(reg) \in Nat /\ Cardinality(Tasks) \in Nat
  BY <1>0, FlowsFinite, FS_Subset, FS_CardinalityType
<1>8. ~(Cardinality(reg) >= scn.liveLimit)
  BY <1>0, <1>6, <1>7
<1>9. ~Clashes(t, key[t])
  BY <1>4, <1>5 DEF Clashes
<1> HIDE DEF t
<1>10. ~(Clashes(Head(c2h).flow, key[Head(c2h).flow]) \/ Cardinality(reg) >= scn.liveLimit)
  BY <1>8, <1>9 DEF t
<1> QED BY <1>10, Zenon DEF ServeRegister, Continue

LEMMA KeptStep ==
  ASSUME Base, AskInv, TableInv, TurnInv, ClashInv, ProtocolKept, [Next]_vars
  PROVE  ProtocolKept'
<1>1. CASE UNCHANGED vars
  BY <1>1 DEF vars, helperVars, ProtocolKept
<1> SUFFICES ASSUME Next, (scn.rebuilds = 0 /\ scn.ownPorts /\ scn.liveLimit >= Cardinality(Tasks))'
             PROVE  why' \notin {"rejected", "refused"}
  BY <1>1 DEF ProtocolKept
<1>2. UNCHANGED scn
  BY NextSplits, ClientKeepsHelper, WallFrame, LoopFrame, ObserveFrame
<1>3. Calm /\ scn.liveLimit >= Cardinality(Tasks) /\ why \notin {"rejected", "refused"}
  BY <1>2 DEF Calm, ProtocolKept
<1>4. CASE ClientStep \/ ClientExit
  BY <1>3, <1>4, ClientKeepsHelper DEF helperVars
<1>5. CASE Reject
  <2>1. Alive
    BY <1>5 DEF Reject, Served
  <2> QED BY <1>3, <1>5, <2>1, RejectsNothing DEF TurnInv
<1>6. CASE ServeRegister
  BY <1>3, <1>6, RefusesNothing
<1>7. CASE ObserveActs
  BY <1>3, <1>7, ObserveFrame
<1>8. CASE WallActs
  BY <1>3, <1>8 DEF WallActs, ServeConfigure, ServeOpen, ServeClose, ServeShutdown, Quit, InterceptorDies,
          Kill, ForeignOpens, Leave, Continue, helperVars
<1>9. CASE LoopTop \/ PollAgain \/ Disconnected \/ Starve \/ ServeHello \/ ServeRemove \/ ServeTtl
           \/ \E t \in Tasks : PublishProgress(t)
  BY <1>3, <1>9 DEF LoopTop, PollAgain, Disconnected, Starve, ServeHello, ServeRemove, ServeTtl,
          PublishProgress, Leave, Continue
<1> QED BY <1>4, <1>5, <1>6, <1>7, <1>8, <1>9, NextSplits DEF LoopActs

(***************************************************************************)
(* Two sessions.  Next to a live helper the first ConfigureInterceptor is  *)
(* never answered, so the plane stays at its first step until it fails.    *)
(***************************************************************************)
Conflict ==
  /\ "live" \in foreign /\ icpt = "none" /\ rules = {}
  /\ hstate \notin {"Configured", "InterceptorOpen"}
Unconfirmed ==
  /\ \A i \in 1..Len(h2c) : h2c[i].kind # "Configured"
  /\ req[Plane].pc = "ok" => req[Plane].answer # "Configured"
NotStarted ==
  /\ session \in {"connecting", "boot", "start", "failed"}
  /\ session = "start" => At("ConfigureInterceptor")
ClosedInv == "live" \in scn.foreign => Conflict /\ Unconfirmed /\ NotStarted

LEMMA ClosedInit == Init => ClosedInv
<1> SUFFICES ASSUME Init, "live" \in scn.foreign PROVE Conflict /\ Unconfirmed /\ NotStarted
  BY DEF ClosedInv
<1>1. Conflict /\ NotStarted
  BY DEF Init, Conflict, NotStarted
<1>2. Len(h2c) = 0 /\ req[Plane].pc = "none"
  BY DEF Init, Idle, Actors
<1> QED BY <1>1, <1>2 DEF Unconfirmed

LEMMA ConflictStays ==
  ASSUME Conflict, Next
  PROVE  Conflict'
<1>1. CASE ClientStep \/ ClientExit \/ ObserveActs
  BY <1>1, ClientKeepsHelper, ObserveFrame DEF helperVars, wallVars, Conflict
<1>2. CASE LoopActs
  BY <1>2, LoopEnds DEF wallVars, Conflict
<1>3. CASE ServeConfigure
  <2>1. PICK ok \in BOOLEAN : /\ Recover(ok)
                             /\ IF ok THEN hstate' = "Configured" ELSE UNCHANGED hstate
    BY <1>3 DEF ServeConfigure
  <2>2. ok = FALSE /\ "live" \in foreign' /\ rules' = {}
    BY <2>1 DEF Recover, Conflict
  <2>3. icpt' = icpt
    BY <1>3, Zenon DEF ServeConfigure
  <2> QED BY <2>1, <2>2, <2>3 DEF Conflict
<1>4. CASE ServeOpen \/ ServeClose
  BY <1>4 DEF ServeOpen, ServeClose, Accepts, Conflict
<1>5. CASE ServeShutdown
  <2>1. foreign' = foreign /\ icpt' = "none" /\ rules' = rules /\ hstate' \in {"Exited", "ShuttingDown"}
    BY <1>5 DEF ServeShutdown, Conflict
  <2> QED BY <2>1 DEF Conflict
<1>6. CASE Quit \/ InterceptorDies \/ Kill \/ ForeignOpens
  BY <1>6 DEF Quit, InterceptorDies, Kill, ForeignOpens, helperVars, wallVars, Conflict
<1> QED BY <1>1, <1>2, <1>3, <1>4, <1>5, <1>6, NextSplits DEF WallActs

\* The helper does not answer the configuration, and the plane hears no answer.
LEMMA UnconfirmedStays ==
  ASSUME Base, Conflict, Unconfirmed, Next
  PROVE  Unconfirmed'
<1>0. Len(h2c) \in Nat /\ h2c \in Seq(Frames) /\ Plane \in Actors /\ TInv
  BY DEF Base, TInv, WireOK, Actors
<1>1. \A i \in 1..Len(h2c') : h2c'[i].kind # "Configured"
  <2>1. CASE h2c' = h2c
    BY <2>1 DEF Unconfirmed
  <2>2. CASE (LoopActs \/ WallActs) /\ ~ServeConfigure
    <3>1. AnswerTo("ConfigureInterceptor") = "Configured"
      BY DEF AnswerTo
    <3>2. ASSUME NEW e \in Frames, h2c' = Append(h2c, e), e.kind # "Configured"
          PROVE  \A i \in 1..Len(h2c') : h2c'[i].kind # "Configured"
      <4>1. /\ Len(h2c') = Len(h2c) + 1 /\ h2c'[Len(h2c) + 1] = e
            /\ \A i \in 1..Len(h2c) : h2c'[i] = h2c[i]
        BY <1>0, <3>2, Elements
      <4>2. \A i \in 1..Len(h2c') : i \in 1..Len(h2c) \/ i = Len(h2c) + 1
        BY <1>0, <4>1
      <4> QED BY <3>2, <4>1, <4>2 DEF Unconfirmed
    <3> QED BY <2>1, <2>2, <3>1, <3>2, OnlyServed
  <2>3. CASE ServeConfigure
    <3>1. PICK ok \in BOOLEAN : Recover(ok) /\ (~ok => Leave("unconfigured", <<>>))
      BY <2>3 DEF ServeConfigure
    <3>2. ok = FALSE
      BY <3>1 DEF Recover, Conflict
    <3> QED BY <1>0, <2>1, <3>1, <3>2, LeaveSilent
  <2>4. CASE ClientStep
    BY <2>4, ClientReads DEF Unconfirmed
  <2>5. CASE ClientExit \/ ObserveActs
    BY <2>1, <2>5, ExitFrame, ObserveFrame
  <2> QED BY <2>2, <2>3, <2>4, <2>5, NextSplits
<1>2. ASSUME req'[Plane].pc = "ok" PROVE req'[Plane].answer # "Configured"
  <2>1. \/ req'[Plane] = req[Plane]
        \/ h2c # <<>> /\ req'[Plane].answer = Head(h2c).kind
    BY <1>0, <1>2, ActorMoves
  <2>2. h2c # <<>> => Head(h2c) = h2c[1] /\ 1 \in 1..Len(h2c)
    BY <1>0, Elements
  <2> QED BY <1>2, <2>1, <2>2 DEF Unconfirmed
<1> QED BY <1>1, <1>2 DEF Unconfirmed

\* So the plane stays at its first request, or gives up.
LEMMA NotStartedStays ==
  ASSUME Base, StepsInv, Unconfirmed, NotStarted, Next
  PROVE  NotStarted'
<1>0. session # "start" => steps = <<>>
  BY DEF StepsInv, NotStarted
<1>1. CASE WallActs \/ LoopActs \/ ObserveActs \/ LinkStep \/ RequestStep \/ TaskActs \/ PlaneAsks
  <2>1. UNCHANGED <<session, steps>>
    BY <1>1, WallFrame, LoopFrame, ObserveFrame, LinkFrame, RequestFrame, TaskFrame
       DEF planeVars, PlaneAsks
  <2> QED BY <2>1 DEF NotStarted, At
<1>2. CASE ClientExit
  BY <1>2 DEF ClientExit, NotStarted
<1>3. CASE Welcome
  BY <1>3 DEF Welcome, NotStarted
<1>4. CASE Start
  <2>1. session' = "start" /\ steps' = StartSteps
    BY <1>4 DEF Start
  <2> QED BY <2>1, StartStepsAre DEF NotStarted, At
<1>5. CASE PlaneResets
  BY <1>0, <1>5 DEF PlaneResets, NotStarted, At
<1>6. CASE PlaneAnswered
  <2>1. /\ steps # <<>> /\ Head(steps) = "ConfigureInterceptor"
        /\ req[Plane].pc = "ok" /\ req[Plane].answer = AnswerTo(req[Plane].kind)
    BY <1>0, <1>6 DEF PlaneAnswered, NotStarted, At
  <2>2. req[Plane].kind = "ConfigureInterceptor"
    BY <2>1 DEF StepsInv
  <2>3. req[Plane].answer = "Configured"
    BY <2>1, <2>2 DEF AnswerTo
  <2> QED BY <2>1, <2>3 DEF Unconfirmed
<1>7. CASE PlaneFailed
  <2>1. steps # <<>> /\ session = "start" /\ Head(steps) = "ConfigureInterceptor"
    BY <1>0, <1>7 DEF PlaneFailed, NotStarted, At
  <2>2. session' = "failed"
    BY <1>7, <2>1 DEF PlaneFailed
  <2> QED BY <2>2 DEF NotStarted
<1>8. CASE PlaneDone
  BY <1>8 DEF PlaneDone, NotStarted, At
<1>9. CASE SessionFatal \/ Rebuild \/ CloseForReload \/ Stop
  BY <1>9 DEF SessionFatal, Serving, Rebuild, CloseForReload, Stop, NotStarted
<1> QED BY <1>1, <1>2, <1>3, <1>4, <1>5, <1>6, <1>7, <1>8, <1>9, NextSplits, ClientSplits
        DEF PlaneActs, PlaneStep

LEMMA ClosedStep ==
  ASSUME Base, StepsInv, ClosedInv, [Next]_vars
  PROVE  ClosedInv'
<1>1. CASE Next
  <2>1. UNCHANGED scn
    BY <1>1, NextSplits, ClientKeepsHelper, WallFrame, LoopFrame, ObserveFrame
  <2> QED BY <1>1, <2>1, ConflictStays, UnconfirmedStays, NotStartedStays DEF ClosedInv
<1>2. CASE UNCHANGED vars
  BY <1>2 DEF vars, clientVars, planeVars, helperVars, wallVars, ClosedInv, Conflict, Unconfirmed,
       NotStarted, At
<1> QED BY <1>1, <1>2

\* A session that begins next to a live helper fails closed: its interceptor stays
\* shut, it installs no rule, it removes none of the other's, and its client never
\* takes the service for started (recover_stale_firewall_state, prepare_remote).
THEOREM ConflictFailsClosed == Spec => []FailsClosed
<1>1. ClosedInv => FailsClosed
  BY DEF ClosedInv, Conflict, NotStarted, FailsClosed
<1>2. Base /\ StopInv /\ ClosedInv /\ [Next]_vars => ClosedInv'
  BY ClosedStep DEF StopInv
<1> QED BY <1>1, <1>2, ClosedInit, BaseHolds, StopHolds, PTL DEF Spec

\* Everything the two theorems below rest on, beside the types and the stop.
ProtocolInv ==
  /\ EntryInv /\ AskInv /\ TaskKinds /\ PhaseInv /\ KeyInv /\ IdsInv
  /\ TurnInv /\ TableInv /\ OrphanInv /\ ClashInv /\ ProtocolKept

LEMMA ProtocolHolds == Spec => []ProtocolInv
<1>1. Init => ProtocolInv
  <2> SUFFICES ASSUME Init PROVE ProtocolInv
    OBVIOUS
  <2>1. TaskKinds /\ ProtocolKept
    BY DEF Init, TaskKinds, Idle, Actors, ProtocolKept
  <2> QED BY <2>1, FlowInit, PhaseInit, KeyInit, IdsInit, TurnInit, TableInit, OrphanInit DEF ProtocolInv, FlowInv
<1>2. Base /\ StopInv /\ FlowInv /\ FlowInv' /\ ProtocolInv /\ [Next]_vars => ProtocolInv'
  BY TaskKindsStep, PhaseStep, KeyStep, IdsStep, TurnStep, TableStep, OrphanStep, ClashStep, KeptStep
     DEF ProtocolInv, StopInv, FlowInv
<1> QED BY <1>1, <1>2, BaseHolds, StopHolds, FlowHolds, PTL DEF Spec

\* The registrations and the removals in the socket, as the property counts them.
LEMMA OrphansAre ==
  ASSUME Base, PhaseInv, TurnInv, TableInv, OrphanInv
  PROVE  NoOrphanFlow
<1> SUFFICES ASSUME Calm, Alive, ~gone, session \in {"boot", "start", "up", "reload"},
                    NEW t \in Tasks, task[t] = "gone",
                    t \in reg \/ OnTheWay("RegisterFlow", t) # {},
                    ~(session = "reload" /\ At("CloseInterceptor"))
             PROVE  \E j \in OnTheWay("RemoveFlow", t) : \A i \in OnTheWay("RegisterFlow", t) : i < j
  BY DEF NoOrphanFlow, Calm, At
<1>1. DOMAIN c2h = 1..Len(c2h)
  BY DEF Base, TInv, WireOK
<1>2. \A i : i \in OnTheWay("RegisterFlow", t) <=> i \in 1..Len(c2h) /\ IsAsk(c2h[i], t)
  BY <1>1 DEF OnTheWay, IsAsk
<1>3. \A i : i \in OnTheWay("RemoveFlow", t) <=> i \in 1..Len(c2h) /\ IsDrop(c2h[i], t)
  BY <1>1 DEF OnTheWay, IsDrop
<1>4. Known(t)
  BY <1>2 DEF Known
<1>5. session # "reload"
  <2>1. ASSUME session = "reload" PROVE FALSE
    <3>1. steps = <<>> \/ At("Reset")
      BY <2>1, TailsAre DEF PhaseInv, At
    <3>2. Closed
      BY <2>1, <3>1 DEF TurnInv, PlaneTurn, NeedsClosed
    <3> QED BY <1>4, <3>2, ClosedKnowsNone
  <2> QED BY <2>1
<1>6. Covered(t)
  BY <1>5 DEF OrphanInv
<1> QED BY <1>2, <1>3, <1>4, <1>6 DEF Covered

\* No connection that is over leaves its flow behind in the helper.  The removal
\* that remove_flow writes follows the registration through the socket, whatever
\* deadlines and late answers come between; and the flow of a registration that a
\* reload cancelled is gone once the reload has closed the interceptor.
THEOREM FlowsAreReleased == Spec => []NoOrphanFlow
<1>1. Base /\ ProtocolInv => NoOrphanFlow
  BY OrphansAre DEF ProtocolInv
<1> QED BY <1>1, BaseHolds, ProtocolHolds, PTL

\* No request of the client ends the helper: each frame arrives in a state of
\* serve that accepts it, and no registration meets another flow with its 4-tuple.
THEOREM ProtocolIsKept == Spec => []ProtocolKept
<1>1. ProtocolInv => ProtocolKept
  BY DEF ProtocolInv
<1> QED BY <1>1, ProtocolHolds, PTL

\* The whole invariant of the client and the helper.
THEOREM HelperInvariant == Spec => []HelperInv
<1>1. Base => HelperTypeOK
  BY DEF Base, TInv, ReqOK, PendingOK, MapsOK, TasksOK, PlaneOK, HelpOK, HelperTypeOK, Sessions, Req
<1> QED BY <1>1, BaseHolds, FlowsAreReleased, ProtocolIsKept, StopIsConfirmed, RulesFollow, PTL DEF HelperInv
=============================================================================
