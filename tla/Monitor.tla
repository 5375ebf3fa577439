------------------------------- MODULE Monitor -------------------------------
(***************************************************************************)
(* The network monitor (netmon/mod.rs, netmon/platform.rs).  Its thread    *)
(* waits for a notification of the system or for the end of a wait, and    *)
(* probes the uplink when notifications have settled or the poll interval  *)
(* has passed.  The notifications come from a netlink socket that is       *)
(* polled together with a wake pipe (Linux, Android), or from callbacks    *)
(* that a notifier thread registers and that send into a channel           *)
(* (Windows); without either the monitor only sleeps.  shutdown stores a   *)
(* flag, wakes the source and joins the monitor's thread.                  *)
(*                                                                         *)
(* Time is counted in ticks from where it matters: what is left of the     *)
(* current wait and of the settle window.  The coordinator is the reader   *)
(* of the events and of nothing else; Recovery has the rest of it.  Left   *)
(* out: a probe target that is not set (every mode that starts a monitor   *)
(* sets it first), and netlink messages of other kinds than the three      *)
(* groups subscribed to.                                                   *)
(***************************************************************************)
EXTENDS Uplink

CONSTANTS Conditions,   \* the conditions of the adapters that can occur
          Notified,     \* the kinds of notification of the instance
          OnPlatforms,  \* the platforms of the instance
          Settle,       \* ticks of the settle window, 1 s in the code
          PollInterval, \* ticks between polls, 10 s in the code
          Capacity,     \* of the event channel, 16 in the code
          Backlog,      \* notifications the netlink socket buffers
          MaxChanges,   \* bound: changes of the adapters
          MaxFaults     \* bound: failed probes and waits that end early

ASSUME MonitorAssumption ==
  /\ OnPlatforms \subseteq Platforms /\ Notified \subseteq {"Address", "Route", "Link"}
  /\ Conditions \subseteq [Adapters -> Condition]
  /\ Settle \in Nat \ {0} /\ PollInterval \in Nat \ {0} /\ Settle <= PollInterval
  /\ Capacity \in Nat \ {0} /\ Backlog \in Nat \ {0}
  /\ MaxChanges \in Nat /\ MaxFaults \in Nat

VARIABLES
  platform,  \* the system the program runs on
  adapters,  \* the condition of every adapter
  kind,      \* the source: "none" before start, "netlink", "windows" or "poll"
  owner,     \* the thread that starts the monitor and shuts it down
  stop,      \* NetworkMonitor::stop
  loop,      \* the monitor's thread
  last,      \* ChangeFilter::last
  socket,    \* the netlink socket, the wake pipe and the waker's own flag
  notifier,  \* the Windows notifier thread, its context and its callbacks
  events,    \* the event channel as the coordinator sees it
  quiet,     \* history: ticks since the last notification was taken
  budget     \* what is left of the bounds

sourceVars == <<socket, notifier>>
vars == <<platform, adapters, kind, owner, stop, loop, last, sourceVars, events,
          quiet, budget>>

Kinds == {"Address", "Route", "Link"}
OwnerPcs == {"opening", "registering", "starting", "running", "stopping", "waking",
             "joining", "joined"}
LoopPcs == {"absent", "top", "waiting", "draining", "expired", "ended"}
NotifierPcs == {"absent", "interface", "route", "undo", "queue", "listening",
                "cancelling", "freeing", "failed", "ended"}

UplinkNow == Resolve(platform, adapters)
Running == owner \notin {"stopping", "waking", "joining", "joined"}

CanFail == budget.faults > 0
Spend(what) == budget' = [budget EXCEPT ![what] = @ - 1]

\* A probe of the uplink: what resolve_physical_binding finds, or a failure.
Probe(found) ==
  \/ found = UplinkNow /\ UNCHANGED budget
  \/ found = None /\ UplinkNow # None /\ CanFail /\ Spend("faults")

NoLoop == [pc |-> "absent", left |-> 0, pending |-> None, due |-> 0]
NoSource == [queue |-> <<>>, overrun |-> FALSE, wake |-> FALSE, stop |-> FALSE]
NoNotifier ==
  [pc |-> "absent", context |-> "none", registered |-> {}, callbacks |-> {},
   messages |-> FALSE, quit |-> FALSE, channel |-> <<>>]

\* The mode has found its binding; the uplink may change before the monitor runs.
Init ==
  /\ platform \in OnPlatforms
  /\ adapters \in Conditions
  /\ kind = "none" /\ owner = "opening" /\ stop = FALSE
  /\ loop = NoLoop
  /\ last = UplinkNow /\ last # None
  /\ socket = NoSource /\ notifier = NoNotifier
  /\ events = [pending |-> 0, lagged |-> FALSE]
  /\ quiet = 0
  /\ budget = [changes |-> MaxChanges, faults |-> MaxFaults]

(***************************************************************************)
(* The system: adapters change, and a change is notified, or it is not.    *)
(***************************************************************************)
\* A netlink message joins the queue; a full queue drops it and the next read
\* reports the overrun.
Posted(s, k) ==
  IF Len(s.queue) < Backlog THEN [s EXCEPT !.queue = Append(@, k)]
  ELSE [s EXCEPT !.overrun = TRUE]

\* The callbacks a change of this kind starts.
Handle(k) == IF k = "Route" THEN "route" ELSE "interface"

AdaptersChange ==
  /\ budget.changes > 0
  /\ adapters' \in Conditions \ {adapters}
  /\ Spend("changes")
  /\ \/ UNCHANGED sourceVars
     \/ \E k \in Notified :
          \/ /\ kind = "netlink"
             /\ socket' = Posted(socket, k)
             /\ UNCHANGED notifier
          \/ /\ Handle(k) \in notifier.registered
             /\ notifier' = [notifier EXCEPT !.callbacks = @ \cup {Handle(k)}]
             /\ UNCHANGED socket
  /\ UNCHANGED <<platform, kind, owner, stop, loop, last, events, quiet>>

\* on_interface_change, on_route_change: send into the channel and return.
CallbackReturns ==
  \E h \in notifier.callbacks :
    /\ notifier' = [notifier EXCEPT
         !.callbacks = @ \ {h},
         !.channel = Append(@, IF h = "route" THEN "Route" ELSE "Address")]
    /\ UNCHANGED <<platform, adapters, kind, owner, stop, loop, last, socket, events,
                   quiet, budget>>

Tick ==
  /\ loop.pc = "waiting" /\ loop.left > 0
  /\ loop' = [loop EXCEPT !.left = @ - 1, !.due = IF @ > 0 THEN @ - 1 ELSE 0]
  /\ quiet' = IF quiet < Settle THEN quiet + 1 ELSE quiet
  /\ UNCHANGED <<platform, adapters, kind, owner, stop, last, sourceVars, events, budget>>

(***************************************************************************)
(* The Windows notifier thread.                                            *)
(***************************************************************************)
At(pc) == notifier.pc = pc
notifierFrame ==
  UNCHANGED <<platform, adapters, kind, owner, stop, loop, last, socket, events, quiet, budget>>

\* NotifyIpInterfaceChange with the context just allocated.
RegisterInterface ==
  /\ At("interface")
  /\ \/ notifier' = [notifier EXCEPT !.pc = "route", !.context = "live",
                                     !.registered = {"interface"}]
     \/ notifier' = [notifier EXCEPT !.pc = "failed", !.context = "freed"]
  /\ notifierFrame

RegisterRoute ==
  /\ At("route")
  /\ \/ notifier' = [notifier EXCEPT !.pc = "queue", !.registered = @ \cup {"route"}]
     \/ notifier' = [notifier EXCEPT !.pc = "undo"]
  /\ notifierFrame

\* Variation: the context is freed before the registration is cancelled.
UndoRegistrationEarly ==
  /\ At("undo")
  /\ notifier' = [notifier EXCEPT !.pc = "failed", !.registered = {}, !.context = "freed"]
  /\ notifierFrame

\* The route registration failed: cancel the first one, which waits for its
\* callbacks, then free the context.
UndoRegistration ==
  /\ At("undo")
  /\ notifier.callbacks = {}
  /\ notifier' = [notifier EXCEPT !.pc = "failed", !.registered = {}, !.context = "freed"]
  /\ notifierFrame

\* PeekMessageW makes the message queue before the thread id is published.
CreateQueue ==
  /\ At("queue")
  /\ notifier' = [notifier EXCEPT !.pc = "listening", !.messages = TRUE]
  /\ notifierFrame

\* GetMessageW returns WM_QUIT.
TakeQuit ==
  /\ At("listening") /\ notifier.quit
  /\ notifier' = [notifier EXCEPT !.pc = "cancelling"]
  /\ notifierFrame

\* CancelMibChangeNotify2 returns when no callback of the handle is running.
CancelNotifications ==
  /\ At("cancelling")
  /\ \E h \in notifier.registered :
       /\ h \notin notifier.callbacks
       /\ notifier' = [notifier EXCEPT
            !.registered = @ \ {h},
            !.pc = IF notifier.registered = {h} THEN "freeing" ELSE @]
  /\ notifierFrame

\* The box is dropped, and with it the only sender of the channel.
FreeContext ==
  /\ At("freeing")
  /\ notifier' = [notifier EXCEPT !.pc = "ended", !.context = "freed"]
  /\ notifierFrame

(***************************************************************************)
(* The owner: NetworkMonitor::start and shutdown.                          *)
(***************************************************************************)
ownerFrame == UNCHANGED <<platform, adapters, last, events, quiet>>

\* A source that could not be opened is replaced by the one that only sleeps.
OpenSource(native, opened) == kind' = IF opened THEN native ELSE "poll"

\* platform::source on Linux and Android: socket, bind and pipe, each of which
\* can fail, in which case the monitor only polls.
OpenNetlink ==
  /\ owner = "opening" /\ platform # "windows"
  /\ \E opened \in BOOLEAN : OpenSource("netlink", opened)
  /\ owner' = "starting"
  /\ UNCHANGED <<stop, loop, sourceVars, budget>>
  /\ ownerFrame

\* platform::source on Windows spawns the notifier and waits for its answer.
SpawnNotifier ==
  /\ owner = "opening" /\ platform = "windows"
  /\ notifier' = [notifier EXCEPT !.pc = "interface"]
  /\ owner' = "registering"
  /\ UNCHANGED <<kind, stop, loop, socket, budget>>
  /\ ownerFrame

TakeAnswer ==
  /\ owner = "registering"
  /\ At("failed") \/ At("listening")
  /\ OpenSource("windows", At("listening"))
  /\ owner' = "starting"
  /\ UNCHANGED <<stop, loop, sourceVars, budget>>
  /\ ownerFrame

\* The filter is seeded with the binding the mode was started with.
SpawnLoop ==
  /\ owner = "starting"
  /\ loop' = [loop EXCEPT !.pc = "top"]
  /\ owner' = "running"
  /\ UNCHANGED <<kind, stop, sourceVars, budget>>
  /\ ownerFrame

StoreStop ==
  /\ owner = "running"
  /\ owner' = "stopping" /\ stop' = TRUE
  /\ UNCHANGED <<kind, loop, sourceVars, budget>>
  /\ ownerFrame

\* NetworkWaker::wake: the flag and a byte in the pipe; WM_QUIT, which is lost
\* when the thread has no message queue; nothing for a source that only sleeps.
Wake ==
  /\ owner = "stopping"
  /\ owner' = "joining"
  /\ socket' = IF kind = "netlink" THEN [socket EXCEPT !.stop = TRUE, !.wake = TRUE] ELSE socket
  /\ notifier' = IF kind = "windows" THEN [notifier EXCEPT !.quit = notifier.messages] ELSE notifier
  /\ UNCHANGED <<kind, stop, loop, budget>>
  /\ ownerFrame

Join ==
  /\ owner = "joining" /\ loop.pc = "ended"
  /\ owner' = "joined"
  /\ UNCHANGED <<kind, stop, loop, sourceVars, budget>>
  /\ ownerFrame

(***************************************************************************)
(* The monitor's thread: run_loop over the source's wait.                  *)
(***************************************************************************)
loopFrame == UNCHANGED <<platform, adapters, kind, owner, stop>>

\* The timeout of the next wait.
WaitFor == IF loop.pending = None THEN PollInterval ELSE loop.due

\* The top of the loop; NetlinkSource::wait looks at its own flag first.
LoopTop ==
  /\ loop.pc = "top"
  /\ loop' = IF stop \/ (kind = "netlink" /\ socket.stop)
               THEN [loop EXCEPT !.pc = "ended"]
               ELSE [loop EXCEPT !.pc = "waiting", !.left = WaitFor]
  /\ UNCHANGED <<last, sourceVars, events, quiet, budget>>
  /\ loopFrame

Waiting == loop.pc = "waiting"
Expire == loop' = [loop EXCEPT !.pc = "expired"]
End == loop' = [loop EXCEPT !.pc = "ended"]

\* Variation: the window of the first notification runs on.
RecordOnce(k) ==
  /\ loop' = [loop EXCEPT !.pc = "top", !.pending = k,
                          !.due = IF loop.pending = None THEN Settle ELSE @]
  /\ quiet' = 0

\* SettleState::record: a newer notification restarts the settle window.
Record(k) ==
  /\ loop' = [loop EXCEPT !.pc = "top", !.pending = k, !.due = Settle]
  /\ quiet' = 0

\* libc::poll returns: the wake pipe goes first, then the netlink socket.
NetlinkPolled ==
  /\ Waiting /\ kind = "netlink"
  /\ \/ socket.wake /\ End
     \/ ~socket.wake /\ (socket.queue # <<>> \/ socket.overrun)
          /\ loop' = [loop EXCEPT !.pc = "draining"]
  /\ UNCHANGED <<last, sourceVars, events, quiet, budget>>
  /\ loopFrame

\* drain: an overrun is an error of recv, and ends the wait; a message of one of
\* the groups is the change that is reported.
Drain ==
  /\ loop.pc = "draining"
  /\ \/ socket.overrun /\ Expire
          /\ socket' = [socket EXCEPT !.overrun = FALSE] /\ UNCHANGED quiet
     \/ ~socket.overrun /\ socket.queue # <<>> /\ Record(Head(socket.queue))
          /\ socket' = [socket EXCEPT !.queue = Tail(@)]
  /\ UNCHANGED <<last, notifier, events, budget>>
  /\ loopFrame

\* recv_timeout: what was sent first is taken before the sender's end is seen.
ChannelReceived ==
  /\ Waiting /\ kind = "windows"
  /\ \/ /\ notifier.channel # <<>>
        /\ Record(Head(notifier.channel))
        /\ notifier' = [notifier EXCEPT !.channel = Tail(@)]
     \/ notifier.channel = <<>> /\ At("ended") /\ End /\ UNCHANGED <<notifier, quiet>>
  /\ UNCHANGED <<last, socket, events, budget>>
  /\ loopFrame

\* The wait ends: its time has passed, or poll was interrupted or rounded the
\* time down to milliseconds.
WaitEnds ==
  /\ Waiting /\ Expire
  /\ \/ /\ loop.left = 0
        /\ kind = "netlink" => ~socket.wake /\ socket.queue = <<>> /\ ~socket.overrun
        /\ kind = "windows" => notifier.channel = <<>>
        /\ UNCHANGED budget
     \/ kind = "netlink" /\ loop.left > 0 /\ CanFail /\ Spend("faults")
  /\ UNCHANGED <<last, sourceVars, events, quiet>>
  /\ loopFrame

\* Sending into a full broadcast channel overwrites the oldest event.
Emitted ==
  [events EXCEPT !.pending = IF @ < Capacity THEN @ + 1 ELSE @,
                 !.lagged = @ \/ events.pending = Capacity]

\* Variation: a failed probe is remembered but not reported.
ObserveQuietly(found) ==
  /\ last' = found
  /\ events' = IF found # last /\ found # None THEN Emitted ELSE events

\* ChangeFilter::observe, and the event when it says so.
Observe(found) ==
  /\ last' = found
  /\ events' = IF found # last THEN Emitted ELSE events

\* SettleState::due: the settled notification is taken, a younger one stays.
Settled == [loop EXCEPT !.pc = "top", !.pending = IF loop.due = 0 THEN None ELSE @]

\* Variation: only a settled notification probes.
ExpiredSettled ==
  /\ loop.pc = "expired"
  /\ IF loop.pending # None
       THEN \E found \in {UplinkNow, None} : Probe(found) /\ Observe(found)
       ELSE UNCHANGED <<last, events, budget>>
  /\ loop' = Settled
  /\ UNCHANGED <<sourceVars, quiet>>
  /\ loopFrame

\* A wait that ended: a settled notification, or else the safety net, probes.
Expired ==
  /\ loop.pc = "expired"
  /\ \E found \in {UplinkNow, None} : Probe(found) /\ Observe(found)
  /\ loop' = Settled
  /\ UNCHANGED <<sourceVars, quiet>>
  /\ loopFrame

(***************************************************************************)
(* The coordinator: an event makes it look for the uplink itself.          *)
(***************************************************************************)
readerFrame == UNCHANGED <<platform, adapters, kind, owner, stop, loop, last, sourceVars, quiet, budget>>

Read ==
  /\ events.pending > 0 \/ events.lagged
  /\ events' = IF events.lagged THEN [events EXCEPT !.lagged = FALSE]
               ELSE [events EXCEPT !.pending = @ - 1]
  /\ readerFrame

Finished == owner = "joined" /\ UNCHANGED vars

NotifierNext ==
  \/ RegisterInterface \/ RegisterRoute \/ UndoRegistration \/ CreateQueue
  \/ TakeQuit \/ CancelNotifications \/ FreeContext
OwnerStarts == OpenNetlink \/ SpawnNotifier \/ TakeAnswer \/ SpawnLoop
OwnerStops == Wake \/ Join
LoopNext == LoopTop \/ NetlinkPolled \/ Drain \/ ChannelReceived \/ WaitEnds \/ Expired
Next ==
  \/ AdaptersChange \/ CallbackReturns \/ Tick
  \/ NotifierNext \/ OwnerStarts \/ StoreStop \/ OwnerStops
  \/ LoopNext \/ Read \/ Finished

Spec == Init /\ [][Next]_vars

\* Threads run, callbacks return, and time passes.  Once a monitor with
\* a native source is told to stop nothing more is asked of time: it must come
\* to its end without another tick.
FairSpec ==
  /\ Spec
  /\ WF_vars(NotifierNext) /\ WF_vars(OwnerStarts \/ OwnerStops)
  /\ WF_vars(LoopNext) /\ WF_vars(CallbackReturns) /\ WF_vars(Read)
  /\ WF_vars(Tick /\ (Running \/ kind = "poll"))

-----------------------------------------------------------------------------
(***************************************************************************)
(* Properties.                                                             *)
(***************************************************************************)
MonitorTypeOK ==
  /\ platform \in Platforms /\ adapters \in Conditions
  /\ kind \in {"none", "netlink", "windows", "poll"}
  /\ owner \in OwnerPcs /\ stop \in BOOLEAN
  /\ loop \in [pc : LoopPcs, left : 0..PollInterval, pending : Kinds \cup {None}, due : 0..Settle]
  /\ last \in Bindings \cup {None}
  /\ socket \in [queue : Seq(Kinds), overrun : BOOLEAN, wake : BOOLEAN, stop : BOOLEAN]
  /\ Len(socket.queue) <= Backlog
  /\ notifier.pc \in NotifierPcs /\ notifier.channel \in Seq(Kinds)
  /\ events \in [pending : 0..Capacity, lagged : BOOLEAN]
  /\ quiet \in 0..Settle

\* A callback never runs on a context that was freed: notifications are
\* cancelled, which waits for running callbacks, before the box is dropped, on
\* the failure paths of the registration too (netmon/platform.rs).
ContextOutlivesCallbacks ==
  notifier.callbacks # {} \/ notifier.registered # {} => notifier.context = "live"

\* What the monitor follows is never a virtual adapter, whatever route a TUN
\* takes over, and never an address that cannot carry traffic (uplink.rs).
NeverVirtual ==
  \A b \in {last} \ {None} : Class[b.adapter] # "virtual" /\ b.ip \in Usable

\* A socket opened with a binding that was found, however long ago, leaves
\* from an address that a physical adapter holds at that moment, or is not
\* opened at all, and through that adapter's device unless Android refuses it
\* (net.rs, bound_tcp_socket and connect_bound).
EgressTied ==
  last # None =>
    /\ \A s \in BoundSockets(platform, adapters, last) :
         /\ s.source \in Usable
         /\ \E a \in Adapters :
              /\ NotVirtual(a)
              /\ \E n \in 1..Len(adapters[a].addrs) : adapters[a].addrs[n] = s.source
              /\ s.device = a \/ platform = "android"
    /\ \A s \in BoundSockets6(platform, last) :
         platform = "android" \/ (s.device \in Adapters /\ NotVirtual(s.device))

\* A settled notification is acted upon only after a whole settle window
\* without another one, however they arrive (SettleState).  Of all adapters, the
\* one followed after a probe is the one the system would prefer among the
\* physical ones: no operational physical adapter with a usable address has a
\* better metric (uplink.rs, resolve_physical_binding).
ProbesSettled ==
  [][/\ loop.pc = "expired" /\ loop.pending # None /\ loop'.pending = None => quiet >= Settle
     /\ \A b \in {last'} \ {None} : last' # last =>
          \A a \in Adapters :
            /\ adapters[a].up /\ Index[a] # 0 /\ UsableAt(adapters[a]) # {}
            /\ Class[a] = "lan"
            => IF platform = "windows" THEN IfMetric[b.adapter] <= IfMetric[a]
               ELSE LowestMetric(adapters[b.adapter]) <= LowestMetric(adapters[a])]_vars

\* The monitor is the detector it promises to be: what it remembers and what it
\* reports change together, no event is raised for what was already seen, and
\* none for nothing (run_loop, ChangeFilter).
D == INSTANCE Detector WITH
  uplink <- UplinkNow, seen <- last,
  news <- (events.pending > 0 \/ events.lagged), live <- Running

ReportsChanges == D!Spec

\* Nothing is followed, bound or called that should not be: the conjuncts above.
MonitorInv == MonitorTypeOK /\ ContextOutlivesCallbacks /\ NeverVirtual /\ EgressTied

\* Whatever notifications are lost, merged or late, the monitor ends up with the
\* uplink there is: the settle window ends, an overrun probes, and the safety
\* net polls (run_loop).  shutdown returns, without a further tick where the
\* source is native; an early wake is not lost, and the notifier thread ends
\* too, its context freed.
MonitorLives ==
  /\ D!Follows
  /\ owner = "stopping" ~> /\ owner = "joined"
                           /\ kind = "windows" => At("ended") /\ notifier.context = "freed"
=============================================================================
