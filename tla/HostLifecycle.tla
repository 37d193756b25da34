--------------------------- MODULE HostLifecycle ---------------------------
(***************************************************************************)
(* Life and death of the daemon host (daemon/MultiplexerDaemonHost.ts):    *)
(* start() and stop() with their awaits, the idle time-out, the device     *)
(* managers the controls share, the WebSocket server they ask for, and the *)
(* reports the daemon hands to one of them (DaemonReportServiceBridge.ts). *)
(*                                                                         *)
(* A step is one turn of the event loop.  stop() is a process with a       *)
(* program counter: between its awaits controls still register, disconnect *)
(* and call, because the control server is closed third.  A control is     *)
(* "linked" while its connection is registered at the control server; the  *)
(* host may have forgotten it before that ends.                            *)
(***************************************************************************)
EXTENDS Naturals, Sequences

CONSTANTS
    Controls,     \* control ids
    Manual,       \* those that register with manualConnect
    Drivers,      \* WebSocket Driver frontends
    Keys,         \* keys of device managers: platform and endpoint
    None,         \* no control to report to
    MaxReports,   \* bound: reports in one behaviour
    MaxQueue      \* MAX_REPORT_QUEUE_LENGTH

ASSUME StatusesDiffer == {None, "closed"} \cap Controls = {} /\ None # "closed"
ASSUME MaxQueuePositive == MaxQueue \in Nat \ {0}

VARIABLES
    lifecycle,   \* lifecycleStatus
    starting,    \* startInternal(): "no", "listen" or "claim"
    stopping,    \* stop(): "no", the await it is in, "done", or "exited"
    shutdown,    \* shutdownRequested, its setImmediate() pending
    serverUp,    \* the control server accepts and serves connections
    linked,      \* controls registered at the control server
    seen,        \* controls that ever registered
    active,      \* activeControlIds
    auto,        \* autoConnectControlIds
    idleTimer,   \* the idle timer is armed
    users,       \* enabledManagers: key -> controlIds
    open,        \* managers in the PhysicalConnector, per key
    watching,    \* keys whose managers watch for devices
    wsStarting,  \* webSocketServerStarting: "no", "detect", "listen", "close"
    wsStarted,   \* webSocketServerStarted
    wsOpen,      \* a WebSocketController of this process is not closed
    requesters,  \* webSocketRequesterControlIds
    awaiting,    \* controls whose startWSServer() call is pending
    drivers,     \* activeWebSocketDriverIds
    joining,     \* WebSockets accepted, the Register message not yet come
    joined,      \* webClients of the WebSocketController
    closing,     \* those of them that closeClients() closes
    reporters,   \* reportControlIds, in insertion order
    bridge,      \* the bridge's status: a control, None or "closed"
    queue,       \* the bridge's queue
    reported,    \* number of reports so far
    forwarded    \* history: reports handed to a control, in order

hostVars == <<lifecycle, starting, stopping, shutdown, serverUp>>
controlVars == <<linked, seen, active, auto>>
managerVars == <<users, open, watching>>
socketVars == <<joining, joined, closing>>
wsVars == <<wsStarting, wsStarted, wsOpen, requesters, awaiting, drivers, socketVars>>
reportVars == <<reporters, bridge, queue, reported, forwarded>>
vars == <<hostVars, controlVars, idleTimer, managerVars, wsVars, reportVars>>

NoUsers == [k \in Keys |-> {}]

Init ==
    /\ lifecycle = "uninitialized" /\ starting = "no" /\ stopping = "no"
    /\ shutdown = FALSE /\ serverUp = FALSE
    /\ linked = {} /\ seen = {} /\ active = {} /\ auto = {} /\ idleTimer = FALSE
    /\ users = NoUsers /\ open = [k \in Keys |-> 0] /\ watching = {}
    /\ wsStarting = "no" /\ wsStarted = FALSE /\ wsOpen = FALSE
    /\ requesters = {} /\ awaiting = {} /\ drivers = {}
    /\ joining = {} /\ joined = {} /\ closing = {}
    /\ reporters = <<>> /\ bridge = None /\ queue = <<>> /\ reported = 0 /\ forwarded = <<>>

isInUse == active # {} \/ drivers # {}

\* scheduleIdleTimeoutIfNeeded() when the consumers are cs and ds
scheduleIdleTimeoutIfNeeded(ready, cs, ds) ==
    idleTimer' = (idleTimer \/ (ready /\ cs = {} /\ ds = {}))

(***************************************************************************)
(* Reports                                                                 *)
(***************************************************************************)
\* updateStatus() and drain(): a control to report to gets what is queued.  A
\* closed bridge stays closed.
updateStatus(to) ==
    IF bridge = "closed" THEN UNCHANGED <<bridge, queue, forwarded>>
    ELSE /\ bridge' = to
         /\ IF to = None THEN UNCHANGED <<queue, forwarded>>
            ELSE queue' = <<>> /\ forwarded' = forwarded \o queue

\* updateReportStatus(): the first of the reporting controls
updateReportStatus(rs) ==
    /\ reporters' = rs /\ UNCHANGED reported
    /\ updateStatus(IF rs = <<>> THEN None ELSE Head(rs))

Elements(s) == {s[i] : i \in 1..Len(s)}

\* updateReportStatus() when the controls cs are deleted from the reporters:
\* the others stay, in the same order.
dropReporters(cs) ==
    \E rs \in UNION {[1..n -> Elements(reporters)] : n \in 0..Len(reporters)} :
        /\ Elements(rs) = Elements(reporters) \ cs
        /\ \A i, j \in 1..Len(rs) : i < j =>
             \E k, l \in 1..Len(reporters) : k < l /\ rs[i] = reporters[k] /\ rs[j] = reporters[l]
        /\ updateReportStatus(rs)

\* Mutant: a report that must wait is queued at the wrong end.
ReportBehind ==
    /\ reported < MaxReports /\ reported' = reported + 1
    /\ IF bridge = None THEN queue' = <<reported + 1>> \o queue /\ UNCHANGED forwarded
       ELSE forwarded' = Append(forwarded, reported + 1) /\ UNCHANGED queue
    /\ UNCHANGED <<hostVars, controlVars, idleTimer, managerVars, wsVars, reporters, bridge>>

\* report(): forward, or queue and drop the oldest at the limit
Report ==
    /\ reported < MaxReports /\ reported' = reported + 1
    /\ \/ bridge = "closed" /\ UNCHANGED <<queue, forwarded>>
       \/ /\ bridge = None /\ UNCHANGED forwarded
          /\ queue' = Append(IF Len(queue) >= MaxQueue THEN Tail(queue) ELSE queue, reported + 1)
       \/ /\ bridge \notin {"closed", None} /\ UNCHANGED queue
          /\ forwarded' = Append(forwarded, reported + 1)
    /\ UNCHANGED <<hostVars, controlVars, idleTimer, managerVars, wsVars, reporters, bridge>>

(***************************************************************************)
(* Controls and the managers they share                                    *)
(***************************************************************************)
\* addManagerControl() and add...DeviceManager(), for the keys ks: a new key
\* creates a manager, which watches at once if "listen".
addManagers(c, ks, listen) ==
    LET new == {k \in ks : users[k] = {}} IN
    /\ users' = [k \in Keys |-> IF k \in ks THEN users[k] \cup {c} ELSE users[k]]
    /\ open' = [k \in Keys |-> IF k \in new THEN open[k] + 1 ELSE open[k]]
    /\ watching' = watching \cup (IF listen THEN new ELSE {})

\* connectDevices() with the managers of the control c added: all watch.
addAndConnect(c, ks) ==
    /\ users' = [k \in Keys |-> IF k \in ks THEN users[k] \cup {c} ELSE users[k]]
    /\ open' = [k \in Keys |-> IF k \in ks /\ users[k] = {} THEN open[k] + 1 ELSE open[k]]
    /\ watching' = {k \in Keys : open'[k] > 0}

registerControl(c) ==
    /\ serverUp /\ c \notin seen
    /\ linked' = linked \cup {c} /\ seen' = seen \cup {c} /\ active' = active \cup {c}
    /\ auto' = IF c \in Manual THEN auto ELSE auto \cup {c}
    /\ idleTimer' = FALSE
    /\ \E reports \in BOOLEAN : updateReportStatus(IF reports THEN Append(reporters, c) ELSE reporters)
    /\ UNCHANGED <<hostVars, wsVars>>

\* Mutant: an automatic control starts its own managers only.
ConnectOwn(c) ==
    /\ registerControl(c)
    /\ \E ks \in SUBSET Keys : addManagers(c, ks, auto' # {})

\* handleControlConnected(): an automatic control makes every manager watch,
\* the ones of manual controls included.
handleControlConnected(c) ==
    /\ registerControl(c)
    /\ \E ks \in SUBSET Keys :
         IF c \in Manual THEN addManagers(c, ks, auto # {}) ELSE addAndConnect(c, ks)

\* releasePhysicalDeviceManagers() for the controls cs: the last user's end
\* closes the manager.
releasePhysicalDeviceManagers(cs) ==
    LET unused == {k \in Keys : users[k] # {} /\ users[k] \subseteq cs} IN
    /\ users' = [k \in Keys |-> users[k] \ cs]
    /\ open' = [k \in Keys |-> IF k \in unused THEN open[k] - 1 ELSE open[k]]
    /\ watching' = {k \in watching : open'[k] > 0}

\* Mutant: the idle time-out is looked at before the control is removed.
DisconnectedEarly(cs) ==
    /\ linked' = linked \ cs
    /\ active' = active \ cs /\ auto' = auto \ cs
    /\ dropReporters(cs)
    /\ requesters' = requesters \ cs
    /\ releasePhysicalDeviceManagers(cs)
    /\ scheduleIdleTimeoutIfNeeded(lifecycle = "ready", active, drivers)

\* handleControlDisconnected() for each of cs
handleControlDisconnected(cs) ==
    /\ linked' = linked \ cs
    /\ active' = active \ cs /\ auto' = auto \ cs
    /\ dropReporters(cs)
    /\ requesters' = requesters \ cs
    /\ releasePhysicalDeviceManagers(cs)
    /\ scheduleIdleTimeoutIfNeeded(lifecycle = "ready", active \ cs, drivers)

ControlCloses(c) ==
    /\ c \in linked /\ handleControlDisconnected({c})
    /\ UNCHANGED <<hostVars, seen, wsStarting, wsStarted, wsOpen, awaiting, drivers, socketVars>>

\* The RPC watchNetworkDeviceAtIp: its manager always watches.
WatchNetworkDevice(c, k) ==
    /\ c \in linked /\ addManagers(c, {k}, TRUE)
    /\ UNCHANGED <<hostVars, controlVars, idleTimer, wsVars, reportVars>>

(***************************************************************************)
(* The WebSocket server                                                    *)
(***************************************************************************)
\* startWSServer(): subscribe, then the running server or the shared attempt
startWSServer(c) ==
    /\ c \in linked /\ lifecycle # "closed" /\ c \notin awaiting
    /\ requesters' = requesters \cup {c}
    /\ IF wsStarted THEN UNCHANGED <<awaiting, wsStarting>>
       ELSE /\ awaiting' = awaiting \cup {c}
            /\ wsStarting' = IF wsStarting = "no" THEN "detect" ELSE wsStarting
    /\ UNCHANGED <<hostVars, controlVars, idleTimer, managerVars, reportVars, wsStarted, wsOpen,
                   drivers, socketVars>>

\* startWebSocketServerInternal(): port and address are known, listen.
WsListen ==
    /\ wsStarting = "detect" /\ wsStarting' = "listen" /\ wsOpen' = TRUE
    /\ UNCHANGED <<hostVars, controlVars, idleTimer, managerVars, reportVars, wsStarted, requesters,
                   awaiting, drivers, socketVars>>

\* Mutant: callers subscribe when the server has started.
SubscribeLate ==
    /\ wsStarting = "listen" /\ wsStarting' = "no" /\ wsStarted' = TRUE /\ awaiting' = {}
    /\ requesters' = requesters \cup awaiting
    /\ UNCHANGED <<hostVars, controlVars, idleTimer, managerVars, reportVars, wsOpen, drivers, socketVars>>

WsReady ==
    /\ wsStarting = "listen" /\ wsStarting' = "no" /\ wsStarted' = TRUE /\ awaiting' = {}
    /\ UNCHANGED <<hostVars, controlVars, idleTimer, managerVars, reportVars, wsOpen, requesters,
                   drivers, socketVars>>

\* The attempt fails or times out: its controller, if any, is closed ...
WsFails ==
    /\ wsStarting \in {"detect", "listen"} /\ wsStarting' = "close"
    /\ UNCHANGED <<hostVars, controlVars, idleTimer, managerVars, reportVars, wsStarted, wsOpen,
                   requesters, awaiting, drivers, socketVars>>

\* ... and then everybody who waited gets the error and is unsubscribed.
WsFailed ==
    /\ wsStarting = "close" /\ wsStarting' = "no" /\ wsOpen' = FALSE
    /\ requesters' = requesters \ awaiting /\ awaiting' = {}
    /\ UNCHANGED <<hostVars, controlVars, idleTimer, managerVars, reportVars, wsStarted, drivers, socketVars>>

\* handleConnection() waits in onConnection() for the Register message; no
\* time-out runs before the first message.
WebSocketOpens(d) ==
    /\ wsStarted /\ d \notin joining \cup joined /\ joining' = joining \cup {d}
    /\ UNCHANGED <<hostVars, controlVars, idleTimer, managerVars, reportVars, wsStarting, wsStarted,
                   wsOpen, requesters, awaiting, drivers, joined, closing>>

\* The Register message: a client, even if closeClients() has run already.
handleWebSocketClientConnected(d) ==
    /\ d \in joining /\ joining' = joining \ {d} /\ joined' = joined \cup {d}
    /\ drivers' = drivers \cup {d} /\ idleTimer' = FALSE
    /\ UNCHANGED <<hostVars, controlVars, managerVars, reportVars, wsStarting, wsStarted, wsOpen,
                   requesters, awaiting, closing>>

\* A socket ends; one that has registered is a Driver that disconnects.
WebSocketCloses(d) ==
    /\ d \in joining \cup joined
    /\ joining' = joining \ {d} /\ joined' = joined \ {d} /\ closing' = closing \ {d}
    /\ drivers' = drivers \ {d}
    /\ IF d \in joined THEN scheduleIdleTimeoutIfNeeded(lifecycle = "ready", active, drivers \ {d})
       ELSE UNCHANGED idleTimer
    /\ UNCHANGED <<hostVars, controlVars, managerVars, reportVars, wsStarting, wsStarted, wsOpen,
                   requesters, awaiting>>

(***************************************************************************)
(* start() and stop()                                                      *)
(***************************************************************************)
Start ==
    /\ lifecycle = "uninitialized" /\ starting = "no" /\ starting' = "listen"
    /\ UNCHANGED <<lifecycle, stopping, shutdown, serverUp, controlVars, idleTimer, managerVars, wsVars, reportVars>>

StartListens ==
    /\ starting = "listen" /\ starting' = "claim" /\ serverUp' = TRUE
    /\ UNCHANGED <<lifecycle, stopping, shutdown, controlVars, idleTimer, managerVars, wsVars, reportVars>>

\* legacyOwnershipGuard.start() is done; a stop() may have come first.
StartEnds ==
    /\ starting = "claim" /\ starting' = "no"
    /\ IF lifecycle = "uninitialized"
       THEN lifecycle' = "ready" /\ scheduleIdleTimeoutIfNeeded(TRUE, active, drivers)
       ELSE UNCHANGED <<lifecycle, idleTimer>>
    /\ UNCHANGED <<stopping, shutdown, serverUp, controlVars, managerVars, wsVars, reportVars>>

\* The first half of stop(): terminal, and nothing is reported any more.
BeginStop ==
    /\ lifecycle # "closed" /\ lifecycle' = "closed" /\ stopping' = "start"
    /\ bridge' = "closed" /\ queue' = <<>> /\ reporters' = <<>>

\* stop() because of a signal or an error of the process
Stop ==
    /\ BeginStop
    /\ UNCHANGED <<starting, shutdown, serverUp, controlVars, idleTimer, managerVars, wsVars, reported,
                   forwarded>>

\* requestDaemonShutdown(), once; its handler runs in a turn of its own.
requestDaemonShutdown(c) ==
    /\ c \in linked /\ ~shutdown /\ shutdown' = TRUE /\ idleTimer' = FALSE
    /\ UNCHANGED <<lifecycle, starting, stopping, serverUp, controlVars, managerVars, wsVars, reportVars>>

ShutdownHandler == shutdown /\ Stop

\* The idle timer fires.
IdleTimeout ==
    /\ idleTimer /\ idleTimer' = FALSE
    /\ IF isInUse THEN UNCHANGED <<lifecycle, stopping, bridge, queue, reporters>> ELSE BeginStop
    /\ UNCHANGED <<starting, shutdown, serverUp, controlVars, managerVars, wsVars, reported, forwarded>>

\* Mutant: the in-flight marker is still set when the roll-back stops.
RollBackWaiting ==
    /\ starting = "listen"
    /\ \/ BeginStop
       \/ lifecycle = "closed" /\ UNCHANGED <<lifecycle, stopping, bridge, queue, reporters>>
    /\ starting' = IF lifecycle = "closed" THEN "no" ELSE "rollback"
    /\ UNCHANGED <<shutdown, serverUp, controlVars, idleTimer, managerVars, wsVars, reported, forwarded>>

\* The control server cannot listen: start() clears its marker and rolls back
\* with stop(), which returns at once if another one waits for this start.
StartFails ==
    /\ starting = "listen" /\ starting' = "no"
    /\ \/ BeginStop
       \/ lifecycle = "closed" /\ UNCHANGED <<lifecycle, stopping, bridge, queue, reporters>>
    /\ UNCHANGED <<shutdown, serverUp, controlVars, idleTimer, managerVars, wsVars, reported, forwarded>>

StopAwaitsStart ==
    /\ stopping = "start" /\ starting = "no" /\ stopping' = "wsStart"
    /\ UNCHANGED <<lifecycle, starting, shutdown, serverUp, controlVars, idleTimer, managerVars, wsVars,
                   reportVars>>

\* stopInternal() up to its first await: the consumers are forgotten before
\* anything is closed, then webSocketController.close() closes the clients
\* that are registered.
stopInternal ==
    /\ stopping' = "ws" /\ shutdown' = FALSE /\ idleTimer' = FALSE
    /\ active' = {} /\ auto' = {} /\ users' = NoUsers /\ requesters' = {} /\ drivers' = {}
    /\ wsStarted' = FALSE /\ closing' = joined
    /\ UNCHANGED <<lifecycle, starting, serverUp, linked, seen, open, watching, wsStarting, wsOpen,
                   awaiting, joining, joined, reportVars>>

\* Mutant: the attempt to start the WebSocket server is not awaited.
DetachAtOnce == stopping = "wsStart" /\ stopInternal

\* No attempt to start the WebSocket server is under way any more.
Detach == stopping = "wsStart" /\ wsStarting = "no" /\ stopInternal

\* The server is closed when all its sockets have ended, the ones that never
\* registered and were not told to close included.
StopWebSocket ==
    /\ stopping = "ws" /\ joining \cup joined = {} /\ stopping' = "control"
    /\ wsOpen' = (wsOpen /\ wsStarting # "no")
    /\ UNCHANGED <<lifecycle, starting, shutdown, serverUp, controlVars, idleTimer, managerVars, wsStarting,
                   wsStarted, requesters, awaiting, drivers, socketVars, reportVars>>

\* controlServer.stop() ends every connection, so every control disconnects.
StopControl ==
    /\ stopping = "control" /\ stopping' = "physical" /\ serverUp' = FALSE
    /\ handleControlDisconnected(linked)
    /\ UNCHANGED <<lifecycle, starting, shutdown, seen, wsStarting, wsStarted, wsOpen, awaiting, drivers,
                   socketVars>>

\* physicalConnector.close() closes every manager that is there.
StopPhysical ==
    /\ stopping = "physical" /\ stopping' = "done"
    /\ open' = [k \in Keys |-> 0] /\ watching' = {}
    /\ UNCHANGED <<lifecycle, starting, shutdown, serverUp, controlVars, idleTimer, users, wsVars, reportVars>>

\* ENTRY_CLEANUP_TIMEOUT in entry.ts: the process exits when stop() takes too
\* long, here when it waits for what only a WebSocket peer can end, or for a
\* start of the WebSocket server, whose own time-out is longer.
CleanupTimeout ==
    /\ \/ stopping = "ws" /\ joining \cup (joined \ closing) # {}
       \/ stopping = "wsStart" /\ wsStarting # "no"
    /\ stopping' = "exited" /\ starting' = "no" /\ shutdown' = FALSE /\ serverUp' = FALSE
    /\ linked' = {} /\ idleTimer' = FALSE
    /\ wsStarting' = "no" /\ wsOpen' = FALSE /\ awaiting' = {}
    /\ joining' = {} /\ joined' = {} /\ closing' = {}
    /\ UNCHANGED <<lifecycle, seen, active, auto, managerVars, wsStarted, requesters, drivers, reportVars>>

-----------------------------------------------------------------------------
StartStep == StartListens \/ StartEnds
StopStep ==
    ShutdownHandler \/ StopAwaitsStart \/ Detach \/ StopWebSocket \/ StopControl \/ StopPhysical
WsStep == WsListen \/ WsFails \/ WsFailed

Next ==
    \/ \E c \in Controls : \/ handleControlConnected(c) \/ ControlCloses(c)
                           \/ startWSServer(c) \/ requestDaemonShutdown(c)
    \/ \E c \in Controls, k \in Keys : WatchNetworkDevice(c, k)
    \/ \E d \in Drivers : WebSocketOpens(d) \/ handleWebSocketClientConnected(d) \/ WebSocketCloses(d)
    \/ Start \/ StartFails \/ Stop \/ IdleTimeout \/ Report \/ WsReady
    \/ StartStep \/ WsStep \/ StopStep \/ CleanupTimeout

\* Awaits end: listening and the lock of the ownership guard are bounded, the
\* start of the WebSocket server has a time-out, and a WebSocket that is told
\* to close does.  A peer that is not told to may stay for ever.
Fairness ==
    /\ WF_vars(StartStep) /\ WF_vars(WsStep) /\ WF_vars(StopStep) /\ WF_vars(CleanupTimeout)
    /\ WF_vars(\E d \in closing : WebSocketCloses(d))

Spec == Init /\ [][Next]_vars /\ Fairness

-----------------------------------------------------------------------------
\* A ready host that nobody uses has its idle timer armed, and one that is
\* used has not: no order of connects and disconnects strands the daemon or
\* lets it stop under a consumer.
IdleTimerWatchesUnusedHost ==
    lifecycle = "ready" /\ ~shutdown => (idleTimer <=> ~isInUse)

\* Until stop(), a key has exactly one manager while it has users, all of
\* them connected, and none afterwards; WebSocket requesters are connected,
\* although a call may end after its caller has gone.
SharedResourcesHaveUsers ==
    lifecycle # "closed" =>
        /\ \A k \in Keys : open[k] = (IF users[k] = {} THEN 0 ELSE 1) /\ users[k] \subseteq active
        /\ requesters \subseteq active

\* While an automatic control is connected every manager watches, whoever
\* asked for it and in whichever order they came.
AutomaticHostWatches ==
    lifecycle # "closed" /\ auto # {} => \A k \in Keys : open[k] > 0 => k \in watching

\* When stop() is over nothing is left running, although controls could
\* register, add managers and leave while it closed one thing after another.
StoppedHostHoldsNothing ==
    stopping = "done" =>
        /\ ~serverUp /\ ~idleTimer /\ ~wsOpen /\ wsStarting = "no"
        /\ active = {} /\ linked = {} /\ \A k \in Keys : open[k] = 0

\* Reports go to a connected control with none left waiting, in the order
\* they were made, across any change of the control they go to.
ReportsStayInOrder ==
    /\ bridge \in Controls => bridge \in active /\ queue = <<>>
    /\ \A i, j \in 1..Len(forwarded \o queue) : i < j => (forwarded \o queue)[i] < (forwarded \o queue)[j]

\* stop() ends or the process exits, whatever start-up it has to wait for and
\* whatever the peers of its WebSockets do.
EveryStopEnds == (shutdown \/ lifecycle = "closed") ~> stopping \in {"done", "exited"}
=============================================================================
