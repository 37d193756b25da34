------------------------ MODULE HostLifecycleProofs ------------------------
(***************************************************************************)
(* Proofs about HostLifecycle, for any controls, Driver frontends and      *)
(* manager keys, and any number of reports.                                *)
(***************************************************************************)
EXTENDS HostLifecycle, TLAPS

\* start() and stop(): stop() is under way exactly when the host is closed,
\* and past its first await no start is.
PhasesAgree ==
    /\ lifecycle \in {"uninitialized", "ready", "closed"}
    /\ stopping \in {"no", "start", "wsStart", "ws", "control", "physical", "done", "exited"}
    /\ lifecycle = "closed" <=> stopping # "no"
    /\ stopping \notin {"no", "start"} => starting = "no"

\* The host forgets a control only when its connection ends or stop() has
\* begun, and a Driver is one of the WebSocket server's clients.
ConsumersAreConnected ==
    /\ stopping # "exited" => active \subseteq linked
    /\ lifecycle # "closed" => linked = active /\ auto \subseteq active /\ drivers \subseteq joined

\* What the managers' reference counts rest on.
ManagersAreCounted ==
    /\ users \in [Keys -> SUBSET Controls]
    /\ open \in [Keys -> Nat]
    /\ \A k \in Keys : users[k] # {} => open[k] > 0
    /\ stopping # "exited" => \A k \in Keys : users[k] \subseteq linked
    /\ SharedResourcesHaveUsers
    /\ AutomaticHostWatches

\* The idle timer is armed by the last consumer's end or by the end of
\* start(), not before.
IdleTimerIsRight ==
    /\ idleTimer \in BOOLEAN
    /\ lifecycle = "uninitialized" => ~idleTimer
    /\ IdleTimerWatchesUnusedHost

\* What each await of stop() leaves behind stays so until the end.
StopMakesProgress ==
    /\ stopping \in {"ws", "control", "physical", "done"} => ~idleTimer /\ wsStarting = "no"
    /\ stopping \in {"control", "physical", "done"} => ~wsOpen
    /\ stopping \in {"physical", "done"} => ~serverUp /\ linked = {} /\ active = {}
    /\ stopping = "done" => \A k \in Keys : open[k] = 0

IInv ==
    /\ PhasesAgree /\ ConsumersAreConnected /\ ManagersAreCounted
    /\ IdleTimerIsRight /\ StopMakesProgress

\* Every step keeps start() and stop() apart.
LEMMA PhasesPreserved == PhasesAgree /\ [Next]_vars => PhasesAgree'
<1> SUFFICES ASSUME PhasesAgree, [Next]_vars PROVE PhasesAgree'
  OBVIOUS
<1> USE DEF PhasesAgree, hostVars, controlVars, managerVars, wsVars, socketVars
<1>1. ASSUME NEW c \in Controls, handleControlConnected(c) PROVE PhasesAgree'
  BY <1>1 DEF handleControlConnected, registerControl, addManagers, addAndConnect
<1>2. ASSUME NEW c \in Controls, ControlCloses(c) PROVE PhasesAgree'
  BY <1>2 DEF ControlCloses, handleControlDisconnected, releasePhysicalDeviceManagers, scheduleIdleTimeoutIfNeeded
<1>3. ASSUME NEW c \in Controls, startWSServer(c) PROVE PhasesAgree'
  BY <1>3 DEF startWSServer
<1>4. ASSUME NEW c \in Controls, requestDaemonShutdown(c) PROVE PhasesAgree'
  BY <1>4 DEF requestDaemonShutdown
<1>5. ASSUME NEW c \in Controls, NEW k \in Keys, WatchNetworkDevice(c, k) PROVE PhasesAgree'
  BY <1>5 DEF WatchNetworkDevice, addManagers
<1>6. ASSUME NEW d \in Drivers, WebSocketOpens(d) PROVE PhasesAgree'
  BY <1>6 DEF WebSocketOpens
<1>7. ASSUME NEW d \in Drivers, handleWebSocketClientConnected(d) PROVE PhasesAgree'
  BY <1>7 DEF handleWebSocketClientConnected
<1>8. ASSUME NEW d \in Drivers, WebSocketCloses(d) PROVE PhasesAgree'
  BY <1>8 DEF WebSocketCloses, scheduleIdleTimeoutIfNeeded
<1>9. CASE Start
  BY <1>9 DEF Start
<1>10. CASE StartFails
  BY <1>10 DEF StartFails, BeginStop
<1>11. CASE Stop
  BY <1>11 DEF Stop, BeginStop
<1>12. CASE IdleTimeout
  BY <1>12 DEF IdleTimeout, BeginStop, isInUse
<1>13. CASE Report
  BY <1>13 DEF Report
<1>14. CASE WsReady
  BY <1>14 DEF WsReady
<1>15. CASE StartListens
  BY <1>15 DEF StartListens
<1>16. CASE StartEnds
  BY <1>16 DEF StartEnds, scheduleIdleTimeoutIfNeeded
<1>17. CASE WsListen
  BY <1>17 DEF WsListen
<1>18. CASE WsFails
  BY <1>18 DEF WsFails
<1>19. CASE WsFailed
  BY <1>19 DEF WsFailed
<1>20. CASE ShutdownHandler
  BY <1>20 DEF ShutdownHandler, Stop, BeginStop
<1>21. CASE StopAwaitsStart
  BY <1>21 DEF StopAwaitsStart
<1>22. CASE Detach
  BY <1>22 DEF Detach, stopInternal, NoUsers
<1>23. CASE StopWebSocket
  BY <1>23 DEF StopWebSocket
<1>24. CASE StopControl
  BY <1>24 DEF StopControl, handleControlDisconnected, releasePhysicalDeviceManagers, scheduleIdleTimeoutIfNeeded
<1>25. CASE StopPhysical
  BY <1>25 DEF StopPhysical
<1>26. CASE CleanupTimeout
  BY <1>26 DEF CleanupTimeout
<1>27. CASE UNCHANGED vars
  BY <1>27 DEF vars
<1> QED
  BY <1>1, <1>2, <1>3, <1>4, <1>5, <1>6, <1>7, <1>8, <1>9, <1>10, <1>11,
     <1>12, <1>13, <1>14, <1>15, <1>16, <1>17, <1>18, <1>19, <1>20, <1>21,
     <1>22, <1>23, <1>24, <1>25, <1>26, <1>27, Zenon
     DEF Next, StartStep, WsStep, StopStep

\* Every step keeps the consumers connected.
LEMMA ConsumersPreserved == PhasesAgree /\ ConsumersAreConnected /\ [Next]_vars => ConsumersAreConnected'
<1> SUFFICES ASSUME PhasesAgree /\ ConsumersAreConnected, [Next]_vars PROVE ConsumersAreConnected'
  OBVIOUS
<1> USE DEF PhasesAgree, ConsumersAreConnected, hostVars, controlVars, managerVars, wsVars, socketVars
<1>1. ASSUME NEW c \in Controls, handleControlConnected(c) PROVE ConsumersAreConnected'
  BY <1>1 DEF handleControlConnected, registerControl, addManagers, addAndConnect
<1>2. ASSUME NEW c \in Controls, ControlCloses(c) PROVE ConsumersAreConnected'
  BY <1>2 DEF ControlCloses, handleControlDisconnected, releasePhysicalDeviceManagers, scheduleIdleTimeoutIfNeeded
<1>3. ASSUME NEW c \in Controls, startWSServer(c) PROVE ConsumersAreConnected'
  BY <1>3 DEF startWSServer
<1>4. ASSUME NEW c \in Controls, requestDaemonShutdown(c) PROVE ConsumersAreConnected'
  BY <1>4 DEF requestDaemonShutdown
<1>5. ASSUME NEW c \in Controls, NEW k \in Keys, WatchNetworkDevice(c, k) PROVE ConsumersAreConnected'
  BY <1>5 DEF WatchNetworkDevice, addManagers
<1>6. ASSUME NEW d \in Drivers, WebSocketOpens(d) PROVE ConsumersAreConnected'
  BY <1>6 DEF WebSocketOpens
<1>7. ASSUME NEW d \in Drivers, handleWebSocketClientConnected(d) PROVE ConsumersAreConnected'
  BY <1>7 DEF handleWebSocketClientConnected
<1>8. ASSUME NEW d \in Drivers, WebSocketCloses(d) PROVE ConsumersAreConnected'
  BY <1>8 DEF WebSocketCloses, scheduleIdleTimeoutIfNeeded
<1>9. CASE Start
  BY <1>9 DEF Start
<1>10. CASE StartFails
  BY <1>10 DEF StartFails, BeginStop
<1>11. CASE Stop
  BY <1>11 DEF Stop, BeginStop
<1>12. CASE IdleTimeout
  BY <1>12 DEF IdleTimeout, BeginStop, isInUse
<1>13. CASE Report
  BY <1>13 DEF Report
<1>14. CASE WsReady
  BY <1>14 DEF WsReady
<1>15. CASE StartListens
  BY <1>15 DEF StartListens
<1>16. CASE StartEnds
  BY <1>16 DEF StartEnds, scheduleIdleTimeoutIfNeeded
<1>17. CASE WsListen
  BY <1>17 DEF WsListen
<1>18. CASE WsFails
  BY <1>18 DEF WsFails
<1>19. CASE WsFailed
  BY <1>19 DEF WsFailed
<1>20. CASE ShutdownHandler
  BY <1>20 DEF ShutdownHandler, Stop, BeginStop
<1>21. CASE StopAwaitsStart
  BY <1>21 DEF StopAwaitsStart
<1>22. CASE Detach
  BY <1>22 DEF Detach, stopInternal, NoUsers
<1>23. CASE StopWebSocket
  BY <1>23 DEF StopWebSocket
<1>24. CASE StopControl
  BY <1>24 DEF StopControl, handleControlDisconnected, releasePhysicalDeviceManagers, scheduleIdleTimeoutIfNeeded
<1>25. CASE StopPhysical
  BY <1>25 DEF StopPhysical
<1>26. CASE CleanupTimeout
  BY <1>26 DEF CleanupTimeout
<1>27. CASE UNCHANGED vars
  BY <1>27 DEF vars
<1> QED
  BY <1>1, <1>2, <1>3, <1>4, <1>5, <1>6, <1>7, <1>8, <1>9, <1>10, <1>11,
     <1>12, <1>13, <1>14, <1>15, <1>16, <1>17, <1>18, <1>19, <1>20, <1>21,
     <1>22, <1>23, <1>24, <1>25, <1>26, <1>27, Zenon
     DEF Next, StartStep, WsStep, StopStep

\* Every step keeps the reference counts right.
LEMMA ManagersPreserved == IInv /\ [Next]_vars => ManagersAreCounted'
<1> SUFFICES ASSUME IInv, [Next]_vars PROVE ManagersAreCounted'
  OBVIOUS
<1> USE DEF IInv, StopMakesProgress, PhasesAgree, ConsumersAreConnected, ManagersAreCounted, SharedResourcesHaveUsers, AutomaticHostWatches, hostVars, controlVars, managerVars, wsVars, socketVars
<1>1. ASSUME NEW c \in Controls, handleControlConnected(c) PROVE ManagersAreCounted'
  BY <1>1 DEF handleControlConnected, registerControl, addManagers, addAndConnect
<1>2. ASSUME NEW c \in Controls, ControlCloses(c) PROVE ManagersAreCounted'
  <2> USE DEF ControlCloses, handleControlDisconnected, releasePhysicalDeviceManagers
  <2>1. /\ users' = [k \in Keys |-> users[k] \ {c}] /\ linked' = linked \ {c} /\ active' = active \ {c}
        /\ open' = [k \in Keys |-> IF users[k] # {} /\ users[k] \subseteq {c} THEN open[k] - 1 ELSE open[k]]
    BY <1>2
  <2>2. users' \in [Keys -> SUBSET Controls] /\ open' \in [Keys -> Nat]
    BY <2>1
  <2>3. \A k \in Keys : (users'[k] # {} => open'[k] > 0) /\ (users[k] \subseteq linked => users'[k] \subseteq linked')
    BY <2>1
  <2>4. SharedResourcesHaveUsers'
    BY <1>2, <2>1
  <2>5. AutomaticHostWatches'
    BY <1>2, <2>1
  <2> QED
    BY <1>2, <2>2, <2>3, <2>4, <2>5
<1>3. ASSUME NEW c \in Controls, startWSServer(c) PROVE ManagersAreCounted'
  BY <1>3 DEF startWSServer
<1>4. ASSUME NEW c \in Controls, requestDaemonShutdown(c) PROVE ManagersAreCounted'
  BY <1>4 DEF requestDaemonShutdown
<1>5. ASSUME NEW c \in Controls, NEW k \in Keys, WatchNetworkDevice(c, k) PROVE ManagersAreCounted'
  BY <1>5 DEF WatchNetworkDevice, addManagers
<1>6. ASSUME NEW d \in Drivers, WebSocketOpens(d) PROVE ManagersAreCounted'
  BY <1>6 DEF WebSocketOpens
<1>7. ASSUME NEW d \in Drivers, handleWebSocketClientConnected(d) PROVE ManagersAreCounted'
  BY <1>7 DEF handleWebSocketClientConnected
<1>8. ASSUME NEW d \in Drivers, WebSocketCloses(d) PROVE ManagersAreCounted'
  BY <1>8 DEF WebSocketCloses, scheduleIdleTimeoutIfNeeded
<1>9. CASE Start
  BY <1>9 DEF Start
<1>10. CASE StartFails
  BY <1>10 DEF StartFails, BeginStop
<1>11. CASE Stop
  BY <1>11 DEF Stop, BeginStop
<1>12. CASE IdleTimeout
  BY <1>12 DEF IdleTimeout, BeginStop, isInUse
<1>13. CASE Report
  BY <1>13 DEF Report
<1>14. CASE WsReady
  BY <1>14 DEF WsReady
<1>15. CASE StartListens
  BY <1>15 DEF StartListens
<1>16. CASE StartEnds
  BY <1>16 DEF StartEnds, scheduleIdleTimeoutIfNeeded
<1>17. CASE WsListen
  BY <1>17 DEF WsListen
<1>18. CASE WsFails
  BY <1>18 DEF WsFails
<1>19. CASE WsFailed
  BY <1>19 DEF WsFailed
<1>20. CASE ShutdownHandler
  BY <1>20 DEF ShutdownHandler, Stop, BeginStop
<1>21. CASE StopAwaitsStart
  BY <1>21 DEF StopAwaitsStart
<1>22. CASE Detach
  BY <1>22 DEF Detach, stopInternal, NoUsers
<1>23. CASE StopWebSocket
  BY <1>23 DEF StopWebSocket
<1>24. CASE StopControl
  <2> USE DEF StopControl, handleControlDisconnected, releasePhysicalDeviceManagers
  <2>1. /\ users' = [k \in Keys |-> users[k] \ linked] /\ linked' = {} /\ lifecycle' = "closed"
        /\ open' = [k \in Keys |-> IF users[k] # {} /\ users[k] \subseteq linked THEN open[k] - 1 ELSE open[k]]
    BY <1>24
  <2>2. users' \in [Keys -> SUBSET Controls] /\ open' \in [Keys -> Nat]
    BY <2>1
  <2>3. \A k \in Keys : users'[k] = {}
    BY <1>24, <2>1
  <2> QED
    BY <2>1, <2>2, <2>3
<1>25. CASE StopPhysical
  BY <1>25 DEF StopPhysical
<1>26. CASE CleanupTimeout
  BY <1>26 DEF CleanupTimeout
<1>27. CASE UNCHANGED vars
  BY <1>27 DEF vars
<1> QED
  BY <1>1, <1>2, <1>3, <1>4, <1>5, <1>6, <1>7, <1>8, <1>9, <1>10, <1>11,
     <1>12, <1>13, <1>14, <1>15, <1>16, <1>17, <1>18, <1>19, <1>20, <1>21,
     <1>22, <1>23, <1>24, <1>25, <1>26, <1>27, Zenon
     DEF Next, StartStep, WsStep, StopStep

\* Every step keeps the idle timer right.
LEMMA IdlePreserved == PhasesAgree /\ ConsumersAreConnected /\ IdleTimerIsRight /\ [Next]_vars => IdleTimerIsRight'
<1> SUFFICES ASSUME PhasesAgree /\ ConsumersAreConnected /\ IdleTimerIsRight, [Next]_vars PROVE IdleTimerIsRight'
  OBVIOUS
<1> USE DEF PhasesAgree, ConsumersAreConnected, IdleTimerIsRight, IdleTimerWatchesUnusedHost, isInUse, hostVars, controlVars, managerVars, wsVars, socketVars
<1>1. ASSUME NEW c \in Controls, handleControlConnected(c) PROVE IdleTimerIsRight'
  BY <1>1, Zenon DEF handleControlConnected, registerControl, addManagers, addAndConnect
<1>2. ASSUME NEW c \in Controls, ControlCloses(c) PROVE IdleTimerIsRight'
  BY <1>2, Zenon DEF ControlCloses, handleControlDisconnected, releasePhysicalDeviceManagers, scheduleIdleTimeoutIfNeeded
<1>3. ASSUME NEW c \in Controls, startWSServer(c) PROVE IdleTimerIsRight'
  BY <1>3 DEF startWSServer
<1>4. ASSUME NEW c \in Controls, requestDaemonShutdown(c) PROVE IdleTimerIsRight'
  BY <1>4, Zenon DEF requestDaemonShutdown
<1>5. ASSUME NEW c \in Controls, NEW k \in Keys, WatchNetworkDevice(c, k) PROVE IdleTimerIsRight'
  BY <1>5 DEF WatchNetworkDevice, addManagers
<1>6. ASSUME NEW d \in Drivers, WebSocketOpens(d) PROVE IdleTimerIsRight'
  BY <1>6 DEF WebSocketOpens
<1>7. ASSUME NEW d \in Drivers, handleWebSocketClientConnected(d) PROVE IdleTimerIsRight'
  BY <1>7, Zenon DEF handleWebSocketClientConnected
<1>8. ASSUME NEW d \in Drivers, WebSocketCloses(d) PROVE IdleTimerIsRight'
  BY <1>8, Zenon DEF WebSocketCloses, scheduleIdleTimeoutIfNeeded
<1>9. CASE Start
  BY <1>9 DEF Start
<1>10. CASE StartFails
  BY <1>10 DEF StartFails, BeginStop
<1>11. CASE Stop
  BY <1>11 DEF Stop, BeginStop
<1>12. CASE IdleTimeout
  BY <1>12, Zenon DEF IdleTimeout, BeginStop, isInUse
<1>13. CASE Report
  BY <1>13 DEF Report
<1>14. CASE WsReady
  BY <1>14 DEF WsReady
<1>15. CASE StartListens
  BY <1>15 DEF StartListens
<1>16. CASE StartEnds
  BY <1>16, Zenon DEF StartEnds, scheduleIdleTimeoutIfNeeded
<1>17. CASE WsListen
  BY <1>17 DEF WsListen
<1>18. CASE WsFails
  BY <1>18 DEF WsFails
<1>19. CASE WsFailed
  BY <1>19 DEF WsFailed
<1>20. CASE ShutdownHandler
  BY <1>20 DEF ShutdownHandler, Stop, BeginStop
<1>21. CASE StopAwaitsStart
  BY <1>21 DEF StopAwaitsStart
<1>22. CASE Detach
  BY <1>22, Zenon DEF Detach, stopInternal, NoUsers
<1>23. CASE StopWebSocket
  BY <1>23 DEF StopWebSocket
<1>24. CASE StopControl
  BY <1>24 DEF StopControl, handleControlDisconnected, releasePhysicalDeviceManagers, scheduleIdleTimeoutIfNeeded
<1>25. CASE StopPhysical
  BY <1>25 DEF StopPhysical
<1>26. CASE CleanupTimeout
  BY <1>26, Zenon DEF CleanupTimeout
<1>27. CASE UNCHANGED vars
  BY <1>27 DEF vars
<1> QED
  BY <1>1, <1>2, <1>3, <1>4, <1>5, <1>6, <1>7, <1>8, <1>9, <1>10, <1>11,
     <1>12, <1>13, <1>14, <1>15, <1>16, <1>17, <1>18, <1>19, <1>20, <1>21,
     <1>22, <1>23, <1>24, <1>25, <1>26, <1>27, Zenon
     DEF Next, StartStep, WsStep, StopStep

\* No step takes back what stop() has closed.
LEMMA StopPreserved == IInv /\ [Next]_vars => StopMakesProgress'
<1> SUFFICES ASSUME IInv, [Next]_vars PROVE StopMakesProgress'
  OBVIOUS
<1> USE DEF IInv, PhasesAgree, ConsumersAreConnected, StopMakesProgress, hostVars, controlVars, managerVars, wsVars, socketVars
<1>1. ASSUME NEW c \in Controls, handleControlConnected(c) PROVE StopMakesProgress'
  BY <1>1 DEF handleControlConnected, registerControl, addManagers, addAndConnect
<1>2. ASSUME NEW c \in Controls, ControlCloses(c) PROVE StopMakesProgress'
  BY <1>2, Zenon DEF ControlCloses, handleControlDisconnected, releasePhysicalDeviceManagers, scheduleIdleTimeoutIfNeeded
<1>3. ASSUME NEW c \in Controls, startWSServer(c) PROVE StopMakesProgress'
  BY <1>3 DEF startWSServer
<1>4. ASSUME NEW c \in Controls, requestDaemonShutdown(c) PROVE StopMakesProgress'
  BY <1>4 DEF requestDaemonShutdown
<1>5. ASSUME NEW c \in Controls, NEW k \in Keys, WatchNetworkDevice(c, k) PROVE StopMakesProgress'
  BY <1>5 DEF WatchNetworkDevice, addManagers
<1>6. ASSUME NEW d \in Drivers, WebSocketOpens(d) PROVE StopMakesProgress'
  BY <1>6 DEF WebSocketOpens
<1>7. ASSUME NEW d \in Drivers, handleWebSocketClientConnected(d) PROVE StopMakesProgress'
  BY <1>7 DEF handleWebSocketClientConnected
<1>8. ASSUME NEW d \in Drivers, WebSocketCloses(d) PROVE StopMakesProgress'
  BY <1>8, Zenon DEF WebSocketCloses, scheduleIdleTimeoutIfNeeded
<1>9. CASE Start
  BY <1>9 DEF Start
<1>10. CASE StartFails
  BY <1>10 DEF StartFails, BeginStop
<1>11. CASE Stop
  BY <1>11 DEF Stop, BeginStop
<1>12. CASE IdleTimeout
  BY <1>12 DEF IdleTimeout, BeginStop, isInUse
<1>13. CASE Report
  BY <1>13 DEF Report
<1>14. CASE WsReady
  BY <1>14 DEF WsReady
<1>15. CASE StartListens
  BY <1>15 DEF StartListens
<1>16. CASE StartEnds
  BY <1>16 DEF StartEnds, scheduleIdleTimeoutIfNeeded
<1>17. CASE WsListen
  BY <1>17 DEF WsListen
<1>18. CASE WsFails
  BY <1>18 DEF WsFails
<1>19. CASE WsFailed
  BY <1>19 DEF WsFailed
<1>20. CASE ShutdownHandler
  BY <1>20 DEF ShutdownHandler, Stop, BeginStop
<1>21. CASE StopAwaitsStart
  BY <1>21 DEF StopAwaitsStart
<1>22. CASE Detach
  BY <1>22 DEF Detach, stopInternal, NoUsers
<1>23. CASE StopWebSocket
  BY <1>23, Zenon DEF StopWebSocket
<1>24. CASE StopControl
  BY <1>24, Zenon DEF StopControl, handleControlDisconnected, releasePhysicalDeviceManagers, scheduleIdleTimeoutIfNeeded
<1>25. CASE StopPhysical
  BY <1>25 DEF StopPhysical
<1>26. CASE CleanupTimeout
  BY <1>26 DEF CleanupTimeout
<1>27. CASE UNCHANGED vars
  BY <1>27 DEF vars
<1> QED
  BY <1>1, <1>2, <1>3, <1>4, <1>5, <1>6, <1>7, <1>8, <1>9, <1>10, <1>11,
     <1>12, <1>13, <1>14, <1>15, <1>16, <1>17, <1>18, <1>19, <1>20, <1>21,
     <1>22, <1>23, <1>24, <1>25, <1>26, <1>27, Zenon
     DEF Next, StartStep, WsStep, StopStep


\* The invariant of the host, for every reachable state.
THEOREM LifecycleInvariance == Spec => []IInv
<1>1. Init => IInv
  <2> SUFFICES ASSUME Init PROVE IInv
    OBVIOUS
  <2>1. PhasesAgree /\ ConsumersAreConnected /\ StopMakesProgress
    BY DEF Init, PhasesAgree, ConsumersAreConnected, StopMakesProgress
  <2>2. IdleTimerIsRight
    BY Zenon DEF Init, IdleTimerIsRight, IdleTimerWatchesUnusedHost
  <2>3. ManagersAreCounted
    BY DEF Init, ManagersAreCounted, SharedResourcesHaveUsers, AutomaticHostWatches, NoUsers
  <2> QED
    BY <2>1, <2>2, <2>3 DEF IInv
<1>2. IInv /\ [Next]_vars => IInv'
  BY PhasesPreserved, ConsumersPreserved, ManagersPreserved, IdlePreserved, StopPreserved DEF IInv
<1> QED
  BY <1>1, <1>2, PTL DEF Spec

\* No order of connects, disconnects and calls strands an unused daemon or
\* lets one that is in use stop.
THEOREM IdleTimerIsSound == Spec => []IdleTimerWatchesUnusedHost
<1>1. IInv => IdleTimerWatchesUnusedHost
  BY DEF IInv, IdleTimerIsRight
<1> QED
  BY <1>1, LifecycleInvariance, PTL

\* Device managers and the WebSocket server are there exactly for those who
\* asked for them, however many controls share them.
THEOREM SharingIsSound == Spec => []SharedResourcesHaveUsers
<1>1. IInv => SharedResourcesHaveUsers
  BY DEF IInv, ManagersAreCounted
<1> QED
  BY <1>1, LifecycleInvariance, PTL

\* An automatic control sees the devices of every manager, also of those that
\* manual controls add after it or have added before.
THEOREM AutomaticControlsWatch == Spec => []AutomaticHostWatches
<1>1. IInv => AutomaticHostWatches
  BY DEF IInv, ManagersAreCounted
<1> QED
  BY <1>1, LifecycleInvariance, PTL

\* After stop() nothing is left, whatever the controls did during its awaits.
THEOREM StopIsComplete == Spec => []StoppedHostHoldsNothing
<1>1. IInv => StoppedHostHoldsNothing
  BY DEF IInv, StopMakesProgress, StoppedHostHoldsNothing
<1> QED
  BY <1>1, LifecycleInvariance, PTL

(***************************************************************************)
(* Reports.                                                                *)
(***************************************************************************)
Rising(s) == \A i, j \in 1..Len(s) : i < j => s[i] < s[j]
UpTo(s, n) == \A i \in 1..Len(s) : s[i] <= n
Precedes(s, t) == \A i \in 1..Len(s), j \in 1..Len(t) : s[i] < t[j]

\* Until stop(), the bridge has the first of the reporters, and these are
\* connected.
ReportersAreConnected ==
    /\ reporters \in Seq(Controls)
    /\ bridge = "closed" <=> lifecycle = "closed"
    /\ lifecycle # "closed" =>
         /\ Elements(reporters) \subseteq active
         /\ bridge = IF reporters = <<>> THEN None ELSE Head(reporters)

\* What is queued is younger than what was handed on, and nothing is queued
\* while there is somebody to report to.
QueueIsYounger ==
    /\ reported \in Nat /\ queue \in Seq(Nat) /\ forwarded \in Seq(Nat)
    /\ bridge # None => queue = <<>>
    /\ Rising(queue) /\ Rising(forwarded) /\ Precedes(forwarded, queue)
    /\ UpTo(queue, reported) /\ UpTo(forwarded, reported)

\* What the end of a queue may be.
LEMMA AppendRises ==
    ASSUME NEW s \in Seq(Nat), NEW n \in Nat, Rising(s), UpTo(s, n)
    PROVE  /\ Append(s, n + 1) \in Seq(Nat)
           /\ Rising(Append(s, n + 1)) /\ UpTo(Append(s, n + 1), n + 1)
<1>1. /\ Append(s, n + 1) \in Seq(Nat) /\ Len(Append(s, n + 1)) = Len(s) + 1 /\ Len(s) \in Nat
      /\ \A i \in 1..Len(s) : Append(s, n + 1)[i] = s[i] /\ s[i] \in Nat
      /\ Append(s, n + 1)[Len(s) + 1] = n + 1
  OBVIOUS
<1> QED
  BY <1>1 DEF Rising, UpTo

\* The queue without its oldest report.
LEMMA TailRises ==
    ASSUME NEW s \in Seq(Nat), s # <<>>, Rising(s), NEW n \in Nat, UpTo(s, n)
    PROVE  Tail(s) \in Seq(Nat) /\ Rising(Tail(s)) /\ UpTo(Tail(s), n)
<1>1. /\ Tail(s) \in Seq(Nat) /\ Len(Tail(s)) = Len(s) - 1 /\ Len(s) \in Nat
      /\ \A i \in 1..Len(Tail(s)) : Tail(s)[i] = s[i + 1] /\ i + 1 \in 1..Len(s)
  OBVIOUS
<1>2. Rising(Tail(s))
  <2> SUFFICES ASSUME NEW i \in 1..Len(Tail(s)), NEW j \in 1..Len(Tail(s)), i < j
               PROVE  Tail(s)[i] < Tail(s)[j]
    BY DEF Rising
  <2>1. i + 1 < j + 1 /\ i + 1 \in 1..Len(s) /\ j + 1 \in 1..Len(s)
    BY <1>1
  <2>2. s[i + 1] < s[j + 1]
    BY <2>1 DEF Rising
  <2> QED
    BY <1>1, <2>2
<1> QED
  BY <1>1, <1>2 DEF UpTo

\* Two rising sequences one after the other.
LEMMA ConcatRises ==
    ASSUME NEW s \in Seq(Nat), NEW t \in Seq(Nat), Rising(s), Rising(t), Precedes(s, t),
           NEW n \in Nat, UpTo(s, n), UpTo(t, n)
    PROVE  s \o t \in Seq(Nat) /\ Rising(s \o t) /\ UpTo(s \o t, n)
<1>1. /\ s \o t \in Seq(Nat) /\ Len(s \o t) = Len(s) + Len(t) /\ Len(s) \in Nat /\ Len(t) \in Nat
      /\ \A i \in 1..Len(s) : (s \o t)[i] = s[i]
      /\ \A i \in 1..Len(s \o t) : i \notin 1..Len(s) => i - Len(s) \in 1..Len(t) /\ (s \o t)[i] = t[i - Len(s)]
  OBVIOUS
<1>2. Rising(s \o t)
  <2> SUFFICES ASSUME NEW i \in 1..Len(s \o t), NEW j \in 1..Len(s \o t), i < j
               PROVE  (s \o t)[i] < (s \o t)[j]
    BY DEF Rising
  <2>1. CASE j \in 1..Len(s)
    <3>1. i \in 1..Len(s)
      BY <1>1, <2>1
    <3> QED
      BY <1>1, <2>1, <3>1 DEF Rising
  <2>2. CASE i \in 1..Len(s) /\ j \notin 1..Len(s)
    BY <1>1, <2>2 DEF Precedes
  <2>3. CASE i \notin 1..Len(s)
    <3>1. j \notin 1..Len(s) /\ i - Len(s) < j - Len(s)
      BY <1>1, <2>3
    <3>2. t[i - Len(s)] < t[j - Len(s)]
      BY <1>1, <2>3, <3>1 DEF Rising
    <3> QED
      BY <1>1, <2>3, <3>1, <3>2
  <2> QED
    BY <2>1, <2>2, <2>3
<1>3. UpTo(s \o t, n)
  BY <1>1 DEF UpTo
<1> QED
  BY <1>1, <1>2, <1>3

ReportInv == ReportersAreConnected /\ QueueIsYounger

\* updateStatus(): the queue is handed on as it is, in front of what comes.
LEMMA UpdateKeepsOrder ==
    ASSUME QueueIsYounger, NEW to, updateStatus(to), UNCHANGED reported
    PROVE  QueueIsYounger'
<1>1. CASE bridge = "closed" \/ to = None
  BY <1>1 DEF QueueIsYounger, updateStatus
<1>2. CASE bridge # "closed" /\ to # None
  <2>1. bridge' = to /\ queue' = <<>> /\ forwarded' = forwarded \o queue /\ reported' = reported
    BY <1>2 DEF updateStatus
  <2>2. /\ forwarded \o queue \in Seq(Nat) /\ Rising(forwarded \o queue)
        /\ UpTo(forwarded \o queue, reported)
    BY ConcatRises DEF QueueIsYounger
  <2>3. <<>> \in Seq(Nat) /\ Rising(<<>>) /\ UpTo(<<>>, reported) /\ Precedes(forwarded \o queue, <<>>)
    BY DEF Rising, UpTo, Precedes
  <2> QED
    BY <1>2, <2>1, <2>2, <2>3 DEF QueueIsYounger
<1> QED
  BY <1>1, <1>2

\* updateReportStatus(): the bridge follows the reporters.
LEMMA UpdateKeepsReporters ==
    ASSUME ReportInv, UNCHANGED lifecycle,
           NEW rs \in Seq(Controls), updateReportStatus(rs),
           lifecycle # "closed" => Elements(rs) \subseteq active'
    PROVE  ReportInv'
<1>1. rs # <<>> => Head(rs) \in Controls
  OBVIOUS
<1>2. ReportersAreConnected'
  BY <1>1, StatusesDiffer DEF ReportInv, ReportersAreConnected, updateReportStatus, updateStatus, Elements
<1>3. QueueIsYounger'
  BY UpdateKeepsOrder DEF ReportInv, updateReportStatus
<1> QED
  BY <1>2, <1>3 DEF ReportInv

\* A control that goes takes itself out, and the others move up.
LEMMA DropKeepsReporters ==
    ASSUME ReportInv, UNCHANGED lifecycle, NEW cs, dropReporters(cs), active' = active \ cs
    PROVE  ReportInv'
<1>0. PICK n \in 0..Len(reporters) : \E rs \in [1..n -> Elements(reporters)] :
        Elements(rs) = Elements(reporters) \ cs /\ updateReportStatus(rs)
  BY DEF dropReporters
<1>1. PICK rs \in [1..n -> Elements(reporters)] :
        Elements(rs) = Elements(reporters) \ cs /\ updateReportStatus(rs)
  BY <1>0
<1>2. Elements(reporters) \subseteq Controls
  BY DEF ReportInv, ReportersAreConnected, Elements
<1>3. rs \in Seq(Controls)
  <2>1. n \in Nat /\ rs \in [1..n -> Controls]
    BY <1>1, <1>2 DEF ReportInv, ReportersAreConnected
  <2> QED
    BY <2>1
<1>4. lifecycle # "closed" => Elements(rs) \subseteq active'
  BY <1>1 DEF ReportInv, ReportersAreConnected
<1> QED
  BY <1>1, <1>3, <1>4, UpdateKeepsReporters

\* report(): the newest report is the last, wherever it is put.
LEMMA ReportKeepsOrder == ASSUME ReportInv, Report PROVE ReportInv'
<1>1. ReportersAreConnected'
  BY DEF ReportInv, ReportersAreConnected, Report, Elements, hostVars, controlVars
<1>2. reported' = reported + 1 /\ bridge' = bridge /\ reported \in Nat /\ reported' \in Nat
  BY DEF ReportInv, QueueIsYounger, Report
<1>3. \A s \in Seq(Nat) : UpTo(s, reported) => UpTo(s, reported + 1)
  BY <1>2 DEF UpTo
<1>4. CASE bridge = "closed" /\ UNCHANGED <<queue, forwarded>>
  BY <1>1, <1>2, <1>3, <1>4 DEF ReportInv, QueueIsYounger
<1>5. CASE bridge \notin {"closed", None} /\ UNCHANGED queue /\ forwarded' = Append(forwarded, reported + 1)
  <2>1. /\ forwarded' \in Seq(Nat) /\ Rising(forwarded') /\ UpTo(forwarded', reported')
    BY <1>2, <1>5, AppendRises DEF ReportInv, QueueIsYounger
  <2>2. queue = <<>> /\ queue' = <<>>
    BY <1>5 DEF ReportInv, QueueIsYounger
  <2>3. <<>> \in Seq(Nat) /\ Rising(<<>>) /\ UpTo(<<>>, reported') /\ Precedes(forwarded', <<>>)
    BY DEF Rising, UpTo, Precedes
  <2> QED
    BY <1>1, <1>2, <2>1, <2>2, <2>3 DEF ReportInv, QueueIsYounger
<1>6. CASE /\ bridge = None /\ UNCHANGED forwarded
           /\ queue' = Append(IF Len(queue) >= MaxQueue THEN Tail(queue) ELSE queue, reported + 1)
  <2> DEFINE kept == IF Len(queue) >= MaxQueue THEN Tail(queue) ELSE queue
  <2>1. Len(queue) >= MaxQueue => queue # <<>>
    BY MaxQueuePositive DEF ReportInv, QueueIsYounger
  <2>2. kept \in Seq(Nat) /\ Rising(kept) /\ UpTo(kept, reported)
    BY <1>2, <2>1, TailRises DEF ReportInv, QueueIsYounger
  <2>3. Precedes(forwarded, kept)
    <3>1. CASE Len(queue) >= MaxQueue
      <4>1. \A j \in 1..Len(Tail(queue)) : Tail(queue)[j] = queue[j + 1] /\ j + 1 \in 1..Len(queue)
        BY <2>1, <3>1 DEF ReportInv, QueueIsYounger
      <4> QED
        BY <3>1, <4>1 DEF ReportInv, QueueIsYounger, Precedes
    <3>2. CASE ~(Len(queue) >= MaxQueue)
      BY <3>2 DEF ReportInv, QueueIsYounger
    <3> QED
      BY <3>1, <3>2
  <2> HIDE DEF kept
  <2>4. queue' = Append(kept, reported + 1)
    BY <1>6 DEF kept
  <2>5. queue' \in Seq(Nat) /\ Rising(queue') /\ UpTo(queue', reported')
    BY <1>2, <2>2, <2>4, AppendRises
  <2>6. Precedes(forwarded', queue')
    <3>1. /\ Len(queue') = Len(kept) + 1 /\ Len(kept) \in Nat
          /\ \A j \in 1..Len(kept) : queue'[j] = kept[j]
          /\ queue'[Len(kept) + 1] = reported + 1
      BY <1>2, <2>2, <2>4
    <3>2. \A i \in 1..Len(forwarded) : forwarded[i] \in Nat /\ forwarded[i] <= reported
      BY DEF ReportInv, QueueIsYounger, UpTo
    <3> QED
      BY <1>2, <1>6, <2>3, <3>1, <3>2 DEF Precedes
  <2>7. forwarded' \in Seq(Nat) /\ Rising(forwarded') /\ UpTo(forwarded', reported') /\ bridge' = None
    BY <1>2, <1>3, <1>6 DEF ReportInv, QueueIsYounger
  <2> QED
    BY <1>1, <1>2, <2>5, <2>6, <2>7 DEF ReportInv, QueueIsYounger
<1> QED
  BY <1>4, <1>5, <1>6 DEF Report

\* Every step keeps the reports in order.
LEMMA ReportsPreserved == ReportInv /\ PhasesAgree /\ [Next]_vars => ReportInv'
<1> SUFFICES ASSUME ReportInv, PhasesAgree, [Next]_vars PROVE ReportInv'
  OBVIOUS
<1> USE DEF hostVars, controlVars
<1>1. ASSUME UNCHANGED <<reportVars, active, lifecycle>> PROVE ReportInv'
  BY <1>1 DEF reportVars, ReportInv, ReportersAreConnected, QueueIsYounger, Elements
<1>2. ASSUME NEW c \in Controls, handleControlConnected(c) PROVE ReportInv'
  <2>1. PICK reports \in BOOLEAN : updateReportStatus(IF reports THEN Append(reporters, c) ELSE reporters)
    BY <1>2 DEF handleControlConnected, registerControl
  <2>2. active' = active \cup {c} /\ lifecycle' = lifecycle
    BY <1>2 DEF handleControlConnected, registerControl
  <2> DEFINE rs == IF reports THEN Append(reporters, c) ELSE reporters
  <2>3. reporters \in Seq(Controls) /\ rs \in Seq(Controls)
    BY DEF ReportInv, ReportersAreConnected
  <2>4. Elements(rs) \subseteq Elements(reporters) \cup {c}
    BY <2>3 DEF Elements
  <2>5. lifecycle # "closed" => Elements(rs) \subseteq active'
    BY <2>2, <2>4 DEF ReportInv, ReportersAreConnected
  <2> HIDE DEF rs
  <2>6. updateReportStatus(rs)
    BY <2>1 DEF rs
  <2> QED
    BY <2>2, <2>3, <2>5, <2>6, UpdateKeepsReporters
<1>3. ASSUME NEW c \in Controls, ControlCloses(c) PROVE ReportInv'
  <2>1. dropReporters({c}) /\ active' = active \ {c} /\ lifecycle' = lifecycle
    BY <1>3 DEF ControlCloses, handleControlDisconnected
  <2> QED
    BY <2>1, DropKeepsReporters
<1>4. CASE StopControl
  <2>1. dropReporters(linked) /\ active' = active \ linked /\ lifecycle' = lifecycle
    BY <1>4 DEF StopControl, handleControlDisconnected
  <2> QED
    BY <2>1, DropKeepsReporters
<1>5. ASSUME BeginStop, UNCHANGED <<reported, forwarded>> PROVE ReportInv'
  <2>1. <<>> \in Seq(Nat) /\ <<>> \in Seq(Controls) /\ Rising(<<>>) /\ UpTo(<<>>, reported) /\ Precedes(forwarded, <<>>)
    BY DEF Rising, UpTo, Precedes
  <2>2. ReportersAreConnected'
    BY <1>5, <2>1 DEF BeginStop, ReportersAreConnected
  <2>3. QueueIsYounger'
    BY <1>5, <2>1 DEF BeginStop, ReportInv, QueueIsYounger
  <2> QED
    BY <2>2, <2>3 DEF ReportInv
<1>6. CASE Stop \/ ShutdownHandler
  BY <1>5, <1>6 DEF Stop, ShutdownHandler
<1>7. CASE StartFails
  BY <1>1, <1>5, <1>7 DEF StartFails, reportVars
<1>8. CASE IdleTimeout
  BY <1>1, <1>5, <1>8 DEF IdleTimeout, reportVars
<1>9. CASE Report
  BY <1>9, ReportKeepsOrder
<1>10. CASE Detach
  BY <1>10 DEF Detach, stopInternal, PhasesAgree, reportVars, ReportInv, ReportersAreConnected, QueueIsYounger, Elements
<1>11. CASE StartEnds
  BY <1>11 DEF StartEnds, PhasesAgree, reportVars, ReportInv, ReportersAreConnected, QueueIsYounger, Elements
<1>12. ASSUME NEW c \in Controls, startWSServer(c) PROVE ReportInv'
  BY <1>1, <1>12 DEF startWSServer
<1>13. ASSUME NEW c \in Controls, requestDaemonShutdown(c) PROVE ReportInv'
  BY <1>1, <1>13 DEF requestDaemonShutdown
<1>14. ASSUME NEW c \in Controls, NEW k \in Keys, WatchNetworkDevice(c, k) PROVE ReportInv'
  BY <1>1, <1>14 DEF WatchNetworkDevice
<1>15. ASSUME NEW d \in Drivers, WebSocketOpens(d) PROVE ReportInv'
  BY <1>1, <1>15 DEF WebSocketOpens
<1>16. ASSUME NEW d \in Drivers, handleWebSocketClientConnected(d) PROVE ReportInv'
  BY <1>1, <1>16 DEF handleWebSocketClientConnected
<1>17. ASSUME NEW d \in Drivers, WebSocketCloses(d) PROVE ReportInv'
  BY <1>1, <1>17 DEF WebSocketCloses
<1>18. CASE Start \/ StartListens \/ WsReady \/ WsListen \/ WsFails \/ WsFailed
  BY <1>1, <1>18 DEF Start, StartListens, WsReady, WsListen, WsFails, WsFailed
<1>19. CASE StopAwaitsStart \/ StopWebSocket \/ StopPhysical \/ CleanupTimeout \/ UNCHANGED vars
  BY <1>1, <1>19 DEF StopAwaitsStart, StopWebSocket, StopPhysical, CleanupTimeout, vars
<1> QED
  BY <1>2, <1>3, <1>4, <1>6, <1>7, <1>8, <1>9, <1>10, <1>11, <1>12, <1>13, <1>14, <1>15, <1>16, <1>17,
     <1>18, <1>19, Zenon
     DEF Next, StartStep, WsStep, StopStep

\* A report reaches a control that is connected, and no control gets a report
\* after a younger one, through any change of the control that is reported to,
\* any overflow of the queue and any stop().
THEOREM ReportsAreOrdered == Spec => []ReportsStayInOrder
<1>1. Init => ReportInv
  BY StatusesDiffer
     DEF Init, ReportInv, ReportersAreConnected, QueueIsYounger, Elements, Rising, UpTo, Precedes
<1>2. ReportInv /\ IInv /\ [Next]_vars => ReportInv'
  BY ReportsPreserved DEF IInv
<1>3. ReportInv => ReportsStayInOrder
  <2> SUFFICES ASSUME ReportInv PROVE ReportsStayInOrder
    OBVIOUS
  <2>1. bridge \in Controls => bridge \in active /\ queue = <<>>
    <3> SUFFICES ASSUME bridge \in Controls PROVE bridge \in active /\ queue = <<>>
      OBVIOUS
    <3>1. bridge # None /\ bridge # "closed"
      BY StatusesDiffer
    <3>2. reporters # <<>> /\ bridge = Head(reporters)
      BY <3>1 DEF ReportInv, ReportersAreConnected
    <3>3. Head(reporters) \in Elements(reporters)
      BY <3>2 DEF ReportInv, ReportersAreConnected, Elements
    <3> QED
      BY <3>1, <3>2, <3>3 DEF ReportInv, ReportersAreConnected, QueueIsYounger
  <2>2. Rising(forwarded \o queue)
    BY ConcatRises DEF ReportInv, QueueIsYounger
  <2> QED
    BY <2>1, <2>2 DEF ReportsStayInOrder, Rising
<1> QED
  BY <1>1, <1>2, <1>3, LifecycleInvariance, PTL DEF Spec
=============================================================================
