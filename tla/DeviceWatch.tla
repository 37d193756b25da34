---------------------------- MODULE DeviceWatch ----------------------------
(***************************************************************************)
(* From a plugged device to a connected runtime, inside the daemon: the    *)
(* device managers and their trackers (device/), the device registry       *)
(* (physical/PhysicalConnector.ts), the shared start of a device's client  *)
(* watcher and the ownership it needs (daemon/MultiplexerDaemonHost.ts,    *)
(* daemon/LegacyOwnershipGuard.ts), and the scan for runtimes              *)
(* (usb/ClientController.ts, usb/ClientAdapter.ts).                        *)
(*                                                                         *)
(* One serial is modelled, seen by the managers of one platform, which may *)
(* be two for ADB and HDC endpoints.  A device object is an instance: every*)
(* discovery creates a new one, and names are reused when nothing refers   *)
(* to the old one.  A step is one turn of the event loop; creating a       *)
(* device, forwarding ports, probing a port, connecting and taking the     *)
(* ownership lock are awaits that other turns interleave with.             *)
(***************************************************************************)
CONSTANTS
    Managers,    \* device managers of the platform
    Instances,   \* device objects
    Attempts,    \* in-flight calls of PhysicalConnector.startWatchClient()
    None

ASSUME NoneIsNothing == None \notin Managers \cup Instances \cup Attempts

VARIABLES
    platform,    \* "adb", "hdc", "usbmux" or "fixed" (network, desktop)
    manager,     \* per manager: open, watching, and what its tracker reported
    managed,     \* managedDevices of each manager
    devices,     \* PhysicalConnector.devices
    dev,         \* the device objects with their ClientController
    started,     \* clientWatcherStartedDeviceIds has the serial
    starting,    \* clientWatcherStartingByDeviceId
    flight,      \* the device each in-flight attempt works for
    awaited,     \* attempts that forceDisableAllClients() waits for
    disabling,   \* forceDisableAllClients() is in flight
    owner,       \* the owner file names a live legacy Driver: "legacy", or "ours"
    status,      \* LegacyOwnershipGuard.currentStatus
    wanted       \* history: a watcher was asked for after the last stop

watcherVars == <<started, starting, flight, wanted>>
rpcVars == <<awaited, disabling>>
ownerVars == <<owner, status>>
registryVars == <<manager, managed, devices>>
vars == <<platform, registryVars, dev, watcherVars, rpcVars, ownerVars>>

attached == status = "attached"

\* ctl: the ClientController watches, or is stopped or closed.  scan: an
\* Android scan awaits checkClientPort().  sock: the adapter of the port: no
\* socket, connecting, or a registered runtime client.
Gone == [st |-> "gone", own |-> None, ctl |-> "none", scan |-> FALSE, sock |-> "none"]
Closed == [open |-> FALSE, watch |-> FALSE, known |-> FALSE]

Init ==
    /\ platform \in {"adb", "hdc", "usbmux", "fixed"}
    /\ manager = [m \in Managers |-> Closed] /\ managed = [m \in Managers |-> None]
    /\ devices = None /\ dev = [i \in Instances |-> Gone]
    /\ started = FALSE /\ starting = None /\ flight = [a \in Attempts |-> None]
    /\ awaited = {} /\ disabling = FALSE
    /\ owner = "ours" /\ status = "attached" /\ wanted = FALSE

-----------------------------------------------------------------------------
(* Devices and their controllers *)

\* destroy(): the adapter forgets its listener, its socket is destroyed.
destroy(d) == [d EXCEPT !.sock = "none"]

\* ClientController.close(): adapters destroyed, clients unregistered.
closeController(d) == [destroy(d) EXCEPT !.ctl = IF @ = "none" THEN @ ELSE "stopped"]

\* stopWatchClient(): the interval ends, adapters stay as they are.
stopWatchClient(d) == [d EXCEPT !.ctl = IF @ = "watching" THEN "stopped" ELSE @]

\* BaseDevice.startWatchClient(): a new controller replaces the old one.
startWatchClient(d) == [closeController(d) EXCEPT !.ctl = "watching", !.scan = FALSE]

\* disableAllClients(): no device watches, every client is closed.
disableAllClients(dv) ==
    [i \in Instances |-> [stopWatchClient(dv[i]) EXCEPT !.sock = IF @ = "client" THEN "none" ELSE @]]

\* ensureClientWatcher() for the device i when the devices are dv: shared by
\* concurrent callers, in flight only where Android forwards its ports first
ensureClientWatcher(dv, i) ==
    /\ wanted' = TRUE
    /\ IF started \/ starting # None THEN dev' = dv /\ UNCHANGED <<started, starting, flight>>
       ELSE IF platform = "adb"
       THEN \E a \in {x \in Attempts : flight[x] = None} :
              /\ starting' = a /\ flight' = [flight EXCEPT ![a] = i]
              /\ dev' = dv /\ UNCHANGED started
       ELSE /\ dev' = [dv EXCEPT ![i] = startWatchClient(@)]
            /\ started' = TRUE /\ UNCHANGED <<starting, flight>>

clearClientWatcherStartState == started' = FALSE /\ starting' = None /\ UNCHANGED flight

\* forward(): the ports are forwarded one by one, a failure is only logged;
\* in the end the attempt goes on.
forward(a) ==
    /\ flight[a] # None /\ flight' = [flight EXCEPT ![a] = None] /\ awaited' = awaited \ {a}
    /\ UNCHANGED <<platform, registryVars, disabling, ownerVars, wanted>>

\* Mutant: the attempt is not checked again after the ports are forwarded.
ResumeUnchecked(a) ==
    /\ forward(a)
    /\ dev' = [dev EXCEPT ![flight[a]] = startWatchClient(@)]
    /\ started' = (started \/ starting = a)
    /\ starting' = IF starting = a THEN None ELSE starting

\* Mutant: an older attempt removes the entry of a newer one.
ResumeDeletesAny(a) ==
    /\ forward(a) /\ starting' = None
    /\ IF attached /\ starting = a
       THEN dev' = [dev EXCEPT ![flight[a]] = startWatchClient(@)] /\ started' = TRUE
       ELSE UNCHANGED <<dev, started>>

\* The rest of startWatchClient(device, shouldStart): only if this is still
\* the current attempt and the daemon owns the devices
WatcherStarts(a) ==
    /\ forward(a) /\ starting' = IF starting = a THEN None ELSE starting
    /\ IF attached /\ starting = a
       THEN dev' = [dev EXCEPT ![flight[a]] = startWatchClient(@)] /\ started' = TRUE
       ELSE UNCHANGED <<dev, started>>

-----------------------------------------------------------------------------
(* Registry *)

\* handleDeviceDisconnected(): a start in flight ends with its device.
handleDeviceDisconnected ==
    /\ wanted' = FALSE
    /\ IF attached THEN clearClientWatcherStartState ELSE UNCHANGED <<started, starting, flight>>

\* PhysicalConnector.unregisterDevice(), when the device objects are dv
unregisterDevice(dv) ==
    /\ devices' = None
    /\ dev' = [dv EXCEPT ![devices] = [closeController(@) EXCEPT !.st = "gone", !.ctl = "none"]]
    /\ handleDeviceDisconnected

\* Mutant: whatever is registered for the serial goes.
UnregisterAny(dv, m) ==
    /\ managed' = [managed EXCEPT ![m] = None]
    /\ IF devices # None THEN unregisterDevice(dv)
       ELSE dev' = dv /\ UNCHANGED <<devices, watcherVars>>

\* unregisterManagedDevice() of m: only the instance it registered itself
unregisterManagedDevice(dv, m) ==
    /\ managed' = [managed EXCEPT ![m] = None]
    /\ IF devices # None /\ managed[m] = devices THEN unregisterDevice(dv)
       ELSE dev' = dv /\ UNCHANGED <<devices, watcherVars>>

\* handleDeviceConnected(): the host watches the new device i unless
\* manualConnect holds, which changes with the controls that are connected.
handleDeviceConnected(dv, i) ==
    \/ attached /\ ensureClientWatcher(dv, i)
    \/ dev' = dv /\ UNCHANGED watcherVars

\* registerManagedDevice(): dropped if the manager is closed (m = None) or
\* the serial is registered already
registerManagedDevice(i, m) ==
    IF m = None \/ devices # None
    THEN dev' = [dev EXCEPT ![i] = Gone] /\ UNCHANGED <<managed, devices, watcherVars>>
    ELSE /\ managed' = [managed EXCEPT ![m] = i] /\ devices' = i
         /\ handleDeviceConnected([dev EXCEPT ![i] = [Gone EXCEPT !.st = "made"]], i)

\* A name for a new device: nothing refers to the old one any more.
Unused == {i \in Instances : dev[i] = Gone /\ \A a \in Attempts : flight[a] # i}

-----------------------------------------------------------------------------
(* Managers *)

\* addDeviceManager(): a first user; two managers only for two endpoints
addDeviceManager(m) ==
    /\ ~manager[m].open
    /\ platform \in {"adb", "hdc"} \/ \A n \in Managers : ~manager[n].open
    /\ manager' = [manager EXCEPT ![m] = [Closed EXCEPT !.open = TRUE]]
    /\ UNCHANGED <<platform, managed, devices, dev, watcherVars, rpcVars, ownerVars>>

\* A tracker starts: the manager was added automatically, connectDevices()
\* asks for it, or it is a retry.
Watch(m) ==
    /\ manager[m].open /\ ~manager[m].watch
    /\ manager' = [manager EXCEPT ![m].watch = TRUE, ![m].known = FALSE]
    /\ UNCHANGED <<platform, managed, devices, dev, watcherVars, rpcVars, ownerVars>>

\* The tracker reports the device: it is being created.
Discover(m) ==
    /\ manager[m].watch /\ ~manager[m].known
    /\ manager' = [manager EXCEPT ![m].known = TRUE]
    /\ \E i \in Unused : dev' = [dev EXCEPT ![i] = [Gone EXCEPT !.st = "creating", !.own = m]]
    /\ UNCHANGED <<platform, managed, devices, watcherVars, rpcVars, ownerVars>>

\* The tracker reports it gone; a creation in flight is not told.
Lose(m) ==
    /\ manager[m].watch /\ manager[m].known
    /\ manager' = [manager EXCEPT ![m].known = FALSE]
    /\ unregisterManagedDevice(dev, m) /\ UNCHANGED <<platform, rpcVars, ownerVars>>

\* The tracker fails: the devices go, scheduleWatchRetry() starts another.
Fail(m) ==
    /\ manager[m].watch
    /\ manager' = [manager EXCEPT ![m].watch = FALSE]
    /\ unregisterManagedDevice(dev, m) /\ UNCHANGED <<platform, rpcVars, ownerVars>>

AndroidWatches(m) == platform = "adb" /\ Watch(m)
AndroidAdds(m) == platform = "adb" /\ Discover(m)
AndroidRemoves(m) == platform = "adb" /\ Lose(m)
AndroidTrackerError(m) == platform = "adb" /\ Fail(m)
HarmonyWatches(m) == platform = "hdc" /\ Watch(m)
HarmonyAdds(m) == platform = "hdc" /\ Discover(m)
HarmonyRemoves(m) == platform = "hdc" /\ Lose(m)
HarmonyTrackerError(m) == platform = "hdc" /\ Fail(m)
\* usbmux: the name of an attached device is asked for over a tunnel.
IosWatches(m) == platform = "usbmux" /\ Watch(m)
IosAttached(m) == platform = "usbmux" /\ Discover(m)
IosDetached(m) == platform = "usbmux" /\ Lose(m)

\* The usbmux listener or a name tunnel ends: retry, the devices stay.
IosListenerCloses(m) ==
    /\ manager[m].watch /\ platform = "usbmux"
    /\ manager' = [manager EXCEPT ![m].watch = FALSE]
    /\ UNCHANGED <<platform, managed, devices, dev, watcherVars, rpcVars, ownerVars>>

\* Network and desktop managers have their device at once, and again when
\* they are asked again.
FixedWatches(m) ==
    /\ manager[m].open /\ platform = "fixed"
    /\ \E i \in Unused : registerManagedDevice(i, m)
    /\ UNCHANGED <<platform, manager, rpcVars, ownerVars>>

\* Mutant: a late discovery registers although its manager is closed.
CreatedLate(i) ==
    /\ dev[i].st = "creating"
    /\ \E m \in Managers : dev[i].own \in {m, None} /\ registerManagedDevice(i, m)
    /\ UNCHANGED <<platform, manager, rpcVars, ownerVars>>

\* createDevice() ends, whatever happened to the device or its manager.
DeviceCreated(i) ==
    /\ dev[i].st = "creating" /\ registerManagedDevice(i, dev[i].own)
    /\ UNCHANGED <<platform, manager, rpcVars, ownerVars>>

\* It fails, and nobody tries again before the next event of the tracker; a
\* failing tunnel of usbmux ends the listener as well.
CreateFails(i) ==
    /\ dev[i].st = "creating" /\ dev' = [dev EXCEPT ![i] = Gone]
    /\ manager' = IF platform = "usbmux" /\ dev[i].own # None
                  THEN [manager EXCEPT ![dev[i].own].watch = FALSE] ELSE manager
    /\ UNCHANGED <<platform, managed, devices, watcherVars, rpcVars, ownerVars>>

\* DeviceManager.close(): its last user left.  A creation in flight belongs
\* to a closed manager from now on.
closeDeviceManager(m) ==
    /\ manager[m].open /\ manager' = [manager EXCEPT ![m] = Closed]
    /\ unregisterManagedDevice([i \in Instances |-> IF dev[i].own = m THEN [dev[i] EXCEPT !.own = None]
                                                                      ELSE dev[i]], m)
    /\ UNCHANGED <<platform, rpcVars, ownerVars>>

-----------------------------------------------------------------------------
(* Runtimes *)

\* An adapter for the port connects.
connect(d) == [d EXCEPT !.sock = "open"]

\* Actions that only concern the sockets of the device i
Sockets(i, d) ==
    dev' = [dev EXCEPT ![i] = d] /\ UNCHANGED <<platform, registryVars, watcherVars, rpcVars, ownerVars>>

\* A tick on a port without client retires the earlier attempt and connects.
watchClient(i) ==
    /\ dev[i].ctl = "watching" /\ dev[i].sock # "client" /\ platform # "adb"
    /\ Sockets(i, connect(destroy(dev[i])))

\* Android probes the port in between.
watchAndroidClients(i) ==
    /\ dev[i].ctl = "watching" /\ dev[i].sock # "client" /\ platform = "adb" /\ ~dev[i].scan
    /\ Sockets(i, [destroy(dev[i]) EXCEPT !.scan = TRUE])

\* What the probe of a port may answer within its time-out: "skip" and
\* "pause" back off from a port or from an unresponsive adb.
check == {"ready", "skip", "pause"}

\* The controller is asked again whether it still watches.
PortProbed(i) ==
    /\ dev[i].scan
    /\ \E answer \in check :
         LET d == [dev[i] EXCEPT !.scan = FALSE] IN
         Sockets(i, IF answer = "ready" /\ d.ctl = "watching" THEN connect(d) ELSE d)

\* The runtime answers Initialize with Register: a client, even if the
\* controller has stopped watching in the meantime.
handleConnection(i) == dev[i].sock = "open" /\ Sockets(i, [dev[i] EXCEPT !.sock = "client"])

handleOff(i) == dev[i].sock # "none" /\ Sockets(i, [dev[i] EXCEPT !.sock = "none"])

closeClient(i) == dev[i].sock = "client" /\ Sockets(i, [dev[i] EXCEPT !.sock = "none"])

-----------------------------------------------------------------------------
(* Control RPCs *)

startDeviceWatcher ==
    /\ devices # None /\ attached /\ ensureClientWatcher(dev, devices)
    /\ UNCHANGED <<platform, registryVars, rpcVars, ownerVars>>

stopDeviceWatcher ==
    /\ devices # None /\ clearClientWatcherStartState /\ wanted' = FALSE
    /\ dev' = [dev EXCEPT ![devices] = stopWatchClient(@)]
    /\ UNCHANGED <<platform, registryVars, rpcVars, ownerVars>>

\* disconnectDevice(): the object stays registered.
disconnectDevice ==
    /\ devices # None /\ clearClientWatcherStartState /\ wanted' = FALSE
    /\ dev' = [dev EXCEPT ![devices] = closeController(@)]
    /\ UNCHANGED <<platform, registryVars, rpcVars, ownerVars>>

\* withLegacyLock() has the lock, in the end by force, or fails.
withLegacyLock == {TRUE, FALSE}

claim == owner' = "ours" /\ status' = "attached"

\* startWatchAllClients(): reclaim the ownership, then every device watches.
\* Nothing is read before the lock is held.
startWatchAllClients ==
    /\ \E locked \in withLegacyLock : IF locked THEN claim ELSE UNCHANGED ownerVars
    /\ IF devices # None /\ status' = "attached" THEN ensureClientWatcher(dev, devices)
       ELSE UNCHANGED <<dev, watcherVars>>
    /\ UNCHANGED <<platform, registryVars, rpcVars>>

\* forceDisableAllClients() first waits for the starts in flight ...
forceDisableAllClients ==
    /\ ~disabling /\ disabling' = TRUE /\ awaited' = {starting} \cap Attempts
    /\ UNCHANGED <<platform, registryVars, dev, watcherVars, ownerVars>>

\* ... and then drops the ones that came meanwhile.
AllDisabled ==
    /\ disabling /\ awaited = {} /\ disabling' = FALSE
    /\ clearClientWatcherStartState /\ dev' = disableAllClients(dev) /\ wanted' = FALSE
    /\ UNCHANGED <<platform, registryVars, awaited, ownerVars>>

-----------------------------------------------------------------------------
(* Ownership *)

\* A Driver of the old kind takes the devices, or dies.
LegacyTakes ==
    /\ owner' = IF owner = "ours" THEN "legacy" ELSE "ours"
    /\ UNCHANGED <<platform, registryVars, dev, watcherVars, rpcVars, status>>

\* handleLegacyOwnershipLost(): watchers and clients go, devices stay.
handleLegacyOwnershipLost ==
    clearClientWatcherStartState /\ dev' = disableAllClients(dev) /\ wanted' = FALSE

\* A tick of the monitor: a file that names this daemon, nobody or a dead
\* process leaves the daemon the owner; a live legacy Driver is not preempted.
monitor ==
    /\ IF owner = "ours" THEN claim /\ UNCHANGED <<dev, watcherVars>>
       ELSE /\ status' = "unattached" /\ UNCHANGED owner
            /\ IF attached THEN handleLegacyOwnershipLost ELSE UNCHANGED <<dev, watcherVars>>
    /\ UNCHANGED <<platform, registryVars, rpcVars>>

-----------------------------------------------------------------------------
Next ==
    \/ \E m \in Managers : \/ addDeviceManager(m) \/ closeDeviceManager(m)
                           \/ AndroidWatches(m) \/ AndroidAdds(m) \/ AndroidRemoves(m) \/ AndroidTrackerError(m)
                           \/ HarmonyWatches(m) \/ HarmonyAdds(m) \/ HarmonyRemoves(m) \/ HarmonyTrackerError(m)
                           \/ IosWatches(m) \/ IosAttached(m) \/ IosDetached(m) \/ IosListenerCloses(m)
                           \/ FixedWatches(m)
    \/ \E i \in Instances : \/ DeviceCreated(i) \/ CreateFails(i) \/ watchClient(i) \/ watchAndroidClients(i)
                            \/ PortProbed(i) \/ handleConnection(i) \/ handleOff(i) \/ closeClient(i)
    \/ \E a \in Attempts : WatcherStarts(a)
    \/ startDeviceWatcher \/ stopDeviceWatcher \/ disconnectDevice
    \/ startWatchAllClients \/ forceDisableAllClients \/ AllDisabled
    \/ LegacyTakes \/ monitor

Spec == Init /\ [][Next]_vars

-----------------------------------------------------------------------------
\* A registered device belongs to an open manager, and no device object is in
\* use that is not registered, nor a socket to its runtime: what a closed
\* manager discovers late is dropped, a manager's end takes its own device
\* along, and no probe or connection in flight outlives the device.
DevicesBelongToOpenManagers ==
    /\ devices # None => \E m \in Managers : manager[m].open /\ managed[m] = devices
    /\ \A i \in Instances : dev[i].st = "made" <=> i = devices
    /\ \A i \in Instances : dev[i].sock # "none" => i = devices

\* A registered device goes only by an event of the manager that registered
\* it: the end or the failure of one endpoint never disconnects what another
\* endpoint registered under the same serial.
DevicesGoWithTheirManager ==
    [][devices # None /\ devices' # devices =>
           \E m \in Managers : managed[m] = devices /\ manager'[m] # manager[m]]_vars

\* A device is watched only if it is registered, owned by this daemon and
\* asked to be watched after the last stop, disconnect or loss: no pending
\* start recreates a watcher that was stopped.
NoUnwantedWatcher ==
    \A i \in Instances : dev[i].ctl = "watching" => i = devices /\ wanted /\ attached

\* A watcher that was asked for and not stopped since is at work, or its
\* start is in flight for the device that is registered now: ending an older
\* attempt, losing and reclaiming the ownership, or discovering the device
\* again never leaves a request behind that nobody serves.
WantedWatcherIsServed ==
    wanted => \/ devices # None /\ dev[devices].ctl = "watching"
              \/ starting # None /\ flight[starting] = devices
=============================================================================
