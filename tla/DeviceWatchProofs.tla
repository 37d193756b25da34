------------------------- MODULE DeviceWatchProofs -------------------------
(***************************************************************************)
(* Proofs about DeviceWatch, for any number of device managers, device     *)
(* objects and starts in flight.                                           *)
(***************************************************************************)
EXTENDS DeviceWatch, TLAPS

Devs == [st : {"gone", "creating", "made"}, own : Managers \cup {None},
         ctl : {"none", "watching", "stopped"}, scan : BOOLEAN,
         sock : {"none", "open", "client"}]

Mgrs == [open : BOOLEAN, watch : BOOLEAN, known : BOOLEAN]

TypeOK ==
    /\ manager \in [Managers -> Mgrs]
    /\ managed \in [Managers -> Instances \cup {None}]
    /\ devices \in Instances \cup {None}
    /\ dev \in [Instances -> Devs]
    /\ started \in BOOLEAN /\ starting \in Attempts \cup {None}
    /\ flight \in [Attempts -> Instances \cup {None}]
    /\ wanted \in BOOLEAN /\ status \in {"attached", "unattached"}

\* At most one manager holds the serial, and what it holds is registered.  A
\* creation in flight keeps the name of its manager only while that is open.
\* Controllers and sockets are those of the registered device.
RegistryInv ==
    /\ \A m \in Managers : managed[m] # None => managed[m] = devices /\ manager[m].open
    /\ \A m, n \in Managers : managed[m] # None /\ managed[n] # None => m = n
    /\ devices # None => \E m \in Managers : managed[m] = devices
    /\ \A m \in Managers : manager[m].watch => manager[m].open
    /\ \A i \in Instances : dev[i].own # None => manager[dev[i].own].open /\ dev[i].st = "creating"
    /\ \A i \in Instances : dev[i].st = "made" <=> i = devices
    /\ \A i \in Instances : dev[i].ctl # "none" \/ dev[i].sock # "none" => i = devices

\* The start state tells the truth: a started watcher watches, the start in
\* flight is for the registered device, and without the ownership there is
\* neither.
WatcherInv ==
    /\ started => devices # None /\ dev[devices].ctl = "watching"
    /\ starting # None => devices # None /\ flight[starting] = devices /\ wanted
    /\ ~attached => ~started /\ starting = None /\ ~wanted
    /\ \A i \in Instances : dev[i].ctl = "watching" => wanted
    /\ WantedWatcherIsServed

IInv == TypeOK /\ RegistryInv /\ WatcherInv

-----------------------------------------------------------------------------
(* What the steps do, as far as the invariant is concerned *)

\* The device of m, if it has one, leaves the registry; the objects were dv.
DeviceTaken(dv, m) ==
    /\ managed' = [managed EXCEPT ![m] = None] /\ dev' \in [Instances -> Devs]
    /\ \A i \in Instances : dev'[i].own = dv[i].own
    /\ \/ /\ devices # None /\ managed[m] = devices /\ devices' = None
          /\ started' = FALSE /\ starting' = None /\ wanted' = FALSE /\ flight' = flight
          /\ \A i \in Instances : /\ dev'[i].ctl = "none" /\ dev'[i].sock = "none"
                                  /\ dev'[i].st = IF i = devices THEN "gone" ELSE dev[i].st
       \/ /\ managed[m] = None /\ dev' = dv
          /\ UNCHANGED <<devices, started, starting, flight, wanted>>

\* The manager m changes, and its device goes if it has one.
DeviceLost(m) ==
    /\ UNCHANGED status /\ managed' = [managed EXCEPT ![m] = None]
    /\ manager' \in [Managers -> Mgrs] /\ manager'[m] # manager[m]
    /\ \A n \in Managers \ {m} : manager'[n] = manager[n]
    /\ manager'[m].watch => manager'[m].open
    /\ manager'[m].open \/ \A i \in Instances : dev'[i].own # m
    /\ dev' \in [Instances -> Devs]
    /\ \A i \in Instances : dev'[i].own \in {dev[i].own, None}
    /\ \/ /\ devices # None /\ managed[m] = devices /\ devices' = None
          /\ started' = FALSE /\ starting' = None /\ wanted' = FALSE /\ flight' = flight
          /\ \A i \in Instances : /\ dev'[i].ctl = "none" /\ dev'[i].sock = "none"
                                  /\ dev'[i].st = IF i = devices THEN "gone" ELSE dev[i].st
       \/ /\ managed[m] = None /\ UNCHANGED <<devices, started, starting, flight, wanted>>
          /\ \A i \in Instances : /\ dev'[i].st = dev[i].st /\ dev'[i].ctl = dev[i].ctl
                                  /\ dev'[i].sock = dev[i].sock

\* The device i becomes watched, a start for it is in flight, or it was so
\* before; its object was d.
WatchAsked(i, d) ==
    /\ wanted' = TRUE /\ dev' \in [Instances -> Devs]
    /\ dev'[i].st = d.st /\ dev'[i].own = d.own
    /\ \/ /\ started \/ starting # None
          /\ dev'[i] = d /\ UNCHANGED <<started, starting, flight>>
       \/ /\ ~started /\ starting = None /\ dev'[i] = d /\ started' = FALSE
          /\ starting' \in Attempts /\ flight' \in [Attempts -> Instances \cup {None}]
          /\ flight'[starting'] = i
       \/ /\ ~started /\ starting = None /\ dev'[i].ctl = "watching" /\ dev'[i].sock = "none"
          /\ started' = TRUE /\ UNCHANGED <<starting, flight>>

\* The created device i of the manager m is dropped, or registered.
DeviceMade(i, m) ==
    /\ dev' \in [Instances -> Devs] /\ dev'[i].own = None
    /\ \A j \in Instances \ {i} : dev'[j] = dev[j]
    /\ \/ /\ dev'[i].st = "gone" /\ dev'[i].ctl = "none" /\ dev'[i].sock = "none"
          /\ UNCHANGED <<managed, devices, started, starting, flight, wanted>>
       \/ /\ m \in Managers /\ devices = None /\ devices' = i /\ managed' = [managed EXCEPT ![m] = i]
          /\ dev'[i].st = "made" /\ dev'[i].sock = "none"
          /\ \/ /\ dev'[i].ctl = "none" /\ UNCHANGED <<started, starting, flight, wanted>>
             \/ /\ attached /\ wanted' = TRUE /\ dev'[i].ctl = "none" /\ started' = FALSE
                /\ starting' \in Attempts /\ flight' \in [Attempts -> Instances \cup {None}]
                /\ flight'[starting'] = i
             \/ /\ attached /\ wanted' = TRUE /\ dev'[i].ctl = "watching" /\ started' = TRUE
                /\ UNCHANGED <<starting, flight>>

\* The start a is over; the registered device is watched if it was current.
StartDone(a) ==
    /\ UNCHANGED <<manager, managed, devices, wanted, status>>
    /\ flight' \in [Attempts -> Instances \cup {None}]
    /\ \A b \in Attempts \ {a} : flight'[b] = flight[b]
    /\ starting' = IF starting = a THEN None ELSE starting
    /\ \/ UNCHANGED <<dev, started>> /\ (attached => starting # a)
       \/ /\ attached /\ starting = a /\ devices \in Instances /\ started' = TRUE
          /\ dev' \in [Instances -> Devs]
          /\ dev'[devices].st = dev[devices].st /\ dev'[devices].own = dev[devices].own
          /\ dev'[devices].sock = "none" /\ dev'[devices].ctl = "watching"
          /\ \A i \in Instances \ {devices} : dev'[i] = dev[i]

\* No device is watched any more, and nothing else begins.
WatchersStopped ==
    /\ dev' \in [Instances -> Devs]
    /\ \A i \in Instances : /\ dev'[i].st = dev[i].st /\ dev'[i].own = dev[i].own
                            /\ dev'[i].ctl # "watching"
                            /\ dev'[i].ctl # "none" => dev[i].ctl # "none"
                            /\ dev'[i].sock # "none" => dev[i].sock # "none"

\* A socket of the device i comes or goes.
SocketChanged(i) ==
    /\ UNCHANGED <<manager, managed, devices, started, starting, flight, wanted, status>>
    /\ dev' \in [Instances -> Devs] /\ \A j \in Instances \ {i} : dev'[j] = dev[j]
    /\ dev'[i].st = dev[i].st /\ dev'[i].own = dev[i].own /\ dev'[i].ctl = dev[i].ctl
    /\ dev'[i].sock # "none" => dev[i].ctl # "none" \/ dev[i].sock # "none"

-----------------------------------------------------------------------------
\* What the tracker of a manager changes.
LEMMA ManagerOperations ==
    ASSUME NEW r \in Mgrs
    PROVE  /\ [r EXCEPT !.known = TRUE] \in Mgrs
           /\ [r EXCEPT !.watch = FALSE] \in Mgrs
           /\ [r EXCEPT !.watch = TRUE, !.known = FALSE] \in Mgrs
  BY Zenon DEF Mgrs

\* What the operations on a device object and its controller leave behind.
LEMMA DeviceOperations ==
    ASSUME NEW d \in Devs
    PROVE  /\ /\ closeController(d) \in Devs
              /\ closeController(d).st = d.st /\ closeController(d).own = d.own
              /\ closeController(d).sock = "none" /\ closeController(d).ctl # "watching"
              /\ closeController(d).ctl # "none" => d.ctl # "none"
           /\ /\ stopWatchClient(d) \in Devs
              /\ stopWatchClient(d).st = d.st /\ stopWatchClient(d).own = d.own
              /\ stopWatchClient(d).sock = d.sock /\ stopWatchClient(d).ctl # "watching"
              /\ stopWatchClient(d).ctl # "none" => d.ctl # "none"
           /\ /\ startWatchClient(d) \in Devs
              /\ startWatchClient(d).st = d.st /\ startWatchClient(d).own = d.own
              /\ startWatchClient(d).sock = "none" /\ startWatchClient(d).ctl = "watching"
<1> DEFINE n == destroy(d)
           c == IF n.ctl = "none" THEN n.ctl ELSE "stopped"
           e == [n EXCEPT !.ctl = c]
<1>1. n \in Devs /\ n.st = d.st /\ n.own = d.own /\ n.sock = "none" /\ n.ctl = d.ctl
  BY DEF destroy, Devs
<1>2. closeController(d) = e
  BY DEF closeController
<1>3. startWatchClient(d) = [e EXCEPT !.ctl = "watching", !.scan = FALSE]
  BY DEF startWatchClient, closeController
<1>4. c \in {"none", "stopped"} /\ (c # "none" => d.ctl # "none")
  BY <1>1
<1> HIDE DEF n, c
<1>5. /\ e \in Devs /\ e.st = d.st /\ e.own = d.own
      /\ e.sock = "none" /\ e.ctl # "watching" /\ (e.ctl # "none" => d.ctl # "none")
  BY <1>1, <1>4 DEF Devs
<1> HIDE DEF e
<1>6. /\ startWatchClient(d) \in Devs
      /\ startWatchClient(d).st = d.st /\ startWatchClient(d).own = d.own
      /\ startWatchClient(d).sock = "none" /\ startWatchClient(d).ctl = "watching"
  BY <1>3, <1>5, Zenon DEF Devs
<1>7. /\ stopWatchClient(d) \in Devs
      /\ stopWatchClient(d).st = d.st /\ stopWatchClient(d).own = d.own
      /\ stopWatchClient(d).sock = d.sock /\ stopWatchClient(d).ctl # "watching"
      /\ stopWatchClient(d).ctl # "none" => d.ctl # "none"
  <2> DEFINE b == IF d.ctl = "watching" THEN "stopped" ELSE d.ctl
  <2>1. b \in {"none", "stopped"} /\ (b # "none" => d.ctl # "none")
    BY DEF Devs
  <2>2. stopWatchClient(d) = [d EXCEPT !.ctl = b]
    BY DEF stopWatchClient
  <2> HIDE DEF b
  <2> QED
    BY <2>1, <2>2 DEF Devs
<1> QED
  BY <1>2, <1>5, <1>6, <1>7

\* disableAllClients() leaves no watcher, and starts nothing.
LEMMA AllStopped ==
    ASSUME TypeOK, dev' = disableAllClients(dev)
    PROVE  WatchersStopped
<1> SUFFICES ASSUME NEW i \in Instances
             PROVE  /\ dev'[i] \in Devs /\ dev'[i].st = dev[i].st /\ dev'[i].own = dev[i].own
                    /\ dev'[i].ctl # "watching"
                    /\ dev'[i].ctl # "none" => dev[i].ctl # "none"
                    /\ dev'[i].sock # "none" => dev[i].sock # "none"
  BY Zenon DEF disableAllClients, WatchersStopped
<1> DEFINE d == stopWatchClient(dev[i])
           b == IF d.sock = "client" THEN "none" ELSE d.sock
<1>1. dev'[i] = [d EXCEPT !.sock = b]
  BY DEF disableAllClients
<1>2. /\ d \in Devs /\ d.st = dev[i].st /\ d.own = dev[i].own /\ d.sock = dev[i].sock
      /\ d.ctl # "watching" /\ (d.ctl # "none" => dev[i].ctl # "none")
  BY DeviceOperations DEF TypeOK
<1> HIDE DEF d
<1>3. b \in {"none", "open"} /\ (b # "none" => d.sock # "none")
  BY <1>2 DEF Devs
<1> HIDE DEF b
<1> QED
  BY <1>1, <1>2, <1>3 DEF Devs

\* Stopping or disconnecting the registered device leaves it no watcher.
LEMMA OneStopped ==
    ASSUME IInv, devices # None,
           \/ dev' = [dev EXCEPT ![devices] = stopWatchClient(@)]
           \/ dev' = [dev EXCEPT ![devices] = closeController(@)]
    PROVE  WatchersStopped
<1>1. devices \in Instances /\ dev[devices] \in Devs
  BY DEF IInv, TypeOK
<1>2. PICK d \in {stopWatchClient(dev[devices]), closeController(dev[devices])} :
         dev' = [dev EXCEPT ![devices] = d]
  OBVIOUS
<1>3. /\ d \in Devs /\ d.st = dev[devices].st /\ d.own = dev[devices].own
      /\ d.ctl # "watching" /\ (d.ctl # "none" => dev[devices].ctl # "none")
      /\ (d.sock # "none" => dev[devices].sock # "none")
  BY <1>1, DeviceOperations
<1>4. \A i \in Instances \ {devices} : dev[i].ctl = "none"
  BY DEF IInv, RegistryInv
<1>5. dev' \in [Instances -> Devs] /\ dev'[devices] = d /\ \A i \in Instances \ {devices} : dev'[i] = dev[i]
  BY <1>1, <1>2, <1>3 DEF IInv, TypeOK
<1> QED
  BY <1>3, <1>4, <1>5 DEF WatchersStopped

\* Taking the device of m out of the registry ends its watcher and its start;
\* where m holds nothing, nothing changes.
LEMMA Unregistered ==
    ASSUME IInv, NEW m \in Managers, NEW dv \in [Instances -> Devs],
           \A i \in Instances : /\ dv[i].st = dev[i].st /\ dv[i].ctl = dev[i].ctl
                                /\ dv[i].sock = dev[i].sock,
           unregisterManagedDevice(dv, m)
    PROVE  DeviceTaken(dv, m)
<1>1. CASE devices # None /\ managed[m] = devices
  <2> DEFINE c == closeController(dv[devices])
             e == [c EXCEPT !.st = "gone", !.ctl = "none"]
  <2>1. /\ devices' = None /\ handleDeviceDisconnected /\ dev' = [dv EXCEPT ![devices] = e]
        /\ managed' = [managed EXCEPT ![m] = None]
    BY <1>1 DEF unregisterManagedDevice, unregisterDevice
  <2>2. started' = FALSE /\ starting' = None /\ wanted' = FALSE /\ flight' = flight
    BY <2>1 DEF handleDeviceDisconnected, clearClientWatcherStartState, IInv, TypeOK, WatcherInv
  <2>3. devices \in Instances
    BY <1>1 DEF IInv, TypeOK
  <2>4. c \in Devs /\ c.own = dv[devices].own /\ c.sock = "none"
    BY <2>3, DeviceOperations
  <2> HIDE DEF c
  <2>5. e \in Devs /\ e.ctl = "none" /\ e.sock = "none" /\ e.st = "gone" /\ e.own = dv[devices].own
    BY <2>4, Zenon DEF Devs
  <2> HIDE DEF e
  <2>6. \A i \in Instances \ {devices} : dv[i].ctl = "none" /\ dv[i].sock = "none"
    BY DEF IInv, RegistryInv
  <2>7. dev' \in [Instances -> Devs] /\ dev'[devices] = e /\ \A i \in Instances \ {devices} : dev'[i] = dv[i]
    BY <2>1, <2>3, <2>5
  <2> QED
    BY <1>1, <2>1, <2>2, <2>3, <2>5, <2>6, <2>7 DEF DeviceTaken
<1>2. CASE ~(devices # None /\ managed[m] = devices)
  BY <1>2 DEF unregisterManagedDevice, IInv, TypeOK, RegistryInv, watcherVars, DeviceTaken
<1> QED
  BY <1>1, <1>2

\* What a manager's tracker loses, and the end of a manager.
LEMMA ManagerLosesDevice ==
    ASSUME IInv, NEW m \in Managers, Lose(m) \/ Fail(m) \/ closeDeviceManager(m)
    PROVE  DeviceLost(m)
<1> USE NoneIsNothing
<1>1. CASE Lose(m) \/ Fail(m)
  <2>1. dev \in [Instances -> Devs] /\ unregisterManagedDevice(dev, m) /\ UNCHANGED status
    BY <1>1 DEF Lose, Fail, ownerVars, IInv, TypeOK
  <2>2. PICK r \in {[manager[m] EXCEPT !.known = FALSE], [manager[m] EXCEPT !.watch = FALSE]} :
            manager' = [manager EXCEPT ![m] = r] /\ r # manager[m] /\ manager[m].watch
    BY <1>1 DEF Lose, Fail, IInv, TypeOK, Mgrs
  <2>3. r \in Mgrs /\ r.open = manager[m].open /\ manager[m].open
    BY <2>2, ZenonT(60) DEF IInv, TypeOK, RegistryInv, Mgrs
  <2>4. /\ manager' \in [Managers -> Mgrs] /\ manager'[m] # manager[m] /\ manager'[m].open
        /\ \A n \in Managers \ {m} : manager'[n] = manager[n]
    BY <2>2, <2>3, Zenon DEF IInv, TypeOK
  <2>5. DeviceTaken(dev, m)
    BY <2>1, Unregistered
  <2> QED
    BY <2>1, <2>4, <2>5 DEF DeviceLost, DeviceTaken
<1>2. CASE closeDeviceManager(m)
  <2> DEFINE off(i) == IF dev[i].own = m THEN [dev[i] EXCEPT !.own = None] ELSE dev[i]
             dv == [i \in Instances |-> off(i)]
  <2>1. unregisterManagedDevice(dv, m) /\ UNCHANGED status
    BY <1>2 DEF closeDeviceManager, ownerVars
  <2>2. /\ manager' \in [Managers -> Mgrs] /\ manager'[m] # manager[m]
        /\ \A n \in Managers \ {m} : manager'[n] = manager[n]
        /\ ~manager'[m].open /\ ~manager'[m].watch
    BY <1>2 DEF closeDeviceManager, Closed, IInv, TypeOK, Mgrs
  <2>3. ASSUME NEW i \in Instances
        PROVE  /\ off(i) \in Devs /\ off(i).st = dev[i].st /\ off(i).ctl = dev[i].ctl
               /\ off(i).sock = dev[i].sock /\ off(i).own \in {dev[i].own, None} /\ off(i).own # m
    <3>1. dev[i] \in Devs
      BY DEF IInv, TypeOK
    <3> QED
      BY <3>1 DEF Devs
  <2> HIDE DEF off
  <2>4. /\ dv \in [Instances -> Devs]
        /\ \A i \in Instances : /\ dv[i].st = dev[i].st /\ dv[i].ctl = dev[i].ctl
                                /\ dv[i].sock = dev[i].sock
                                /\ dv[i].own \in {dev[i].own, None} /\ dv[i].own # m
    BY <2>3
  <2> HIDE DEF dv
  <2>5. DeviceTaken(dv, m)
    BY <2>1, <2>4, Unregistered
  <2> QED
    BY <2>1, <2>2, <2>4, <2>5 DEF DeviceLost, DeviceTaken
<1> QED
  BY <1>1, <1>2

\* Losing a device keeps the registry and its managers in agreement.
LEMMA LossKeepsRegistry ==
    ASSUME IInv, NEW m \in Managers, DeviceLost(m)
    PROVE  RegistryInv'
<1> USE NoneIsNothing DEF IInv, TypeOK, RegistryInv
<1>2. /\ managed'[m] = None /\ \A n \in Managers \ {m} : managed'[n] = managed[n]
      /\ managed' \in [Managers -> Instances \cup {None}]
  BY DEF DeviceLost
<1>3. \A i \in Instances : dev'[i].own # None => manager'[dev'[i].own].open /\ dev'[i].st = "creating"
  <2> SUFFICES ASSUME NEW i \in Instances, dev'[i].own # None
               PROVE  manager'[dev'[i].own].open /\ dev'[i].st = "creating"
    OBVIOUS
  <2>1. dev'[i].own = dev[i].own /\ manager[dev[i].own].open /\ dev[i].st = "creating" /\ i # devices
    BY DEF DeviceLost
  <2>2. dev[i].own \in Managers
    BY <2>1 DEF Devs
  <2> QED
    BY <2>1, <2>2 DEF DeviceLost
<1>4. devices' # None => \E n \in Managers : managed'[n] = devices'
  BY <1>2 DEF DeviceLost
<1>5. \A n \in Managers : managed'[n] # None => managed'[n] = devices' /\ manager'[n].open
  BY <1>2 DEF DeviceLost
<1>6. \A n, o \in Managers : managed'[n] # None /\ managed'[o] # None => n = o
  BY <1>2
<1>7. \A n \in Managers : manager'[n].watch => manager'[n].open
  BY DEF DeviceLost
<1>8. \A i \in Instances : dev'[i].st = "made" <=> i = devices'
  BY DEF DeviceLost
<1>9. \A i \in Instances : dev'[i].ctl # "none" \/ dev'[i].sock # "none" => i = devices'
  BY DEF DeviceLost
<1> QED
  BY <1>3, <1>4, <1>5, <1>6, <1>7, <1>8, <1>9, Zenon

\* ensureClientWatcher() for the registered device i serves the request.
LEMMA WatcherEnsured ==
    ASSUME TypeOK, NEW dv \in [Instances -> Devs], NEW i \in Instances,
           ensureClientWatcher(dv, i)
    PROVE  WatchAsked(i, dv[i]) /\ \A j \in Instances \ {i} : dev'[j] = dv[j]
<1> USE NoneIsNothing
<1>1. CASE started \/ starting # None
  BY <1>1 DEF ensureClientWatcher, TypeOK, WatchAsked
<1>2. CASE ~started /\ starting = None /\ platform = "adb"
  BY <1>2 DEF ensureClientWatcher, TypeOK, WatchAsked
<1>3. CASE ~started /\ starting = None /\ platform # "adb"
  <2> DEFINE e == startWatchClient(dv[i])
  <2>1. e \in Devs /\ e.ctl = "watching" /\ e.sock = "none" /\ e.st = dv[i].st /\ e.own = dv[i].own
    BY DeviceOperations
  <2>2. dev' = [dv EXCEPT ![i] = e] /\ started' = TRUE /\ wanted' = TRUE /\ UNCHANGED <<starting, flight>>
    BY <1>3 DEF ensureClientWatcher
  <2> HIDE DEF e
  <2>3. dev' \in [Instances -> Devs] /\ dev'[i] = e /\ \A j \in Instances \ {i} : dev'[j] = dv[j]
    BY <2>1, <2>2
  <2> QED
    BY <1>3, <2>1, <2>2, <2>3, Zenon DEF WatchAsked
<1> QED
  BY <1>1, <1>2, <1>3

\* A created device is dropped, or registered and perhaps watched.
LEMMA Registered ==
    ASSUME IInv, NEW i \in Instances, NEW m \in Managers \cup {None}, i # devices,
           registerManagedDevice(i, m)
    PROVE  DeviceMade(i, m)
<1>1. Gone \in Devs /\ Gone.st = "gone" /\ Gone.ctl = "none" /\ Gone.sock = "none" /\ Gone.own = None
  BY DEF Gone, Devs
<1>2. CASE m = None \/ devices # None
  BY <1>1, <1>2 DEF registerManagedDevice, watcherVars, IInv, TypeOK, DeviceMade
<1>3. CASE m # None /\ devices = None
  <2> DEFINE made == [Gone EXCEPT !.st = "made"]
             dv == [dev EXCEPT ![i] = made]
  <2>1. made \in Devs /\ made.st = "made" /\ made.ctl = "none" /\ made.sock = "none" /\ made.own = None
    BY Zenon DEF Gone, Devs
  <2>2. /\ devices' = i /\ managed' = [managed EXCEPT ![m] = i]
        /\ \/ attached /\ ensureClientWatcher(dv, i)
           \/ dev' = dv /\ UNCHANGED watcherVars
    BY <1>3 DEF registerManagedDevice, handleDeviceConnected
  <2> HIDE DEF made
  <2>3. dv \in [Instances -> Devs] /\ dv[i] = made /\ \A j \in Instances \ {i} : dv[j] = dev[j]
    BY <2>1 DEF IInv, TypeOK
  <2> HIDE DEF dv
  <2>4. ~started /\ starting = None
    BY <1>3 DEF IInv, WatcherInv
  <2>5. CASE attached /\ ensureClientWatcher(dv, i)
    BY <1>3, <2>1, <2>2, <2>3, <2>4, <2>5, WatcherEnsured, ZenonT(60) DEF IInv, WatchAsked, DeviceMade
  <2>6. CASE dev' = dv /\ UNCHANGED watcherVars
    BY <1>3, <2>1, <2>2, <2>3, <2>6 DEF watcherVars, DeviceMade
  <2> QED
    BY <2>2, <2>5, <2>6
<1> QED
  BY <1>2, <1>3

\* A device that is being created, or a name that is not in use, is not the
\* registered device, and its manager is open if it has one.
LEMMA NewIsUnregistered ==
    ASSUME IInv
    PROVE  /\ \A i \in Unused : i \in Instances /\ i # devices
           /\ \A i \in Instances : dev[i].st = "creating" =>
                 i # devices /\ (dev[i].own # None => manager[dev[i].own].open)
  BY DEF Unused, Gone, IInv, RegistryInv

\* The end of a start in flight.
LEMMA StartEnded ==
    ASSUME IInv, NEW a \in Attempts, WatcherStarts(a)
    PROVE  StartDone(a)
<1> USE NoneIsNothing
<1>1. /\ UNCHANGED <<manager, managed, devices, wanted, status>>
      /\ flight' \in [Attempts -> Instances \cup {None}]
      /\ \A b \in Attempts \ {a} : flight'[b] = flight[b]
      /\ starting' = IF starting = a THEN None ELSE starting
  BY DEF WatcherStarts, forward, registryVars, ownerVars, IInv, TypeOK
<1>2. CASE attached /\ starting = a
  <2>1. flight[a] = devices /\ devices \in Instances /\ dev[devices] \in Devs
    BY <1>2 DEF IInv, WatcherInv, TypeOK
  <2> DEFINE e == startWatchClient(dev[devices])
  <2>2. dev' = [dev EXCEPT ![devices] = e] /\ started' = TRUE
    BY <1>2, <2>1 DEF WatcherStarts
  <2>3. /\ e \in Devs /\ e.ctl = "watching" /\ e.sock = "none"
        /\ e.st = dev[devices].st /\ e.own = dev[devices].own
    BY <2>1, DeviceOperations
  <2> HIDE DEF e
  <2>4. dev' \in [Instances -> Devs] /\ dev'[devices] = e /\ \A i \in Instances \ {devices} : dev'[i] = dev[i]
    BY <2>1, <2>2, <2>3 DEF IInv, TypeOK
  <2> QED
    BY <1>1, <1>2, <2>1, <2>2, <2>3, <2>4 DEF StartDone
<1>3. CASE ~(attached /\ starting = a)
  BY <1>1, <1>3 DEF WatcherStarts, StartDone
<1> QED
  BY <1>2, <1>3

\* The sockets of a device: at work only while its controller is there.
LEMMA SocketSteps ==
    ASSUME IInv, NEW i \in Instances,
           \/ watchClient(i) \/ watchAndroidClients(i) \/ PortProbed(i)
           \/ handleConnection(i) \/ handleOff(i) \/ closeClient(i)
    PROVE  SocketChanged(i)
<1>1. PICK x \in {"none", "open", "client"}, b \in BOOLEAN :
          /\ Sockets(i, [dev[i] EXCEPT !.sock = x, !.scan = b])
          /\ x # "none" => dev[i].ctl # "none" \/ dev[i].sock # "none"
  <2>1. dev[i] \in Devs
    BY DEF IInv, TypeOK
  <2>2. CASE watchClient(i)
    <3>1. connect(destroy(dev[i])) = [dev[i] EXCEPT !.sock = "open", !.scan = dev[i].scan]
      BY <2>1, Zenon DEF connect, destroy, Devs
    <3> QED
      BY <2>1, <2>2, <3>1, Zenon DEF watchClient, Devs
  <2>3. CASE watchAndroidClients(i)
    <3>1. [destroy(dev[i]) EXCEPT !.scan = TRUE] = [dev[i] EXCEPT !.sock = "none", !.scan = TRUE]
      BY <2>1 DEF destroy, Devs
    <3> QED
      BY <2>3, <3>1, Zenon DEF watchAndroidClients
  <2>4. CASE PortProbed(i)
    <3> DEFINE d == [dev[i] EXCEPT !.scan = FALSE]
    <3>1. d = [dev[i] EXCEPT !.sock = dev[i].sock, !.scan = FALSE] /\ d.ctl = dev[i].ctl
      BY <2>1, Zenon DEF Devs
    <3>2. connect(d) = [dev[i] EXCEPT !.sock = "open", !.scan = FALSE]
      BY <2>1, Zenon DEF connect, Devs
    <3>3. Sockets(i, d) \/ (Sockets(i, connect(d)) /\ d.ctl = "watching")
      BY <2>4 DEF PortProbed
    <3>4. dev[i].sock \in {"none", "open", "client"}
      BY <2>1 DEF Devs
    <3> HIDE DEF d
    <3> QED
      BY <3>1, <3>2, <3>3, <3>4, Zenon
  <2>5. CASE handleConnection(i)
    <3>1. [dev[i] EXCEPT !.sock = "client"] = [dev[i] EXCEPT !.sock = "client", !.scan = dev[i].scan]
      BY <2>1, Zenon DEF Devs
    <3> QED
      BY <2>1, <2>5, <3>1, Zenon DEF handleConnection, Devs
  <2>6. CASE handleOff(i) \/ closeClient(i)
    <3>1. [dev[i] EXCEPT !.sock = "none"] = [dev[i] EXCEPT !.sock = "none", !.scan = dev[i].scan]
      BY <2>1, Zenon DEF Devs
    <3> QED
      BY <2>1, <2>6, <3>1, Zenon DEF handleOff, closeClient, Devs
  <2> QED
    BY <2>2, <2>3, <2>4, <2>5, <2>6, Zenon
<1> DEFINE e == [dev[i] EXCEPT !.sock = x, !.scan = b]
<1>2. /\ e \in Devs /\ e.st = dev[i].st /\ e.own = dev[i].own /\ e.ctl = dev[i].ctl /\ e.sock = x
  <2>1. dev[i] \in Devs
    BY DEF IInv, TypeOK
  <2> QED
    BY <2>1, Zenon DEF Devs
<1> HIDE DEF e
<1>3. /\ dev' = [dev EXCEPT ![i] = e]
      /\ UNCHANGED <<manager, managed, devices, started, starting, flight, wanted, status>>
  BY <1>1 DEF Sockets, e, registryVars, watcherVars, ownerVars
<1>4. dev' \in [Instances -> Devs] /\ dev'[i] = e /\ \A j \in Instances \ {i} : dev'[j] = dev[j]
  BY <1>2, <1>3 DEF IInv, TypeOK
<1> QED
  BY <1>1, <1>2, <1>3, <1>4 DEF SocketChanged

\* Every step keeps the types.
LEMMA TypePreserved == IInv /\ [Next]_vars => TypeOK'
<1> SUFFICES ASSUME IInv, [Next]_vars PROVE TypeOK'
  OBVIOUS
<1> USE NoneIsNothing DEF IInv, TypeOK, Devs, Mgrs, watcherVars, rpcVars, ownerVars, registryVars
<1>1. ASSUME NEW m \in Managers, addDeviceManager(m) PROVE TypeOK'
  BY <1>1, Zenon DEF addDeviceManager, Closed
<1>2. ASSUME NEW m \in Managers, closeDeviceManager(m) PROVE TypeOK'
  <2>1. DeviceLost(m)
    BY <1>2, ManagerLosesDevice
  <2> QED
    BY <1>2, <2>1, Zenon DEF DeviceLost
<1>3. ASSUME NEW m \in Managers, Watch(m) PROVE TypeOK'
  <2> HIDE DEF Mgrs, Devs
  <2>1. manager' \in [Managers -> Mgrs]
    BY <1>3, ManagerOperations, Zenon DEF Watch
  <2> QED
    BY <1>3, <2>1 DEF Watch
<1>4. ASSUME NEW m \in Managers, Discover(m) PROVE TypeOK'
  <2>1. PICK i \in Instances : dev' = [dev EXCEPT ![i] = [Gone EXCEPT !.st = "creating", !.own = m]]
    BY <1>4, Zenon DEF Discover, Unused
  <2> DEFINE e == [Gone EXCEPT !.st = "creating", !.own = m]
  <2>2. e \in Devs
    BY Zenon DEF Gone
  <2>3. manager' \in [Managers -> Mgrs]
    <3> HIDE DEF Mgrs, Devs
    <3>1. [manager[m] EXCEPT !.known = TRUE] \in Mgrs
      BY ManagerOperations, Zenon
    <3> QED
      BY <1>4, <3>1 DEF Discover
  <2> HIDE DEF e, Devs, Mgrs
  <2>4. dev' \in [Instances -> Devs]
    BY <2>1, <2>2 DEF e
  <2> QED
    BY <1>4, <2>3, <2>4 DEF Discover
<1>5. ASSUME NEW m \in Managers, Lose(m) PROVE TypeOK'
  <2>1. DeviceLost(m)
    BY <1>5, ManagerLosesDevice
  <2> QED
    BY <1>5, <2>1, Zenon DEF DeviceLost
<1>6. ASSUME NEW m \in Managers, Fail(m) PROVE TypeOK'
  <2>1. DeviceLost(m)
    BY <1>6, ManagerLosesDevice
  <2> QED
    BY <1>6, <2>1, Zenon DEF DeviceLost
<1>7. ASSUME NEW m \in Managers, IosListenerCloses(m) PROVE TypeOK'
  BY <1>7, ZenonT(60) DEF IosListenerCloses
<1>8. ASSUME NEW m \in Managers, FixedWatches(m) PROVE TypeOK'
  <2>1. PICK i \in Unused : registerManagedDevice(i, m)
    BY <1>8 DEF FixedWatches
  <2>2. UNCHANGED <<manager, status>> /\ manager[m].open
    BY <1>8 DEF FixedWatches
  <2>3. DeviceMade(i, m) /\ i \in Instances /\ i # devices
    BY <2>1, NewIsUnregistered, Registered
  <2> HIDE DEF Devs, Mgrs
  <2> QED
    BY <2>2, <2>3, ZenonT(60) DEF DeviceMade
<1>9. ASSUME NEW i \in Instances, DeviceCreated(i) PROVE TypeOK'
  <2> DEFINE m == dev[i].own
  <2>1. /\ registerManagedDevice(i, m) /\ UNCHANGED <<manager, status>>
        /\ i # devices /\ (m # None => manager[m].open) /\ m \in Managers \cup {None}
    BY <1>9, NewIsUnregistered DEF DeviceCreated, TypeOK, Devs
  <2> HIDE DEF m
  <2>2. DeviceMade(i, m)
    BY <2>1, Registered
  <2> HIDE DEF Devs, Mgrs
  <2> QED
    BY <2>1, <2>2, ZenonT(60) DEF DeviceMade
<1>10. ASSUME NEW i \in Instances, CreateFails(i) PROVE TypeOK'
  <2>1. Gone \in Devs /\ dev[i].own \in Managers \cup {None}
    BY DEF Gone
  <2>2. manager' \in [Managers -> Mgrs]
    <3> HIDE DEF Mgrs, Devs
    <3>1. \A n \in Managers : [manager[n] EXCEPT !.watch = FALSE] \in Mgrs
      BY ManagerOperations, Zenon
    <3> QED
      BY <1>10, <2>1, <3>1 DEF CreateFails
  <2> HIDE DEF Devs, Mgrs
  <2> QED
    BY <1>10, <2>1, <2>2 DEF CreateFails
<1>11. ASSUME NEW i \in Instances, watchClient(i) PROVE TypeOK'
  <2>1. SocketChanged(i)
    BY <1>11, SocketSteps
  <2> QED
    BY <1>11, <2>1 DEF SocketChanged
<1>12. ASSUME NEW i \in Instances, watchAndroidClients(i) PROVE TypeOK'
  <2>1. SocketChanged(i)
    BY <1>12, SocketSteps
  <2> QED
    BY <1>12, <2>1 DEF SocketChanged
<1>13. ASSUME NEW i \in Instances, PortProbed(i) PROVE TypeOK'
  <2>1. SocketChanged(i)
    BY <1>13, SocketSteps
  <2> QED
    BY <1>13, <2>1 DEF SocketChanged
<1>14. ASSUME NEW i \in Instances, handleConnection(i) PROVE TypeOK'
  <2>1. SocketChanged(i)
    BY <1>14, SocketSteps
  <2> QED
    BY <1>14, <2>1 DEF SocketChanged
<1>15. ASSUME NEW i \in Instances, handleOff(i) PROVE TypeOK'
  <2>1. SocketChanged(i)
    BY <1>15, SocketSteps
  <2> QED
    BY <1>15, <2>1 DEF SocketChanged
<1>16. ASSUME NEW i \in Instances, closeClient(i) PROVE TypeOK'
  <2>1. SocketChanged(i)
    BY <1>16, SocketSteps
  <2> QED
    BY <1>16, <2>1 DEF SocketChanged
<1>17. ASSUME NEW a \in Attempts, WatcherStarts(a) PROVE TypeOK'
  <2>1. StartDone(a)
    BY <1>17, StartEnded
  <2> QED
    BY <1>17, <2>1, Zenon DEF StartDone
<1>18. CASE startDeviceWatcher
  <2>1. WatchAsked(devices, dev[devices]) /\ \A j \in Instances \ {devices} : dev'[j] = dev[j]
    BY <1>18, WatcherEnsured DEF startDeviceWatcher, TypeOK
  <2> QED
    BY <1>18, <2>1, Zenon DEF startDeviceWatcher, WatchAsked, TypeOK
<1>19. CASE stopDeviceWatcher
  <2>1. WatchersStopped
    BY <1>19, OneStopped DEF stopDeviceWatcher
  <2> QED
    BY <1>19, <2>1, Zenon DEF WatchersStopped, stopDeviceWatcher, clearClientWatcherStartState
<1>20. CASE disconnectDevice
  <2>1. WatchersStopped
    BY <1>20, OneStopped DEF disconnectDevice
  <2> QED
    BY <1>20, <2>1, Zenon DEF WatchersStopped, disconnectDevice, clearClientWatcherStartState
<1>21. CASE startWatchAllClients
  <2>1. /\ status' \in {"attached", "unattached"} /\ (status = "attached" => status' = "attached")
        /\ UNCHANGED <<manager, managed, devices>>
    BY <1>21 DEF startWatchAllClients, claim, TypeOK
  <2>2. CASE devices # None /\ status' = "attached"
    <3>1. WatchAsked(devices, dev[devices]) /\ \A j \in Instances \ {devices} : dev'[j] = dev[j]
      <4>1. ensureClientWatcher(dev, devices)
        BY <1>21, <2>2 DEF startWatchAllClients
      <4>2. TypeOK /\ dev \in [Instances -> Devs] /\ devices \in Instances
        BY <2>2 DEF TypeOK
      <4> QED
        BY <4>1, <4>2, WatcherEnsured, Zenon
    <3> QED
      BY <2>1, <2>2, <3>1, Zenon DEF WatchAsked, TypeOK
  <2>3. CASE ~(devices # None /\ status' = "attached")
    BY <1>21, <2>1, <2>3 DEF startWatchAllClients
  <2> QED
    BY <2>2, <2>3
<1>22. CASE forceDisableAllClients
  BY <1>22 DEF forceDisableAllClients
<1>23. CASE AllDisabled
  <2>1. WatchersStopped
    BY <1>23, AllStopped DEF AllDisabled
  <2> QED
    BY <1>23, <2>1, Zenon DEF WatchersStopped, AllDisabled, clearClientWatcherStartState
<1>24. CASE LegacyTakes
  BY <1>24 DEF LegacyTakes
<1>25. CASE monitor
  <2>1. CASE owner = "ours" \/ ~attached
    BY <1>25, <2>1 DEF monitor, claim
  <2>2. CASE owner # "ours" /\ attached
    <3>1. WatchersStopped
      BY <1>25, <2>2, AllStopped DEF monitor, handleLegacyOwnershipLost
    <3> QED
      BY <1>25, <2>2, <3>1, Zenon DEF WatchersStopped, monitor, handleLegacyOwnershipLost, clearClientWatcherStartState
  <2> QED
    BY <2>1, <2>2
<1>26. CASE UNCHANGED vars
  BY <1>26 DEF vars
<1> QED
  BY <1>1, <1>2, <1>3, <1>4, <1>5, <1>6, <1>7, <1>8, <1>9, <1>10, <1>11,
     <1>12, <1>13, <1>14, <1>15, <1>16, <1>17, <1>18, <1>19, <1>20, <1>21,
     <1>22, <1>23, <1>24, <1>25, <1>26, Zenon
     DEF Next, AndroidWatches, AndroidAdds, AndroidRemoves, AndroidTrackerError,
         HarmonyWatches, HarmonyAdds, HarmonyRemoves, HarmonyTrackerError,
         IosWatches, IosAttached, IosDetached

\* Every step keeps the registry and its managers in agreement.
LEMMA RegistryPreserved == IInv /\ [Next]_vars => RegistryInv'
<1> SUFFICES ASSUME IInv, [Next]_vars PROVE RegistryInv'
  OBVIOUS
<1> USE NoneIsNothing DEF IInv, TypeOK, RegistryInv, watcherVars, rpcVars, ownerVars, registryVars
<1>1. ASSUME NEW m \in Managers, addDeviceManager(m) PROVE RegistryInv'
  BY <1>1 DEF addDeviceManager, Closed
<1>2. ASSUME NEW m \in Managers, closeDeviceManager(m) PROVE RegistryInv'
  BY <1>2, ManagerLosesDevice, LossKeepsRegistry
<1>3. ASSUME NEW m \in Managers, Watch(m) PROVE RegistryInv'
  <2> DEFINE r == [manager[m] EXCEPT !.watch = TRUE, !.known = FALSE]
  <2>1. manager' = [manager EXCEPT ![m] = r] /\ manager[m].open
    BY <1>3, Zenon DEF Watch
  <2>2. r.open = manager[m].open
    BY DEF Mgrs
  <2> HIDE DEF r
  <2>3. \A n \in Managers : (manager[n].open => manager'[n].open) /\ (manager'[n].watch => manager'[n].open)
    BY <2>1, <2>2, Zenon
  <2>4. UNCHANGED <<managed, devices, dev>>
    BY <1>3 DEF Watch
  <2>5. ASSUME NEW i \in Instances, dev[i].own # None
        PROVE  manager'[dev[i].own].open /\ dev[i].st = "creating"
    <3>1. dev[i].own \in Managers /\ manager[dev[i].own].open /\ dev[i].st = "creating"
      BY <2>5 DEF Devs
    <3> QED
      BY <2>3, <3>1, Zenon
  <2>6. \A n \in Managers : managed[n] # None => managed[n] = devices /\ manager'[n].open
    BY <2>3, Zenon
  <2>7. \A n \in Managers : manager'[n].watch => manager'[n].open
    BY <2>3, Zenon
  <2> HIDE DEF TypeOK, WatcherInv
  <2> QED
    BY <2>4, <2>5, <2>6, <2>7
<1>4. ASSUME NEW m \in Managers, Discover(m) PROVE RegistryInv'
  BY <1>4 DEF Discover, Gone, Unused
<1>5. ASSUME NEW m \in Managers, Lose(m) PROVE RegistryInv'
  BY <1>5, ManagerLosesDevice, LossKeepsRegistry
<1>6. ASSUME NEW m \in Managers, Fail(m) PROVE RegistryInv'
  BY <1>6, ManagerLosesDevice, LossKeepsRegistry
<1>7. ASSUME NEW m \in Managers, IosListenerCloses(m) PROVE RegistryInv'
  BY <1>7 DEF IosListenerCloses
<1>8. ASSUME NEW m \in Managers, FixedWatches(m) PROVE RegistryInv'
  <2>1. PICK i \in Unused : registerManagedDevice(i, m)
    BY <1>8 DEF FixedWatches
  <2>2. UNCHANGED <<manager, status>> /\ manager[m].open
    BY <1>8 DEF FixedWatches
  <2>3. DeviceMade(i, m) /\ i \in Instances /\ i # devices
    BY <2>1, NewIsUnregistered, Registered
  <2> QED
    BY <2>2, <2>3 DEF DeviceMade
<1>9. ASSUME NEW i \in Instances, DeviceCreated(i) PROVE RegistryInv'
  <2> DEFINE m == dev[i].own
  <2>1. /\ registerManagedDevice(i, m) /\ UNCHANGED <<manager, status>>
        /\ i # devices /\ (m # None => manager[m].open) /\ m \in Managers \cup {None}
    BY <1>9, NewIsUnregistered DEF DeviceCreated, TypeOK, Devs
  <2> HIDE DEF m
  <2>2. DeviceMade(i, m)
    BY <2>1, Registered
  <2> QED
    BY <2>1, <2>2 DEF DeviceMade
<1>10. ASSUME NEW i \in Instances, CreateFails(i) PROVE RegistryInv'
  BY <1>10 DEF CreateFails, Gone
<1>11. ASSUME NEW i \in Instances, watchClient(i) PROVE RegistryInv'
  <2>1. SocketChanged(i)
    BY <1>11, SocketSteps
  <2> QED
    BY <1>11, <2>1 DEF SocketChanged
<1>12. ASSUME NEW i \in Instances, watchAndroidClients(i) PROVE RegistryInv'
  <2>1. SocketChanged(i)
    BY <1>12, SocketSteps
  <2> QED
    BY <1>12, <2>1 DEF SocketChanged
<1>13. ASSUME NEW i \in Instances, PortProbed(i) PROVE RegistryInv'
  <2>1. SocketChanged(i)
    BY <1>13, SocketSteps
  <2> QED
    BY <1>13, <2>1 DEF SocketChanged
<1>14. ASSUME NEW i \in Instances, handleConnection(i) PROVE RegistryInv'
  <2>1. SocketChanged(i)
    BY <1>14, SocketSteps
  <2> QED
    BY <1>14, <2>1 DEF SocketChanged
<1>15. ASSUME NEW i \in Instances, handleOff(i) PROVE RegistryInv'
  <2>1. SocketChanged(i)
    BY <1>15, SocketSteps
  <2> QED
    BY <1>15, <2>1 DEF SocketChanged
<1>16. ASSUME NEW i \in Instances, closeClient(i) PROVE RegistryInv'
  <2>1. SocketChanged(i)
    BY <1>16, SocketSteps
  <2> QED
    BY <1>16, <2>1 DEF SocketChanged
<1>17. ASSUME NEW a \in Attempts, WatcherStarts(a) PROVE RegistryInv'
  <2>1. StartDone(a)
    BY <1>17, StartEnded
  <2> QED
    BY <1>17, <2>1 DEF StartDone
<1>18. CASE startDeviceWatcher
  <2>1. WatchAsked(devices, dev[devices]) /\ \A j \in Instances \ {devices} : dev'[j] = dev[j]
    BY <1>18, WatcherEnsured DEF startDeviceWatcher, TypeOK
  <2> QED
    BY <1>18, <2>1 DEF startDeviceWatcher, WatchAsked, TypeOK
<1>19. CASE stopDeviceWatcher
  <2>1. WatchersStopped
    BY <1>19, OneStopped DEF stopDeviceWatcher
  <2> QED
    BY <1>19, <2>1 DEF WatchersStopped, stopDeviceWatcher, clearClientWatcherStartState
<1>20. CASE disconnectDevice
  <2>1. WatchersStopped
    BY <1>20, OneStopped DEF disconnectDevice
  <2> QED
    BY <1>20, <2>1 DEF WatchersStopped, disconnectDevice, clearClientWatcherStartState
<1>21. CASE startWatchAllClients
  <2>1. /\ status' \in {"attached", "unattached"} /\ (status = "attached" => status' = "attached")
        /\ UNCHANGED <<manager, managed, devices>>
    BY <1>21 DEF startWatchAllClients, claim, TypeOK
  <2>2. CASE devices # None /\ status' = "attached"
    <3>1. WatchAsked(devices, dev[devices]) /\ \A j \in Instances \ {devices} : dev'[j] = dev[j]
      <4>1. ensureClientWatcher(dev, devices)
        BY <1>21, <2>2 DEF startWatchAllClients
      <4>2. TypeOK /\ dev \in [Instances -> Devs] /\ devices \in Instances
        BY <2>2 DEF TypeOK
      <4> QED
        BY <4>1, <4>2, WatcherEnsured, Zenon
    <3> QED
      BY <2>1, <2>2, <3>1, SMTT(30) DEF WatchAsked, TypeOK
  <2>3. CASE ~(devices # None /\ status' = "attached")
    BY <1>21, <2>1, <2>3 DEF startWatchAllClients
  <2> QED
    BY <2>2, <2>3
<1>22. CASE forceDisableAllClients
  BY <1>22 DEF forceDisableAllClients
<1>23. CASE AllDisabled
  <2>1. WatchersStopped
    BY <1>23, AllStopped DEF AllDisabled
  <2> QED
    BY <1>23, <2>1 DEF WatchersStopped, AllDisabled, clearClientWatcherStartState
<1>24. CASE LegacyTakes
  BY <1>24 DEF LegacyTakes
<1>25. CASE monitor
  <2>1. CASE owner = "ours" \/ ~attached
    BY <1>25, <2>1 DEF monitor, claim
  <2>2. CASE owner # "ours" /\ attached
    <3>1. WatchersStopped
      BY <1>25, <2>2, AllStopped DEF monitor, handleLegacyOwnershipLost
    <3> QED
      BY <1>25, <2>2, <3>1 DEF WatchersStopped, monitor, handleLegacyOwnershipLost, clearClientWatcherStartState
  <2> QED
    BY <2>1, <2>2
<1>26. CASE UNCHANGED vars
  BY <1>26 DEF vars
<1> QED
  BY <1>1, <1>2, <1>3, <1>4, <1>5, <1>6, <1>7, <1>8, <1>9, <1>10, <1>11,
     <1>12, <1>13, <1>14, <1>15, <1>16, <1>17, <1>18, <1>19, <1>20, <1>21,
     <1>22, <1>23, <1>24, <1>25, <1>26, Zenon
     DEF Next, AndroidWatches, AndroidAdds, AndroidRemoves, AndroidTrackerError,
         HarmonyWatches, HarmonyAdds, HarmonyRemoves, HarmonyTrackerError,
         IosWatches, IosAttached, IosDetached

\* The watchers agree with what was asked for when a device is gone ...
LEMMA LossKeepsWatchers == ASSUME IInv, NEW m \in Managers, DeviceLost(m) PROVE WatcherInv'
<1> USE NoneIsNothing DEF IInv, TypeOK, WatcherInv, WantedWatcherIsServed, attached
<1>1. CASE devices' = None /\ started' = FALSE /\ starting' = None /\ wanted' = FALSE
           /\ \A i \in Instances : dev'[i].ctl = "none"
  BY <1>1
<1>2. CASE /\ UNCHANGED <<devices, started, starting, flight, wanted, status>>
           /\ \A i \in Instances : dev'[i].ctl = dev[i].ctl
  BY <1>2
<1> QED
  BY <1>1, <1>2 DEF DeviceLost

\* ... and when the creation of one has ended.
LEMMA MakingKeepsWatchers ==
    ASSUME IInv, NEW i \in Instances, NEW m, i # devices, DeviceMade(i, m), UNCHANGED status
    PROVE  WatcherInv'
<1> USE NoneIsNothing DEF IInv, TypeOK, WatcherInv, WantedWatcherIsServed, attached
<1>1. \A j \in Instances \ {i} : dev'[j] = dev[j]
  BY DEF DeviceMade
<1>2. CASE dev'[i].ctl = "none" /\ UNCHANGED <<devices, started, starting, flight, wanted>>
  BY <1>1, <1>2
<1>3. CASE /\ devices = None /\ devices' = i /\ dev'[i].ctl = "none"
           /\ UNCHANGED <<started, starting, flight, wanted>>
  BY <1>1, <1>3
<1>4. CASE /\ devices = None /\ devices' = i /\ attached /\ wanted' = TRUE /\ dev'[i].ctl = "none"
           /\ started' = FALSE /\ starting' \in Attempts /\ flight'[starting'] = i
  BY <1>1, <1>4
<1>5. CASE /\ devices = None /\ devices' = i /\ attached /\ wanted' = TRUE
           /\ dev'[i].ctl = "watching" /\ started' = TRUE /\ UNCHANGED <<starting, flight>>
  BY <1>1, <1>5
<1> QED
  BY <1>2, <1>3, <1>4, <1>5 DEF DeviceMade

\* Every step keeps the watchers and what was asked for in agreement.
LEMMA WatchersPreserved == IInv /\ [Next]_vars => WatcherInv'
<1> SUFFICES ASSUME IInv, [Next]_vars PROVE WatcherInv'
  OBVIOUS
<1> USE NoneIsNothing DEF IInv, TypeOK, WatcherInv, WantedWatcherIsServed, attached, watcherVars, rpcVars, ownerVars, registryVars
<1>1. ASSUME NEW m \in Managers, addDeviceManager(m) PROVE WatcherInv'
  BY <1>1 DEF addDeviceManager, Closed
<1>2. ASSUME NEW m \in Managers, closeDeviceManager(m) PROVE WatcherInv'
  <2>1. DeviceLost(m)
    BY <1>2, ManagerLosesDevice
  <2> QED
    BY <2>1, LossKeepsWatchers, Zenon
<1>3. ASSUME NEW m \in Managers, Watch(m) PROVE WatcherInv'
  BY <1>3 DEF Watch
<1>4. ASSUME NEW m \in Managers, Discover(m) PROVE WatcherInv'
  BY <1>4 DEF Discover, Gone, Unused
<1>5. ASSUME NEW m \in Managers, Lose(m) PROVE WatcherInv'
  <2>1. DeviceLost(m)
    BY <1>5, ManagerLosesDevice
  <2> QED
    BY <2>1, LossKeepsWatchers, Zenon
<1>6. ASSUME NEW m \in Managers, Fail(m) PROVE WatcherInv'
  <2>1. DeviceLost(m)
    BY <1>6, ManagerLosesDevice
  <2> QED
    BY <2>1, LossKeepsWatchers, Zenon
<1>7. ASSUME NEW m \in Managers, IosListenerCloses(m) PROVE WatcherInv'
  BY <1>7 DEF IosListenerCloses
<1>8. ASSUME NEW m \in Managers, FixedWatches(m) PROVE WatcherInv'
  <2>1. PICK i \in Unused : registerManagedDevice(i, m)
    BY <1>8 DEF FixedWatches
  <2>2. UNCHANGED <<manager, status>> /\ manager[m].open
    BY <1>8 DEF FixedWatches
  <2>3. DeviceMade(i, m) /\ i \in Instances /\ i # devices
    BY <2>1, NewIsUnregistered, Registered
  <2> QED
    BY <2>2, <2>3, MakingKeepsWatchers, Zenon
<1>9. ASSUME NEW i \in Instances, DeviceCreated(i) PROVE WatcherInv'
  <2> DEFINE m == dev[i].own
  <2>1. /\ registerManagedDevice(i, m) /\ UNCHANGED <<manager, status>>
        /\ i # devices /\ (m # None => manager[m].open) /\ m \in Managers \cup {None}
    BY <1>9, NewIsUnregistered DEF DeviceCreated, TypeOK, Devs
  <2> HIDE DEF m
  <2>2. DeviceMade(i, m)
    BY <2>1, Registered
  <2> QED
    BY <2>1, <2>2, MakingKeepsWatchers, Zenon
<1>10. ASSUME NEW i \in Instances, CreateFails(i) PROVE WatcherInv'
  <2>1. i # devices
    BY <1>10, NewIsUnregistered DEF CreateFails
  <2> QED
    BY <1>10, <2>1 DEF CreateFails, Gone
<1>11. ASSUME NEW i \in Instances, watchClient(i) PROVE WatcherInv'
  <2>1. SocketChanged(i)
    BY <1>11, SocketSteps
  <2> QED
    BY <1>11, <2>1 DEF SocketChanged
<1>12. ASSUME NEW i \in Instances, watchAndroidClients(i) PROVE WatcherInv'
  <2>1. SocketChanged(i)
    BY <1>12, SocketSteps
  <2> QED
    BY <1>12, <2>1 DEF SocketChanged
<1>13. ASSUME NEW i \in Instances, PortProbed(i) PROVE WatcherInv'
  <2>1. SocketChanged(i)
    BY <1>13, SocketSteps
  <2> QED
    BY <1>13, <2>1 DEF SocketChanged
<1>14. ASSUME NEW i \in Instances, handleConnection(i) PROVE WatcherInv'
  <2>1. SocketChanged(i)
    BY <1>14, SocketSteps
  <2> QED
    BY <1>14, <2>1 DEF SocketChanged
<1>15. ASSUME NEW i \in Instances, handleOff(i) PROVE WatcherInv'
  <2>1. SocketChanged(i)
    BY <1>15, SocketSteps
  <2> QED
    BY <1>15, <2>1 DEF SocketChanged
<1>16. ASSUME NEW i \in Instances, closeClient(i) PROVE WatcherInv'
  <2>1. SocketChanged(i)
    BY <1>16, SocketSteps
  <2> QED
    BY <1>16, <2>1 DEF SocketChanged
<1>17. ASSUME NEW a \in Attempts, WatcherStarts(a) PROVE WatcherInv'
  <2>1. StartDone(a)
    BY <1>17, StartEnded
  <2>2. CASE UNCHANGED <<dev, started>> /\ (attached => starting # a)
    <3>1. starting # a /\ starting' = starting /\ (starting # None => flight'[starting] = flight[starting])
      BY <2>1, <2>2 DEF StartDone
    <3> QED
      BY <2>1, <2>2, <3>1 DEF StartDone
  <2>3. CASE attached /\ starting = a /\ started' = TRUE
    BY <2>1, <2>3 DEF StartDone
  <2> QED
    BY <2>1, <2>2, <2>3 DEF StartDone
<1>18. CASE startDeviceWatcher
  <2>1. WatchAsked(devices, dev[devices]) /\ \A j \in Instances \ {devices} : dev'[j] = dev[j]
    BY <1>18, WatcherEnsured DEF startDeviceWatcher, TypeOK
  <2> QED
    BY <1>18, <2>1 DEF startDeviceWatcher, WatchAsked, TypeOK
<1>19. CASE stopDeviceWatcher
  <2>1. WatchersStopped
    BY <1>19, OneStopped DEF stopDeviceWatcher
  <2> QED
    BY <1>19, <2>1 DEF WatchersStopped, stopDeviceWatcher, clearClientWatcherStartState
<1>20. CASE disconnectDevice
  <2>1. WatchersStopped
    BY <1>20, OneStopped DEF disconnectDevice
  <2> QED
    BY <1>20, <2>1 DEF WatchersStopped, disconnectDevice, clearClientWatcherStartState
<1>21. CASE startWatchAllClients
  <2>1. /\ status' \in {"attached", "unattached"} /\ (status = "attached" => status' = "attached")
        /\ UNCHANGED <<manager, managed, devices>>
    BY <1>21 DEF startWatchAllClients, claim, TypeOK
  <2>2. CASE devices # None /\ status' = "attached"
    <3>1. WatchAsked(devices, dev[devices]) /\ \A j \in Instances \ {devices} : dev'[j] = dev[j]
      <4>1. ensureClientWatcher(dev, devices)
        BY <1>21, <2>2 DEF startWatchAllClients
      <4>2. TypeOK /\ dev \in [Instances -> Devs] /\ devices \in Instances
        BY <2>2 DEF TypeOK
      <4> QED
        BY <4>1, <4>2, WatcherEnsured, Zenon
    <3> QED
      BY <2>1, <2>2, <3>1, SMTT(30) DEF WatchAsked, TypeOK
  <2>3. CASE ~(devices # None /\ status' = "attached")
    BY <1>21, <2>1, <2>3 DEF startWatchAllClients
  <2> QED
    BY <2>2, <2>3
<1>22. CASE forceDisableAllClients
  BY <1>22 DEF forceDisableAllClients
<1>23. CASE AllDisabled
  <2>1. WatchersStopped
    BY <1>23, AllStopped DEF AllDisabled
  <2> QED
    BY <1>23, <2>1 DEF WatchersStopped, AllDisabled, clearClientWatcherStartState
<1>24. CASE LegacyTakes
  BY <1>24 DEF LegacyTakes
<1>25. CASE monitor
  <2>1. CASE owner = "ours" \/ ~attached
    BY <1>25, <2>1 DEF monitor, claim
  <2>2. CASE owner # "ours" /\ attached
    <3>1. WatchersStopped
      BY <1>25, <2>2, AllStopped DEF monitor, handleLegacyOwnershipLost
    <3> QED
      BY <1>25, <2>2, <3>1 DEF WatchersStopped, monitor, handleLegacyOwnershipLost, clearClientWatcherStartState
  <2> QED
    BY <2>1, <2>2
<1>26. CASE UNCHANGED vars
  BY <1>26 DEF vars
<1> QED
  BY <1>1, <1>2, <1>3, <1>4, <1>5, <1>6, <1>7, <1>8, <1>9, <1>10, <1>11,
     <1>12, <1>13, <1>14, <1>15, <1>16, <1>17, <1>18, <1>19, <1>20, <1>21,
     <1>22, <1>23, <1>24, <1>25, <1>26, Zenon
     DEF Next, AndroidWatches, AndroidAdds, AndroidRemoves, AndroidTrackerError,
         HarmonyWatches, HarmonyAdds, HarmonyRemoves, HarmonyTrackerError,
         IosWatches, IosAttached, IosDetached

\* The invariant of devices and watchers, for every reachable state.
THEOREM WatchInvariance == Spec => []IInv
<1>1. Init => IInv
  <2> SUFFICES ASSUME Init PROVE IInv
    OBVIOUS
  <2>1. TypeOK
    BY Zenon DEF Init, TypeOK, Gone, Closed, Devs, Mgrs
  <2>2. RegistryInv
    BY NoneIsNothing DEF Init, RegistryInv, Gone, Closed
  <2>3. WatcherInv
    BY DEF Init, WatcherInv, WantedWatcherIsServed, attached, Gone
  <2> QED
    BY <2>1, <2>2, <2>3 DEF IInv
<1>2. IInv /\ [Next]_vars => IInv'
  BY TypePreserved, RegistryPreserved, WatchersPreserved DEF IInv
<1> QED
  BY <1>1, <1>2, PTL DEF Spec

\* What PhysicalConnector has registered belongs to an open manager, and no
\* socket outlives its device.
THEOREM RegistryIsSound == Spec => []DevicesBelongToOpenManagers
<1>1. IInv => DevicesBelongToOpenManagers
  BY DEF IInv, RegistryInv, DevicesBelongToOpenManagers
<1> QED
  BY <1>1, WatchInvariance, PTL

\* ensureClientWatcher() and its cancellations: nobody watches unasked.
THEOREM WatchersAreWanted == Spec => []NoUnwantedWatcher
<1>1. IInv => NoUnwantedWatcher
  BY DEF IInv, RegistryInv, WatcherInv, NoUnwantedWatcher
<1> QED
  BY <1>1, WatchInvariance, PTL

\* No request to watch is forgotten by a start that was overtaken.
THEOREM RequestsAreServed == Spec => []WantedWatcherIsServed
<1>1. IInv => WantedWatcherIsServed
  BY DEF IInv, WatcherInv
<1> QED
  BY <1>1, WatchInvariance, PTL

\* A device leaves the registry only by an event of its own manager.
THEOREM DevicesGoInOrder == Spec => DevicesGoWithTheirManager
<1>1. IInv /\ [Next]_vars =>
          [devices # None /\ devices' # devices =>
               \E m \in Managers : managed[m] = devices /\ manager'[m] # manager[m]]_vars
  <2> SUFFICES ASSUME IInv, [Next]_vars, devices # None, devices' # devices
               PROVE  \E m \in Managers : managed[m] = devices /\ manager'[m] # manager[m]
    OBVIOUS
  <2>1. ASSUME NEW m \in Managers, Lose(m) \/ Fail(m) \/ closeDeviceManager(m)
        PROVE  managed[m] = devices /\ manager'[m] # manager[m]
    BY <2>1, ManagerLosesDevice, Zenon DEF DeviceLost
  <2>2. ASSUME NEW i \in Instances, NEW m \in Managers \cup {None}, registerManagedDevice(i, m)
        PROVE  FALSE
    BY <2>2 DEF registerManagedDevice
  <2>3. ASSUME NEW i \in Instances, DeviceCreated(i) PROVE FALSE
    <3>1. dev[i].own \in Managers \cup {None}
      BY DEF IInv, TypeOK, Devs
    <3> QED
      BY <2>2, <2>3, <3>1 DEF DeviceCreated
  <2>4. ASSUME NEW m \in Managers, FixedWatches(m) PROVE FALSE
    BY <2>2, <2>4 DEF FixedWatches, Unused
  <2>5. ASSUME NEW m \in Managers,
               \/ addDeviceManager(m) \/ Watch(m) \/ Discover(m) \/ IosListenerCloses(m)
        PROVE  FALSE
    BY <2>5 DEF addDeviceManager, Watch, Discover, IosListenerCloses
  <2>6. ASSUME NEW i \in Instances,
               \/ CreateFails(i) \/ watchClient(i) \/ watchAndroidClients(i) \/ PortProbed(i)
               \/ handleConnection(i) \/ handleOff(i) \/ closeClient(i)
        PROVE  FALSE
    BY <2>6 DEF CreateFails, watchClient, watchAndroidClients, PortProbed, handleConnection,
       handleOff, closeClient, Sockets, registryVars
  <2>7. ASSUME NEW a \in Attempts, WatcherStarts(a) PROVE FALSE
    BY <2>7 DEF WatcherStarts, forward, registryVars
  <2>8. CASE startDeviceWatcher \/ stopDeviceWatcher \/ disconnectDevice \/ startWatchAllClients
    BY <2>8 DEF startDeviceWatcher, stopDeviceWatcher, disconnectDevice, startWatchAllClients,
       registryVars
  <2>9. CASE forceDisableAllClients \/ AllDisabled \/ LegacyTakes \/ monitor
    BY <2>9 DEF forceDisableAllClients, AllDisabled, LegacyTakes, monitor, registryVars
  <2>10. CASE UNCHANGED vars
    BY <2>10 DEF vars, registryVars
  <2> QED
    BY <2>1, <2>3, <2>4, <2>5, <2>6, <2>7, <2>8, <2>9, <2>10, Zenon
       DEF Next, AndroidWatches, AndroidAdds, AndroidRemoves, AndroidTrackerError,
           HarmonyWatches, HarmonyAdds, HarmonyRemoves, HarmonyTrackerError,
           IosWatches, IosAttached, IosDetached
<1> QED
  BY <1>1, WatchInvariance, PTL DEF Spec, DevicesGoWithTheirManager
=============================================================================
