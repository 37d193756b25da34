-------------------------- MODULE ConnectorMirror --------------------------
(***************************************************************************)
(* The facade of a Driver process, connector/DebugRouterConnector.ts: its  *)
(* mirrors of the daemon's devices and runtimes, and the recovery of what  *)
(* the caller asked for when the daemon connection is lost.                *)
(*                                                                         *)
(* A control connection carries snapshots and RPC responses in order.  The *)
(* frames of a chunk are handled one after the other; a snapshot is applied*)
(* at once, an RPC result after the chunk, when its promise's continuation *)
(* runs.  Everything else waits for those continuations.  How a connection *)
(* is made is the subject of ControlChannel; here it succeeds or fails.    *)
(*                                                                         *)
(* The daemon's side keeps only what a snapshot shows, devices and their   *)
(* runtimes, and which requests it has served.  Devices and runtimes come  *)
(* and go whoever asked for them: other facades share the daemon.  Serials *)
(* are the devices of the platforms this facade has enabled.  Left out:    *)
(* mirrors of WiFi runtimes, which are synchronised the same way.          *)
(***************************************************************************)
EXTENDS Naturals, Sequences, FiniteSets

CONSTANTS
    Serials,     \* devices
    Apps,        \* runtimes of a device
    Restores,    \* concurrent runs of restoreDesiredState()
    MaxWire,     \* bound: frames in flight when the daemon's devices change
    MaxUserCalls,    \* bound: calls of the user
    MaxLosses    \* bound: lost connections, failed connects, time-outs

\* The runtimes of a device can be counted.
ASSUME FiniteNames == \A cs \in SUBSET (Serials \X Apps) : Cardinality(cs) \in Nat

VARIABLES
    host,        \* the daemon: devices, their runtimes, and what it was asked to do
    conn,        \* the control connection is up
    wire,        \* frames on their way to the facade
    turn,        \* results whose continuation has not run yet
    calls,       \* the call of the user and of each restore
    mirror,      \* devices, usbClients
    wss,         \* the WebSocket server is known
    desired,     \* what the caller asked for
    timer,       \* desiredRecoveryTimer
    closed,
    local,       \* history: the mirrors changed since the last snapshot, other than by it
    requests, losses   \* history: calls of the user, faults

mirrorVars == <<host, conn, wire, turn, calls, mirror, wss, desired, timer, closed, local, requests, losses>>

Callers == {"user"} \cup Restores
Idle == [m |-> "none", st |-> "idle"]
Empty == [devs |-> {}, clis |-> {}]
NewHost == [devs |-> {}, clis |-> {}, done |-> {}]

MirrorInit ==
    /\ host = NewHost /\ conn = FALSE /\ wire = <<>> /\ turn = <<>>
    /\ \/ calls = [x \in Callers |-> Idle] /\ desired = {}
       \/ calls = [x \in Callers |-> IF x = "user" THEN [m |-> "auto", st |-> "connect"] ELSE Idle]
          /\ desired = {"devices"}
    /\ mirror = Empty /\ wss = FALSE /\ timer = FALSE /\ closed = FALSE
    /\ local = FALSE /\ requests = 0 /\ losses = 0

-----------------------------------------------------------------------------
(* Mirrors *)

Of(clis, s) == {c \in clis : c[1] = s}

\* upsertClientSnapshots(): only clients whose device is mirrored
upsertClients(m, new) == [m EXCEPT !.clis = @ \cup {c \in new : c[1] \in m.devs}]
upsertDevices(m, new) == [m EXCEPT !.devs = @ \cup new]

clearDaemonMirrors == mirror' = Empty /\ wss' = FALSE /\ local' = FALSE

\* Mutant: what the snapshot no longer shows stays.
ApplyUpserts(s) ==
    mirror' = upsertClients(upsertDevices(mirror, s.devs), s.clis) /\ local' = FALSE

\* applySnapshot(): devices are added before clients, and stale devices are
\* removed last.
applySnapshot(s) ==
    LET added == upsertClients(upsertDevices(mirror, s.devs), s.clis)
        synced == [added EXCEPT !.clis = @ \cap s.clis]
    IN  mirror' = [synced EXCEPT !.devs = @ \cap s.devs] /\ local' = FALSE

\* The mirrors change by a result or by the caller.
SetMirror(m) == mirror' = m /\ local' = TRUE
SameMirror == UNCHANGED <<mirror, local>>

-----------------------------------------------------------------------------
(* Calls *)

\* daemonClient.call(): connects first if there is no connection
call(cs, x, m) == [cs EXCEPT ![x] = [m |-> m, st |-> IF conn THEN "sent" ELSE "connect"]]

\* restoreDesiredState(): the steps left after m
restoreDesiredState(m) ==
    LET rest == CASE m = "ping" -> <<"devices", "watch", "ws">>
                  [] m = "devices" -> <<"watch", "ws">>
                  [] m = "watch" -> <<"ws">>
                  [] OTHER -> <<>>
        left == SelectSeq(rest, LAMBDA k : k \in desired /\ (k = "ws" => ~wss))
    IN  IF left = <<>> THEN "none" ELSE Head(left)

\* The calls of xs end; the ones that fail schedule a recovery, except the
\* ones that leave it to the caller.
Failing(xs) == {x \in xs : x \in Restores \/ calls[x].m \in {"auto", "watch", "ws"}}
scheduleDesiredRecovery(xs) == timer' = (~closed /\ (timer \/ Failing(xs) # {}))

Ended(cs, xs) == [x \in Callers |-> IF x \in xs THEN Idle ELSE cs[x]]

-----------------------------------------------------------------------------
(* The caller *)

Ready == turn = <<>> /\ ~closed
Asks == Ready /\ calls["user"] = Idle /\ requests < MaxUserCalls /\ requests' = requests + 1

\* connectDevices(), connectUsbClients(), startWatchAllClients() and
\* startWSServer()
UserCalls(m) ==
    /\ Asks
    /\ desired' = IF m = "clients" THEN desired ELSE desired \cup {m}
    /\ calls' = call(calls, "user", m)
    /\ SameMirror /\ UNCHANGED <<host, conn, wire, turn, wss, timer, closed, losses>>

\* disableAllClients(true)
disableAllClients ==
    /\ Asks
    /\ desired' = desired \ {"watch"} /\ calls' = call(calls, "user", "disable")
    /\ SameMirror /\ UNCHANGED <<host, conn, wire, turn, wss, timer, closed, losses>>

\* unregisterDevice(serial, true): the mirror of the device goes at once, the
\* ones of its clients stay.
unregisterDevice(s) ==
    /\ Asks /\ s \in mirror.devs
    /\ SetMirror([mirror EXCEPT !.devs = @ \ {s}])
    /\ calls' = call(calls, "user", "disconnect")
    /\ UNCHANGED <<host, conn, wire, turn, wss, desired, timer, closed, losses>>

\* close(): listeners first, then the connection; the mirrors stay.  The
\* daemon is no longer looked at.
close ==
    /\ Ready /\ closed' = TRUE /\ timer' = FALSE /\ conn' = FALSE /\ wire' = <<>> /\ wss' = FALSE
    /\ calls' = [x \in Callers |-> Idle] /\ host' = NewHost
    /\ SameMirror /\ UNCHANGED <<turn, desired, requests, losses>>

-----------------------------------------------------------------------------
(* The connection *)

Waiting == {x \in Callers : calls[x].st = "connect"}
Snap(h) == [k |-> "snapshot", who |-> "user", devs |-> h.devs, clis |-> h.clis]

\* Registered: the host sends a snapshot, the calls that waited are sent.
Connected ==
    /\ turn = <<>> /\ ~conn /\ Waiting # {} /\ conn' = TRUE /\ wire' = <<Snap(host)>>
    /\ calls' = [x \in Callers |->
                   IF x \notin Waiting THEN calls[x]
                   ELSE LET m == IF calls[x].m = "ping" THEN restoreDesiredState("ping") ELSE calls[x].m
                        IN  IF m = "none" THEN Idle ELSE [m |-> m, st |-> "sent"]]
    /\ SameMirror /\ UNCHANGED <<host, turn, wss, desired, timer, closed, requests, losses>>

ConnectFails ==
    /\ turn = <<>> /\ ~conn /\ Waiting # {} /\ losses < MaxLosses /\ losses' = losses + 1
    /\ calls' = Ended(calls, Waiting) /\ scheduleDesiredRecovery(Waiting) /\ SameMirror
    /\ UNCHANGED <<host, conn, wire, turn, wss, desired, closed, requests>>

\* Mutant: the mirrors are left to the next snapshot.
LostKeepsMirrors(restart) ==
    /\ turn = <<>> /\ conn /\ losses < MaxLosses /\ losses' = losses + 1
    /\ conn' = FALSE /\ wire' = <<>> /\ calls' = Ended(calls, {x \in Callers : calls[x] # Idle})
    /\ host' = IF restart THEN NewHost ELSE host
    /\ timer' = TRUE /\ SameMirror /\ UNCHANGED <<turn, wss, desired, closed, requests>>

\* Mutant: no recovery is scheduled.
LostForGood(restart) ==
    /\ turn = <<>> /\ conn /\ losses < MaxLosses /\ losses' = losses + 1
    /\ conn' = FALSE /\ wire' = <<>> /\ calls' = Ended(calls, {x \in Callers : calls[x] # Idle})
    /\ host' = IF restart THEN NewHost ELSE host
    /\ clearDaemonMirrors /\ UNCHANGED <<turn, desired, timer, closed, requests>>

\* handleDaemonDisconnected(): the daemon died, or only the connection did
handleDaemonDisconnected(restart) ==
    /\ turn = <<>> /\ conn /\ losses < MaxLosses /\ losses' = losses + 1
    /\ conn' = FALSE /\ wire' = <<>> /\ calls' = Ended(calls, {x \in Callers : calls[x] # Idle})
    /\ host' = IF restart THEN NewHost ELSE host
    /\ timer' = TRUE /\ clearDaemonMirrors /\ UNCHANGED <<turn, desired, closed, requests>>

\* The recovery timer fires.
RecoveryTimer ==
    /\ turn = <<>> /\ timer /\ timer' = FALSE
    /\ \E r \in Restores :
         /\ calls[r] = Idle
         /\ calls' = IF ~conn THEN call(calls, r, "ping")
                     ELSE LET m == restoreDesiredState("ping")
                          IN  IF m = "none" THEN calls ELSE call(calls, r, m)
    /\ SameMirror /\ UNCHANGED <<host, conn, wire, turn, wss, desired, closed, requests, losses>>

-----------------------------------------------------------------------------
(* The daemon *)

\* Snapshots of hs go out, one after the other.
Snaps(hs) == [i \in 1..Len(hs) |-> Snap(hs[i])]
Publish(hs) == IF conn THEN wire' = wire \o Snaps(hs) ELSE UNCHANGED wire

\* The orders in which the elements of S may come, each once.
Orders(S) ==
    LET n == Cardinality(S) IN {f \in [1..n -> S] : \A c \in S : \E i \in 1..n : f[i] = c}

\* The runtimes of a device go one by one: what is left after each.
Closing(h, order) ==
    [i \in 1..Len(order) |-> [h EXCEPT !.clis = @ \ {order[j] : j \in 1..i}]]

\* A device or a runtime comes, or a runtime goes.
HostChanges ==
    /\ Len(wire) < MaxWire
    /\ \/ \E s \in Serials \ host.devs : host' = [host EXCEPT !.devs = @ \cup {s}]
       \/ \E c \in (host.devs \X Apps) \ host.clis : host' = [host EXCEPT !.clis = @ \cup {c}]
       \/ \E c \in host.clis : host' = [host EXCEPT !.clis = @ \ {c}]
    /\ Publish(<<host'>>)
    /\ SameMirror /\ UNCHANGED <<conn, turn, calls, wss, desired, timer, closed, requests, losses>>

\* unregisterDevice() of the daemon: the device goes, then its runtimes one
\* after the other, each with a snapshot.  (The snapshot of the device's own
\* event repeats the last one.)
DeviceGoes(s) ==
    /\ s \in host.devs
    /\ LET gone == [host EXCEPT !.devs = @ \ {s}]
       IN  \E order \in Orders(Of(host.clis, s)) :
             LET hs == IF order = <<>> THEN <<gone>> ELSE Closing(gone, order)
             IN  /\ Len(wire) + Len(hs) <= MaxWire
                 /\ host' = hs[Len(hs)] /\ Publish(hs)
    /\ SameMirror /\ UNCHANGED <<conn, turn, calls, wss, desired, timer, closed, requests, losses>>

\* Legacy ownership is lost: one snapshot hides everything.
OwnershipLost ==
    /\ host.devs # {} /\ Len(wire) < MaxWire
    /\ host' = [host EXCEPT !.devs = {}, !.clis = {}] /\ Publish(<<host'>>)
    /\ SameMirror /\ UNCHANGED <<conn, turn, calls, wss, desired, timer, closed, requests, losses>>

\* A request of x is handled: the daemon is h, the snapshots of hs go out,
\* then the response with the devices or clients that were asked for.
Respond(x, k, h, hs, devs, clis) ==
    /\ host' = h
    /\ wire' = wire \o Snaps(hs) \o <<[k |-> k, who |-> x, devs |-> devs, clis |-> clis]>>

HostAnswers(x) ==
    /\ conn /\ calls[x].st = "sent"
    /\ LET m == calls[x].m
           served(k) == [host EXCEPT !.done = @ \cup {k}]
       IN
       \/ m \in {"auto", "devices"} /\ Respond(x, "result", served("devices"), <<>>, host.devs, {})
       \/ m = "clients" /\ \E s \in Serials : Respond(x, "result", host, <<host>>, {}, Of(host.clis, s))
       \/ m = "watch" /\ Respond(x, "result", served("watch"), <<host>>, {}, {})
       \/ m = "disable" /\ Respond(x, "result", [host EXCEPT !.done = @ \ {"watch"}], <<host>>, {}, {})
       \/ m = "disconnect" /\ \E s \in Serials : \E order \in Orders(Of(host.clis, s)) :
             Respond(x, "result", [host EXCEPT !.clis = @ \ Of(@, s)], Closing(host, order), {}, {})
       \/ m = "ws" /\ Respond(x, "result", host, <<host>>, {}, {})
       \/ m = "ws" /\ losses < MaxLosses /\ Respond(x, "error", host, <<>>, {}, {})
    /\ calls' = [calls EXCEPT ![x].st = "answered"]
    /\ losses' = IF wire'[Len(wire')].k = "error" THEN losses + 1 ELSE losses
    /\ SameMirror /\ UNCHANGED <<conn, turn, wss, desired, timer, closed, requests>>

\* A frame of a chunk is handled: events at once, results after the chunk,
\* and a response nobody waits for any more not at all.
Receive ==
    /\ conn /\ wire # <<>> /\ wire' = Tail(wire)
    /\ LET f == Head(wire) IN
         \/ f.k = "snapshot" /\ applySnapshot(f) /\ UNCHANGED turn
         \/ f.k \in {"result", "error"} /\ turn' = Append(turn, f) /\ SameMirror
         \/ f.k = "late" /\ SameMirror /\ UNCHANGED turn
    /\ UNCHANGED <<host, conn, calls, wss, desired, timer, closed, requests, losses>>

\* Nobody waits for the responses to x among the frames w.
Late(w, x) ==
    [i \in 1..Len(w) |->
       IF w[i].k # "snapshot" /\ w[i].who = x THEN [w[i] EXCEPT !.k = "late"] ELSE w[i]]

\* No response in time: the entry is gone, so a response on its way is late.
RpcTimeout(x) ==
    /\ turn = <<>> /\ calls[x].st \in {"sent", "answered"} /\ losses < MaxLosses /\ losses' = losses + 1
    /\ calls' = Ended(calls, {x}) /\ scheduleDesiredRecovery({x}) /\ SameMirror
    /\ wire' = Late(wire, x) /\ UNCHANGED <<host, conn, turn, wss, desired, closed, requests>>

\* The continuation of a call: a restore goes on with its next step.
Continue(x) ==
    LET m == restoreDesiredState(calls[x].m) IN
    calls' = IF x \in Restores /\ m # "none" THEN call(calls, x, m) ELSE Ended(calls, {x})

\* Mutant: the clients of a result are taken without looking at the devices.
MergeUnfiltered(f) == SetMirror([mirror EXCEPT !.devs = @ \cup f.devs, !.clis = @ \cup f.clis])

\* The devices of connectDevices(), the clients of connectUsbClients()
Merge(f) == SetMirror(upsertClients(upsertDevices(mirror, f.devs), f.clis))

\* The awaited call goes on: mirrors are added, never removed.
CallResumes ==
    /\ turn # <<>> /\ turn' = Tail(turn)
    /\ LET f == Head(turn)
           x == f.who
       IN  \/ /\ f.k = "result" /\ Continue(x)
              /\ wss' = (wss \/ calls[x].m = "ws")
              /\ IF f.devs \cup f.clis = {} THEN SameMirror ELSE Merge(f)
              /\ UNCHANGED timer
           \/ /\ f.k = "error" /\ calls' = Ended(calls, {x}) /\ scheduleDesiredRecovery({x})
              /\ SameMirror /\ UNCHANGED wss
    /\ UNCHANGED <<host, conn, wire, desired, closed, requests, losses>>

-----------------------------------------------------------------------------
MirrorNext ==
    \/ \E m \in {"devices", "clients", "watch", "ws"} : UserCalls(m)
    \/ \E s \in Serials : unregisterDevice(s) \/ DeviceGoes(s)
    \/ \E b \in BOOLEAN : handleDaemonDisconnected(b)
    \/ \E x \in Callers : HostAnswers(x) \/ RpcTimeout(x)
    \/ disableAllClients \/ close \/ Connected \/ ConnectFails \/ RecoveryTimer
    \/ HostChanges \/ OwnershipLost \/ Receive \/ CallResumes

\* A connection is made unless it fails, the daemon answers, frames arrive
\* and continuations and timers run.
Fairness ==
    /\ WF_mirrorVars(Connected) /\ WF_mirrorVars(Receive) /\ WF_mirrorVars(CallResumes) /\ WF_mirrorVars(RecoveryTimer)
    /\ \A x \in Callers : WF_mirrorVars(HostAnswers(x))

MirrorSpec == MirrorInit /\ [][MirrorNext]_mirrorVars /\ Fairness

-----------------------------------------------------------------------------
\* A runtime is reported only when its device has been: a late result of
\* connectUsbClients() brings back no runtime of a device that is gone.
RuntimesComeAfterTheirDevice ==
    [][\A c \in mirror'.clis \ mirror.clis : c[1] \in mirror.devs \cup mirror'.devs]_mirrorVars

\* A device is reported gone only when its runtimes have been, except at the
\* caller's own unregisterDevice().
RuntimesGoBeforeTheirDevice ==
    [][~local' => \A s \in mirror.devs \ mirror'.devs : Of(mirror'.clis, s) = {}]_mirrorVars

\* When everything sent has been handled, the mirrors show what the daemon
\* has, unless a result or the caller changed them after the last snapshot.
MirrorsFollowDaemon ==
    conn /\ wire = <<>> /\ turn = <<>> /\ ~local =>
        mirror = [devs |-> host.devs, clis |-> host.clis]

\* Without a connection nothing is mirrored: what a lost daemon had is not
\* offered to the caller, nor is a late answer of it.
NothingIsMirroredWithoutDaemon ==
    ~conn /\ ~closed => mirror = Empty /\ ~wss /\ turn = <<>>

InPlace(k) == conn /\ IF k = "ws" THEN wss ELSE k \in host.done

\* What the caller has asked for when a recovery is scheduled is in place at
\* the daemon in the end, however often the recovery fails, unless the caller
\* takes it back or closes.
RecoveryRestores ==
    \A k \in {"devices", "watch", "ws"} :
        timer /\ k \in desired ~> closed \/ k \notin desired \/ InPlace(k)
=============================================================================
