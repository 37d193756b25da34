----------------------------- MODULE UsbServer -----------------------------
(***************************************************************************)
(* The clients of the SDK's USB socket server: socket_server_api.cc and    *)
(* usb_client.cc of native/socket.                                         *)
(*                                                                         *)
(* The listen thread accepts connections; an accepted client is temporary  *)
(* until its first frame arrives, then the executor thread promotes it to  *)
(* usb_client_.  Each client has a work, a reader and a writer thread that *)
(* report through events queued for the executor thread.  Clients are      *)
(* stopped by the clean executor, or by StopServer() on the executor       *)
(* thread, which joins the client's threads.                               *)
(*                                                                         *)
(* The listening socket is in module ListenThread; here its thread may     *)
(* accept while the server runs, and once more while StopServer() waits    *)
(* for it, which SocketServer shows.  Left out: the dispatcher thread and  *)
(* the contents of frames.                                                 *)
(***************************************************************************)
EXTENDS Naturals, Sequences

CONSTANTS
    Clients,     \* connections tools make, each once
    None,        \* nullptr
    MaxCalls     \* bound: StartServer(), StopServer() and Disconnect() calls

ASSUME NoneIsNoClient == None \notin Clients
ASSUME MaxCallsNat == MaxCalls \in Nat

VARIABLES
    cl,          \* client -> its threads, flags and socket
    usb, temp,   \* usb_client_, temp_usb_client_
    events,      \* status tasks posted to the executor thread
    exec,        \* executor thread: "idle" or its next step in StopServer()
    toStop,      \* clients StopServer() still has to stop
    cleanQueue,  \* queue of clean_executor_
    cleaner,     \* client the clean executor is stopping
    running,     \* is_running_
    serving,     \* StopServer() found is_serving_, and must wait
    told,        \* last status the listener was given, or the core knows of
    calls        \* history: calls of the three by the core

clientVars == <<cl, usb, temp, events>>
cleanVars == <<cleanQueue, cleaner>>
serverVars == <<exec, toStop, running, serving, calls>>
vars == <<clientVars, cleanVars, serverVars, told>>

NewClient ==
    [start |-> "none", reader |-> "off", writer |-> "off", stop |-> "none",
     sock |-> "none", stopping |-> FALSE, connected |-> FALSE,
     failed |-> FALSE, closed |-> FALSE, quit |-> FALSE]

Init ==
    /\ cl = [k \in Clients |-> NewClient]
    /\ usb = None /\ temp = None
    /\ events = <<>>
    /\ exec = "idle" /\ toStop = <<>>
    /\ cleanQueue = <<>> /\ cleaner = None
    /\ running = FALSE /\ serving = FALSE
    /\ told = "close" /\ calls = 0

-----------------------------------------------------------------------------
\* The threads of one client.

Update(k, r) == cl' = [cl EXCEPT ![k] = r]
Post(kind, k) == events' = Append(events, [kind |-> kind, client |-> k])
ClientOnly == UNCHANGED <<usb, temp, cleanVars, serverVars, told>>

MutLeaveSocketOpen(r) == [r EXCEPT !.stopping = TRUE, !.quit = TRUE]

BeginTransportShutdown(r) == [r EXCEPT !.stopping = TRUE, !.quit = TRUE, !.sock = "closed"]

\* The work thread runs StartInternal(); a thread that Stop() has already
\* shut down takes no task.
StartInternal(k) ==
    /\ cl[k].start = "submitted"
    /\ Update(k, [cl[k] EXCEPT
          !.start = "done", !.stopping = FALSE, !.failed = FALSE, !.closed = FALSE,
          !.reader = IF @ = "off" THEN "queued" ELSE @,
          !.writer = IF @ = "off" THEN "queued" ELSE @])
    /\ UNCHANGED events
    /\ ClientOnly

\* The reader and the writer thread take their only task.
TakeTask(k) ==
    /\ \/ cl[k].reader = "queued" /\ Update(k, [cl[k] EXCEPT !.reader = "first"])
       \/ cl[k].writer = "queued" /\ Update(k, [cl[k] EXCEPT !.writer = "take"])
    /\ UNCHANGED events
    /\ ClientOnly

\* ReadMessage() until the first header: it arrives, ...
FirstHeader(k) ==
    /\ cl[k].reader = "first" /\ ~cl[k].stopping
    /\ cl[k].sock \in {"open", "eof"}
    /\ Update(k, [cl[k] EXCEPT !.reader = "opening"])
    /\ UNCHANGED events
    /\ ClientOnly

\* ... or the loop ends before, without an error report.
NoFirstHeader(k) ==
    /\ cl[k].reader = "first"
    /\ \/ cl[k].stopping /\ Update(k, [cl[k] EXCEPT !.reader = "closing"])
       \/ cl[k].sock # "open" /\ ~cl[k].stopping
             /\ Update(k, [BeginTransportShutdown(cl[k]) EXCEPT !.reader = "closing"])
    /\ UNCHANGED events
    /\ ClientOnly

\* is_connected_.store(true), then OnOpen().
MarkConnected(k) ==
    /\ cl[k].reader = "opening"
    /\ Update(k, [cl[k] EXCEPT !.connected = TRUE, !.reader = "announcing"])
    /\ UNCHANGED events
    /\ ClientOnly

AnnounceOpen(k) ==
    /\ cl[k].reader = "announcing"
    /\ Update(k, [cl[k] EXCEPT !.reader = "frames"])
    /\ Post("open", k)
    /\ ClientOnly

\* ReadMessage() after the first header: the loop ends because the client is
\* stopping, at the end of the stream, or with an error.
ReadEnds(k) ==
    /\ cl[k].reader = "frames"
    /\ \/ cl[k].stopping /\ Update(k, [cl[k] EXCEPT !.reader = "closing"])
       \/ cl[k].sock = "eof" /\ ~cl[k].stopping
             /\ Update(k, [BeginTransportShutdown(cl[k]) EXCEPT !.reader = "closing"])
       \/ cl[k].sock \in {"broken", "closed"} /\ ~cl[k].stopping
             /\ Update(k, [BeginTransportShutdown(cl[k]) EXCEPT !.reader = "failing"])
    /\ UNCHANGED events
    /\ ClientOnly

\* WriteMessage(): the sentinel, or a send that fails.
WriteEnds(k) ==
    /\ cl[k].writer = "take"
    /\ \/ cl[k].quit /\ Update(k, [cl[k] EXCEPT !.writer = "closing"])
       \/ cl[k].connected /\ cl[k].sock # "open"
             /\ Update(k, [BeginTransportShutdown(cl[k]) EXCEPT !.writer = "failing"])
    /\ UNCHANGED events
    /\ ClientOnly

\* NotifyErrorOnce() on thread t.
NotifyErrorOnce(k, t) ==
    /\ cl[k][t] = "failing"
    /\ Update(k, [cl[k] EXCEPT !.failed = TRUE, ![t] = "closing"])
    /\ IF cl[k].failed THEN UNCHANGED events ELSE Post("error", k)
    /\ ClientOnly

\* NotifyCloseOnce() on thread t: closed_reported_ first, then is_connected_.
\* The reader puts the sentinels when it ends.
ReportClosed(k, t) ==
    /\ cl[k][t] = "closing"
    /\ Update(k, IF cl[k].closed
                 THEN [cl[k] EXCEPT ![t] = "done", !.quit = @ \/ t = "reader"]
                 ELSE [cl[k] EXCEPT !.closed = TRUE, ![t] = "reporting"])
    /\ UNCHANGED events
    /\ ClientOnly

MutForgetClose(k, t) ==
    /\ cl[k][t] = "reporting"
    /\ Update(k, [cl[k] EXCEPT ![t] = "done", !.quit = @ \/ t = "reader"])
    /\ UNCHANGED events
    /\ ClientOnly

ReportIfConnected(k, t) ==
    /\ cl[k][t] = "reporting"
    /\ Update(k, [cl[k] EXCEPT !.connected = FALSE, ![t] = "done", !.quit = @ \/ t = "reader"])
    /\ IF cl[k].connected THEN Post("close", k) ELSE UNCHANGED events
    /\ ClientOnly

\* The tool closes its end, or the connection breaks (or, to the same effect,
\* the tool sends what is no DebugRouter header).
PeerLeaves(k) ==
    /\ cl[k].sock = "open"
    /\ \E s \in {"eof", "broken"} : Update(k, [cl[k] EXCEPT !.sock = s])
    /\ UNCHANGED events
    /\ ClientOnly

\* Stop() joins the writer, the reader and the work thread, in that order.  A
\* thread that has not yet taken its task is shut down without running it.
\* The work thread, last, has nothing left to start.
JoinThreads(k) ==
    /\ \/ /\ cl[k].stop = "writer" /\ cl[k].writer \in {"off", "queued", "done"}
          /\ Update(k, [cl[k] EXCEPT !.stop = "reader", !.writer = "done"])
       \/ /\ cl[k].stop = "reader" /\ cl[k].reader \in {"off", "queued", "done"}
          /\ Update(k, [cl[k] EXCEPT !.stop = "done", !.reader = "done", !.start = "done"])
    /\ UNCHANGED events
    /\ ClientOnly

ClientStep(k) ==
    \/ StartInternal(k) \/ TakeTask(k) \/ NoFirstHeader(k) \/ MarkConnected(k) \/ AnnounceOpen(k)
    \/ ReadEnds(k) \/ WriteEnds(k)
    \/ \E t \in {"reader", "writer"} :
          NotifyErrorOnce(k, t) \/ ReportClosed(k, t) \/ ReportIfConnected(k, t)
    \/ JoinThreads(k)

-----------------------------------------------------------------------------
\* The clean executor: ScheduleClientStop() and Stop().

Schedule(k) == cleanQueue' = Append(cleanQueue, k)

\* Stop() up to the first join; a second call returns at once.
BeginStop(k) ==
    IF cl[k].stop = "none"
    THEN Update(k, [BeginTransportShutdown(cl[k]) EXCEPT !.stop = "writer"])
    ELSE UNCHANGED cl

CleanerStops ==
    /\ cleaner = None /\ cleanQueue # <<>>
    /\ BeginStop(Head(cleanQueue))
    /\ cleaner' = IF cl[Head(cleanQueue)].stop = "none" THEN Head(cleanQueue) ELSE None
    /\ cleanQueue' = Tail(cleanQueue)
    /\ UNCHANGED <<usb, temp, events, serverVars, told>>

CleanerDone ==
    /\ cleaner # None /\ cl[cleaner].stop = "done"
    /\ cleaner' = None
    /\ UNCHANGED <<clientVars, cleanQueue, serverVars, told>>

-----------------------------------------------------------------------------
\* The status tasks, on the executor thread.

NextEvent(kinds) == exec = "idle" /\ events # <<>> /\ Head(events).kind \in kinds
EventDone == /\ events' = Tail(events)
             /\ UNCHANGED <<cl, cleaner, serverVars>>

MutPromoteStale ==
    /\ NextEvent({"open"})
    /\ usb' = Head(events).client
    /\ IF usb \in {None, Head(events).client} THEN UNCHANGED cleanQueue ELSE Schedule(usb)
    /\ told' = "open"
    /\ UNCHANGED temp
    /\ EventDone

HandleOnOpenStatus ==
    /\ NextEvent({"open"})
    /\ IF temp = Head(events).client
       THEN /\ usb' = temp
            /\ IF usb \in {None, temp} THEN UNCHANGED cleanQueue ELSE Schedule(usb)
            /\ told' = "open"
       ELSE UNCHANGED <<usb, cleanQueue, told>>
    /\ UNCHANGED temp
    /\ EventDone

\* HandleOnCloseStatus() and HandleOnErrorStatus().  A client that was
\* promoted is reported even if a newer one has been accepted.
MutOnlyUnsuperseded ==
    /\ NextEvent({"close", "error"})
    /\ LET k == Head(events).client IN
       /\ usb' = IF usb = k THEN None ELSE usb
       /\ temp' = IF temp = k THEN None ELSE temp
       /\ told' = IF usb = k /\ temp \in {None, k} THEN "close" ELSE told
       /\ Schedule(k)
    /\ EventDone

HandleOnEndStatus ==
    /\ NextEvent({"close", "error"})
    /\ LET k == Head(events).client IN
       /\ usb' = IF usb = k THEN None ELSE usb
       /\ temp' = IF temp = k THEN None ELSE temp
       /\ told' = IF usb = k THEN "close" ELSE told
       /\ Schedule(k)
    /\ EventDone

\* Disconnect(), called by the core, which knows of it.
Disconnect ==
    /\ exec = "idle" /\ usb # None /\ calls < MaxCalls
    /\ calls' = calls + 1
    /\ usb' = None
    /\ temp' = IF temp = usb THEN None ELSE temp
    /\ Schedule(usb)
    /\ told' = "close"
    /\ UNCHANGED <<cl, events, cleaner, exec, toStop, running, serving>>

-----------------------------------------------------------------------------
\* StartServer() and StopServer(), on the executor thread.

StartServer ==
    /\ exec = "idle" /\ ~running /\ calls < MaxCalls
    /\ running' = TRUE
    /\ calls' = calls + 1
    /\ UNCHANGED <<clientVars, cleanVars, exec, toStop, serving, told>>

StopServer ==
    /\ exec = "idle" /\ running /\ calls < MaxCalls
    /\ running' = FALSE
    /\ calls' = calls + 1
    /\ exec' = "wait"
    /\ serving' \in BOOLEAN
    /\ UNCHANGED <<clientVars, cleanVars, toStop, told>>

\* It waits until the listen thread is out of Start(), then drops the clients.
Held == (IF usb = None THEN <<>> ELSE <<usb>>) \o (IF temp \in {None, usb} THEN <<>> ELSE <<temp>>)

Drop ==
    /\ exec = "wait"
    /\ usb' = None /\ temp' = None /\ told' = "close"
    /\ toStop' = Held
    /\ exec' = "stop"
    /\ UNCHANGED <<cl, events, cleanVars>>

MutDropWithoutWaiting == Drop /\ UNCHANGED <<running, serving, calls>>

DropClients == ~serving /\ Drop /\ UNCHANGED <<running, serving, calls>>

\* Their Stop() runs on the executor thread itself.
StopDropped ==
    /\ exec = "stop" /\ toStop # <<>>
    /\ BeginStop(Head(toStop))
    /\ IF cl[Head(toStop)].stop = "none"
       THEN exec' = "join" /\ UNCHANGED toStop
       ELSE toStop' = Tail(toStop) /\ UNCHANGED exec
    /\ UNCHANGED <<usb, temp, events, cleanVars, running, serving, told, calls>>

StopServerGoesOn ==
    /\ \/ exec = "join" /\ cl[Head(toStop)].stop = "done"
             /\ exec' = "stop" /\ toStop' = Tail(toStop)
       \/ exec = "stop" /\ toStop = <<>>
             /\ exec' = "idle" /\ UNCHANGED toStop
    /\ UNCHANGED <<clientVars, cleanVars, running, serving, told, calls>>

-----------------------------------------------------------------------------
\* The listen thread: ThreadFunc() and Start(), which accepts one client.

\* accept() has returned client k: it starts and supersedes the temporary one.
TakeClient(k) ==
    /\ cl[k].sock = "none"
    /\ Update(k, [cl[k] EXCEPT !.sock = "open", !.start = "submitted"])
    /\ temp' = k
    /\ IF temp = None THEN UNCHANGED cleanQueue ELSE Schedule(temp)
    /\ UNCHANGED <<usb, events, cleaner, toStop, told>>

Accept(k) ==
    /\ running \/ serving
    /\ TakeClient(k)
    /\ serving' = FALSE
    /\ UNCHANGED <<exec, running, calls>>

AcceptFails ==
    /\ serving
    /\ serving' = FALSE
    /\ UNCHANGED <<clientVars, cleanVars, exec, toStop, running, told, calls>>

-----------------------------------------------------------------------------
ExecutorStep ==
    \/ HandleOnOpenStatus \/ HandleOnEndStatus
    \/ DropClients \/ StopDropped \/ StopServerGoesOn

CleanerStep == CleanerStops \/ CleanerDone

Next ==
    \/ \E k \in Clients : ClientStep(k) \/ FirstHeader(k) \/ PeerLeaves(k) \/ Accept(k)
    \/ ExecutorStep \/ CleanerStep
    \/ AcceptFails \/ Disconnect \/ StartServer \/ StopServer

Spec == Init /\ [][Next]_vars

-----------------------------------------------------------------------------
Over(k) == cl[k].reader = "done" /\ cl[k].writer = "done"
EndIsQueued(k) == \E i \in 1..Len(events) :
                     events[i].client = k /\ events[i].kind \in {"close", "error"}

\* A client whose threads have ended stays promoted only while its close or
\* error is on its way (NotifyCloseOnce() against HandleOnOpenStatus()).
NoGhostIsPromoted ==
    usb # None /\ Over(usb) => EndIsQueued(usb)

\* The listener knows whether there is a promoted client: a promoted client's
\* end is reported even if it races with a newer accept, and no stale end is.
ListenerKnowsPromotion ==
    told = "open" <=> usb # None

\* After StopServer() every client that was accepted is stopped or handed to
\* the clean executor: none survives with the server off.
StopServerLeavesNoClient ==
    exec = "idle" /\ ~running =>
        \A k \in Clients : cl[k].sock # "none" =>
            \/ cl[k].stop # "none"
            \/ \E i \in 1..Len(cleanQueue) : cleanQueue[i] = k
=============================================================================
