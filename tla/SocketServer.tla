---------------------------- MODULE SocketServer ----------------------------
(***************************************************************************)
(* The SDK's USB socket server as a whole: the listening socket and its    *)
(* thread (ListenThread) together with the accepted clients (UsbServer).   *)
(*                                                                         *)
(* The two modules meet in StartServer(), StopServer(), accept() and the   *)
(* wait of StopServer() for the listen thread; all other steps belong to   *)
(* one of them.  UsbServer does not know the listen thread: it lets it     *)
(* accept while the server runs, and once more while StopServer() waits.   *)
(* Here the thread alone decides when it accepts and when it is out, and   *)
(* ImplementsUsbServer says that UsbServer assumes enough.                 *)
(***************************************************************************)
EXTENDS ListenThread, Sequences

CONSTANTS Clients, None

VARIABLES
    cl, usb, temp, events, toStop, cleanQueue, cleaner, told,   \* of UsbServer
    task         \* the executor thread in UsbServer: "idle", "wait", "stop" or "join"

clientSide == <<cl, usb, temp, events, toStop, cleanQueue, cleaner, told, task>>

\* StopServer() waits for a thread that may still bring a client.
waits == task = "wait" /\ listen \in {"socket", "bind", "call", "accept"}

Server == INSTANCE UsbServer WITH exec <- task, serving <- waits

socketVars == <<listenVars, exec, fd, shut>>
allVars == <<listenerVars, clientSide>>

ServerInit == ListenInit /\ Server!Init

-----------------------------------------------------------------------------
ServerStarts == task = "idle" /\ StartServer /\ UNCHANGED clientSide

\* StopServer() up to its look at socket_fd_
ServerStops == StopServer /\ task = "idle" /\ Server!StopServer

\* The wait for is_serving_ ends, and the clients are dropped.
ListenerIsOut == WaitNotServing /\ Server!Drop

Listens == ListenStep /\ UNCHANGED clientSide

\* Start() has a client: it becomes the temporary one.
Accepts(k) == Accept /\ Server!TakeClient(k) /\ UNCHANGED task

\* The rest of StopServer() on the executor thread
StopsSocket == (ShutdownSocket \/ Close) /\ UNCHANGED clientSide
StopsClients == UNCHANGED socketVars /\ (Server!StopDropped \/ Server!StopServerGoesOn)

Handles == UNCHANGED socketVars /\ (Server!HandleOnOpenStatus \/ Server!HandleOnEndStatus)

ClientRuns(k) == UNCHANGED socketVars /\ Server!ClientStep(k)
Cleans == UNCHANGED socketVars /\ Server!CleanerStep
Executes == StopsSocket \/ ListenerIsOut \/ StopsClients \/ Handles

\* The tool and the core
Outside ==
    /\ UNCHANGED socketVars
    /\ \/ \E k \in Clients : Server!FirstHeader(k) \/ Server!PeerLeaves(k)
       \/ Server!Disconnect

ServerNext ==
    \/ \E k \in Clients : ClientRuns(k) \/ Accepts(k)
    \/ Listens \/ Executes \/ Cleans \/ Outside
    \/ ServerStarts \/ ServerStops

\* Threads that can run do; tools connect, send and leave when they like.
ServerSpec ==
    /\ ServerInit /\ [][ServerNext]_allVars
    /\ \A k \in Clients : WF_allVars(ClientRuns(k))
    /\ WF_allVars(Listens) /\ WF_allVars(Executes) /\ WF_allVars(Cleans)

-----------------------------------------------------------------------------
\* The listen thread brings a client only while the server is enabled or, at
\* most one, while StopServer() waits for it, and StopServer() drops the
\* clients only when no more can come: the server is the one UsbServer models.
ImplementsUsbServer == Server!Spec

\* UsbClient::Stop() joins threads that report to the executor thread, on the
\* clean executor or on the executor thread itself; it always ends.
EveryStopEnds ==
    \A k \in Clients : cl[k].stop = "writer" ~> cl[k].stop = "done"

\* A StopServer() that found the listen thread accepting returns, with its
\* clients joined: the shutdown wakes the thread, a client accepted meanwhile
\* is dropped, and no join waits for the executor.
StopServerReturns ==
    exec = "wait" /\ shut /\ listen \in {"call", "accept"} ~> task = "idle"

\* A client whose connection is gone does not stay the promoted one, unless
\* the executor thread waits in StopServer() for a listen thread whose socket
\* it has not shut down.
DeadClientIsDemoted ==
    \A k \in Clients : usb = k /\ cl[k].sock # "open" ~> usb # k \/ (exec = "wait" /\ ~shut)
=============================================================================
