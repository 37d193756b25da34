---------------------------- MODULE ListenThread ----------------------------
(***************************************************************************)
(* The listen thread of the SDK's USB socket server against StartServer()  *)
(* and StopServer() on the executor thread: ThreadFunc(), setEnableServer()*)
(* and Close() of native/socket/socket_server_api.cc, InitSocket() and     *)
(* Start() of posix/socket_server_posix.cc.                                *)
(*                                                                         *)
(* The descriptor is shared through the atomic socket_fd_; the kernel's    *)
(* side of shutdown(), close() and accept() is external.  The accepted     *)
(* clients are in module UsbServer, both together in SocketServer.         *)
(***************************************************************************)
EXTENDS Naturals

CONSTANT MaxCalls    \* bound: StartServer() and StopServer() calls

ASSUME MaxCallsNat == MaxCalls \in Nat

VARIABLES
    running,     \* is_running_
    serving,     \* is_serving_
    listen,      \* next step of the listen thread
    fd,          \* socket_fd_ is valid
    shut,        \* the listening socket was shut down
    exec,        \* executor thread: "idle" or its next step in StopServer()
    calls        \* history: StartServer() and StopServer() calls

listenVars == <<serving, listen>>
serverVars == <<running, exec, calls>>
listenerVars == <<listenVars, serverVars, fd, shut>>

ListenInit ==
    /\ running = FALSE /\ serving = FALSE
    /\ listen = "wait"
    /\ fd = FALSE /\ shut = FALSE
    /\ exec = "idle"
    /\ calls = 0

-----------------------------------------------------------------------------
\* The executor thread.

StartServer ==
    /\ exec = "idle" /\ ~running /\ calls < MaxCalls
    /\ running' = TRUE
    /\ calls' = calls + 1
    /\ UNCHANGED <<listenVars, fd, shut, exec>>

StopServer ==
    /\ exec = "idle" /\ running /\ calls < MaxCalls
    /\ running' = FALSE
    /\ calls' = calls + 1
    /\ exec' = "shutdown"
    /\ UNCHANGED <<listenVars, fd, shut>>

\* shutdown() has no effect on a socket that does not listen yet.
ShutdownSocket ==
    /\ exec = "shutdown"
    /\ shut' = (shut \/ (fd /\ listen # "bind"))
    /\ exec' = "close"
    /\ UNCHANGED <<listenVars, running, calls, fd>>

Close ==
    /\ exec = "close"
    /\ fd' = FALSE
    /\ exec' = "wait"
    /\ UNCHANGED <<listenVars, running, calls, shut>>

WaitNotServing ==
    /\ exec = "wait" /\ ~serving
    /\ exec' = "idle"
    /\ UNCHANGED <<listenVars, running, calls, fd, shut>>

-----------------------------------------------------------------------------
\* The listen thread.

\* It is serving before running_mutex_ is released.
BeginServing ==
    /\ listen = "wait" /\ running
    /\ serving' = TRUE
    /\ listen' = IF fd THEN "call" ELSE "socket"
    /\ UNCHANGED <<serverVars, fd, shut>>

\* InitSocket(): the descriptor is stored before bind() and listen().
CreateSocket ==
    /\ listen = "socket"
    /\ \/ fd' = TRUE /\ shut' = FALSE /\ listen' = "bind"
       \/ UNCHANGED <<fd, shut>> /\ listen' = "leave"
    /\ UNCHANGED <<serving, serverVars>>

\* They fail, also because StopServer() has closed the descriptor.
BindSocket ==
    /\ listen = "bind"
    /\ \/ fd /\ listen' = "call" /\ UNCHANGED fd
       \/ fd' = FALSE /\ listen' = "leave"
    /\ UNCHANGED <<serving, serverVars, shut>>

\* accept() fails at once on a closed descriptor.  Blocked, it fails after
\* shutdown(), but not because the descriptor is closed.
CallAccept ==
    /\ listen = "call"
    /\ listen' = IF fd THEN "accept" ELSE "leave"
    /\ UNCHANGED <<serving, serverVars, fd, shut>>

MutRetryAccept ==
    /\ listen = "accept" /\ shut
    /\ UNCHANGED listenerVars

AcceptFails ==
    /\ listen = "accept" /\ shut
    /\ fd' = FALSE
    /\ listen' = "leave"
    /\ UNCHANGED <<serving, serverVars, shut>>

\* A tool connects.
MutAcceptAgain ==
    /\ listen = "accept" /\ ~shut
    /\ UNCHANGED listenerVars

Accept ==
    /\ listen = "accept" /\ ~shut
    /\ listen' = "leave"
    /\ UNCHANGED <<serving, serverVars, fd, shut>>

EndServing ==
    /\ listen = "leave"
    /\ serving' = FALSE
    /\ listen' = "wait"
    /\ UNCHANGED <<serverVars, fd, shut>>

-----------------------------------------------------------------------------
ExecutorStep == ShutdownSocket \/ Close \/ WaitNotServing
ListenStep ==
    BeginServing \/ CreateSocket \/ BindSocket \/ CallAccept \/ AcceptFails \/ EndServing

ListenNext == ExecutorStep \/ ListenStep \/ Accept \/ StartServer \/ StopServer

ListenSpec == ListenInit /\ [][ListenNext]_listenerVars

\* Both threads run; no tool has to connect.
FairListenSpec == ListenSpec /\ WF_listenerVars(ExecutorStep) /\ WF_listenerVars(ListenStep)

-----------------------------------------------------------------------------
\* The variables keep their types, and the listen thread serves exactly while
\* it is inside Start().
ListenTypeOK ==
    /\ running \in BOOLEAN /\ fd \in BOOLEAN /\ shut \in BOOLEAN
    /\ listen \in {"wait", "socket", "bind", "call", "accept", "leave"}
    /\ exec \in {"idle", "shutdown", "close", "wait"}
    /\ serving = (listen # "wait")
    /\ calls \in 0..MaxCalls

\* Once StopServer() has returned, until StartServer(), the listen thread is
\* out of Start().
StoppedMeansListenerIsOut ==
    exec = "idle" /\ ~running => ~serving

\* A thread that blocks in accept() while the server is enabled does so on a
\* socket that is open and was not shut down by an earlier StopServer().
EnabledServerIsReachable ==
    exec = "idle" /\ running /\ listen = "accept" => fd /\ ~shut

\* StopServer() returns and leaves no listening socket: the executor thread
\* goes on, and after DisableDebugChannel() the port is free again.
StopServerFreesPort == exec = "wait" ~> exec = "idle" /\ ~fd
=============================================================================
