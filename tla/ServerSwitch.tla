---------------------------- MODULE ServerSwitch ----------------------------
(***************************************************************************)
(* The on/off switch of the SDK's local USB debug server                   *)
(* (native/core/debug_router_core.cc).                                     *)
(*                                                                         *)
(* Application threads flip enable_all_sessions_ and                       *)
(* debug_channel_enabled_ and call UpdateServerState(), which merges all   *)
(* requests into one task of the executor thread with two flags, scheduled *)
(* and dirty.  Every atomic access of a caller and of the task is a step   *)
(* of its own.  All of them are relaxed: when Delayed, a plain store of    *)
(* the executor thread may become visible to the callers later than the    *)
(* loads that follow it, but not later than its next exchange().           *)
(*                                                                         *)
(* Of the two transports only the USB one is here: UpdateServerState()     *)
(* leaves a WebSocket connection alone.                                    *)
(***************************************************************************)
EXTENDS Naturals, Sequences

CONSTANTS
    Callers,       \* application threads
    Delayed,       \* the executor's relaxed stores may become visible late
    IosStartPort,  \* build flag DEBUGROUTER_ENABLE_IOS_USB_START_PORT
    MaxTasks       \* bound: executor tasks queued when a start-port task is added

ASSUME FlagsBoolean == Delayed \in BOOLEAN /\ IosStartPort \in BOOLEAN
ASSUME MaxTasksNat == MaxTasks \in Nat

VARIABLES
    enableAll,     \* enable_all_sessions_
    channel,       \* debug_channel_enabled_
    dirty,         \* server_state_update_dirty_ as the callers see it
    scheduled,     \* server_state_update_scheduled_ as the callers see it
    late,          \* flags whose store of FALSE is not visible yet
    serverRunning, \* server_running_
    tasks,         \* queue of the executor thread
    caller,        \* caller -> its next step
    worker,        \* next step of the update task, or "idle"
    shouldRun,     \* should_run of the current round
    listening,     \* the socket server is enabled
    client,        \* the socket server has a promoted UsbClient
    current,       \* current_transceiver_: "none" or "usb"
    conn,          \* connection_state_
    heard          \* last callback of the state listeners: "open" or "close"

flagVars == <<enableAll, channel>>
syncVars == <<dirty, scheduled, late>>
usbVars == <<client, current, conn, heard>>
vars == <<flagVars, syncVars, serverRunning, tasks, caller, worker, shouldRun,
          listening, usbVars>>

InLoop == {"load_all", "load_channel", "exchange", "apply", "check", "release"}
Leaving == {"recheck", "reclaim"}

Init ==
    /\ enableAll = FALSE /\ channel = FALSE
    /\ dirty = FALSE /\ scheduled = FALSE /\ late = {}
    /\ serverRunning = FALSE
    /\ tasks = <<>>
    /\ caller = [c \in Callers |-> "idle"]
    /\ worker = "idle" /\ shouldRun = FALSE
    /\ listening = FALSE
    /\ client = FALSE /\ current = "none" /\ conn = "disconnected" /\ heard = "close"

ShouldServerRun == enableAll \/ channel

-----------------------------------------------------------------------------
\* The callers.

Goto(c, step) == caller' = [caller EXCEPT ![c] = step]

\* EnableAllSessions(), EnableDebugChannel(): only the call that changes the
\* flag goes on to UpdateServerState().
EnableAllSessions(c) ==
    /\ caller[c] = "idle" /\ ~enableAll
    /\ enableAll' = TRUE
    /\ Goto(c, "mark")
    /\ UNCHANGED <<channel, syncVars, serverRunning, tasks, worker, shouldRun,
                   listening, usbVars>>

EnableDebugChannel(c) ==
    /\ caller[c] = "idle" /\ ~channel
    /\ channel' = TRUE
    /\ Goto(c, "mark")
    /\ UNCHANGED <<enableAll, syncVars, serverRunning, tasks, worker, shouldRun,
                   listening, usbVars>>

DisableDebugChannel(c) ==
    /\ caller[c] = "idle" /\ channel
    /\ channel' = FALSE
    /\ Goto(c, "look")
    /\ UNCHANGED <<enableAll, syncVars, serverRunning, tasks, worker, shouldRun,
                   listening, usbVars>>

\* It looks at the transport of the executor thread, then stores DISCONNECTED.
LookAtTransport(c) ==
    /\ caller[c] = "look"
    /\ Goto(c, IF ~enableAll /\ current = "usb" THEN "disconnect" ELSE "mark")
    /\ UNCHANGED <<flagVars, syncVars, serverRunning, tasks, worker, shouldRun,
                   listening, usbVars>>

StoreDisconnected(c) ==
    /\ caller[c] = "disconnect"
    /\ conn' = "disconnected"
    /\ Goto(c, "mark")
    /\ UNCHANGED <<flagVars, syncVars, serverRunning, tasks, worker, shouldRun,
                   listening, client, current, heard>>

\* UpdateServerState(): dirty.store(true), scheduled.exchange(true), Post().
MutForgetDirty(c) ==
    /\ caller[c] = "mark"
    /\ Goto(c, "claim")
    /\ UNCHANGED <<flagVars, syncVars, serverRunning, tasks, worker, shouldRun,
                   listening, usbVars>>

MarkDirty(c) ==
    /\ caller[c] = "mark"
    /\ dirty' = TRUE
    /\ Goto(c, "claim")
    /\ UNCHANGED <<flagVars, scheduled, late, serverRunning, tasks, worker,
                   shouldRun, listening, usbVars>>

MutClaimAlways(c) ==
    /\ caller[c] = "claim"
    /\ scheduled' = TRUE
    /\ Len(tasks) < MaxTasks
    /\ Goto(c, "post")
    /\ UNCHANGED <<flagVars, dirty, late, serverRunning, tasks, worker, shouldRun,
                   listening, usbVars>>

ClaimTask(c) ==
    /\ caller[c] = "claim"
    /\ scheduled' = TRUE
    /\ Goto(c, IF scheduled THEN "idle" ELSE "post")
    /\ UNCHANGED <<flagVars, dirty, late, serverRunning, tasks, worker, shouldRun,
                   listening, usbVars>>

PostTask(c) ==
    /\ caller[c] = "post"
    /\ tasks' = Append(tasks, "update")
    /\ Goto(c, "idle")
    /\ UNCHANGED <<flagVars, syncVars, serverRunning, worker, shouldRun,
                   listening, usbVars>>

\* SetUSBStartPort() while the server runs; otherwise it only notes the port.
SetUSBStartPort(c) ==
    /\ IosStartPort
    /\ caller[c] = "idle" /\ serverRunning
    /\ Len(tasks) < MaxTasks
    /\ tasks' = Append(tasks, "start_port")
    /\ UNCHANGED <<flagVars, syncVars, serverRunning, caller, worker, shouldRun,
                   listening, usbVars>>

-----------------------------------------------------------------------------
\* The transport callbacks of DebugRouterCore, run by the executor thread.

OnOpen ==
    /\ current' = "usb"
    /\ conn' = "connected"
    /\ heard' = IF conn = "connected" /\ current = "usb" THEN heard ELSE "open"

OnClosed ==
    IF current = "usb" /\ conn = "connected"
    THEN current' = "none" /\ conn' = "disconnected" /\ heard' = "close"
    ELSE UNCHANGED <<current, conn, heard>>

\* A tool connects through USB and sends its first frame; it goes away.
UsbClientOpens ==
    /\ worker = "idle" /\ listening
    /\ client' = TRUE
    /\ OnOpen
    /\ UNCHANGED <<flagVars, syncVars, serverRunning, tasks, caller, worker,
                   shouldRun, listening>>

UsbClientCloses ==
    /\ worker = "idle" /\ client
    /\ client' = FALSE
    /\ OnClosed
    /\ UNCHANGED <<flagVars, syncVars, serverRunning, tasks, caller, worker,
                   shouldRun, listening>>

-----------------------------------------------------------------------------
\* The update task.

Queued(t) == tasks # <<>> /\ Head(tasks) = t
Visible(flag, value) == value /\ flag \notin late

\* dirty.store(false), at the head of every round.
BeginRound ==
    /\ worker' = "load_all"
    /\ \/ dirty' = FALSE /\ late' = {}
       \/ Delayed /\ late' = {"dirty"} /\ UNCHANGED dirty

TaskStarts ==
    /\ worker = "idle" /\ late = {} /\ Queued("update")
    /\ tasks' = Tail(tasks)
    /\ BeginRound
    /\ UNCHANGED <<flagVars, scheduled, serverRunning, caller, shouldRun,
                   listening, usbVars>>

\* ShouldServerRun() loads the two flags one after the other.
LoadEnableAll ==
    /\ worker = "load_all"
    /\ shouldRun' = enableAll
    /\ worker' = IF enableAll THEN "exchange" ELSE "load_channel"
    /\ UNCHANGED <<flagVars, syncVars, serverRunning, tasks, caller, listening,
                   usbVars>>

LoadChannel ==
    /\ worker = "load_channel"
    /\ shouldRun' = channel
    /\ worker' = "exchange"
    /\ UNCHANGED <<flagVars, syncVars, serverRunning, tasks, caller, listening,
                   usbVars>>

\* server_running_.exchange(): the earlier stores are visible from here on.
Drain ==
    /\ late' = {}
    /\ dirty' = Visible("dirty", dirty)

ExchangeRunning ==
    /\ worker = "exchange"
    /\ Drain
    /\ serverRunning' = shouldRun
    /\ worker' = IF serverRunning # shouldRun THEN "apply" ELSE "check"
    /\ UNCHANGED <<flagVars, scheduled, tasks, caller, shouldRun, listening,
                   usbVars>>

\* Starts or stops the server; a current USB transport goes through OnClosed()
\* and Disconnect() first.  StopServer() drops the socket server's client.
ApplyServerState ==
    /\ worker = "apply"
    /\ listening' = shouldRun
    /\ IF shouldRun
       THEN UNCHANGED usbVars
       ELSE /\ client' = FALSE
            /\ OnClosed
    /\ worker' = "check"
    /\ UNCHANGED <<flagVars, syncVars, serverRunning, tasks, caller, shouldRun>>

CheckDirty ==
    /\ worker = "check"
    /\ IF dirty
       THEN BeginRound
       ELSE worker' = "release" /\ UNCHANGED <<dirty, late>>
    /\ UNCHANGED <<flagVars, scheduled, serverRunning, tasks, caller, shouldRun,
                   listening, usbVars>>

\* scheduled.store(false)
ReleaseTask ==
    /\ worker = "release"
    /\ worker' = "recheck"
    /\ \/ scheduled' = FALSE /\ UNCHANGED late
       \/ Delayed /\ late' = {"scheduled"} /\ UNCHANGED scheduled
    /\ UNCHANGED <<flagVars, dirty, serverRunning, tasks, caller, shouldRun,
                   listening, usbVars>>

\* The second look at dirty, for a request that came before the release.
MutNoSecondLook ==
    /\ worker = "recheck"
    /\ worker' = "idle"
    /\ UNCHANGED <<flagVars, syncVars, serverRunning, tasks, caller, shouldRun,
                   listening, usbVars>>

RecheckDirty ==
    /\ worker = "recheck"
    /\ worker' = IF dirty THEN "reclaim" ELSE "idle"
    /\ UNCHANGED <<flagVars, syncVars, serverRunning, tasks, caller, shouldRun,
                   listening, usbVars>>

\* scheduled.exchange(true): another round unless a caller has posted a task.
ReclaimTask ==
    /\ worker = "reclaim"
    /\ scheduled' = TRUE
    /\ IF Visible("scheduled", scheduled)
       THEN worker' = "idle" /\ late' = {} /\ UNCHANGED dirty
       ELSE BeginRound
    /\ UNCHANGED <<flagVars, serverRunning, tasks, caller, shouldRun, listening,
                   usbVars>>

\* A delayed store becomes visible.
StoreBecomesVisible ==
    /\ late # {}
    /\ late' = {}
    /\ dirty' = Visible("dirty", dirty)
    /\ scheduled' = Visible("scheduled", scheduled)
    /\ UNCHANGED <<flagVars, serverRunning, tasks, caller, worker, shouldRun,
                   listening, usbVars>>

\* The task of SetUSBStartPort(): Disconnect(), StopServer(), SetStartPort()
\* and, if the server should run, StartServer().
StartPortTask ==
    /\ worker = "idle" /\ Queued("start_port")
    /\ tasks' = Tail(tasks)
    /\ client' = FALSE
    /\ listening' = ShouldServerRun
    /\ UNCHANGED <<flagVars, syncVars, serverRunning, caller, worker, shouldRun,
                   current, conn, heard>>

-----------------------------------------------------------------------------
CallerStep(c) ==
    \/ LookAtTransport(c) \/ StoreDisconnected(c)
    \/ MarkDirty(c) \/ ClaimTask(c) \/ PostTask(c)

WorkerStep ==
    \/ TaskStarts \/ LoadEnableAll \/ LoadChannel \/ ExchangeRunning
    \/ ApplyServerState \/ CheckDirty \/ ReleaseTask \/ RecheckDirty
    \/ ReclaimTask \/ StoreBecomesVisible \/ StartPortTask

Next ==
    \/ \E c \in Callers :
          \/ EnableAllSessions(c) \/ EnableDebugChannel(c)
          \/ DisableDebugChannel(c) \/ SetUSBStartPort(c)
          \/ CallerStep(c)
    \/ UsbClientOpens \/ UsbClientCloses
    \/ WorkerStep

Spec == Init /\ [][Next]_vars

\* A thread inside UpdateServerState() finishes the call, and the executor
\* thread keeps taking tasks from its queue.
Fairness ==
    /\ \A c \in Callers : WF_vars(CallerStep(c))
    /\ WF_vars(WorkerStep)

FairSpec == Spec /\ Fairness

-----------------------------------------------------------------------------
\* The variables keep the types of the code's fields.
TypeOK ==
    /\ enableAll \in BOOLEAN /\ channel \in BOOLEAN
    /\ dirty \in BOOLEAN /\ scheduled \in BOOLEAN
    /\ late \in SUBSET {"dirty", "scheduled"}
    /\ serverRunning \in BOOLEAN
    /\ tasks \in Seq({"update", "start_port"})
    /\ caller \in [Callers -> {"idle", "look", "disconnect", "mark", "claim", "post"}]
    /\ worker \in {"idle"} \cup InLoop \cup Leaving
    /\ shouldRun \in BOOLEAN
    /\ listening \in BOOLEAN
    /\ client \in BOOLEAN
    /\ current \in {"none", "usb"}
    /\ conn \in {"connected", "disconnected"}
    /\ heard \in {"open", "close"}

Settled ==
    /\ worker = "idle" /\ tasks = <<>>
    /\ \A c \in Callers : caller[c] = "idle"

\* UpdateServerState() loses no request: once all callers have returned and
\* the executor's queue is empty, the server runs exactly if one of the two
\* flags of ShouldServerRun() is set.
SettledServerMatchesRequest ==
    Settled =>
        /\ serverRunning = ShouldServerRun
        /\ listening = serverRunning

\* UpdateServerState() has at most one executor task in flight: a second one
\* is queued only when the first one has released scheduled and is leaving.
OneTaskInFlight ==
    /\ \A i, j \in 1..Len(tasks) :
          tasks[i] = "update" /\ tasks[j] = "update" => i = j
    /\ worker \in InLoop => \A i \in 1..Len(tasks) : tasks[i] # "update"

\* The state listeners have heard of the connection state the core is in.
ListenersInSync ==
    Settled => (heard = "open" <=> conn = "connected")

-----------------------------------------------------------------------------
\* The inductive invariant.

HasUpdate == \E i \in 1..Len(tasks) : tasks[i] = "update"
Posting == \E c \in Callers : caller[c] = "post"
Claiming == \E c \in Callers : caller[c] = "claim"
Announcing == \E c \in Callers : caller[c] \in {"look", "disconnect", "mark"}

\* scheduled is a token: the caller about to post, the queued task and the
\* running round exclude each other, and each implies that it is set.
TokenIsUnique ==
    /\ \A c, d \in Callers : caller[c] = "post" /\ caller[d] = "post" => c = d
    /\ Posting => ~HasUpdate
    /\ worker \in InLoop => ~Posting /\ ~HasUpdate
    /\ worker \in InLoop \/ Posting \/ HasUpdate =>
          scheduled /\ "scheduled" \notin late
    /\ \A i, j \in 1..Len(tasks) :
          tasks[i] = "update" /\ tasks[j] = "update" => i = j
    /\ "scheduled" \in late => scheduled

\* Without late stores the token is never lost, and a set dirty flag has
\* somebody who will look at it.
RequestsAreCovered ==
    /\ late = {}
    /\ \A i \in 1..Len(tasks) : tasks[i] = "update"
    /\ scheduled => Posting \/ HasUpdate \/ worker \in InLoop
    /\ dirty => scheduled \/ worker \in Leaving \/ Claiming

\* A round's sample, and what was applied, is stale only if the change is
\* still announced.
StalenessIsAnnounced ==
    /\ worker = "load_channel" => (enableAll => dirty \/ Announcing)
    /\ worker = "exchange" => (shouldRun # ShouldServerRun => dirty \/ Announcing)
    /\ worker \notin {"load_all", "load_channel", "exchange"} =>
          (serverRunning # ShouldServerRun => dirty \/ Announcing)

\* The socket server lags behind server_running_ only within ApplyServerState.
ServerApplied ==
    /\ worker = "apply" => serverRunning = shouldRun
    /\ worker # "apply" => listening = serverRunning

\* What SettledServerMatchesRequest needs, for every interleaving of the
\* callers' and the task's atomic accesses.
SwitchInvariant ==
    TypeOK /\ TokenIsUnique /\ RequestsAreCovered /\ StalenessIsAnnounced /\ ServerApplied

-----------------------------------------------------------------------------
\* When the switch stays in one position the server follows it for good
\* (UpdateServerState() and its task).
ServerFollowsSwitch ==
    /\ <>[]ShouldServerRun => <>[]listening
    /\ <>[](~ShouldServerRun) => <>[](~listening)
=============================================================================
