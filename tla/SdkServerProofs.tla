-------------------------- MODULE SdkServerProofs --------------------------
(***************************************************************************)
(* Proofs about the SDK's USB socket server, for any calling threads,      *)
(* clients and calls: the switch that decides whether it runs (module      *)
(* ServerSwitch), the listen thread against StartServer() and StopServer() *)
(* (ListenThread), and that the listen thread and the clients together     *)
(* (SocketServer) are what UsbServer says.                                 *)
(***************************************************************************)
EXTENDS SocketServer, MCServerSwitch, TLAPS

-----------------------------------------------------------------------------
(* The switch: module ServerSwitch.                                        *)

\* The executor's stores are visible in program order, in a build without
\* SetUSBStartPort().
NoDelay == ~Delayed /\ ~IosStartPort

\* Appending a task keeps the ones before it and adds one.
LEMMA AppendTask ==
    ASSUME NEW S, NEW s \in Seq(S), NEW t \in S
    PROVE  /\ Append(s, t) \in Seq(S)
           /\ Len(Append(s, t)) = Len(s) + 1
           /\ \A i \in 1..Len(s) : Append(s, t)[i] = s[i]
           /\ Append(s, t)[Len(s) + 1] = t
    OBVIOUS

\* Taking the first task shifts the others.
LEMMA TailTask ==
    ASSUME NEW S, NEW s \in Seq(S), s # <<>>
    PROVE  /\ Tail(s) \in Seq(S)
           /\ Len(s) \in Nat /\ Len(s) > 0
           /\ Len(Tail(s)) = Len(s) - 1
           /\ \A i \in 1..Len(Tail(s)) : Tail(s)[i] = s[i + 1]
           /\ Head(s) = s[1]
    OBVIOUS

\* A round begins with well-typed flags, whether or not its store is visible.
LEMMA RoundTypes ==
    ASSUME TypeOK, BeginRound
    PROVE  /\ worker' = "load_all"
           /\ dirty' \in BOOLEAN
           /\ late' \in SUBSET {"dirty", "scheduled"}
<1>1. CASE dirty' = FALSE /\ late' = {}
  BY <1>1, Zenon DEF BeginRound
<1>2. CASE late' = {"dirty"} /\ dirty' = dirty
  <2>1. dirty' \in BOOLEAN
    BY <1>2, Zenon DEF TypeOK
  <2> QED
    BY <1>2, <2>1 DEF BeginRound
<1> QED
  BY <1>1, <1>2, Zenon DEF BeginRound

\* Every step keeps the types.
LEMMA TypePreserved == TypeOK /\ [Next]_vars => TypeOK'
<1> SUFFICES ASSUME TypeOK, [Next]_vars PROVE TypeOK'
  OBVIOUS
<1> USE DEF TypeOK, flagVars, syncVars, usbVars, Goto, InLoop, Leaving
<1>1. ASSUME NEW c \in Callers, EnableAllSessions(c) PROVE TypeOK'
  BY <1>1 DEF EnableAllSessions
<1>2. ASSUME NEW c \in Callers, EnableDebugChannel(c) PROVE TypeOK'
  BY <1>2 DEF EnableDebugChannel
<1>3. ASSUME NEW c \in Callers, DisableDebugChannel(c) PROVE TypeOK'
  <2>1. channel' \in BOOLEAN
    BY <1>3, Zenon DEF DisableDebugChannel
  <2> QED
    BY <1>3, <2>1 DEF DisableDebugChannel
<1>4. ASSUME NEW c \in Callers, SetUSBStartPort(c) PROVE TypeOK'
  BY <1>4, AppendTask DEF SetUSBStartPort
<1>5. ASSUME NEW c \in Callers, LookAtTransport(c) PROVE TypeOK'
  BY <1>5 DEF LookAtTransport
<1>6. ASSUME NEW c \in Callers, StoreDisconnected(c) PROVE TypeOK'
  BY <1>6 DEF StoreDisconnected
<1>7. ASSUME NEW c \in Callers, MarkDirty(c) PROVE TypeOK'
  BY <1>7 DEF MarkDirty
<1>8. ASSUME NEW c \in Callers, ClaimTask(c) PROVE TypeOK'
  BY <1>8 DEF ClaimTask
<1>9. ASSUME NEW c \in Callers, PostTask(c) PROVE TypeOK'
  BY <1>9, AppendTask DEF PostTask
<1>10. CASE UsbClientOpens
  BY <1>10 DEF UsbClientOpens, OnOpen
<1>11. CASE UsbClientCloses
  BY <1>11, ZenonT(60) DEF UsbClientCloses, OnClosed
<1>12. CASE TaskStarts
  <2>1. tasks' \in Seq({"update", "start_port"})
    BY <1>12, TailTask DEF TaskStarts, Queued
  <2> QED
    BY <1>12, <2>1, RoundTypes DEF TaskStarts
<1>13. CASE StartPortTask
  BY <1>13, TailTask, Zenon DEF StartPortTask, Queued, ShouldServerRun
<1>14. CASE LoadEnableAll
  BY <1>14 DEF LoadEnableAll
<1>15. CASE LoadChannel
  BY <1>15 DEF LoadChannel
<1>16. CASE ExchangeRunning
  BY <1>16 DEF ExchangeRunning, Drain, Visible
<1>17. CASE ApplyServerState
  BY <1>17, ZenonT(60) DEF ApplyServerState, OnClosed
<1>18. CASE CheckDirty
  <2>1. CASE BeginRound
    BY <1>18, <2>1, RoundTypes DEF CheckDirty
  <2>2. CASE worker' = "release" /\ UNCHANGED <<dirty, late>>
    BY <1>18, <2>2 DEF CheckDirty
  <2> QED
    BY <1>18, <2>1, <2>2 DEF CheckDirty
<1>19. CASE ReleaseTask
  <2>1. scheduled' \in BOOLEAN /\ late' \in SUBSET {"dirty", "scheduled"}
    BY <1>19, Zenon DEF ReleaseTask
  <2> QED
    BY <1>19, <2>1 DEF ReleaseTask
<1>20. CASE RecheckDirty
  BY <1>20 DEF RecheckDirty
<1>21. CASE ReclaimTask
  <2>1. CASE BeginRound
    BY <1>21, <2>1, RoundTypes DEF ReclaimTask
  <2>2. CASE worker' = "idle" /\ late' = {} /\ UNCHANGED dirty
    BY <1>21, <2>2 DEF ReclaimTask
  <2> QED
    BY <1>21, <2>1, <2>2 DEF ReclaimTask
<1>22. CASE StoreBecomesVisible
  BY <1>22 DEF StoreBecomesVisible, Visible
<1>23. CASE UNCHANGED vars
  BY <1>23 DEF vars
<1> QED
  BY <1>1, <1>2, <1>3, <1>4, <1>5, <1>6, <1>7, <1>8, <1>9, <1>10, <1>11,
     <1>12, <1>13, <1>14, <1>15, <1>16, <1>17, <1>18, <1>19, <1>20, <1>21,
     <1>22, <1>23, Zenon
     DEF Next, CallerStep, WorkerStep

\* The token has one owner, whatever the delays of the stores and the build.
LEMMA TokenPreserved == TypeOK /\ TokenIsUnique /\ [Next]_vars => TokenIsUnique'
<1> SUFFICES ASSUME TypeOK /\ TokenIsUnique, [Next]_vars PROVE TokenIsUnique'
  OBVIOUS
<1> USE DEF TypeOK, TokenIsUnique, HasUpdate, Posting, flagVars, syncVars, usbVars, Goto, InLoop, Leaving
<1>1. ASSUME NEW c \in Callers, EnableAllSessions(c) PROVE TokenIsUnique'
  BY <1>1 DEF EnableAllSessions
<1>2. ASSUME NEW c \in Callers, EnableDebugChannel(c) PROVE TokenIsUnique'
  BY <1>2 DEF EnableDebugChannel
<1>3. ASSUME NEW c \in Callers, DisableDebugChannel(c) PROVE TokenIsUnique'
  BY <1>3 DEF DisableDebugChannel
<1>4. ASSUME NEW c \in Callers, SetUSBStartPort(c) PROVE TokenIsUnique'
  <2>1. tasks \in Seq({"update", "start_port"}) /\ tasks' = Append(tasks, "start_port")
    BY <1>4 DEF SetUSBStartPort
  <2>2. /\ Len(tasks') = Len(tasks) + 1 /\ Len(tasks) \in Nat
        /\ \A i \in 1..Len(tasks) : tasks'[i] = tasks[i]
        /\ tasks'[Len(tasks) + 1] = "start_port"
    BY <2>1, AppendTask
  <2>3. \A i \in 1..Len(tasks') : tasks'[i] = "update" => i \in 1..Len(tasks) /\ tasks[i] = "update"
    BY <2>2
  <2> QED
    BY <1>4, <2>3 DEF SetUSBStartPort
<1>5. ASSUME NEW c \in Callers, LookAtTransport(c) PROVE TokenIsUnique'
  BY <1>5 DEF LookAtTransport
<1>6. ASSUME NEW c \in Callers, StoreDisconnected(c) PROVE TokenIsUnique'
  BY <1>6 DEF StoreDisconnected
<1>7. ASSUME NEW c \in Callers, MarkDirty(c) PROVE TokenIsUnique'
  BY <1>7 DEF MarkDirty
<1>8. ASSUME NEW c \in Callers, ClaimTask(c) PROVE TokenIsUnique'
  BY <1>8 DEF ClaimTask
<1>9. ASSUME NEW c \in Callers, PostTask(c) PROVE TokenIsUnique'
  <2>1. tasks \in Seq({"update", "start_port"}) /\ tasks' = Append(tasks, "update")
    BY <1>9 DEF PostTask
  <2>2. /\ Len(tasks') = Len(tasks) + 1 /\ Len(tasks) \in Nat
        /\ \A i \in 1..Len(tasks) : tasks'[i] = tasks[i]
    BY <2>1, AppendTask
  <2>3. Posting /\ ~HasUpdate
    BY <1>9 DEF PostTask
  <2>4. \A i \in 1..Len(tasks') : tasks'[i] = "update" => i = Len(tasks) + 1
    BY <2>2, <2>3
  <2>5. ~Posting'
    BY <1>9 DEF PostTask
  <2> QED
    BY <1>9, <2>3, <2>4, <2>5 DEF PostTask
<1>10. CASE UsbClientOpens
  BY <1>10 DEF UsbClientOpens, OnOpen
<1>11. CASE UsbClientCloses
  BY <1>11 DEF UsbClientCloses, OnClosed
<1>12. CASE TaskStarts
  <2>1. /\ tasks \in Seq({"update", "start_port"}) /\ tasks # <<>>
        /\ Head(tasks) = "update" /\ tasks' = Tail(tasks)
    BY <1>12 DEF TaskStarts, Queued
  <2>2. /\ Len(tasks') = Len(tasks) - 1 /\ Len(tasks) \in Nat /\ Len(tasks) > 0
        /\ \A i \in 1..Len(tasks') : tasks'[i] = tasks[i + 1]
        /\ tasks[1] = "update"
    BY <2>1, TailTask
  <2>3. HasUpdate /\ ~HasUpdate'
    BY <2>2
  <2>4. ~Posting /\ ~Posting'
    BY <1>12, <2>3 DEF TaskStarts
  <2>5. scheduled' /\ "scheduled" \notin late'
    BY <1>12, <2>3 DEF TaskStarts, BeginRound
  <2> QED
    BY <1>12, <2>3, <2>4, <2>5 DEF TaskStarts
<1>13. CASE StartPortTask
  <2>1. tasks \in Seq({"update", "start_port"}) /\ tasks # <<>> /\ tasks' = Tail(tasks)
    BY <1>13 DEF StartPortTask, Queued
  <2>2. /\ Len(tasks') = Len(tasks) - 1 /\ Len(tasks) \in Nat /\ Len(tasks) > 0
        /\ \A i \in 1..Len(tasks') : tasks'[i] = tasks[i + 1]
    BY <2>1, TailTask
  <2>3. \A i \in 1..Len(tasks') : i + 1 \in 1..Len(tasks)
    BY <2>2
  <2>4. HasUpdate' => HasUpdate
    BY <2>2, <2>3
  <2>5. \A i, j \in 1..Len(tasks') : tasks'[i] = "update" /\ tasks'[j] = "update" => i = j
    BY <2>2, <2>3
  <2> QED
    BY <1>13, <2>4, <2>5 DEF StartPortTask
<1>14. CASE LoadEnableAll
  BY <1>14 DEF LoadEnableAll
<1>15. CASE LoadChannel
  BY <1>15 DEF LoadChannel
<1>16. CASE ExchangeRunning
  BY <1>16 DEF ExchangeRunning, Drain, Visible
<1>17. CASE ApplyServerState
  BY <1>17 DEF ApplyServerState, OnClosed
<1>18. CASE CheckDirty
  BY <1>18 DEF CheckDirty, BeginRound
<1>19. CASE ReleaseTask
  BY <1>19, Zenon DEF ReleaseTask
<1>20. CASE RecheckDirty
  BY <1>20 DEF RecheckDirty
<1>21. CASE ReclaimTask
  BY <1>21 DEF ReclaimTask, BeginRound, Visible
<1>22. CASE StoreBecomesVisible
  BY <1>22 DEF StoreBecomesVisible, Visible
<1>23. CASE UNCHANGED vars
  BY <1>23 DEF vars
<1> QED
  BY <1>1, <1>2, <1>3, <1>4, <1>5, <1>6, <1>7, <1>8, <1>9, <1>10, <1>11,
     <1>12, <1>13, <1>14, <1>15, <1>16, <1>17, <1>18, <1>19, <1>20, <1>21,
     <1>22, <1>23, Zenon
     DEF Next, CallerStep, WorkerStep

\* Without delays no request is left without somebody to act on it.
LEMMA CoveragePreserved == NoDelay /\ TypeOK /\ TokenIsUnique /\ RequestsAreCovered /\ [Next]_vars => RequestsAreCovered'
<1> SUFFICES ASSUME NoDelay /\ TypeOK /\ TokenIsUnique /\ RequestsAreCovered, [Next]_vars PROVE RequestsAreCovered'
  OBVIOUS
<1> USE DEF NoDelay, TypeOK, RequestsAreCovered, HasUpdate, Posting, Claiming, flagVars, syncVars, usbVars, Goto, InLoop, Leaving
<1>1. ASSUME NEW c \in Callers, EnableAllSessions(c) PROVE RequestsAreCovered'
  BY <1>1 DEF EnableAllSessions
<1>2. ASSUME NEW c \in Callers, EnableDebugChannel(c) PROVE RequestsAreCovered'
  BY <1>2 DEF EnableDebugChannel
<1>3. ASSUME NEW c \in Callers, DisableDebugChannel(c) PROVE RequestsAreCovered'
  BY <1>3 DEF DisableDebugChannel
<1>4. ASSUME NEW c \in Callers, SetUSBStartPort(c) PROVE RequestsAreCovered'
  BY <1>4 DEF SetUSBStartPort
<1>5. ASSUME NEW c \in Callers, LookAtTransport(c) PROVE RequestsAreCovered'
  BY <1>5 DEF LookAtTransport
<1>6. ASSUME NEW c \in Callers, StoreDisconnected(c) PROVE RequestsAreCovered'
  BY <1>6 DEF StoreDisconnected
<1>7. ASSUME NEW c \in Callers, MarkDirty(c) PROVE RequestsAreCovered'
  BY <1>7 DEF MarkDirty
<1>8. ASSUME NEW c \in Callers, ClaimTask(c) PROVE RequestsAreCovered'
  BY <1>8 DEF ClaimTask
<1>9. ASSUME NEW c \in Callers, PostTask(c) PROVE RequestsAreCovered'
  <2>1. tasks \in Seq({"update", "start_port"}) /\ tasks' = Append(tasks, "update")
    BY <1>9 DEF PostTask
  <2>2. /\ Len(tasks') = Len(tasks) + 1 /\ Len(tasks) \in Nat
        /\ \A i \in 1..Len(tasks) : tasks'[i] = tasks[i]
        /\ tasks'[Len(tasks) + 1] = "update"
    BY <2>1, AppendTask
  <2>3. \A i \in 1..Len(tasks') : tasks'[i] = "update"
    BY <2>2
  <2>4. HasUpdate'
    BY <2>2
  <2> QED
    BY <1>9, <2>3, <2>4 DEF PostTask
<1>10. CASE UsbClientOpens
  BY <1>10 DEF UsbClientOpens, OnOpen
<1>11. CASE UsbClientCloses
  BY <1>11 DEF UsbClientCloses, OnClosed
<1>12. CASE TaskStarts
  <2>1. tasks \in Seq({"update", "start_port"}) /\ tasks # <<>> /\ tasks' = Tail(tasks)
    BY <1>12 DEF TaskStarts, Queued
  <2>2. \A i \in 1..Len(tasks') : i + 1 \in 1..Len(tasks) /\ tasks'[i] = tasks[i + 1]
    BY <2>1, TailTask
  <2>3. \A i \in 1..Len(tasks') : tasks'[i] = "update"
    BY <2>2
  <2> QED
    BY <1>12, <2>3 DEF TaskStarts, BeginRound
<1>13. CASE StartPortTask
  <2>1. tasks # <<>> /\ Head(tasks) = "start_port" /\ tasks \in Seq({"update", "start_port"})
    BY <1>13 DEF StartPortTask, Queued
  <2>2. 1 \in 1..Len(tasks) /\ tasks[1] = "start_port"
    BY <2>1, TailTask
  <2> QED
    BY <2>2
<1>14. CASE LoadEnableAll
  BY <1>14 DEF LoadEnableAll
<1>15. CASE LoadChannel
  BY <1>15 DEF LoadChannel
<1>16. CASE ExchangeRunning
  BY <1>16 DEF ExchangeRunning, Drain, Visible
<1>17. CASE ApplyServerState
  BY <1>17 DEF ApplyServerState, OnClosed
<1>18. CASE CheckDirty
  BY <1>18 DEF CheckDirty, BeginRound
<1>19. CASE ReleaseTask
  BY <1>19 DEF ReleaseTask
<1>20. CASE RecheckDirty
  BY <1>20 DEF RecheckDirty
<1>21. CASE ReclaimTask
  BY <1>21 DEF ReclaimTask, BeginRound, Visible
<1>22. CASE StoreBecomesVisible
  BY <1>22 DEF StoreBecomesVisible, Visible
<1>23. CASE UNCHANGED vars
  BY <1>23 DEF vars
<1> QED
  BY <1>1, <1>2, <1>3, <1>4, <1>5, <1>6, <1>7, <1>8, <1>9, <1>10, <1>11,
     <1>12, <1>13, <1>14, <1>15, <1>16, <1>17, <1>18, <1>19, <1>20, <1>21,
     <1>22, <1>23, Zenon
     DEF Next, CallerStep, WorkerStep

\* A flag changes before dirty is set and dirty is cleared before the flags are loaded.
LEMMA StalenessPreserved == NoDelay /\ TypeOK /\ TokenIsUnique /\ RequestsAreCovered /\ StalenessIsAnnounced /\ [Next]_vars => StalenessIsAnnounced'
<1> SUFFICES ASSUME NoDelay /\ TypeOK /\ TokenIsUnique /\ RequestsAreCovered /\ StalenessIsAnnounced, [Next]_vars PROVE StalenessIsAnnounced'
  OBVIOUS
<1> USE DEF NoDelay, TypeOK, StalenessIsAnnounced, ShouldServerRun, Announcing, flagVars, syncVars, usbVars, Goto, InLoop, Leaving
<1>1. ASSUME NEW c \in Callers, EnableAllSessions(c) PROVE StalenessIsAnnounced'
  BY <1>1 DEF EnableAllSessions
<1>2. ASSUME NEW c \in Callers, EnableDebugChannel(c) PROVE StalenessIsAnnounced'
  BY <1>2 DEF EnableDebugChannel
<1>3. ASSUME NEW c \in Callers, DisableDebugChannel(c) PROVE StalenessIsAnnounced'
  BY <1>3 DEF DisableDebugChannel
<1>4. ASSUME NEW c \in Callers, SetUSBStartPort(c) PROVE StalenessIsAnnounced'
  BY <1>4 DEF SetUSBStartPort
<1>5. ASSUME NEW c \in Callers, LookAtTransport(c) PROVE StalenessIsAnnounced'
  BY <1>5 DEF LookAtTransport
<1>6. ASSUME NEW c \in Callers, StoreDisconnected(c) PROVE StalenessIsAnnounced'
  BY <1>6 DEF StoreDisconnected
<1>7. ASSUME NEW c \in Callers, MarkDirty(c) PROVE StalenessIsAnnounced'
  BY <1>7 DEF MarkDirty
<1>8. ASSUME NEW c \in Callers, ClaimTask(c) PROVE StalenessIsAnnounced'
  BY <1>8 DEF ClaimTask
<1>9. ASSUME NEW c \in Callers, PostTask(c) PROVE StalenessIsAnnounced'
  BY <1>9 DEF PostTask
<1>10. CASE UsbClientOpens
  BY <1>10 DEF UsbClientOpens, OnOpen
<1>11. CASE UsbClientCloses
  BY <1>11 DEF UsbClientCloses, OnClosed
<1>12. CASE TaskStarts
  BY <1>12 DEF TaskStarts, BeginRound, Queued
<1>13. CASE StartPortTask
  BY <1>13 DEF StartPortTask, Queued, ShouldServerRun
<1>14. CASE LoadEnableAll
  BY <1>14 DEF LoadEnableAll
<1>15. CASE LoadChannel
  BY <1>15 DEF LoadChannel
<1>16. CASE ExchangeRunning
  <2>1. dirty' = dirty
    BY <1>16 DEF RequestsAreCovered, ExchangeRunning, Drain, Visible
  <2> QED
    BY <1>16, <2>1 DEF ExchangeRunning
<1>17. CASE ApplyServerState
  BY <1>17 DEF ApplyServerState, OnClosed
<1>18. CASE CheckDirty
  BY <1>18 DEF CheckDirty, BeginRound
<1>19. CASE ReleaseTask
  BY <1>19 DEF ReleaseTask
<1>20. CASE RecheckDirty
  BY <1>20 DEF RecheckDirty
<1>21. CASE ReclaimTask
  BY <1>21 DEF ReclaimTask, BeginRound, Visible
<1>22. CASE StoreBecomesVisible
  BY <1>22 DEF StoreBecomesVisible, RequestsAreCovered
<1>23. CASE UNCHANGED vars
  BY <1>23 DEF vars
<1> QED
  BY <1>1, <1>2, <1>3, <1>4, <1>5, <1>6, <1>7, <1>8, <1>9, <1>10, <1>11,
     <1>12, <1>13, <1>14, <1>15, <1>16, <1>17, <1>18, <1>19, <1>20, <1>21,
     <1>22, <1>23, Zenon
     DEF Next, CallerStep, WorkerStep

\* Only the task's apply step changes the socket server.
LEMMA AppliedPreserved == NoDelay /\ TypeOK /\ RequestsAreCovered /\ ServerApplied /\ [Next]_vars => ServerApplied'
<1> SUFFICES ASSUME NoDelay /\ TypeOK /\ RequestsAreCovered /\ ServerApplied, [Next]_vars PROVE ServerApplied'
  OBVIOUS
<1> USE DEF NoDelay, TypeOK, ServerApplied, flagVars, syncVars, usbVars, Goto, InLoop, Leaving
<1>1. ASSUME NEW c \in Callers, EnableAllSessions(c) PROVE ServerApplied'
  BY <1>1 DEF EnableAllSessions
<1>2. ASSUME NEW c \in Callers, EnableDebugChannel(c) PROVE ServerApplied'
  BY <1>2 DEF EnableDebugChannel
<1>3. ASSUME NEW c \in Callers, DisableDebugChannel(c) PROVE ServerApplied'
  BY <1>3 DEF DisableDebugChannel
<1>4. ASSUME NEW c \in Callers, SetUSBStartPort(c) PROVE ServerApplied'
  BY <1>4 DEF SetUSBStartPort
<1>5. ASSUME NEW c \in Callers, LookAtTransport(c) PROVE ServerApplied'
  BY <1>5 DEF LookAtTransport
<1>6. ASSUME NEW c \in Callers, StoreDisconnected(c) PROVE ServerApplied'
  BY <1>6 DEF StoreDisconnected
<1>7. ASSUME NEW c \in Callers, MarkDirty(c) PROVE ServerApplied'
  BY <1>7 DEF MarkDirty
<1>8. ASSUME NEW c \in Callers, ClaimTask(c) PROVE ServerApplied'
  BY <1>8 DEF ClaimTask
<1>9. ASSUME NEW c \in Callers, PostTask(c) PROVE ServerApplied'
  BY <1>9 DEF PostTask
<1>10. CASE UsbClientOpens
  BY <1>10, Zenon DEF UsbClientOpens, OnOpen
<1>11. CASE UsbClientCloses
  BY <1>11 DEF UsbClientCloses, OnClosed
<1>12. CASE TaskStarts
  BY <1>12 DEF TaskStarts, BeginRound, Queued
<1>13. CASE StartPortTask
  <2>1. tasks # <<>> /\ Head(tasks) = "start_port" /\ tasks \in Seq({"update", "start_port"})
    BY <1>13 DEF StartPortTask, Queued
  <2>2. 1 \in 1..Len(tasks) /\ tasks[1] = "start_port"
    BY <2>1, TailTask
  <2> QED
    BY <2>2 DEF RequestsAreCovered
<1>14. CASE LoadEnableAll
  BY <1>14 DEF LoadEnableAll
<1>15. CASE LoadChannel
  BY <1>15 DEF LoadChannel
<1>16. CASE ExchangeRunning
  BY <1>16 DEF ExchangeRunning, Drain, Visible
<1>17. CASE ApplyServerState
  BY <1>17 DEF ApplyServerState, OnClosed
<1>18. CASE CheckDirty
  BY <1>18 DEF CheckDirty, BeginRound
<1>19. CASE ReleaseTask
  BY <1>19 DEF ReleaseTask
<1>20. CASE RecheckDirty
  BY <1>20 DEF RecheckDirty
<1>21. CASE ReclaimTask
  BY <1>21 DEF ReclaimTask, BeginRound, Visible
<1>22. CASE StoreBecomesVisible
  BY <1>22 DEF StoreBecomesVisible, Visible
<1>23. CASE UNCHANGED vars
  BY <1>23 DEF vars
<1> QED
  BY <1>1, <1>2, <1>3, <1>4, <1>5, <1>6, <1>7, <1>8, <1>9, <1>10, <1>11,
     <1>12, <1>13, <1>14, <1>15, <1>16, <1>17, <1>18, <1>19, <1>20, <1>21,
     <1>22, <1>23, Zenon
     DEF Next, CallerStep, WorkerStep

\* The initial state satisfies all parts of the invariant.
LEMMA InitialState == Init => SwitchInvariant
<1> SUFFICES ASSUME Init PROVE SwitchInvariant
  OBVIOUS
<1>1. Len(tasks) = 0 /\ tasks \in Seq({"update", "start_port"})
  BY DEF Init
<1>2. TypeOK
  BY <1>1, Zenon DEF Init, TypeOK, InLoop, Leaving
<1>3. ~HasUpdate /\ ~Posting /\ ~Claiming
  BY <1>1 DEF Init, HasUpdate, Posting, Claiming
<1>4. TokenIsUnique
  BY <1>1, <1>3 DEF Init, TokenIsUnique, InLoop
<1>5. RequestsAreCovered
  BY <1>1 DEF Init, RequestsAreCovered
<1>6. StalenessIsAnnounced
  <2>1. serverRunning = FALSE /\ ShouldServerRun = FALSE
    BY DEF Init, ShouldServerRun
  <2> QED
    BY <2>1, Zenon DEF Init, StalenessIsAnnounced
<1>7. ServerApplied
  BY Zenon DEF Init, ServerApplied
<1> QED
  BY <1>2, <1>4, <1>5, <1>6, <1>7 DEF SwitchInvariant

\* Every reachable state is typed and the scheduled token has one owner, with
\* delayed stores and with SetUSBStartPort() too.
THEOREM TokenInvariance == Spec => [](TypeOK /\ TokenIsUnique)
<1>1. Init => TypeOK /\ TokenIsUnique
  BY InitialState DEF SwitchInvariant
<1> QED
  BY <1>1, TypePreserved, TokenPreserved, PTL DEF Spec

\* UpdateServerState() never has two tasks in flight, whatever the number of
\* threads that call it and however late the executor's stores become visible.
THEOREM OneTask == Spec => []OneTaskInFlight
<1>1. TypeOK /\ TokenIsUnique => OneTaskInFlight
  BY DEF TokenIsUnique, OneTaskInFlight, HasUpdate
<1> QED
  BY <1>1, TokenInvariance, PTL

\* All parts of the invariant of the switch together.
LEMMA SwitchPreserved ==
    ASSUME NoDelay, SwitchInvariant, [Next]_vars
    PROVE  SwitchInvariant'
  BY TypePreserved, TokenPreserved, CoveragePreserved, StalenessPreserved,
     AppliedPreserved DEF SwitchInvariant

\* When nobody is at work the server is as the last request has it.
LEMMA SettledMatches == SwitchInvariant => SettledServerMatchesRequest
  BY DEF SwitchInvariant, RequestsAreCovered, StalenessIsAnnounced, ServerApplied,
     SettledServerMatchesRequest, Settled, Posting, Claiming, Announcing,
     HasUpdate, InLoop, Leaving

\* Where stores are visible in program order, every state satisfies the
\* inductive invariant.
THEOREM SwitchInvariance == ASSUME NoDelay PROVE Spec => []SwitchInvariant
<1>1. SwitchInvariant /\ [Next]_vars => SwitchInvariant'
  BY SwitchPreserved
<1> QED
  BY <1>1, InitialState, PTL DEF Spec

\* There, UpdateServerState() loses no request, for any set of threads.
THEOREM NoRequestIsLost ==
    ASSUME NoDelay PROVE Spec => []SettledServerMatchesRequest
<1>1. SwitchInvariant => SettledServerMatchesRequest
  BY SettledMatches
<1> QED
  BY <1>1, SwitchInvariance, PTL

\* The same of the two builds together: the steps of the build that delays
\* stores do not touch the one that does not.
THEOREM InOrderBuildLosesNoRequest ==
    ASSUME NoDelay PROVE MCSpec => []InOrderServerMatchesRequest
<1> DEFINE J == InOrder => SwitchInvariant
<1>1. MCInit => J
  BY InitialState DEF MCInit, InOrder
<1>2. J /\ [MCNext]_<<vars, build>> => J'
  <2> SUFFICES ASSUME J, [MCNext]_<<vars, build>>, InOrder' PROVE SwitchInvariant'
    OBVIOUS
  <2>1. InOrder /\ [Next]_vars
    BY DEF MCNext, InOrder
  <2> QED
    BY <2>1, SwitchPreserved
<1>3. J => InOrderServerMatchesRequest
  BY SettledMatches DEF InOrderServerMatchesRequest
<1> QED
  BY <1>1, <1>2, <1>3, PTL DEF MCSpec

-----------------------------------------------------------------------------
(* The listen thread: module ListenThread.                                 *)

\* A valid descriptor is a fresh socket, except between the shutdown() and
\* the Close() of StopServer(); and only StopServer() takes the descriptor
\* away from a thread that blocks in accept().
SocketInv ==
    /\ exec # "close" /\ fd => ~shut
    /\ exec \in {"idle", "shutdown"} /\ listen = "accept" => fd

\* What the executor thread left behind when it last returned.
IInv == ListenTypeOK /\ SocketInv /\ StoppedMeansListenerIsOut

\* The listen thread has not started and there is no socket.
LEMMA InitIInv == ListenInit => IInv
<1> SUFFICES ASSUME ListenInit PROVE IInv
  OBVIOUS
<1>1. running \in BOOLEAN /\ fd \in BOOLEAN /\ shut \in BOOLEAN
  BY Zenon DEF ListenInit
<1>2. serving = (listen # "wait")
  BY Zenon DEF ListenInit
<1>3. calls \in 0..MaxCalls
  BY MaxCallsNat DEF ListenInit
<1>4. ListenTypeOK
  BY <1>1, <1>2, <1>3 DEF ListenInit, ListenTypeOK
<1> QED
  BY <1>4 DEF ListenInit, IInv, SocketInv, StoppedMeansListenerIsOut

\* The steps of StartServer() and StopServer().
LEMMA ExecutorPreserves ==
    ASSUME IInv, ExecutorStep \/ StartServer \/ StopServer
    PROVE  IInv'
<1> USE MaxCallsNat DEF IInv, ListenTypeOK, SocketInv, StoppedMeansListenerIsOut,
                        listenVars
<1>1. CASE ShutdownSocket
  BY <1>1 DEF ShutdownSocket
<1>2. CASE Close
  BY <1>2, Zenon DEF Close
<1>3. CASE WaitNotServing
  BY <1>3, Zenon DEF WaitNotServing
<1>4. CASE StartServer
  BY <1>4 DEF StartServer
<1>5. CASE StopServer
  <2>1. running' \in BOOLEAN
    BY <1>5, Zenon DEF StopServer
  <2> QED
    BY <1>5, <2>1 DEF StopServer
<1> QED
  BY <1>1, <1>2, <1>3, <1>4, <1>5 DEF ExecutorStep

\* The steps of the listen thread and of the tools that connect.
LEMMA ListenerPreserves ==
    ASSUME IInv, ListenStep \/ Accept
    PROVE  IInv'
<1> USE MaxCallsNat DEF IInv, ListenTypeOK, SocketInv, StoppedMeansListenerIsOut,
                        serverVars
<1>1. CASE BeginServing
  BY <1>1, Zenon DEF BeginServing
<1>2. CASE CreateSocket
  <2>1. fd' \in BOOLEAN /\ shut' \in BOOLEAN
    BY <1>2, Zenon DEF CreateSocket
  <2> QED
    BY <1>2, <2>1 DEF CreateSocket
<1>3. CASE BindSocket
  BY <1>3, Zenon DEF BindSocket
<1>4. CASE CallAccept
  BY <1>4 DEF CallAccept
<1>5. CASE AcceptFails
  BY <1>5, Zenon DEF AcceptFails
<1>6. CASE EndServing
  BY <1>6, Zenon DEF EndServing
<1>7. CASE Accept
  BY <1>7 DEF Accept
<1> QED
  BY <1>1, <1>2, <1>3, <1>4, <1>5, <1>6, <1>7 DEF ListenStep

\* Steps that leave the listen side alone.
LEMMA StutterPreserves ==
    ASSUME IInv, UNCHANGED listenerVars
    PROVE  IInv'
  BY DEF IInv, ListenTypeOK, SocketInv, StoppedMeansListenerIsOut, listenerVars, listenVars,
         serverVars

\* IInv holds in every reachable state.
THEOREM Invariance == ListenSpec => []IInv
<1>1. IInv /\ [ListenNext]_listenerVars => IInv'
  BY ExecutorPreserves, ListenerPreserves, StutterPreserves DEF ListenNext
<1> QED
  BY <1>1, InitIInv, PTL DEF ListenSpec

\* When StopServer() has returned the listen thread is out of Start(), however
\* often the server is switched.
THEOREM StoppedListenerIsOut == ListenSpec => []StoppedMeansListenerIsOut
<1>1. IInv => StoppedMeansListenerIsOut
  BY DEF IInv
<1> QED
  BY <1>1, Invariance, PTL

\* While the server is enabled, a listen thread in accept() waits on a socket
\* that is open and was not shut down by an earlier StopServer().
THEOREM EnabledListenerIsReachable == ListenSpec => []EnabledServerIsReachable
<1>1. IInv => EnabledServerIsReachable
  BY DEF IInv, ListenTypeOK, SocketInv, EnabledServerIsReachable
<1> QED
  BY <1>1, Invariance, PTL

-----------------------------------------------------------------------------
(* The whole server: module SocketServer.                                  *)

\* The executor thread waits in StopServer() for as long as ListenThread says
\* it is in there, and the server is disabled then.
JointInv ==
    /\ IInv
    /\ task = "wait" <=> exec # "idle"
    /\ exec # "idle" => ~running

\* A step of the clients, of the core or of the threads that stop clients
ClientSideStep ==
    \/ StopsClients \/ Handles \/ Cleans \/ Outside
    \/ \E k \in Clients : ClientRuns(k)

\* The client side neither takes the executor into the wait of StopServer() nor
\* out of it.
LEMMA ClientSideKeeps ==
    ASSUME ListenTypeOK, ClientSideStep
    PROVE  /\ UNCHANGED <<running, serving, listen, exec, fd, shut>>
           /\ calls' \in 0..MaxCalls
           /\ task' = "wait" <=> task = "wait"
<1>1. UNCHANGED <<serving, listen, exec, fd, shut>>
  BY DEF ClientSideStep, StopsClients, Handles, Cleans, Outside, ClientRuns, socketVars, listenVars
<1>2. CASE StopsClients
  BY <1>1, <1>2 DEF StopsClients, Server!StopDropped, Server!StopServerGoesOn, ListenTypeOK
<1>3. CASE Handles
  BY <1>1, <1>3, Zenon DEF Handles, Server!HandleOnOpenStatus, Server!HandleOnEndStatus, Server!EventDone,
     Server!serverVars, ListenTypeOK
<1>4. CASE Cleans
  BY <1>1, <1>4, Zenon DEF Cleans, Server!CleanerStep, Server!CleanerStops, Server!CleanerDone,
     Server!serverVars, ListenTypeOK
<1>5. CASE Server!Disconnect
  BY <1>1, <1>5, MaxCallsNat DEF Server!Disconnect, ListenTypeOK
<1>6. CASE \E k \in Clients : \/ Server!ClientStep(k) \/ Server!FirstHeader(k)
                               \/ Server!PeerLeaves(k)
  <2>1. Server!ClientOnly
    BY <1>6, Zenon DEF Server!ClientStep, Server!FirstHeader, Server!PeerLeaves, Server!StartInternal,
       Server!TakeTask, Server!NoFirstHeader, Server!MarkConnected, Server!AnnounceOpen, Server!ReadEnds,
       Server!WriteEnds, Server!NotifyErrorOnce, Server!ReportClosed, Server!ReportIfConnected,
       Server!JoinThreads
  <2> QED
    BY <1>1, <2>1 DEF Server!ClientOnly, Server!serverVars, ListenTypeOK
<1> QED
  BY <1>2, <1>3, <1>4, <1>5, <1>6, Zenon DEF ClientSideStep, Outside, ClientRuns

\* Both halves of the executor thread stay in step.
LEMMA JointPreserved ==
    ASSUME JointInv, [ServerNext]_allVars
    PROVE  JointInv'
<1>1. IInv
  BY DEF JointInv
<1>2. CASE ClientSideStep
  <2>1. /\ UNCHANGED <<running, serving, listen, exec, fd, shut>>
        /\ calls' \in 0..MaxCalls /\ (task' = "wait" <=> task = "wait")
    BY <1>1, <1>2, ClientSideKeeps DEF IInv
  <2>2. IInv'
    BY <1>1, <2>1 DEF IInv, ListenTypeOK, SocketInv, StoppedMeansListenerIsOut
  <2> QED
    BY <2>1, <2>2 DEF JointInv
<1>3. CASE Listens \/ \E k \in Clients : Accepts(k)
  <2>1. IInv'
    BY <1>1, <1>3, ListenerPreserves DEF Listens, Accepts
  <2>2. UNCHANGED <<exec, running, task>>
    BY <1>3 DEF Listens, Accepts, ListenStep, BeginServing, CreateSocket, BindSocket, CallAccept, AcceptFails,
       EndServing, Accept, serverVars, clientSide
  <2> QED
    BY <2>1, <2>2 DEF JointInv
<1>4. CASE StopsSocket \/ ServerStarts \/ ServerStops \/ ListenerIsOut
  <2>1. IInv'
    BY <1>1, <1>4, ExecutorPreserves
       DEF StopsSocket, ServerStarts, ServerStops, ListenerIsOut, ExecutorStep
  <2>2. (task' = "wait" <=> exec' # "idle") /\ (exec' # "idle" => ~running')
    <3>1. CASE StopsSocket
      BY <3>1 DEF JointInv, StopsSocket, ShutdownSocket, Close, clientSide
    <3>2. CASE ServerStarts
      BY <3>2 DEF JointInv, ServerStarts, StartServer, clientSide
    <3>3. CASE ServerStops
      BY <3>3 DEF JointInv, ServerStops, StopServer, Server!StopServer
    <3>4. CASE ListenerIsOut
      BY <3>4 DEF JointInv, ListenerIsOut, WaitNotServing, Server!Drop
    <3> QED
      BY <1>4, <3>1, <3>2, <3>3, <3>4
  <2> QED
    BY <2>1, <2>2 DEF JointInv
<1>5. CASE UNCHANGED allVars
  BY <1>1, <1>5, StutterPreserves DEF JointInv, allVars, listenerVars, serverVars, clientSide
<1> QED
  BY <1>2, <1>3, <1>4, <1>5, Zenon DEF ServerNext, Executes, ClientSideStep

\* A step of the whole server is one of UsbServer, or none there.
LEMMA StepRefines ==
    ASSUME JointInv, [ServerNext]_allVars
    PROVE  [Server!Next]_(Server!vars)
<1>1. ListenTypeOK /\ StoppedMeansListenerIsOut
  BY DEF JointInv, IInv
<1>2. CASE ClientSideStep
  BY <1>2, Zenon DEF ClientSideStep, StopsClients, Handles, Cleans, Outside, ClientRuns, Server!Next,
     Server!ExecutorStep
<1>3. ASSUME NEW k \in Clients, Accepts(k) PROVE Server!Accept(k)
  <2>1. listen = "accept" /\ listen' = "leave" /\ UNCHANGED <<running, calls, task>>
        /\ Server!TakeClient(k)
    BY <1>3 DEF Accepts, Accept, serverVars
  <2>2. running \/ waits
    BY <1>1, <2>1 DEF JointInv, waits, ListenTypeOK, StoppedMeansListenerIsOut
  <2>3. waits' = FALSE
    BY <2>1 DEF waits
  <2> QED
    BY <2>1, <2>2, <2>3 DEF Server!Accept
<1>4. CASE Listens
  <2>1. UNCHANGED clientSide /\ UNCHANGED <<running, exec, calls>>
    BY <1>4 DEF Listens, ListenStep, BeginServing, CreateSocket, BindSocket, CallAccept, AcceptFails,
       EndServing, serverVars
  <2>2. waits' => waits
    BY <1>4 DEF JointInv, Listens, ListenStep, BeginServing, CreateSocket, BindSocket, CallAccept,
       AcceptFails, EndServing, clientSide, waits
  <2>3. CASE waits /\ ~waits'
    <3>1. waits' = FALSE
      BY <2>3 DEF waits
    <3>2. Server!AcceptFails
      BY <2>1, <2>3, <3>1 DEF clientSide, Server!AcceptFails, Server!clientVars, Server!cleanVars
    <3> QED
      BY <3>2 DEF Server!Next
  <2>4. CASE waits <=> waits'
    <3>1. waits' = waits
      BY <2>4, Zenon DEF waits
    <3> QED
      BY <2>1, <3>1 DEF clientSide, Server!vars, Server!clientVars, Server!cleanVars, Server!serverVars
  <2> QED
    BY <2>2, <2>3, <2>4
<1>5. CASE StopsSocket
  <2>1. UNCHANGED <<clientSide, running, calls, listen>>
    BY <1>5 DEF StopsSocket, ShutdownSocket, Close, listenVars
  <2>2. UNCHANGED waits
    BY <2>1 DEF clientSide, waits
  <2> QED
    BY <2>1, <2>2 DEF clientSide, Server!vars, Server!clientVars, Server!cleanVars, Server!serverVars
<1>6. CASE ServerStarts
  <2>1. Server!StartServer
    <3>1. UNCHANGED waits
      BY <1>6 DEF ServerStarts, StartServer, clientSide, listenVars, waits
    <3> QED
      BY <1>6, <3>1 DEF ServerStarts, StartServer, clientSide, Server!StartServer, Server!clientVars,
         Server!cleanVars
  <2> QED
    BY <2>1 DEF Server!Next
<1>7. CASE ServerStops
  BY <1>7, Zenon DEF ServerStops, Server!Next
<1>8. CASE ListenerIsOut
  <2>1. ~serving /\ UNCHANGED <<running, calls, listen>> /\ Server!Drop /\ listen = "wait"
    BY <1>1, <1>8 DEF ListenerIsOut, WaitNotServing, listenVars, ListenTypeOK
  <2>2. waits = FALSE /\ UNCHANGED waits
    BY <2>1 DEF waits
  <2>3. Server!DropClients
    BY <2>1, <2>2 DEF Server!DropClients
  <2> QED
    BY <2>3 DEF Server!Next, Server!ExecutorStep
<1>9. CASE UNCHANGED allVars
  <2>1. UNCHANGED waits
    BY <1>9 DEF allVars, listenerVars, listenVars, clientSide, waits
  <2> QED
    BY <1>9, <2>1 DEF allVars, listenerVars, serverVars, clientSide, Server!vars, Server!clientVars,
       Server!cleanVars, Server!serverVars
<1>10. CASE \E k \in Clients : Accepts(k)
  BY <1>3, <1>10 DEF Server!Next
<1> QED
  BY <1>2, <1>4, <1>5, <1>6, <1>7, <1>8, <1>9, <1>10, Zenon DEF ServerNext, Executes, ClientSideStep

\* At the start the executor is in neither half of StopServer().
LEMMA InitJoint == ServerInit => JointInv
  BY InitIInv DEF ServerInit, Server!Init, ListenInit, JointInv

\* The listen thread and the clients together implement UsbServer, for any
\* number of clients and calls: accept() brings a client only while the server
\* is enabled or, once, while StopServer() waits, and the clients are dropped
\* only when none can come any more.
THEOREM ServerImplementsUsbServer == ServerSpec => ImplementsUsbServer
<1>1. ServerInit => Server!Init
  BY DEF ServerInit
<1>2. JointInv /\ [ServerNext]_allVars => JointInv'
  BY JointPreserved
<1>3. JointInv /\ [ServerNext]_allVars => [Server!Next]_(Server!vars)
  BY StepRefines
<1> QED
  BY <1>1, <1>2, <1>3, InitJoint, PTL DEF ServerSpec, ImplementsUsbServer, Server!Spec

\* What is proved of the listen thread alone holds in the whole server.
THEOREM WholeServerListens == ServerSpec => [](StoppedMeansListenerIsOut /\ EnabledServerIsReachable)
<1>1. JointInv /\ [ServerNext]_allVars => JointInv'
  BY JointPreserved
<1>2. JointInv => StoppedMeansListenerIsOut /\ EnabledServerIsReachable
  BY DEF JointInv, IInv, ListenTypeOK, SocketInv, EnabledServerIsReachable
<1> QED
  BY <1>1, <1>2, InitJoint, PTL DEF ServerSpec
=============================================================================
