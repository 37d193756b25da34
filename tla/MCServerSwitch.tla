--------------------------- MODULE MCServerSwitch ---------------------------
(***************************************************************************)
(* Model checking ServerSwitch in both of its builds at once: the first    *)
(* step picks one that makes the executor's stores visible in program      *)
(* order and has no SetUSBStartPort() (the constants of the module), or    *)
(* one that delays stores and changes the start port.                      *)
(***************************************************************************)
EXTENDS ServerSwitch

CONSTANT RelaxedCallers  \* application threads of the second build

VARIABLE build

Relaxed == INSTANCE ServerSwitch
             WITH Callers <- RelaxedCallers, Delayed <- TRUE, IosStartPort <- TRUE

InOrder == build = "in order"

MCInit ==
    \/ InOrder /\ Init
    \/ build = "relaxed" /\ Relaxed!Init

MCNext ==
    /\ \/ InOrder /\ Next
       \/ build = "relaxed" /\ Relaxed!Next
    /\ UNCHANGED build

\* The fairness of ServerSwitch, for the build whose liveness is checked.
MCSpec ==
    /\ MCInit /\ [][MCNext]_<<vars, build>>
    /\ \A c \in Callers : WF_vars(InOrder /\ CallerStep(c))
    /\ WF_vars(InOrder /\ WorkerStep)

\* With stores visible in program order UpdateServerState() loses no request.
InOrderServerMatchesRequest == InOrder => SettledServerMatchesRequest

\* With stores visible in program order the server follows a switch that
\* stays in one position (UpdateServerState() and its task).
InOrderServerFollowsSwitch == InOrder => ServerFollowsSwitch
=============================================================================
