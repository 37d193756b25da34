---------------------------- MODULE RequestReply ----------------------------
(***************************************************************************)
(* What the daemon host promises its requesters, without routes, timers,   *)
(* connections or ownership: a request is open until it is answered or     *)
(* cancelled, an answer goes to the requester, once, under the id the      *)
(* requester chose, and a closed request stays closed.                     *)
(***************************************************************************)
EXTENDS Naturals

CONSTANTS Requesters, OriginalIds, Runtimes

VARIABLES
    count,      \* how many requests were made
    asked,      \* the requests 1..count
    status,     \* "open", "answered" or "cancelled", per request
    received    \* the answers each requester has received

vars == <<count, asked, status, received>>

Question ==
    [requesterId : Requesters, originalId : OriginalIds, clientId : Runtimes]

Init ==
    /\ count = 0
    /\ asked = [g \in {} |-> 0]
    /\ status = [g \in {} |-> 0]
    /\ received = [r \in Requesters |-> {}]

\* A new request; it is cancelled at once when it cannot be sent.
Ask(q, st) ==
    /\ count' = count + 1
    /\ asked' = [g \in 1..(count + 1) |-> IF g = count + 1 THEN q ELSE asked[g]]
    /\ status' = [g \in 1..(count + 1) |->
                    IF g = count + 1 THEN st ELSE status[g]]
    /\ UNCHANGED received

Answer(g) ==
    /\ status[g] = "open"
    /\ status' = [status EXCEPT ![g] = "answered"]
    /\ received' = [received EXCEPT ![asked[g].requesterId] =
                      @ \cup {[gid |-> g, id |-> asked[g].originalId,
                               from |-> asked[g].clientId]}]
    /\ UNCHANGED <<count, asked>>

Cancel(S) ==
    /\ \A g \in S : status[g] = "open"
    /\ status' = [g \in 1..count |->
                    IF g \in S THEN "cancelled" ELSE status[g]]
    /\ UNCHANGED <<count, asked, received>>

Next ==
    \/ \E q \in Question, st \in {"open", "cancelled"} : Ask(q, st)
    \/ \E g \in 1..count : Answer(g)
    \/ \E S \in SUBSET (1..count) : Cancel(S)

Spec == Init /\ [][Next]_vars
=============================================================================
