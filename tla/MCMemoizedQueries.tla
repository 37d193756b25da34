------------------------- MODULE MCMemoizedQueries -------------------------
(***************************************************************************)
(* Model checking MemoizedQueries with one runtime of either kind.  The    *)
(* table is keyed by runtime and every handler touches the entries of one  *)
(* or clears them all, so that a second runtime adds only the product of   *)
(* the two state spaces; requesters share an entry and there are several.  *)
(***************************************************************************)
EXTENDS MemoizedQueries

OneRuntime == \E c \in Runtimes : \A d \in Runtimes \ {c} : status[d] = "new"

MCSpec == Init /\ [][Next /\ OneRuntime']_vars /\ Fairness
=============================================================================
