----------------------------- MODULE MCHandles -----------------------------
(* The two ways a transaction handle is shared, one in a run at a time:     *)
(* the closures of tokio tasks (RsTransaction), and the coroutines of a     *)
(* Python program on one handle (GilLock); see Handles.cfg.                 *)
EXTENDS RsTransaction, GilLock, TLC

VARIABLE part   \* which of the two a behaviour shows

MCInit ==
  /\ part \in {"closures", "coroutines"}
  /\ Init /\ GilInit

MCNext ==
  /\ UNCHANGED part
  /\ \/ part = "closures" /\ Next /\ UNCHANGED gilVars
     \/ part = "coroutines" /\ GilNext /\ UNCHANGED vars

\* What is fair in one part is never possible in the first state of the other
MCSpec == MCInit /\ [][MCNext]_<<part, vars, gilVars>> /\ Fairness /\ GilFairness
=============================================================================
