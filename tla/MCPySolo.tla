------------------------------ MODULE MCPySolo ------------------------------
(* Two parts of a Python program that share nothing, one in a run at a      *)
(* time: the blocks of a task that is alone (PyTransaction), and cached     *)
(* reads with writes that overtake them (QueryCache); see PySolo.cfg.       *)
EXTENDS PyTransaction, QueryCache, TLC

VARIABLE part   \* which of the two a behaviour shows

MCInit ==
  /\ part \in {"blocks", "reads"}
  /\ Init /\ CacheInit

MCNext ==
  /\ UNCHANGED part
  /\ \/ part = "blocks" /\ Next /\ UNCHANGED cacheVars
     \/ part = "reads" /\ CacheNext /\ UNCHANGED vars

MCSpec == MCInit /\ [][MCNext]_<<part, vars, cacheVars>>

(* Cached calls are interchangeable.                                        *)
ReaderSymmetry == Permutations(Reader)
=============================================================================
