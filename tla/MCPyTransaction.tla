-------------------------- MODULE MCPyTransaction --------------------------
(* Instances of PyTransaction for TLC; see the .cfg files.                  *)
EXTENDS PyTransaction, TLC

(* Handles and writes are interchangeable.                                  *)
HandleSymmetry == Permutations(Tx) \cup Permutations(Stmt)
=============================================================================
