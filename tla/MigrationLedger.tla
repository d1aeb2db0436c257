--------------------------- MODULE MigrationLedger ---------------------------
(***************************************************************************)
(* What applying migration files promises, whatever runs them: on every    *)
(* database the operations meant for it take effect in the order of the    *)
(* files, a file is recorded when all of its operations are in effect, and *)
(* neither is ever undone.                                                 *)
(***************************************************************************)
EXTENDS Naturals, FiniteSets

CONSTANTS
  Alias,    \* the databases
  Step,     \* the operations of all files
  Order,   \* their order, a set of pairs
  Meant,   \* the operations meant for a database
  File,     \* the migration files
  FileOf    \* the file of an operation

VARIABLES
  done,     \* the operations in effect on a database
  recorded  \* the files recorded there

LInit ==
  /\ done = [a \in Alias |-> {}]
  /\ recorded = [a \in Alias |-> {}]

(* An operation takes effect, after all before it.                          *)
Perform(a, s) ==
  /\ s \in Meant[a]
  /\ \A t \in Meant[a] : <<t, s>> \in Order => t \in done[a]
  /\ done' = [done EXCEPT ![a] = @ \cup {s}]
  /\ UNCHANGED recorded

Complete(a, f) == \A s \in Meant[a] : FileOf[s] = f => s \in done[a]

(* A file is recorded, after all of its operations.                         *)
Record(a, f) ==
  /\ Complete(a, f)
  /\ recorded' = [recorded EXCEPT ![a] = @ \cup {f}]
  /\ UNCHANGED done

LNext ==
  \E a \in Alias : (\E s \in Step : Perform(a, s)) \/ (\E f \in File : Record(a, f))

LSpec == LInit /\ [][LNext]_<<done, recorded>>

(* What is recorded is in effect.                                           *)
LRecordedApplied == \A a \in Alias : \A f \in recorded[a] : Complete(a, f)

(* No operation is in effect before one that comes earlier.                 *)
LInOrder ==
  \A a \in Alias : \A s \in done[a], t \in Meant[a] : <<t, s>> \in Order => t \in done[a]
=============================================================================
