--------------------------- MODULE RsTransaction ---------------------------
(***************************************************************************)
(* `ryx_rs::transaction(|tx| async { ... })` (ryx-rs/src/transaction.rs):  *)
(* futures that run closures inside a transaction over the same handle and *)
(* slot the Python interface uses.  The function never commits: a closure  *)
(* commits its handle, or leaves it to be rolled back when the last        *)
(* reference to it is dropped.  It writes None into the slot when the      *)
(* closure returns, and nothing when its future is dropped at an await.    *)
(***************************************************************************)
EXTENDS TransactionHandle

CONSTANTS
  Task,       \* tokio tasks
  MayNest,    \* may a closure call transaction() again?
  MayCancel   \* may a task be dropped at an await?

ASSUME TaskAssumption == None \notin Task
ASSUME StmtAssumption == None \notin Stmt
ASSUME MayAssumption == MayNest \in BOOLEAN /\ MayCancel \in BOOLEAN

VARIABLES
  cur,      \* the handle of the innermost closure a task runs
  below,    \* the handle of the closure that called this handle's
  owner,    \* the task whose closure holds a handle
  current,  \* the statement a task awaits
  stmt,     \* the statements and their fate
  dropped   \* history: was a future dropped at an await?

rsVars == <<cur, below, owner, current, stmt, dropped>>
vars == <<handleVars, rsVars>>

Handle == Tx \cup {None}

Blank(st) == [st |-> st, home |-> None, seen |-> None]

RsTypeOK ==
  /\ HandleTypeOK
  /\ cur \in [Task -> Handle]
  /\ below \in [Tx -> Handle]
  /\ owner \in [Tx -> Task \cup {None}]
  /\ current \in [Task -> Stmt \cup {None}]
  /\ stmt \in [Stmt -> [st : {"new", "pending", "ok", "failed"},
                        home : Handle, seen : Handle]]
  /\ dropped \in BOOLEAN

Init ==
  /\ HandleInit
  /\ cur = [t \in Task |-> None]
  /\ below = [h \in Tx |-> None]
  /\ owner = [h \in Tx |-> None]
  /\ current = [t \in Task |-> None]
  /\ stmt = [s \in Stmt |-> Blank("new")]
  /\ dropped = FALSE

-----------------------------------------------------------------------------
(* The Arc around a handle is held by its closure, by the slot and by the   *)
(* statements that read it; when the last one goes, the open connection is  *)
(* dropped and rolls back.                                                  *)
Referenced(h) ==
  \/ owner[h] # None
  \/ slot = h
  \/ \E t \in Task : current[t] # None /\ stmt[current[t]].seen = h

(* What became of a handle: an unreferenced one was rolled back on drop.    *)
Outcome(h) == IF Held(h) /\ ~Referenced(h) THEN "rolledback" ELSE state[h]

Running(t) == current[t] = None

(* transaction() up to the call of the closure.                             *)
Begin(t, h) ==
  /\ Running(t)
  /\ cur[t] # None => MayNest
  /\ HandleBegin(h, AnyAlias)
  /\ SetCurrent(h)
  /\ cur' = [cur EXCEPT ![t] = h]
  /\ below' = [below EXCEPT ![h] = cur[t]]
  /\ owner' = [owner EXCEPT ![h] = t]
  /\ UNCHANGED <<current, stmt, dropped>>

(* tx.commit() and tx.rollback(), which the closure may call at any time.   *)
CommitOrRollback(t) ==
  /\ Running(t) /\ cur[t] # None
  /\ HandleCommit(cur[t]) \/ HandleRollback(cur[t])
  /\ UNCHANGED <<slot, rsVars>>

(* Mutation: the closure's result is returned before the slot is cleared.   *)
ReturnKeepsSlot(t) ==
  /\ Running(t) /\ cur[t] # None
  /\ cur' = [cur EXCEPT ![t] = below[cur[t]]]
  /\ owner' = [owner EXCEPT ![cur[t]] = None]
  /\ below' = [below EXCEPT ![cur[t]] = None]
  /\ UNCHANGED <<handleVars, current, stmt, dropped>>

(* The closure returns, Ok or Err, and its handle is dropped.               *)
Return(t) ==
  /\ Running(t) /\ cur[t] # None
  /\ SetCurrent(None)
  /\ cur' = [cur EXCEPT ![t] = below[cur[t]]]
  /\ owner' = [owner EXCEPT ![cur[t]] = None]
  /\ below' = [below EXCEPT ![cur[t]] = None]
  /\ UNCHANGED <<state, alias, log, durable, current, stmt, dropped>>

(* The task's future is dropped: closures, handles and the statement it     *)
(* awaits go, the slot stays.                                               *)
Cancel(t) ==
  /\ MayCancel
  /\ cur[t] # None \/ current[t] # None
  /\ cur' = [cur EXCEPT ![t] = None]
  /\ owner' = [h \in Tx |-> IF owner[h] = t THEN None ELSE owner[h]]
  /\ below' = [h \in Tx |-> IF owner[h] = t THEN None ELSE below[h]]
  /\ current' = [current EXCEPT ![t] = None]
  /\ stmt' = [s \in Stmt |-> IF s = current[t] THEN Blank("failed") ELSE stmt[s]]
  /\ dropped' = TRUE
  /\ UNCHANGED handleVars

Issue(t, s) ==
  /\ Running(t) /\ stmt[s].st = "new"
  /\ stmt' = [stmt EXCEPT ![s] = [st |-> "pending", home |-> cur[t],
                                  seen |-> Dispatch("query")]]
  /\ current' = [current EXCEPT ![t] = s]
  /\ UNCHANGED <<handleVars, cur, below, owner, dropped>>

Execute(t) ==
  LET s == current[t] IN
  /\ s # None
  /\ IF stmt[s].seen = None THEN PoolExecute(s)
                            ELSE HandleExecute(stmt[s].seen, s)
  /\ stmt' = [stmt EXCEPT ![s].st = "ok"]
  /\ current' = [current EXCEPT ![t] = None]
  /\ UNCHANGED <<slot, cur, below, owner, dropped>>

Refuse(t) ==
  LET s == current[t] IN
  /\ s # None
  /\ IF stmt[s].seen = None THEN UNCHANGED <<state, alias, log, durable>>
                            ELSE HandleError(stmt[s].seen)
  /\ stmt' = [stmt EXCEPT ![s] = Blank("failed")]
  /\ current' = [current EXCEPT ![t] = None]
  /\ UNCHANGED <<slot, cur, below, owner, dropped>>

TaskStep(t) ==
  \/ \E h \in Tx : Begin(t, h)
  \/ CommitOrRollback(t) \/ Return(t) \/ Cancel(t)
  \/ \E s \in Stmt : Issue(t, s)
  \/ Execute(t) \/ Refuse(t)

Next == \E t \in Task : TaskStep(t)

Spec == Init /\ [][Next]_vars

(* The runtime polls an awaited statement until it is answered.             *)
Fairness == \A t \in Task : WF_vars(Execute(t) \/ Refuse(t))

-----------------------------------------------------------------------------
(* A write that read a handle from the slot is permanent only if that       *)
(* handle was committed, also when the handle outlives its closure in the   *)
(* slot or in another task's statement.                                     *)
NoLateLeak ==
  \A s \in durable : stmt[s].seen # None => state[stmt[s].seen] = "committed"

(* Unless a future was dropped, the slot names no handle whose closure has  *)
(* returned: what a closure did not commit can only be kept by statements   *)
(* that already read it.                                                    *)
ReturnLeavesSlot == ~dropped /\ slot # None => owner[slot] # None

(* "All operations auto-rollback if the closure returns an error": once a   *)
(* closure is gone and the slot no longer names its handle, the handle      *)
(* ends, although nobody rolls it back.  Without a dropped future the slot  *)
(* does not name it.                                                        *)
AutoRollback ==
  \A h \in Tx :
    Held(h) /\ owner[h] = None /\ (slot = h => ~dropped)
      ~> Outcome(h) \in {"rolledback", "committed"}

(* With one task that does not nest closures and is never dropped, every    *)
(* statement runs where its closure is: on the closure's handle inside one, *)
(* on the pool outside.                                                     *)
Enlisted == \A s \in Stmt : stmt[s].st \in {"pending", "ok"} => stmt[s].seen = stmt[s].home

-----------------------------------------------------------------------------
Phase == [h \in Tx |-> IF Held(h) THEN "open" ELSE state[h]]
Pending == [h \in Tx |-> Written(h)]

Blocks == INSTANCE AtomicBlocks WITH
  Block <- Tx,
  phase <- Phase,
  pending <- Pending,
  answer <- [s \in Stmt |-> stmt[s].st],
  home <- [s \in Stmt |-> stmt[s].seen]

(* Whatever closures and tasks do to the slot, a write takes effect with    *)
(* the transaction of the handle it read and only with it, or at once if it *)
(* read none: with handles for blocks this is AtomicBlocks.                 *)
HandlesSpec == Blocks!Spec
=============================================================================
