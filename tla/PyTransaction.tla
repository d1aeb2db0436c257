--------------------------- MODULE PyTransaction ---------------------------
(***************************************************************************)
(* `async with ryx.transaction(alias)` (ryx-python/ryx/transaction.py) and *)
(* the asyncio tasks that run inside such blocks.                          *)
(*                                                                         *)
(* A task reads its own ContextVar _active_tx to decide between BEGIN and  *)
(* SAVEPOINT, while the statements it issues are enlisted through the      *)
(* process-wide slot.  An action is the code between two awaits: a         *)
(* statement reads the slot in one step and runs in a later one, and       *)
(* __aexit__ restores ContextVar and slot in one step and ends the         *)
(* transaction in a later one.                                             *)
(***************************************************************************)
EXTENDS TransactionHandle

CONSTANTS
  Task,        \* asyncio tasks
  Child,       \* those of them that another task creates while it runs
  Kinds,       \* {"query"}, {"bulk"} or both: entry points statements take
  CrossAlias,  \* may a statement name another database than its block's?
  NestMark,    \* the savepoint name a nested block generates
  UserMark,    \* the savepoint names user code chooses
  MaxNest      \* bound on open nested blocks of a task on one handle

ASSUME TaskAssumption == Child \subseteq Task /\ None \notin Task
ASSUME KindsAssumption == Kinds \subseteq {"query", "bulk"}
ASSUME MarksAssumption == NestMark \in Mark /\ UserMark \subseteq Mark
ASSUME MaxNestAssumption == MaxNest \in Nat
ASSUME CrossAliasAssumption == CrossAlias \in BOOLEAN

VARIABLES
  ctx,      \* _active_tx: each task's own view of the current handle
  nest,     \* open nested blocks of a task on a handle
  owner,    \* the task whose open block began the handle, if it is open
  prev,     \* _previous_tx of that block (what its token restores, too)
  pc,       \* what a task does: see PyTypeOK
  current,  \* the statement a task awaits
  leaving,  \* the handle a task is ending in __aexit__
  stmt      \* the statements and their fate

pyVars == <<ctx, nest, owner, prev, pc, current, leaving, stmt>>
vars == <<handleVars, pyVars>>

Handle == Tx \cup {None}

(* home is the innermost block the issuing task had open, db the database   *)
(* the statement is routed to, seen the handle its backend call read.       *)
StmtRecord ==
  [st : {"new", "pending", "ok", "failed"}, home : Handle, db : Alias,
   kind : {"query", "bulk"}, seen : Handle]

Blank(st) ==
  [st |-> st, home |-> None, db |-> AnyAlias, kind |-> "query", seen |-> None]

(* "unborn": not created yet; "body": runs user code; "raised": an          *)
(* exception propagates through user code; "stmt": awaits a statement;      *)
(* "commit", "rollback": awaits that call at the end of __aexit__.          *)
PyTypeOK ==
  /\ ctx \in [Task -> Handle]
  /\ nest \in [Task -> [Tx -> 0..MaxNest]]
  /\ owner \in [Tx -> Task \cup {None}]
  /\ prev \in [Tx -> Handle]
  /\ pc \in [Task -> {"unborn", "body", "raised", "stmt", "commit", "rollback"}]
  /\ current \in [Task -> Stmt \cup {None}]
  /\ leaving \in [Task -> Handle]
  /\ stmt \in [Stmt -> StmtRecord]

PyInit ==
  /\ ctx = [t \in Task |-> None]
  /\ nest = [t \in Task |-> [h \in Tx |-> 0]]
  /\ owner = [h \in Tx |-> None]
  /\ prev = [h \in Tx |-> None]
  /\ pc = [t \in Task |-> IF t \in Child THEN "unborn" ELSE "body"]
  /\ current = [t \in Task |-> None]
  /\ leaving = [t \in Task |-> None]
  /\ stmt = [s \in Stmt |-> Blank("new")]

Init == HandleInit /\ PyInit

-----------------------------------------------------------------------------
(* asyncio.create_task: the child starts with a copy of the context.        *)
Spawn(t, c) ==
  /\ pc[t] = "body" /\ pc[c] = "unborn"
  /\ pc' = [pc EXCEPT ![c] = "body"]
  /\ ctx' = [ctx EXCEPT ![c] = ctx[t]]
  /\ UNCHANGED <<handleVars, nest, owner, prev, current, leaving, stmt>>

(* User code raises, is cancelled, or handles an exception.                 *)
Raise(t) ==
  /\ pc[t] = "body"
  /\ pc' = [pc EXCEPT ![t] = "raised"]
  /\ UNCHANGED <<handleVars, ctx, nest, owner, prev, current, leaving, stmt>>

Catch(t) ==
  /\ pc[t] = "raised"
  /\ pc' = [pc EXCEPT ![t] = "body"]
  /\ UNCHANGED <<handleVars, ctx, nest, owner, prev, current, leaving, stmt>>

(* __aenter__ outside any block, or in a block of another database: BEGIN.  *)
Begin(t, h, a) ==
  /\ pc[t] = "body"
  /\ ctx[t] # None => alias[ctx[t]] # a
  /\ HandleBegin(h, a)
  /\ SetCurrent(h)
  /\ ctx' = [ctx EXCEPT ![t] = h]
  /\ owner' = [owner EXCEPT ![h] = t]
  /\ prev' = [prev EXCEPT ![h] = ctx[t]]
  /\ UNCHANGED <<nest, pc, current, leaving, stmt>>

(* __aenter__ in a block of the same database: SAVEPOINT on its handle.     *)
(* If savepoint() raises the block is not entered: see OpFails.             *)
Nest(t) ==
  /\ pc[t] = "body" /\ ctx[t] # None
  /\ nest[t][ctx[t]] < MaxNest
  /\ HandleSavepoint(ctx[t], NestMark)
  /\ nest' = [nest EXCEPT ![t][ctx[t]] = @ + 1]
  /\ UNCHANGED <<slot, ctx, owner, prev, pc, current, leaving, stmt>>

(* Mutation: a nested block can be left more often than entered.            *)
ExitNestedTwice(t) ==
  /\ pc[t] \in {"body", "raised"} /\ ctx[t] # None
  /\ nest' = [nest EXCEPT ![t][ctx[t]] = @ - 1]
  /\ pc' = [pc EXCEPT ![t] = "raised"]
  /\ UNCHANGED <<handleVars, ctx, owner, prev, current, leaving, stmt>>

(* __aexit__ of a nested block: _outer_token is None, so ContextVar.reset   *)
(* raises TypeError before slot or savepoint is touched, whether or not the *)
(* body raised.                                                             *)
ExitNested(t) ==
  /\ pc[t] \in {"body", "raised"} /\ ctx[t] # None
  /\ nest[t][ctx[t]] > 0
  /\ nest' = [nest EXCEPT ![t][ctx[t]] = @ - 1]
  /\ pc' = [pc EXCEPT ![t] = "raised"]
  /\ UNCHANGED <<handleVars, ctx, owner, prev, current, leaving, stmt>>

(* Mutations of __aexit__: it clears the slot, or leaves it alone.          *)
ExitSlot(t, after) ==
  /\ pc[t] \in {"body", "raised"} /\ ctx[t] # None
  /\ owner[ctx[t]] = t
  /\ nest[t][ctx[t]] = 0
  /\ ctx' = [ctx EXCEPT ![t] = prev[ctx[t]]]
  /\ SetCurrent(after)
  /\ owner' = [owner EXCEPT ![ctx[t]] = None]
  /\ prev' = [prev EXCEPT ![ctx[t]] = None]
  /\ leaving' = [leaving EXCEPT ![t] = ctx[t]]
  /\ pc' = [pc EXCEPT ![t] = IF @ = "body" THEN "commit" ELSE "rollback"]
  /\ UNCHANGED <<state, alias, log, durable, nest, current, stmt>>

ExitClearsSlot(t) == ExitSlot(t, None)
ExitKeepsSlot(t) == ExitSlot(t, slot)

(* __aexit__ of the block that began the handle, up to its first await.     *)
ExitBlock(t) ==
  /\ pc[t] \in {"body", "raised"} /\ ctx[t] # None
  /\ owner[ctx[t]] = t
  /\ nest[t][ctx[t]] = 0
  /\ ctx' = [ctx EXCEPT ![t] = prev[ctx[t]]]
  /\ SetCurrent(prev[ctx[t]])
  /\ owner' = [owner EXCEPT ![ctx[t]] = None]
  /\ prev' = [prev EXCEPT ![ctx[t]] = None]
  /\ leaving' = [leaving EXCEPT ![t] = ctx[t]]
  /\ pc' = [pc EXCEPT ![t] = IF @ = "body" THEN "commit" ELSE "rollback"]
  /\ UNCHANGED <<state, alias, log, durable, nest, current, stmt>>

(* The rest of __aexit__.  A COMMIT may fail or be cancelled, which rolls   *)
(* back and raises; after a ROLLBACK the exception propagates.              *)
FinishExit(t) ==
  /\ \/ /\ pc[t] = "commit"
        /\ HandleCommit(leaving[t])
        /\ pc' = [pc EXCEPT ![t] = "body"]
     \/ /\ pc[t] \in {"commit", "rollback"}
        /\ HandleRollback(leaving[t])
        /\ pc' = [pc EXCEPT ![t] = "raised"]
  /\ leaving' = [leaving EXCEPT ![t] = None]
  /\ UNCHANGED <<slot, ctx, nest, owner, prev, current, stmt>>

(* Or the await is cancelled before the call has the handle's mutex: the    *)
(* transaction is not taken, and stays open with no block around it.        *)
AbandonExit(t) ==
  /\ pc[t] \in {"commit", "rollback"}
  /\ pc' = [pc EXCEPT ![t] = "raised"]
  /\ leaving' = [leaving EXCEPT ![t] = None]
  /\ UNCHANGED <<handleVars, ctx, nest, owner, prev, current, stmt>>

(* What still refers to handle h: its open block, a task's view, the block  *)
(* above it, the slot, a task that ends it, a statement that read it.       *)
Referred(h) ==
  \/ owner[h] # None \/ slot = h
  \/ \E t \in Task : ctx[t] = h \/ leaving[t] = h
  \/ \E g \in Tx : prev[g] = h
  \/ \E s \in Stmt : stmt[s].st = "pending" /\ stmt[s].seen = h

(* The last reference is dropped with the transaction still inside: sqlx    *)
(* rolls it back.                                                           *)
Collect(h) ==
  /\ Held(h) /\ ~Referred(h)
  /\ HandleRollback(h)
  /\ UNCHANGED <<slot, pyVars>>

-----------------------------------------------------------------------------
(* The handle's own methods, which `async with ... as tx` gives the body.   *)
(* On a handle that ended, commit and rollback do nothing.                  *)
UserOp(t) ==
  /\ pc[t] = "body" /\ ctx[t] # None
  /\ \/ HandleCommit(ctx[t])
     \/ HandleRollback(ctx[t])
     \/ \E m \in UserMark : HandleSavepoint(ctx[t], m)
     \/ \E m \in UserMark : HandleRollbackTo(ctx[t], m)
  /\ UNCHANGED <<slot, pyVars>>

(* SAVEPOINT or ROLLBACK TO fails, in __aenter__ or called by user code:    *)
(* the handle has ended, or the database objects.                           *)
OpFails(t) ==
  /\ pc[t] = "body" /\ ctx[t] # None
  /\ HandleError(ctx[t])
  /\ pc' = [pc EXCEPT ![t] = "raised"]
  /\ UNCHANGED <<slot, ctx, nest, owner, prev, current, leaving, stmt>>

(* A write is issued: the backend entry point reads the slot.               *)
Issue(t, s, kind, a) ==
  /\ pc[t] = "body"
  /\ stmt[s].st = "new"
  /\ ~CrossAlias /\ ctx[t] # None => a = alias[ctx[t]]
  /\ stmt' = [stmt EXCEPT ![s] = [st |-> "pending", home |-> ctx[t], db |-> a,
                                  kind |-> kind, seen |-> Dispatch(kind)]]
  /\ pc' = [pc EXCEPT ![t] = "stmt"]
  /\ current' = [current EXCEPT ![t] = s]
  /\ UNCHANGED <<handleVars, ctx, nest, owner, prev, leaving>>

(* The statement runs: on the handle it read, or on the pool.               *)
Execute(t) ==
  LET s == current[t] IN
  /\ pc[t] = "stmt"
  /\ IF stmt[s].seen = None THEN PoolExecute(s)
                            ELSE HandleExecute(stmt[s].seen, s)
  /\ stmt' = [stmt EXCEPT ![s].st = "ok"]
  /\ pc' = [pc EXCEPT ![t] = "body"]
  /\ current' = [current EXCEPT ![t] = None]
  /\ UNCHANGED <<slot, ctx, nest, owner, prev, leaving>>

(* It is refused: the handle it read has ended, or the database objects; or *)
(* its await is cancelled before it has the handle.                         *)
Refuse(t) ==
  LET s == current[t] IN
  /\ pc[t] = "stmt"
  /\ \/ UNCHANGED <<state, alias, log, durable>>
     \/ stmt[s].seen # None /\ HandleError(stmt[s].seen)
  /\ stmt' = [stmt EXCEPT ![s] = Blank("failed")]
  /\ pc' = [pc EXCEPT ![t] = "raised"]
  /\ current' = [current EXCEPT ![t] = None]
  /\ UNCHANGED <<slot, ctx, nest, owner, prev, leaving>>

TaskStep(t) ==
  \/ Raise(t) \/ Catch(t)
  \/ \E c \in Child : Spawn(t, c)
  \/ \E h \in Tx, a \in Alias : Begin(t, h, a)
  \/ Nest(t) \/ ExitNested(t)
  \/ ExitBlock(t) \/ FinishExit(t) \/ AbandonExit(t)
  \/ UserOp(t) \/ OpFails(t)
  \/ \E s \in Stmt, kind \in Kinds, a \in Alias : Issue(t, s, kind, a)
  \/ Execute(t) \/ Refuse(t)

Next == (\E t \in Task : TaskStep(t)) \/ (\E h \in Tx : Collect(h))

Spec == Init /\ [][Next]_vars

(* The runtime keeps polling a statement and the rest of an exit, and a     *)
(* handle is dropped when nothing refers to it; nobody makes user code open *)
(* a block, issue a statement or leave a block.                             *)
FairSpec ==
  /\ Spec
  /\ \A t \in Task : WF_vars(FinishExit(t)) /\ WF_vars(Execute(t) \/ Refuse(t))
  /\ \A h \in Tx : WF_vars(Collect(h))

-----------------------------------------------------------------------------
(* Every variable keeps its type.                                           *)
TypeOK == HandleTypeOK /\ PyTypeOK

(* No task started with a copy of the view another task has.                *)
NoChild == \A c \in Child : pc[c] = "unborn"

(* The slot names no transaction, or one whose block is still open: what    *)
(* statements enlist in is never the leftover of a block that was left.     *)
(* It is for __aexit__ to restore _previous_tx, and needs that no task      *)
(* inherited its view of the current block from another task: a child that  *)
(* leaves a block of its own after its parent left the parent's puts the    *)
(* ended handle back.                                                       *)
SlotOpen == NoChild /\ slot # None => owner[slot] # None

(* A write that read handle h from the slot is permanent only if h was      *)
(* committed, however late it runs: after h has ended the handle answers    *)
(* "Transaction already committed or rolled back" and never falls through   *)
(* to the pool.                                                             *)
NoLateLeak ==
  \A s \in durable : stmt[s].seen # None => state[stmt[s].seen] = "committed"

(* When a transaction has ended, the writes that were acknowledged on it    *)
(* and not rolled back to a savepoint are all permanent, or none is: a      *)
(* write acknowledged while the commit is under way is not lost.            *)
AllOrNothing ==
  \A h \in Tx :
    IF state[h] = "committed" THEN Written(h) \subseteq durable
                              ELSE Written(h) \cap durable = {}

(* A query inside a block of its own database runs on that block's handle   *)
(* ("propagate the active transaction through the async call stack").       *)
Enlisted ==
  \A s \in Stmt :
    /\ stmt[s].st = "ok" /\ stmt[s].kind = "query"
    /\ stmt[s].home # None
    => (stmt[s].db = alias[stmt[s].home] => stmt[s].seen = stmt[s].home)

(* A bulk operation in a block that is rolled back is rolled back, as       *)
(* tests/integration/test_transactions.py asserts of bulk_create.           *)
BulkRolledBack ==
  \A s \in durable :
    stmt[s].kind = "bulk" /\ stmt[s].home # None => state[stmt[s].home] # "rolledback"

(* A transaction that ended stays ended and its connection runs nothing     *)
(* more: no savepoint call, retry or second commit revives it.              *)
EndedForever ==
  [][\A h \in Tx : Ended(h) => state'[h] = state[h] /\ log'[h] = log[h]]_vars

(* Every block that is left ends its transaction, and every statement is    *)
(* answered, whatever other tasks do meanwhile.                             *)
LeftBlocksEnd ==
  /\ \A h \in Tx : state[h] # "unused" /\ owner[h] = None ~> Ended(h)
  /\ \A s \in Stmt : stmt[s].st = "pending" ~> stmt[s].st # "pending"

(* A block is open until its handle ends, and holds what is on the log.     *)
Phase == [h \in Tx |-> IF Held(h) THEN "open" ELSE state[h]]
Pending == [h \in Tx |-> Written(h)]

Blocks == INSTANCE AtomicBlocks WITH
  Block <- Tx,
  phase <- Phase,
  pending <- Pending,
  answer <- [s \in Stmt |-> stmt[s].st],
  home <- [s \in Stmt |-> stmt[s].home]

(* The blocks of a single task that issues no bulk operation are atomic     *)
(* blocks: a write takes effect with the block it was issued in and only    *)
(* with it (see AtomicBlocks).                                              *)
BlocksSpec == Blocks!Spec
=============================================================================
