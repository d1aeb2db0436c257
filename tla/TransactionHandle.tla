------------------------- MODULE TransactionHandle -------------------------
(***************************************************************************)
(* The Rust transaction handle (ryx-backend/src/transaction.rs), the       *)
(* process-wide slot ACTIVE_TX that names the transaction new statements   *)
(* run in, and the way a backend dispatches a statement: on the handle it  *)
(* read from the slot, or on a pooled connection in autocommit mode.       *)
(*                                                                         *)
(* The module offers the operations as action operators over the handle's  *)
(* state; PyTransaction and RsTransaction call them from the two client    *)
(* interfaces.  A write is a member of Stmt, a database is a member of     *)
(* Alias, and the connection a handle owns is the log of what ran on it.   *)
(***************************************************************************)
EXTENDS Naturals, Sequences, FiniteSets

CONSTANTS
  Tx,          \* identities of the transaction handles that may be created
  Stmt,        \* identities of the write statements clients may issue
  Alias,       \* configured databases (the alias None of the code is one)
  AbortAlias,  \* databases where a failed statement aborts its transaction
  Mark,        \* savepoint names
  MaxMark,     \* bound on the savepoints a connection's log may hold
  None         \* no handle

ASSUME AliasAssumption == Alias # {} /\ AbortAlias \subseteq Alias
ASSUME MarkAssumption == Mark \cap Stmt = {}
ASSUME NoneAssumption == None \notin Tx
ASSUME MaxMarkAssumption == MaxMark \in Nat

VARIABLES
  state,    \* "unused", "live", "aborted", "committed" or "rolledback"
  alias,    \* the database a handle was begun on
  log,      \* what ran on the handle's connection and is not undone
  durable,  \* the writes the databases have made permanent
  slot      \* ACTIVE_TX

handleVars == <<state, alias, log, durable, slot>>

Entry == Stmt \cup Mark

HandleTypeOK ==
  /\ state \in [Tx -> {"unused", "live", "aborted", "committed", "rolledback"}]
  /\ alias \in [Tx -> Alias]
  /\ log \in [Tx -> Seq(Entry)]
  /\ durable \subseteq Stmt
  /\ slot \in Tx \cup {None}

AnyAlias == CHOOSE a \in Alias : TRUE

HandleInit ==
  /\ state = [h \in Tx |-> "unused"]
  /\ alias = [h \in Tx |-> AnyAlias]
  /\ log = [h \in Tx |-> << >>]
  /\ durable = {}
  /\ slot = None

-----------------------------------------------------------------------------
(* The inner Option<RyxTransaction>: Some exactly while the connection is   *)
(* held, that is until commit or rollback takes it.                         *)
Held(h) == state[h] \in {"live", "aborted"}
Ended(h) == state[h] \in {"committed", "rolledback"}

OnLog(l, x) == \E i \in DOMAIN l : l[i] = x
Ran(h, x) == OnLog(log[h], x)
Written(h) == {s \in Stmt : Ran(h, s)}

(* TransactionHandle::begin.  The handle is born on an idle connection.     *)
HandleBegin(h, a) ==
  /\ state[h] = "unused"
  /\ state' = [state EXCEPT ![h] = "live"]
  /\ alias' = [alias EXCEPT ![h] = a]
  /\ UNCHANGED <<log, durable>>

(* commit(): take() the transaction, COMMIT it if there was one, Ok(()) if  *)
(* it was taken before.  COMMIT of an aborted transaction rolls it back.    *)
HandleCommit(h) ==
  /\ state' = [state EXCEPT ![h] =
                 CASE @ = "live" -> "committed"
                   [] @ = "aborted" -> "rolledback"
                   [] OTHER -> @]
  /\ durable' = IF state[h] = "live" THEN durable \cup Written(h) ELSE durable
  /\ UNCHANGED <<alias, log>>

(* rollback(), and commit() whose COMMIT fails or is cancelled: the taken   *)
(* sqlx transaction is dropped, which rolls it back.                        *)
HandleRollback(h) ==
  /\ state' = [state EXCEPT ![h] = IF Held(h) THEN "rolledback" ELSE @]
  /\ UNCHANGED <<alias, log, durable>>

(* savepoint(name) on a connection that accepts statements.                 *)
HandleSavepoint(h, name) ==
  /\ state[h] = "live"
  /\ Cardinality({i \in DOMAIN log[h] : log[h][i] \in Mark}) < MaxMark
  /\ log' = [log EXCEPT ![h] = Append(@, name)]
  /\ UNCHANGED <<state, alias, durable>>

(* Mutation: rollback_to does not look whether the handle has ended.        *)
RollbackToUnchecked(h, name) ==
  /\ \E i \in DOMAIN log[h] :
       /\ log[h][i] = name
       /\ \A j \in DOMAIN log[h] : log[h][j] = name => j <= i
       /\ log' = [log EXCEPT ![h] = SubSeq(@, 1, i)]
  /\ state' = [state EXCEPT ![h] = "live"]
  /\ UNCHANGED <<alias, durable>>

(* rollback_to(name): the connection forgets what ran after the newest      *)
(* savepoint of that name, which itself stays; it also revives an aborted   *)
(* transaction.                                                             *)
HandleRollbackTo(h, name) ==
  /\ Held(h)
  /\ \E i \in DOMAIN log[h] :
       /\ log[h][i] = name
       /\ \A j \in DOMAIN log[h] : log[h][j] = name => j <= i
       /\ log' = [log EXCEPT ![h] = SubSeq(@, 1, i)]
  /\ state' = [state EXCEPT ![h] = "live"]
  /\ UNCHANGED <<alias, durable>>

(* Mutation: a statement on an ended handle runs on the pool.               *)
ExecuteOrPool(h, s) ==
  /\ log' = [log EXCEPT ![h] = IF Held(h) THEN Append(@, s) ELSE @]
  /\ durable' = IF Held(h) THEN durable ELSE durable \cup {s}
  /\ UNCHANGED <<state, alias>>

(* Mutation: the connection takes statements after the commit.              *)
ExecuteUnchecked(h, s) ==
  /\ log' = [log EXCEPT ![h] = Append(@, s)]
  /\ UNCHANGED <<state, alias, durable>>

(* A statement that runs on handle h; the backend read h from the slot.     *)
HandleExecute(h, s) ==
  /\ state[h] = "live"
  /\ log' = [log EXCEPT ![h] = Append(@, s)]
  /\ UNCHANGED <<state, alias, durable>>

(* A statement that runs on a pooled connection commits at once.            *)
PoolExecute(s) ==
  /\ durable' = durable \cup {s}
  /\ UNCHANGED <<state, alias, log>>

(* A statement the database refuses on handle h.                            *)
HandleError(h) ==
  /\ state' = [state EXCEPT ![h] =
                 IF @ = "live" /\ alias[h] \in AbortAlias THEN "aborted" ELSE @]
  /\ UNCHANGED <<alias, log, durable>>

(* set_current_transaction                                                  *)
SetCurrent(h) == slot' = h

(* Mutation: the slot is not consulted.                                     *)
DispatchToPool(kind) == None

(* What a backend entry point reads before it runs a statement: the query   *)
(* and execute paths clone the slot, the bulk paths go to the pool.         *)
Dispatch(kind) == IF kind = "bulk" THEN None ELSE slot
=============================================================================
