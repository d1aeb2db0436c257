------------------------ MODULE PyTransactionProofs ------------------------
(***************************************************************************)
(* Proofs about PyTransaction, for every number of tasks, handles, writes  *)
(* and databases.                                                          *)
(***************************************************************************)
EXTENDS PyTransaction, TransactionHandleProofs

(* What a task at an await is waiting for.                                  *)
Awaiting ==
  /\ \A t \in Task : pc[t] = "stmt" =>
       current[t] \in Stmt /\ stmt[current[t]].st = "pending"
  /\ \A t, u \in Task :
       pc[t] = "stmt" /\ pc[u] = "stmt" /\ current[t] = current[u] => t = u
  /\ \A t \in Task : pc[t] \in {"commit", "rollback"} => leaving[t] \in Tx

TypeInv == TypeOK /\ Awaiting

-----------------------------------------------------------------------------
(* The values the initial state is built from have their types.             *)
LEMMA BlankType ==
  /\ AnyAlias \in Alias
  /\ \A st \in {"new", "failed"} : Blank(st) \in StmtRecord /\ Blank(st).st = st
                               /\ Blank(st).seen = None
BY AliasAssumption DEF AnyAlias, Blank, StmtRecord, Handle

(* Acknowledging a statement keeps its record's type.                       *)
LEMMA OkRecord ==
  ASSUME NEW r \in StmtRecord
  PROVE  [r EXCEPT !.st = "ok"] \in StmtRecord
BY DEF StmtRecord

-----------------------------------------------------------------------------
LEMMA InitType == Init => TypeInv
<1> SUFFICES ASSUME Init PROVE TypeInv
  OBVIOUS
<1> USE DEF Init, HandleInit, PyInit
<1>1. HandleTypeOK
  BY BlankType DEF HandleTypeOK, Entry
<1>2. PyTypeOK
  BY BlankType, MaxNestAssumption DEF PyTypeOK, Handle
<1>3. Awaiting
  BY DEF Awaiting
<1> QED
  BY <1>1, <1>2, <1>3 DEF TypeInv, TypeOK

LEMMA StepType == TypeInv /\ [Next]_vars => TypeInv'
<1> SUFFICES ASSUME TypeInv, [Next]_vars PROVE TypeInv'
  OBVIOUS
<1> USE DEF TypeInv, TypeOK, PyTypeOK, Handle
<1>1. CASE UNCHANGED vars
  BY <1>1 DEF vars, handleVars, pyVars, HandleTypeOK, Awaiting
<1>2. ASSUME NEW t \in Task, TaskStep(t) PROVE TypeInv'
  <2>1. CASE Raise(t) \/ Catch(t)
    <3>1. HandleTypeOK' /\ PyTypeOK'
      BY <2>1 DEF Raise, Catch, handleVars, HandleTypeOK
    <3>2. Awaiting'
      BY <2>1 DEF Raise, Catch, Awaiting
    <3> QED BY <3>1, <3>2
  <2>2. ASSUME NEW c \in Child, Spawn(t, c) PROVE TypeInv'
    <3>1. HandleTypeOK' /\ PyTypeOK'
      BY <2>2, TaskAssumption DEF Spawn, handleVars, HandleTypeOK
    <3>2. Awaiting'
      BY <2>2, TaskAssumption DEF Spawn, Awaiting
    <3> QED BY <3>1, <3>2
  <2>3. ASSUME NEW h \in Tx, NEW a \in Alias, Begin(t, h, a) PROVE TypeInv'
    <3>1. HandleTypeOK'
      BY <2>3, HandleOpsType DEF Begin, SetCurrent
    <3>2. PyTypeOK'
      BY <2>3 DEF Begin
    <3>3. Awaiting'
      BY <2>3 DEF Begin, Awaiting
    <3> QED BY <3>1, <3>2, <3>3
  <2>4. CASE Nest(t)
    <3>1. HandleTypeOK'
      BY <2>4, HandleOpsType, MarksAssumption DEF Nest, HandleTypeOK
    <3>2. PyTypeOK'
      <4>1. ctx[t] \in Tx /\ nest[t][ctx[t]] \in 0..MaxNest /\ nest[t][ctx[t]] < MaxNest
        BY <2>4 DEF Nest
      <4>2. nest[t][ctx[t]] + 1 \in 0..MaxNest
        BY <4>1, MaxNestAssumption
      <4> QED BY <2>4, <4>1, <4>2 DEF Nest
    <3>3. Awaiting'
      BY <2>4 DEF Nest, Awaiting
    <3> QED BY <3>1, <3>2, <3>3
  <2>5. CASE ExitNested(t)
    <3>1. HandleTypeOK'
      BY <2>5 DEF ExitNested, handleVars, HandleTypeOK
    <3>2. PyTypeOK'
      <4>1. ctx[t] \in Tx /\ nest[t][ctx[t]] \in 0..MaxNest /\ nest[t][ctx[t]] > 0
        BY <2>5 DEF ExitNested
      <4>2. nest[t][ctx[t]] - 1 \in 0..MaxNest
        BY <4>1, MaxNestAssumption
      <4> QED BY <2>5, <4>1, <4>2 DEF ExitNested
    <3>3. Awaiting'
      BY <2>5 DEF ExitNested, Awaiting
    <3> QED BY <3>1, <3>2, <3>3
  <2>6. CASE ExitBlock(t)
    <3>1. HandleTypeOK'
      BY <2>6 DEF ExitBlock, SetCurrent, HandleTypeOK
    <3>2. PyTypeOK'
      BY <2>6 DEF ExitBlock
    <3>3. Awaiting'
      BY <2>6 DEF ExitBlock, Awaiting
    <3> QED BY <3>1, <3>2, <3>3
  <2>7. CASE FinishExit(t)
    <3>1. leaving[t] \in Tx /\ slot' \in Tx \cup {None}
      BY <2>7 DEF FinishExit, Awaiting, HandleTypeOK
    <3>2. HandleTypeOK'
      BY <2>7, <3>1, HandleOpsType DEF FinishExit
    <3>3. PyTypeOK'
      BY <2>7 DEF FinishExit
    <3>4. Awaiting'
      <4>1. /\ UNCHANGED <<current, stmt>>
            /\ \A u \in Task : pc'[u] = "stmt" => pc[u] = "stmt"
            /\ \A u \in Task : pc'[u] \in {"commit", "rollback"} => pc'[u] = pc[u] /\ leaving'[u] = leaving[u]
        BY <2>7 DEF FinishExit
      <4>2. \A u \in Task : pc'[u] = "stmt" => current'[u] \in Stmt /\ stmt'[current'[u]].st = "pending"
        BY <4>1 DEF Awaiting
      <4>3. \A u, w \in Task : pc'[u] = "stmt" /\ pc'[w] = "stmt" /\ current'[u] = current'[w] => u = w
        BY <4>1 DEF Awaiting
      <4>4. \A u \in Task : pc'[u] \in {"commit", "rollback"} => leaving'[u] \in Tx
        BY <4>1 DEF Awaiting
      <4> QED BY <4>2, <4>3, <4>4 DEF Awaiting
    <3> QED BY <3>2, <3>3, <3>4
  <2>8. CASE UserOp(t)
    <3>1. ctx[t] \in Tx /\ slot' \in Tx \cup {None}
      BY <2>8 DEF UserOp, HandleTypeOK
    <3>2. HandleTypeOK'
      BY <2>8, <3>1, HandleOpsType, MarksAssumption DEF UserOp
    <3>3. PyTypeOK' /\ Awaiting'
      BY <2>8 DEF UserOp, pyVars, Awaiting
    <3> QED BY <3>2, <3>3
  <2>9. ASSUME NEW s \in Stmt, NEW kind \in Kinds, NEW a \in Alias, Issue(t, s, kind, a)
        PROVE  TypeInv'
    <3>1. HandleTypeOK'
      BY <2>9 DEF Issue, handleVars, HandleTypeOK
    <3>2. Dispatch(kind) \in Handle /\ kind \in {"query", "bulk"}
      BY KindsAssumption DEF Dispatch, HandleTypeOK
    <3>3. PyTypeOK'
      BY <2>9, <3>2 DEF Issue, StmtRecord
    <3>4. Awaiting'
      BY <2>9 DEF Issue, Awaiting, StmtRecord
    <3> QED BY <3>1, <3>3, <3>4
  <2>10. CASE Execute(t)
    <3> DEFINE s == current[t]
    <3>1. s \in Stmt /\ stmt[s].seen \in Handle /\ slot' \in Tx \cup {None}
      BY <2>10 DEF Execute, Awaiting, HandleTypeOK, StmtRecord
    <3>2. HandleTypeOK'
      <4>1. CASE stmt[s].seen = None
        BY <2>10, <3>1, <4>1 DEF Execute, PoolExecute, HandleTypeOK
      <4>2. CASE stmt[s].seen # None
        BY <2>10, <3>1, <4>2, HandleOpsType DEF Execute
      <4> QED BY <4>1, <4>2
    <3>3. PyTypeOK'
      <4>1. [stmt[s] EXCEPT !.st = "ok"] \in StmtRecord
        BY <3>1, OkRecord
      <4>2. stmt' \in [Stmt -> StmtRecord]
        BY <2>10, <3>1, <4>1 DEF Execute
      <4> QED
        BY <2>10, <4>2 DEF Execute
    <3>4. Awaiting'
      BY <2>10, <3>1 DEF Execute, Awaiting, StmtRecord
    <3> QED BY <3>2, <3>3, <3>4
  <2>11. CASE Refuse(t)
    <3> DEFINE s == current[t]
    <3>1. s \in Stmt /\ stmt[s].seen \in Handle /\ slot' \in Tx \cup {None}
      BY <2>11 DEF Refuse, Awaiting, HandleTypeOK, StmtRecord
    <3>2. HandleTypeOK'
      <4>1. CASE UNCHANGED <<state, alias, log, durable>>
        BY <3>1, <4>1 DEF HandleTypeOK
      <4>2. CASE stmt[s].seen # None /\ HandleError(stmt[s].seen)
        BY <3>1, <4>2, HandleOpsType
      <4> QED BY <2>11, <4>1, <4>2 DEF Refuse
    <3>3. PyTypeOK'
      BY <2>11, <3>1, BlankType DEF Refuse
    <3>4. Awaiting'
      BY <2>11, <3>1 DEF Refuse, Awaiting
    <3> QED BY <3>2, <3>3, <3>4
  <2>12. CASE OpFails(t)
    <3>1. ctx[t] \in Tx /\ slot' \in Tx \cup {None}
      BY <2>12 DEF OpFails, HandleTypeOK
    <3>2. HandleTypeOK'
      BY <2>12, <3>1, HandleOpsType DEF OpFails
    <3>3. PyTypeOK' /\ Awaiting'
      BY <2>12 DEF OpFails, Awaiting
    <3> QED BY <3>2, <3>3
  <2>13. CASE AbandonExit(t)
    <3>1. HandleTypeOK' /\ PyTypeOK'
      BY <2>13 DEF AbandonExit, handleVars, HandleTypeOK
    <3>2. Awaiting'
      BY <2>13 DEF AbandonExit, Awaiting
    <3> QED BY <3>1, <3>2
  <2> QED
    BY <1>2, <2>1, <2>2, <2>3, <2>4, <2>5, <2>6, <2>7, <2>8, <2>9, <2>10, <2>11, <2>12, <2>13
    DEF TaskStep
<1>3. ASSUME NEW h \in Tx, Collect(h) PROVE TypeInv'
  <2>1. HandleTypeOK'
    BY <1>3, HandleOpsType DEF Collect, HandleTypeOK
  <2>2. PyTypeOK' /\ Awaiting'
    BY <1>3 DEF Collect, pyVars, Awaiting
  <2> QED BY <2>1, <2>2
<1> QED
  BY <1>1, <1>2, <1>3 DEF Next

LEMMA TypeInvariant == Spec => []TypeInv
BY InitType, StepType, PTL DEF Spec

(* Every variable keeps its type, for all values of the constants.          *)
THEOREM TypeCorrect == Spec => []TypeOK
<1>1. TypeInv => TypeOK
  BY DEF TypeInv
<1> QED
  BY <1>1, TypeInvariant, PTL
-----------------------------------------------------------------------------
(* The open blocks of a task form a stack: its current handle is the top,   *)
(* prev leads from a block to the one below it, and no block sits on the    *)
(* top or shares the block below it.                                        *)
BlockStack ==
  /\ \A h \in Tx : state[h] = "unused" => owner[h] = None
  /\ \A t \in Task : ctx[t] # None => owner[ctx[t]] = t
  /\ \A h \in Tx : owner[h] # None /\ prev[h] # None =>
       owner[prev[h]] = owner[h] /\ prev[h] # ctx[owner[h]]
  /\ \A g, h \in Tx :
       owner[g] # None /\ owner[h] # None /\ prev[g] = prev[h] /\ prev[g] # None
         => g = h

SlotNamed == slot # None => owner[slot] # None

StackInv == TypeInv /\ BlockStack /\ SlotNamed

LEMMA InitStack == Init => StackInv
BY InitType DEF Init, HandleInit, PyInit, StackInv, BlockStack, SlotNamed

LEMMA StepStack == NoChild' /\ StackInv /\ [Next]_vars => StackInv'
<1> SUFFICES ASSUME NoChild', StackInv, [Next]_vars PROVE StackInv'
  OBVIOUS
<1>1. TypeInv'
  BY StepType DEF StackInv
<1> USE DEF StackInv
<1>2. CASE UNCHANGED vars
  BY <1>1, <1>2 DEF vars, handleVars, pyVars, BlockStack, SlotNamed
<1>3. ASSUME NEW t \in Task, TaskStep(t) PROVE BlockStack' /\ SlotNamed'
  <2> USE DEF BlockStack, SlotNamed
  <2>0. HandleTypeOK /\ PyTypeOK /\ Awaiting
    BY DEF TypeInv, TypeOK
  <2>1. CASE Raise(t) \/ Catch(t) \/ ExitNested(t)
    BY <2>1 DEF Raise, Catch, ExitNested, handleVars
  <2>2. CASE \E c \in Child : Spawn(t, c)
    BY <2>2, <2>0, TaskAssumption DEF Spawn, NoChild, PyTypeOK
  <2>3. ASSUME NEW h \in Tx, NEW a \in Alias, Begin(t, h, a)
        PROVE  BlockStack' /\ SlotNamed'
    <3>1. /\ state[h] = "unused" /\ owner[h] = None /\ slot' = h
          /\ ctx' = [ctx EXCEPT ![t] = h] /\ owner' = [owner EXCEPT ![h] = t]
          /\ prev' = [prev EXCEPT ![h] = ctx[t]]
          /\ state' = [state EXCEPT ![h] = "live"]
      BY <2>3 DEF Begin, HandleBegin, SetCurrent
    <3>2. None \notin Tx /\ None \notin Task
      BY NoneAssumption, TaskAssumption
    <3>3. SlotNamed'
      BY <3>1, <3>2, <2>0 DEF PyTypeOK
    <3>4. \A u \in Task : ctx'[u] # None => owner'[ctx'[u]] = u
      BY <3>1, <3>2, <2>0 DEF PyTypeOK, Handle
    <3>5. \A g \in Tx : owner'[g] # None /\ prev'[g] # None =>
             owner'[prev'[g]] = owner'[g] /\ prev'[g] # ctx'[owner'[g]]
      BY <3>1, <3>2, <2>0 DEF PyTypeOK, Handle
    <3>6. \A f, g \in Tx : owner'[f] # None /\ owner'[g] # None /\ prev'[f] = prev'[g]
             /\ prev'[f] # None => f = g
      BY <3>1, <3>2, <2>0 DEF PyTypeOK, Handle
    <3>7. \A g \in Tx : state'[g] = "unused" => owner'[g] = None
      BY <3>1, <2>0 DEF PyTypeOK, HandleTypeOK
    <3> QED BY <3>3, <3>4, <3>5, <3>6, <3>7
  <2>4. CASE Nest(t)
    <3>1. \A g \in Tx : state'[g] = "unused" => state[g] = "unused"
      BY <2>4, <2>0, UsedForGood, MarksAssumption DEF Nest, PyTypeOK, Handle
    <3> QED BY <2>4, <3>1 DEF Nest
  <2>5. CASE ExitBlock(t)
    <3> DEFINE h == ctx[t]
    <3>1. /\ h \in Tx /\ owner[h] = t /\ slot' = prev[h] /\ state' = state
          /\ ctx' = [ctx EXCEPT ![t] = prev[h]] /\ owner' = [owner EXCEPT ![h] = None]
          /\ prev' = [prev EXCEPT ![h] = None]
      BY <2>5, <2>0 DEF ExitBlock, SetCurrent, PyTypeOK, Handle
    <3>2. None \notin Tx /\ None \notin Task
      BY NoneAssumption, TaskAssumption
    <3>3. prev[h] # None => prev[h] \in Tx /\ prev[h] # h /\ owner[prev[h]] = t
      BY <3>1, <3>2, <2>0 DEF PyTypeOK, Handle
    <3>4. SlotNamed'
      BY <3>1, <3>2, <3>3, <2>0 DEF PyTypeOK
    <3>5. \A u \in Task : ctx'[u] # None => owner'[ctx'[u]] = u
      BY <3>1, <3>2, <3>3, <2>0 DEF PyTypeOK, Handle
    <3>6. \A g \in Tx : owner'[g] # None /\ prev'[g] # None =>
             owner'[prev'[g]] = owner'[g] /\ prev'[g] # ctx'[owner'[g]]
      BY <3>1, <3>2, <3>3, <2>0 DEF PyTypeOK, Handle
    <3>7. \A f, g \in Tx : owner'[f] # None /\ owner'[g] # None /\ prev'[f] = prev'[g]
             /\ prev'[f] # None => f = g
      BY <3>1, <3>2, <2>0 DEF PyTypeOK, Handle
    <3>8. \A g \in Tx : state'[g] = "unused" => owner'[g] = None
      BY <3>1, <2>0 DEF PyTypeOK
    <3> QED BY <3>4, <3>5, <3>6, <3>7, <3>8
  <2>6. CASE FinishExit(t)
    <3>1. \A g \in Tx : state'[g] = "unused" => state[g] = "unused"
      BY <2>6, <2>0, UsedForGood DEF FinishExit, Awaiting
    <3> QED BY <2>6, <3>1 DEF FinishExit
  <2>7. CASE UserOp(t)
    <3>1. \A g \in Tx : state'[g] = "unused" => state[g] = "unused"
      BY <2>7, <2>0, UsedForGood, MarksAssumption DEF UserOp, PyTypeOK, Handle
    <3> QED BY <2>7, <3>1 DEF UserOp, pyVars
  <2>8. ASSUME NEW s \in Stmt, NEW kind \in Kinds, NEW a \in Alias, Issue(t, s, kind, a)
        PROVE  BlockStack' /\ SlotNamed'
    BY <2>8 DEF Issue, handleVars
  <2>9. CASE Execute(t)
    <3>1. \A g \in Tx : state'[g] = "unused" => state[g] = "unused"
      BY <2>9, <2>0 DEF Execute, PoolExecute, HandleExecute
    <3> QED BY <2>9, <3>1 DEF Execute
  <2>10. CASE Refuse(t)
    <3>1. current[t] \in Stmt /\ stmt[current[t]].seen \in Handle
      BY <2>10, <2>0 DEF Refuse, Awaiting, PyTypeOK, StmtRecord
    <3>2. \A g \in Tx : state'[g] = "unused" => state[g] = "unused"
      BY <2>10, <2>0, <3>1, UsedForGood DEF Refuse, Handle
    <3> QED BY <2>10, <3>2 DEF Refuse
  <2>11. CASE OpFails(t)
    <3>1. \A g \in Tx : state'[g] = "unused" => state[g] = "unused"
      BY <2>11, <2>0, UsedForGood DEF OpFails, PyTypeOK, Handle
    <3> QED BY <2>11, <3>1 DEF OpFails
  <2>12. CASE AbandonExit(t)
    BY <2>12 DEF AbandonExit, handleVars
  <2> QED
    BY <1>3, <2>1, <2>2, <2>3, <2>4, <2>5, <2>6, <2>7, <2>8, <2>9, <2>10, <2>11, <2>12
    DEF TaskStep
<1>4. ASSUME NEW h \in Tx, Collect(h) PROVE BlockStack' /\ SlotNamed'
  <2>1. \A g \in Tx : state'[g] = "unused" => state[g] = "unused"
    BY <1>4, UsedForGood DEF Collect, TypeInv, TypeOK
  <2> QED
    BY <1>4, <2>1 DEF Collect, pyVars, BlockStack, SlotNamed
<1> QED
  BY <1>1, <1>2, <1>3, <1>4 DEF Next

(* A task that was created never becomes uncreated again.                   *)
LEMMA NoChildBefore == TypeInv /\ [Next]_vars /\ NoChild' => NoChild
<1> SUFFICES ASSUME TypeInv, [Next]_vars, NEW c \in Child, pc'[c] = "unborn"
             PROVE  pc[c] = "unborn"
  BY DEF NoChild
<1>0. DOMAIN pc = Task /\ c \in Task
  BY TaskAssumption DEF TypeInv, TypeOK, PyTypeOK
<1>1. CASE UNCHANGED vars
  BY <1>1 DEF vars, pyVars
<1>2. ASSUME NEW t \in Task, TaskStep(t) PROVE pc[c] = "unborn"
  <2> USE <1>0
  <2>1. CASE Raise(t) \/ Catch(t) \/ ExitNested(t) \/ ExitBlock(t) \/ FinishExit(t)
               \/ AbandonExit(t) \/ OpFails(t)
    BY <2>1 DEF Raise, Catch, ExitNested, ExitBlock, FinishExit, AbandonExit, OpFails
  <2>2. CASE (\E d \in Child : Spawn(t, d)) \/ Execute(t) \/ Refuse(t)
    BY <2>2 DEF Spawn, Execute, Refuse
  <2>3. CASE (\E h \in Tx, a \in Alias : Begin(t, h, a)) \/ Nest(t) \/ UserOp(t)
    <3>1. pc' = pc
      BY <2>3 DEF Begin, Nest, UserOp, pyVars
    <3> QED BY <3>1
  <2>4. ASSUME NEW s \in Stmt, NEW kind \in Kinds, NEW a \in Alias, Issue(t, s, kind, a)
        PROVE  pc[c] = "unborn"
    <3>1. pc' = [pc EXCEPT ![t] = "stmt"]
      BY <2>4 DEF Issue
    <3> QED BY <3>1
  <2> QED
    BY <1>2, <2>1, <2>2, <2>3, <2>4 DEF TaskStep
<1>3. CASE \E h \in Tx : Collect(h)
  BY <1>3 DEF Collect, pyVars
<1> QED
  BY <1>1, <1>2, <1>3 DEF Next

(* As long as no task starts with a copy of another's context, the slot     *)
(* never names the transaction of a block that was left, however many tasks *)
(* interleave their blocks.                                                 *)
THEOREM SlotNeverDangles == Spec => []SlotOpen
<1> DEFINE Inv == TypeInv /\ (NoChild => StackInv)
<1>1. Init => Inv
  BY InitStack, InitType
<1>2. Inv /\ [Next]_vars => Inv'
  BY StepType, StepStack, NoChildBefore
<1>3. Inv => SlotOpen
  BY DEF StackInv, SlotNamed, SlotOpen
<1> QED
  BY <1>1, <1>2, <1>3, PTL DEF Spec
-----------------------------------------------------------------------------
(* Where a write may be found: on the log of the handle it read if it was   *)
(* acknowledged, among the permanent writes only if that handle committed,  *)
(* and there with everything else on that log.                              *)
WritePlaces ==
  /\ \A h \in Tx, s \in Stmt : Ran(h, s) => stmt[s].st = "ok" /\ stmt[s].seen = h
  /\ \A s \in durable : stmt[s].st = "ok"
  /\ NoLateLeak
  /\ \A h \in Tx : state[h] = "committed" => Written(h) \subseteq durable

WriteInv == TypeInv /\ WritePlaces

(* No operation of a client on a handle moves a write out of place.         *)
LEMMA HandleOpsPlaces ==
  ASSUME WriteInv, NEW h \in Tx, stmt' = stmt,
         \/ \E a \in Alias : HandleBegin(h, a)
         \/ HandleCommit(h)
         \/ HandleRollback(h)
         \/ \E m \in Mark : HandleSavepoint(h, m)
         \/ \E m \in Mark : HandleRollbackTo(h, m)
  PROVE  WritePlaces'
<1>0. HandleTypeOK /\ PyTypeOK
  BY DEF WriteInv, TypeInv, TypeOK
<1> USE DEF WriteInv, WritePlaces, NoLateLeak, Written
<1>1. CASE \E a \in Alias : HandleBegin(h, a)
  BY <1>0, <1>1 DEF HandleBegin, Ran, HandleTypeOK
<1>2. CASE HandleCommit(h)
  <2>1. \A g \in Tx, s \in Stmt : Ran(g, s)' <=> Ran(g, s)
    BY <1>2 DEF HandleCommit, Ran
  <2>2. /\ \A g \in Tx : state[g] = "committed" => state'[g] = "committed"
        /\ \A g \in Tx : state'[g] = "committed" =>
             state[g] = "committed" \/ (g = h /\ state[h] = "live")
    BY <1>0, <1>2 DEF HandleCommit, HandleTypeOK
  <2>3. CASE state[h] = "live"
    <3>1. durable' = durable \cup {s \in Stmt : Ran(h, s)} /\ state'[h] = "committed"
      BY <1>0, <1>2, <2>3 DEF HandleCommit, HandleTypeOK
    <3>2. \A s \in durable : s \in Stmt /\ stmt[s].seen \in Handle
      BY <1>0 DEF HandleTypeOK, PyTypeOK, StmtRecord
    <3>3. \A s \in durable' : stmt'[s].st = "ok"
      BY <3>1
    <3>4. NoLateLeak'
      <4>1. \A s \in Stmt : Ran(h, s) => state'[stmt[s].seen] = "committed"
        BY <3>1
      <4>2. \A s \in durable : stmt[s].seen # None => state'[stmt[s].seen] = "committed"
        BY <2>2, <3>2 DEF Handle
      <4> QED BY <3>1, <4>1, <4>2
    <3>5. \A g \in Tx : state'[g] = "committed" => Written(g)' \subseteq durable'
      BY <2>1, <2>2, <3>1
    <3> QED
      BY <2>1, <3>3, <3>4, <3>5
  <2>4. CASE state[h] # "live"
    <3>1. durable' = durable
      BY <1>2, <2>4 DEF HandleCommit
    <3>2. \A s \in durable : s \in Stmt /\ stmt[s].seen \in Handle
      BY <1>0 DEF HandleTypeOK, PyTypeOK, StmtRecord
    <3>3. NoLateLeak'
      BY <2>2, <3>1, <3>2 DEF Handle
    <3>4. \A g \in Tx : state'[g] = "committed" => Written(g)' \subseteq durable'
      BY <2>1, <2>2, <2>4, <3>1
    <3> QED
      BY <2>1, <3>1, <3>3, <3>4
  <2> QED BY <2>3, <2>4
<1>3. CASE HandleRollback(h)
  <2>1. \A g \in Tx : state'[g] = "committed" <=> state[g] = "committed"
    BY <1>0, <1>3 DEF HandleRollback, HandleTypeOK, Held
  <2>2. \A s \in durable : s \in Stmt /\ stmt[s].seen \in Handle
    BY <1>0 DEF HandleTypeOK, PyTypeOK, StmtRecord
  <2> QED
    BY <1>3, <2>1, <2>2 DEF HandleRollback, Ran, Handle
<1>4. CASE \E m \in Mark : HandleSavepoint(h, m)
  <2>1. \A g \in Tx, s \in Stmt : Ran(g, s)' <=> Ran(g, s)
    BY <1>0, <1>4, LogSteps
  <2> QED
    BY <1>4, <2>1 DEF HandleSavepoint
<1>5. CASE \E m \in Mark : HandleRollbackTo(h, m)
  <2>1. \A g \in Tx, s \in Stmt : Ran(g, s)' => Ran(g, s)
    BY <1>0, <1>5, LogSteps
  <2>2. \A g \in Tx : state'[g] = "committed" <=> state[g] = "committed"
    BY <1>0, <1>5 DEF HandleRollbackTo, HandleTypeOK, Held
  <2>3. \A s \in durable : s \in Stmt /\ stmt[s].seen \in Handle
    BY <1>0 DEF HandleTypeOK, PyTypeOK, StmtRecord
  <2> QED
    BY <1>5, <2>1, <2>2, <2>3 DEF HandleRollbackTo, Handle
<1> QED
  BY <1>1, <1>2, <1>3, <1>4, <1>5

LEMMA InitWrites == Init => WriteInv
BY InitType DEF Init, HandleInit, PyInit, WriteInv, WritePlaces, NoLateLeak, Written, Ran, OnLog

LEMMA StepWrites == WriteInv /\ [Next]_vars => WriteInv'
<1> SUFFICES ASSUME WriteInv, [Next]_vars PROVE WriteInv'
  OBVIOUS
<1>1. TypeInv'
  BY StepType DEF WriteInv
<1>0. HandleTypeOK /\ PyTypeOK /\ Awaiting
  BY DEF WriteInv, TypeInv, TypeOK
<1>2. CASE UNCHANGED vars
  <2>1. WritePlaces'
    BY <1>2 DEF vars, handleVars, pyVars, WriteInv, WritePlaces, NoLateLeak, Written, Ran
  <2> QED BY <1>1, <2>1 DEF WriteInv
<1>3. ASSUME NEW t \in Task, TaskStep(t) PROVE WritePlaces'
  <2>1. CASE Raise(t) \/ Catch(t) \/ (\E c \in Child : Spawn(t, c)) \/ ExitNested(t)
               \/ ExitBlock(t) \/ AbandonExit(t)
    BY <2>1 DEF Raise, Catch, Spawn, ExitNested, ExitBlock, AbandonExit, handleVars,
                WriteInv, WritePlaces, NoLateLeak, Written, Ran
  <2>2. CASE \E h \in Tx, a \in Alias : Begin(t, h, a)
    BY <2>2, HandleOpsPlaces DEF Begin
  <2>3. CASE Nest(t)
    BY <2>3, <1>0, HandleOpsPlaces, MarksAssumption DEF Nest, PyTypeOK, Handle
  <2>4. CASE FinishExit(t)
    BY <2>4, <1>0, HandleOpsPlaces DEF FinishExit, Awaiting
  <2>5. CASE UserOp(t)
    BY <2>5, <1>0, HandleOpsPlaces, MarksAssumption DEF UserOp, PyTypeOK, Handle, pyVars
  <2>6. ASSUME NEW s \in Stmt, NEW kind \in Kinds, NEW a \in Alias, Issue(t, s, kind, a)
        PROVE  WritePlaces'
    <3>1. /\ state' = state /\ log' = log /\ durable' = durable /\ stmt[s].st = "new"
          /\ \A x \in Stmt : x # s => stmt'[x] = stmt[x]
      BY <2>6, <1>0 DEF Issue, handleVars, PyTypeOK
    <3>2. \A g \in Tx, x \in Stmt : Ran(g, x)' <=> Ran(g, x)
      BY <3>1 DEF Ran
    <3>3. \A x \in Stmt : x \in durable \/ (\E g \in Tx : Ran(g, x)) => stmt'[x] = stmt[x]
      BY <3>1 DEF WriteInv, WritePlaces
    <3> QED
      BY <3>1, <3>2, <3>3, <1>0 DEF WriteInv, WritePlaces, NoLateLeak, Written, HandleTypeOK
  <2>7. CASE Execute(t)
    <3> DEFINE x == current[t]
    <3>1. /\ x \in Stmt /\ stmt[x].st = "pending" /\ stmt[x].seen \in Handle
          /\ \A y \in Stmt : y # x => stmt'[y] = stmt[y]
          /\ stmt'[x].st = "ok" /\ stmt'[x].seen = stmt[x].seen
      BY <2>7, <1>0 DEF Execute, Awaiting, PyTypeOK, StmtRecord
    <3>2. /\ \A y \in Stmt : stmt[y].st = "ok" => stmt'[y].st = "ok"
          /\ \A y \in Stmt : stmt'[y].seen = stmt[y].seen
      BY <3>1
    <3>3. CASE stmt[x].seen = None
      <4>1. durable' = durable \cup {x} /\ state' = state /\ log' = log
        BY <2>7, <3>3 DEF Execute, PoolExecute
      <4>2. \A g \in Tx, s \in Stmt : Ran(g, s)' <=> Ran(g, s)
        BY <4>1 DEF Ran
      <4>3. \A g \in Tx, s \in Stmt : Ran(g, s)' => stmt'[s].st = "ok" /\ stmt'[s].seen = g
        BY <4>2, <3>2 DEF WriteInv, WritePlaces
      <4>4. \A s \in durable' : stmt'[s].st = "ok"
        BY <4>1, <3>1, <3>2, <1>0 DEF WriteInv, WritePlaces, HandleTypeOK
      <4>5. NoLateLeak'
        BY <4>1, <3>1, <3>2, <3>3, <1>0 DEF WriteInv, WritePlaces, NoLateLeak, HandleTypeOK
      <4>6. \A g \in Tx : state'[g] = "committed" => Written(g)' \subseteq durable'
        BY <4>1, <4>2 DEF WriteInv, WritePlaces, Written
      <4> QED
        BY <4>3, <4>4, <4>5, <4>6 DEF WritePlaces
    <3>4. CASE stmt[x].seen # None
      <4> DEFINE h == stmt[x].seen
      <4>1. h \in Tx /\ HandleExecute(h, x)
        BY <2>7, <3>1, <3>4 DEF Execute, Handle
      <4>2. state[h] = "live" /\ durable' = durable /\ state' = state
        BY <4>1 DEF HandleExecute
      <4>3. \A g \in Tx, s \in Stmt : Ran(g, s)' <=> Ran(g, s) \/ (g = h /\ s = x)
        BY <4>1, <3>1, <1>0, LogSteps
      <4>4. \A g \in Tx, s \in Stmt : Ran(g, s)' => stmt'[s].st = "ok" /\ stmt'[s].seen = g
        BY <4>3, <3>1, <3>2 DEF WriteInv, WritePlaces
      <4>5. \A s \in durable' : stmt'[s].st = "ok"
        BY <4>2, <3>2, <1>0 DEF WriteInv, WritePlaces, HandleTypeOK
      <4>6. NoLateLeak'
        BY <4>2, <3>2, <1>0 DEF WriteInv, WritePlaces, NoLateLeak, HandleTypeOK
      <4>7. \A g \in Tx : state'[g] = "committed" => Written(g)' \subseteq durable'
        BY <4>2, <4>3 DEF WriteInv, WritePlaces, Written
      <4> QED
        BY <4>4, <4>5, <4>6, <4>7 DEF WritePlaces
    <3> QED BY <3>3, <3>4
  <2>8. CASE Refuse(t)
    <3> DEFINE x == current[t]
    <3>1. /\ x \in Stmt /\ stmt[x].st = "pending"
          /\ \A y \in Stmt : y # x => stmt'[y] = stmt[y]
          /\ log' = log /\ durable' = durable
      BY <2>8, <1>0 DEF Refuse, Awaiting, PyTypeOK, HandleError
    <3>2. \A g \in Tx : state'[g] = "committed" <=> state[g] = "committed"
      BY <2>8, <1>0 DEF Refuse, HandleError, HandleTypeOK
    <3>3. \A s \in durable : s \in Stmt /\ s # x /\ stmt[s].seen \in Handle
      BY <1>0, <3>1 DEF HandleTypeOK, PyTypeOK, StmtRecord, WriteInv, WritePlaces
    <3> QED
      BY <3>1, <3>2, <3>3 DEF WriteInv, WritePlaces, NoLateLeak, Written, Ran, Handle
  <2>9. CASE OpFails(t)
    <3>1. log' = log /\ durable' = durable /\ stmt' = stmt
      BY <2>9 DEF OpFails, HandleError
    <3>2. \A g \in Tx : state'[g] = "committed" <=> state[g] = "committed"
      BY <2>9, <1>0 DEF OpFails, HandleError, HandleTypeOK
    <3>3. \A s \in durable : s \in Stmt /\ stmt[s].seen \in Handle
      BY <1>0 DEF HandleTypeOK, PyTypeOK, StmtRecord
    <3> QED
      BY <3>1, <3>2, <3>3 DEF WriteInv, WritePlaces, NoLateLeak, Written, Ran, Handle
  <2> QED
    BY <1>3, <2>1, <2>2, <2>3, <2>4, <2>5, <2>6, <2>7, <2>8, <2>9 DEF TaskStep
<1>4. ASSUME NEW h \in Tx, Collect(h) PROVE WritePlaces'
  BY <1>4, HandleOpsPlaces DEF Collect, pyVars
<1> QED
  BY <1>1, <1>2, <1>3, <1>4 DEF Next, WriteInv

(* A write that read a handle from the slot is permanent only if that       *)
(* handle committed, for every interleaving of blocks and late statements.  *)
THEOREM NoWriteLeaks == Spec => []NoLateLeak
<1>1. WriteInv => NoLateLeak
  BY DEF WriteInv, WritePlaces
<1> QED
  BY InitWrites, StepWrites, <1>1, PTL DEF Spec

(* Transactions are atomic: the writes acknowledged on a handle and not     *)
(* undone are permanent together, at its commit, or not at all.             *)
THEOREM Atomicity == Spec => []AllOrNothing
<1>1. WriteInv => AllOrNothing
  <2> SUFFICES ASSUME WriteInv, NEW h \in Tx, state[h] # "committed", NEW s \in Written(h),
                      s \in durable
               PROVE  FALSE
    BY DEF WriteInv, WritePlaces, AllOrNothing
  <2>1. stmt[s].seen = h /\ h # None
    BY NoneAssumption DEF WriteInv, WritePlaces, NoLateLeak, Written
  <2> QED
    BY <2>1 DEF WriteInv, WritePlaces, NoLateLeak
<1> QED
  BY InitWrites, StepWrites, <1>1, PTL DEF Spec
-----------------------------------------------------------------------------
LEMMA EndedStep ==
  TypeInv /\ [Next]_vars =>
    \A h \in Tx : Ended(h) => state'[h] = state[h] /\ log'[h] = log[h]
<1> SUFFICES ASSUME TypeInv, [Next]_vars, NEW h \in Tx, Ended(h)
             PROVE  state'[h] = state[h] /\ log'[h] = log[h]
  OBVIOUS
<1>0. HandleTypeOK /\ PyTypeOK /\ Awaiting /\ state[h] \in {"committed", "rolledback"}
  BY DEF TypeInv, TypeOK, Ended
<1>1. CASE UNCHANGED vars
  BY <1>1 DEF vars, handleVars
<1>2. ASSUME NEW t \in Task, TaskStep(t) PROVE state'[h] = state[h] /\ log'[h] = log[h]
  <2> USE DEF HandleTypeOK
  <2>1. CASE Raise(t) \/ Catch(t) \/ (\E c \in Child : Spawn(t, c)) \/ ExitNested(t)
               \/ ExitBlock(t) \/ AbandonExit(t)
    BY <2>1 DEF Raise, Catch, Spawn, ExitNested, ExitBlock, AbandonExit, handleVars
  <2>2. CASE \E g \in Tx, a \in Alias : Begin(t, g, a)
    BY <2>2, <1>0 DEF Begin, HandleBegin
  <2>3. CASE Nest(t)
    BY <2>3, <1>0 DEF Nest, HandleSavepoint
  <2>4. CASE FinishExit(t)
    BY <2>4, <1>0 DEF FinishExit, HandleCommit, HandleRollback, Held
  <2>5. CASE UserOp(t)
    <3>1. CASE HandleCommit(ctx[t]) \/ HandleRollback(ctx[t])
      BY <3>1, <1>0 DEF HandleCommit, HandleRollback, Held
    <3>2. CASE \E m \in UserMark : HandleSavepoint(ctx[t], m)
      BY <3>2, <1>0 DEF HandleSavepoint
    <3>3. CASE \E m \in UserMark : HandleRollbackTo(ctx[t], m)
      BY <3>3, <1>0 DEF HandleRollbackTo, Held
    <3> QED BY <2>5, <3>1, <3>2, <3>3 DEF UserOp
  <2>6. CASE \E s \in Stmt, kind \in Kinds, a \in Alias : Issue(t, s, kind, a)
    BY <2>6 DEF Issue, handleVars
  <2>7. CASE Execute(t)
    BY <2>7, <1>0 DEF Execute, PoolExecute, HandleExecute
  <2>8. CASE Refuse(t) \/ OpFails(t)
    BY <2>8, <1>0 DEF Refuse, OpFails, HandleError
  <2> QED
    BY <1>2, <2>1, <2>2, <2>3, <2>4, <2>5, <2>6, <2>7, <2>8 DEF TaskStep
<1>3. ASSUME NEW g \in Tx, Collect(g) PROVE state'[h] = state[h] /\ log'[h] = log[h]
  BY <1>3, <1>0 DEF Collect, HandleRollback, HandleTypeOK, Held
<1> QED
  BY <1>1, <1>2, <1>3 DEF Next

(* No step of any task revives a handle that ended or runs anything on it.  *)
THEOREM NoRevival == Spec => EndedForever
<1>1. TypeInv /\ [Next]_vars =>
        [\A h \in Tx : Ended(h) => state'[h] = state[h] /\ log'[h] = log[h]]_vars
  BY EndedStep
<1> QED
  BY <1>1, TypeInvariant, PTL DEF Spec, EndedForever

-----------------------------------------------------------------------------
(* While one task runs alone, the slot is what its ContextVar says, so a    *)
(* query that was answered, or will be, ran on the innermost block.         *)
Alone ==
  /\ \A t \in Task : slot = ctx[t]
  /\ \A s \in Stmt : stmt[s].st \in {"pending", "ok"} /\ stmt[s].kind = "query"
                       => stmt[s].seen = stmt[s].home

LEMMA StepAlone ==
  ASSUME \A t, u \in Task : t = u
  PROVE  Child = {} /\ TypeInv /\ Alone /\ [Next]_vars => Alone'
<1> SUFFICES ASSUME Child = {}, TypeInv, Alone, [Next]_vars PROVE Alone'
  OBVIOUS
<1>0. PyTypeOK /\ Awaiting
  BY DEF TypeInv, TypeOK
<1> USE DEF Alone
<1>1. CASE UNCHANGED vars
  BY <1>1 DEF vars, handleVars, pyVars
<1>2. ASSUME NEW t \in Task, TaskStep(t) PROVE Alone'
  <2>1. CASE Raise(t) \/ Catch(t) \/ ExitNested(t)
    BY <2>1 DEF Raise, Catch, ExitNested, handleVars
  <2>2. CASE \E c \in Child : Spawn(t, c)
    BY <2>2
  <2>3. CASE \E h \in Tx, a \in Alias : Begin(t, h, a)
    BY <2>3, <1>0 DEF Begin, SetCurrent, PyTypeOK
  <2>4. CASE Nest(t) \/ FinishExit(t) \/ AbandonExit(t) \/ UserOp(t) \/ OpFails(t)
    BY <2>4 DEF Nest, FinishExit, AbandonExit, UserOp, OpFails, handleVars, pyVars
  <2>5. CASE ExitBlock(t)
    BY <2>5, <1>0 DEF ExitBlock, SetCurrent, PyTypeOK
  <2>6. ASSUME NEW s \in Stmt, NEW kind \in Kinds, NEW a \in Alias, Issue(t, s, kind, a)
        PROVE  Alone'
    <3>1. slot' = slot /\ ctx' = ctx
      BY <2>6 DEF Issue, handleVars
    <3>2. stmt' = [stmt EXCEPT ![s] = [st |-> "pending", home |-> ctx[t], db |-> a,
                                       kind |-> kind, seen |-> Dispatch(kind)]]
      BY <2>6 DEF Issue
    <3>3. kind = "query" => Dispatch(kind) = ctx[t]
      BY DEF Dispatch
    <3> QED
      BY <3>1, <3>2, <3>3, <1>0 DEF PyTypeOK
  <2>7. CASE Execute(t)
    <3>1. current[t] \in Stmt /\ stmt[current[t]].st = "pending" /\ slot' = slot /\ ctx' = ctx
          /\ stmt' = [stmt EXCEPT ![current[t]].st = "ok"]
      BY <2>7, <1>0 DEF Execute, Awaiting
    <3> QED
      BY <3>1, <1>0 DEF PyTypeOK, StmtRecord
  <2>8. CASE Refuse(t)
    <3>1. current[t] \in Stmt /\ slot' = slot /\ ctx' = ctx
          /\ stmt' = [stmt EXCEPT ![current[t]] = Blank("failed")]
      BY <2>8, <1>0 DEF Refuse, Awaiting
    <3> QED
      BY <3>1, <1>0 DEF PyTypeOK, Blank
  <2> QED
    BY <1>2, <2>1, <2>2, <2>3, <2>4, <2>5, <2>6, <2>7, <2>8 DEF TaskStep
<1>3. CASE \E h \in Tx : Collect(h)
  BY <1>3 DEF Collect, pyVars
<1> QED
  BY <1>1, <1>2, <1>3 DEF Next

(* In a process that runs one task, every query issued in a block runs on   *)
(* that block's transaction, through nesting over several databases.        *)
THEOREM LoneTaskEnlists ==
  (\A t, u \in Task : t = u) /\ Child = {} => (Spec => []Enlisted)
<1> SUFFICES ASSUME \A t, u \in Task : t = u, Child = {} PROVE Spec => []Enlisted
  OBVIOUS
<1>1. Init => Alone
  BY BlankType DEF Init, HandleInit, PyInit, Alone
<1>2. TypeInv /\ Alone /\ [Next]_vars => Alone'
  BY StepAlone
<1>3. Alone => Enlisted
  BY DEF Alone, Enlisted
<1> QED
  BY <1>1, <1>2, <1>3, TypeInvariant, PTL DEF Spec
-----------------------------------------------------------------------------
(* Refinement.  Every step of a lone task that issues no bulk operation is  *)
(* a step of AtomicBlocks or leaves the blocks unchanged.                   *)
Answers == [s \in Stmt |-> stmt[s].st]
Homes == [s \in Stmt |-> stmt[s].home]
blockVars == <<Phase, Pending, durable, Answers, Homes>>

NoBulk == \A s \in Stmt : stmt[s].kind = "query"
LoneInv == StackInv /\ Alone /\ NoBulk

LEMMA StepNoBulk ==
  ASSUME Kinds \subseteq {"query"}
  PROVE  TypeInv /\ NoBulk /\ [Next]_vars => NoBulk'
<1> SUFFICES ASSUME TypeInv, NoBulk, [Next]_vars PROVE NoBulk'
  OBVIOUS
<1>0. PyTypeOK /\ Awaiting
  BY DEF TypeInv, TypeOK
<1> USE DEF NoBulk
<1>1. CASE UNCHANGED stmt
  BY <1>1
<1>2. ASSUME NEW t \in Task, TaskStep(t) PROVE NoBulk'
  <2>1. CASE \E s \in Stmt, kind \in Kinds, a \in Alias : Issue(t, s, kind, a)
    BY <2>1, <1>0 DEF Issue, PyTypeOK
  <2>2. CASE Execute(t)
    BY <2>2, <1>0 DEF Execute, PyTypeOK, StmtRecord
  <2>3. CASE Refuse(t)
    BY <2>3, <1>0 DEF Refuse, PyTypeOK, Blank
  <2>4. CASE Raise(t) \/ Catch(t) \/ (\E c \in Child : Spawn(t, c)) \/ Nest(t) \/ ExitNested(t)
               \/ (\E h \in Tx, a \in Alias : Begin(t, h, a)) \/ ExitBlock(t) \/ FinishExit(t)
               \/ AbandonExit(t) \/ UserOp(t) \/ OpFails(t)
    BY <2>4 DEF Raise, Catch, Spawn, Nest, ExitNested, Begin, ExitBlock, FinishExit,
                AbandonExit, UserOp, OpFails, pyVars
  <2> QED
    BY <1>2, <2>1, <2>2, <2>3, <2>4 DEF TaskStep
<1>3. CASE \E h \in Tx : Collect(h)
  BY <1>3 DEF Collect, pyVars
<1> QED
  BY <1>1, <1>2, <1>3 DEF Next, vars, pyVars

LEMMA InitBlocks == Init => Blocks!Init
BY DEF Init, HandleInit, PyInit, Blocks!Init, Phase, Pending, Held, Written, Ran, OnLog, Blank

(* The operations that end a handle commit its block, abort it, or find it  *)
(* ended.                                                                   *)
LEMMA EndSteps ==
  ASSUME HandleTypeOK, NEW h \in Tx, stmt' = stmt, HandleCommit(h) \/ HandleRollback(h)
  PROVE  Blocks!Commit(h) \/ Blocks!Abort(h) \/ UNCHANGED blockVars
<1>1. Pending' = Pending /\ Answers' = Answers /\ Homes' = Homes
  BY DEF HandleCommit, HandleRollback, Pending, Written, Ran, Answers, Homes
<1>2. Phase[h] = IF Held(h) THEN "open" ELSE state[h]
  BY DEF Phase
<1>3. CASE HandleCommit(h) /\ state[h] = "live"
  <2>1. Phase' = [Phase EXCEPT ![h] = "committed"] /\ Phase[h] = "open"
    BY <1>2, <1>3 DEF HandleCommit, Phase, Held, HandleTypeOK
  <2>2. durable' = durable \cup Pending[h]
    BY <1>3 DEF HandleCommit, Pending
  <2> QED
    BY <1>1, <2>1, <2>2 DEF Blocks!Commit, Answers, Homes
<1>4. CASE Held(h) /\ ~(HandleCommit(h) /\ state[h] = "live")
  <2>1. Phase' = [Phase EXCEPT ![h] = "rolledback"] /\ Phase[h] = "open" /\ durable' = durable
    BY <1>2, <1>4 DEF HandleCommit, HandleRollback, Phase, Held, HandleTypeOK
  <2> QED
    BY <1>1, <2>1 DEF Blocks!Abort, Answers, Homes
<1>5. CASE ~Held(h)
  <2>1. state' = state /\ durable' = durable
    BY <1>5 DEF HandleCommit, HandleRollback, Held, HandleTypeOK
  <2> QED
    BY <1>1, <2>1 DEF blockVars, Phase, Held
<1> QED
  BY <1>3, <1>4, <1>5 DEF Held

LEMMA SavepointStep ==
  ASSUME HandleTypeOK, NEW h \in Tx, NEW m \in Mark, HandleSavepoint(h, m), stmt' = stmt
  PROVE  UNCHANGED blockVars
<1>1. \A g \in Tx, s \in Stmt : Ran(g, s)' <=> Ran(g, s)
  BY LogSteps
<1>2. Pending' = Pending
  BY <1>1 DEF Pending, Written
<1> QED
  BY <1>2 DEF HandleSavepoint, blockVars, Phase, Held, Answers, Homes

LEMMA RollbackToStep ==
  ASSUME HandleTypeOK, NEW h \in Tx, NEW m \in Mark, HandleRollbackTo(h, m), stmt' = stmt
  PROVE  \E kept \in SUBSET Stmt : Blocks!Undo(h, kept)
<1> DEFINE kept == Written(h)'
<1>1. \A g \in Tx, s \in Stmt : /\ Ran(g, s)' => Ran(g, s)
  BY LogSteps
<1>2. kept \subseteq Pending[h] /\ kept \in SUBSET Stmt
  BY <1>1 DEF Pending, Written
<1>3. \A g \in Tx : g # h => Written(g)' = Written(g)
  BY DEF HandleRollbackTo, HandleTypeOK, Written, Ran
<1>4. Pending' = [Pending EXCEPT ![h] = kept]
  BY <1>3 DEF Pending
<1>5. Phase' = Phase /\ Phase[h] = "open" /\ durable' = durable
  BY DEF HandleRollbackTo, HandleTypeOK, Phase, Held
<1>6. Blocks!Undo(h, kept)
  BY <1>2, <1>4, <1>5 DEF Blocks!Undo
<1> QED
  BY <1>2, <1>6

LEMMA StepBlocks ==
  ASSUME \A t, u \in Task : t = u, Child = {}, Kinds \subseteq {"query"}
  PROVE  LoneInv /\ [Next]_vars => [Blocks!Next]_blockVars
<1> SUFFICES ASSUME LoneInv, [Next]_vars PROVE [Blocks!Next]_blockVars
  OBVIOUS
<1>0. HandleTypeOK /\ PyTypeOK /\ Awaiting /\ BlockStack /\ Alone
  BY DEF LoneInv, StackInv, TypeInv, TypeOK
<1>3. NoBulk
  BY DEF LoneInv
<1>1. CASE UNCHANGED vars
  BY <1>1 DEF vars, handleVars, pyVars, blockVars, Phase, Pending, Held, Written, Ran,
              Answers, Homes
<1>2. ASSUME NEW t \in Task, TaskStep(t) PROVE [Blocks!Next]_blockVars
  <2>1. CASE Raise(t) \/ Catch(t) \/ ExitNested(t) \/ ExitBlock(t) \/ AbandonExit(t)
    BY <2>1 DEF Raise, Catch, ExitNested, ExitBlock, AbandonExit, handleVars, blockVars, Phase, Pending,
                Held, Written, Ran, Answers, Homes
  <2>2. CASE \E c \in Child : Spawn(t, c)
    BY <2>2
  <2>3. ASSUME NEW h \in Tx, NEW a \in Alias, Begin(t, h, a)
        PROVE  [Blocks!Next]_blockVars
    <3>1. Phase' = [Phase EXCEPT ![h] = "open"] /\ Phase[h] = "unused"
      BY <2>3, <1>0 DEF Begin, HandleBegin, Phase, Held, HandleTypeOK
    <3>2. Pending' = Pending /\ durable' = durable /\ stmt' = stmt
      BY <2>3 DEF Begin, HandleBegin, Pending, Written, Ran
    <3>3. Blocks!Open(h)
      BY <3>1, <3>2 DEF Blocks!Open
    <3> QED BY <3>3 DEF Blocks!Next
  <2>4. CASE Nest(t)
    <3>1. ctx[t] \in Tx /\ NestMark \in Mark
      BY <2>4, <1>0, MarksAssumption DEF Nest, PyTypeOK, Handle
    <3> QED BY <2>4, <1>0, <3>1, SavepointStep DEF Nest
  <2>5. CASE FinishExit(t)
    <3>1. leaving[t] \in Tx /\ stmt' = stmt
      BY <2>5, <1>0 DEF FinishExit, Awaiting
    <3>2. HandleCommit(leaving[t]) \/ HandleRollback(leaving[t])
      BY <2>5 DEF FinishExit
    <3> QED BY <3>1, <3>2, <1>0, EndSteps DEF Blocks!Next
  <2>6. CASE UserOp(t)
    <3>1. ctx[t] \in Tx /\ UserMark \subseteq Mark /\ stmt' = stmt
      BY <2>6, <1>0, MarksAssumption DEF UserOp, PyTypeOK, Handle, pyVars
    <3>2. CASE HandleCommit(ctx[t]) \/ HandleRollback(ctx[t])
      BY <3>1, <3>2, <1>0, EndSteps DEF Blocks!Next
    <3>3. CASE \E m \in UserMark : HandleSavepoint(ctx[t], m)
      BY <3>1, <3>3, <1>0, SavepointStep
    <3>4. CASE \E m \in UserMark : HandleRollbackTo(ctx[t], m)
      BY <3>1, <3>4, <1>0, RollbackToStep DEF Blocks!Next
    <3> QED BY <2>6, <3>2, <3>3, <3>4 DEF UserOp
  <2>7. ASSUME NEW s \in Stmt, NEW kind \in Kinds, NEW a \in Alias, Issue(t, s, kind, a)
        PROVE  [Blocks!Next]_blockVars
    <3>1. Phase' = Phase /\ Pending' = Pending /\ durable' = durable
      BY <2>7 DEF Issue, handleVars, Phase, Pending, Held, Written, Ran
    <3>2. Answers[s] = "new" /\ Answers' = [Answers EXCEPT ![s] = "pending"]
          /\ Homes' = [Homes EXCEPT ![s] = ctx[t]]
      BY <2>7, <1>0 DEF Issue, PyTypeOK, Answers, Homes
    <3>3. ctx[t] \in Tx \cup {None} /\ (ctx[t] # None => Phase[ctx[t]] # "unused")
      BY <1>0, TaskAssumption DEF PyTypeOK, Handle, BlockStack, Phase, Held
    <3>4. PICK b \in Tx \cup {None} : b = ctx[t]
      BY <3>3
    <3>5. Blocks!Issue(s, b)
      BY <3>1, <3>2, <3>3, <3>4 DEF Blocks!Issue, Answers, Homes
    <3>6. \E x \in Stmt, c \in Tx \cup {None} : Blocks!Issue(x, c)
      BY <3>5
    <3> QED BY <3>6 DEF Blocks!Next
  <2>8. CASE Execute(t)
    <3>1. PICK s \in Stmt :
          /\ s = current[t] /\ stmt[s].st = "pending" /\ stmt[s].home \in Handle
          /\ stmt[s].kind = "query" /\ stmt' = [stmt EXCEPT ![s].st = "ok"]
      BY <2>8, <1>0, <1>3 DEF Execute, Awaiting, PyTypeOK, StmtRecord, NoBulk
    <3>2. stmt[s].seen = stmt[s].home
      BY <3>1, <1>0 DEF Alone
    <3>3. Answers[s] = "pending" /\ Answers' = [Answers EXCEPT ![s] = "ok"]
          /\ Homes' = Homes /\ Homes[s] = stmt[s].home
      BY <3>1, <1>0 DEF Answers, Homes, PyTypeOK, StmtRecord
    <3>4. CASE stmt[s].home = None
      <4>1. durable' = durable \cup {s} /\ Phase' = Phase /\ Pending' = Pending
        BY <2>8, <3>1, <3>2, <3>4 DEF Execute, PoolExecute, Phase, Pending, Held, Written, Ran
      <4>2. Blocks!WriteOutside(s)
        BY <4>1, <3>3, <3>4 DEF Blocks!WriteOutside, Answers, Homes
      <4>3. \E x \in Stmt : Blocks!WriteOutside(x)
        BY <3>1, <4>2
      <4> QED BY <4>3 DEF Blocks!Next
    <3>5. CASE stmt[s].home # None
      <4> DEFINE h == stmt[s].home
      <4>1. h \in Tx /\ HandleExecute(h, s)
        BY <2>8, <3>1, <3>2, <3>5 DEF Execute, Handle
      <4>2. durable' = durable /\ Phase' = Phase /\ Phase[h] = "open"
        BY <4>1 DEF HandleExecute, Phase, Held
      <4>3. \A g \in Tx, x \in Stmt : Ran(g, x)' <=> Ran(g, x) \/ (g = h /\ x = s)
        BY <4>1, <3>1, <1>0, LogSteps
      <4>4. Pending' = [Pending EXCEPT ![h] = @ \cup {s}]
        <5>1. \A g \in Tx : Written(g)' = IF g = h THEN Written(g) \cup {s} ELSE Written(g)
          BY <4>3, <3>1 DEF Written
        <5> QED BY <5>1, <4>1 DEF Pending
      <4>5. Blocks!WriteInside(s)
        BY <4>2, <4>4, <3>3, <3>5 DEF Blocks!WriteInside, Answers, Homes
      <4>6. \E x \in Stmt : Blocks!WriteInside(x)
        BY <3>1, <4>5
      <4> QED BY <4>6 DEF Blocks!Next
    <3> QED BY <3>4, <3>5
  <2>9. CASE Refuse(t)
    <3>1. PICK s \in Stmt :
          /\ s = current[t] /\ stmt[s].st = "pending" /\ stmt[s].seen \in Handle
          /\ stmt' = [stmt EXCEPT ![s] = Blank("failed")]
      BY <2>9, <1>0 DEF Refuse, Awaiting, PyTypeOK, StmtRecord
    <3>2. Answers[s] = "pending" /\ Answers' = [Answers EXCEPT ![s] = "failed"]
          /\ Homes' = [Homes EXCEPT ![s] = None]
      BY <3>1, <1>0 DEF Answers, Homes, PyTypeOK, Blank
    <3>3. durable' = durable /\ Phase' = Phase /\ Pending' = Pending
      BY <2>9, <3>1, <1>0 DEF Refuse, HandleError, Handle, Phase, Pending, Held, Written, Ran,
                              HandleTypeOK
    <3>4. Blocks!Refuse(s)
      BY <3>2, <3>3 DEF Blocks!Refuse, Answers, Homes
    <3>5. \E x \in Stmt : Blocks!Refuse(x)
      BY <3>1, <3>4
    <3> QED BY <3>5 DEF Blocks!Next
  <2>10. CASE OpFails(t)
    <3>1. durable' = durable /\ stmt' = stmt /\ log' = log
      BY <2>10 DEF OpFails, HandleError
    <3>2. Phase' = Phase
      BY <2>10, <1>0 DEF OpFails, HandleError, Phase, Held, HandleTypeOK
    <3> QED
      BY <3>1, <3>2 DEF blockVars, Pending, Written, Ran, Answers, Homes
  <2> QED
    BY <1>2, <2>1, <2>2, <2>3, <2>4, <2>5, <2>6, <2>7, <2>8, <2>9, <2>10 DEF TaskStep
<1>4. ASSUME NEW h \in Tx, Collect(h) PROVE [Blocks!Next]_blockVars
  BY <1>4, <1>0, EndSteps DEF Collect, pyVars, Blocks!Next
<1> QED
  BY <1>1, <1>2, <1>4 DEF Next

(* A lone task without bulk operations gets what AtomicBlocks promises.     *)
THEOREM LoneTaskRefines ==
  (\A t, u \in Task : t = u) /\ Child = {} /\ Kinds \subseteq {"query"} => (Spec => BlocksSpec)
<1> SUFFICES ASSUME \A t, u \in Task : t = u, Child = {}, Kinds \subseteq {"query"}
             PROVE  Spec => BlocksSpec
  OBVIOUS
<1>1. Init => LoneInv
  BY InitStack, BlankType DEF Init, HandleInit, PyInit, Alone, LoneInv, NoBulk, Blank
<1>2. LoneInv /\ [Next]_vars => LoneInv'
  <2>1. LoneInv /\ [Next]_vars => StackInv' /\ Alone'
    BY StepStack, StepAlone DEF LoneInv, StackInv, NoChild
  <2>2. LoneInv /\ [Next]_vars => NoBulk'
    BY StepNoBulk DEF LoneInv, StackInv
  <2> QED BY <2>1, <2>2 DEF LoneInv
<1>3. LoneInv /\ [Next]_vars => [Blocks!Next]_(Blocks!vars)
  BY StepBlocks DEF blockVars, Blocks!vars, Answers, Homes
<1> QED
  BY InitBlocks, <1>1, <1>2, <1>3, PTL DEF Spec, BlocksSpec, Blocks!Spec
=============================================================================
