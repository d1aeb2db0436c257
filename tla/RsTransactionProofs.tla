------------------------ MODULE RsTransactionProofs ------------------------
(***************************************************************************)
(* Proofs about RsTransaction, for every number of tasks, handles and       *)
(* writes, with nested closures and futures dropped at any await.           *)
(***************************************************************************)
EXTENDS RsTransaction, TransactionHandleProofs

Record == [st : {"new", "pending", "ok", "failed"}, home : Handle, seen : Handle]

(* An awaited statement is pending and awaited by one task.                 *)
Awaiting ==
  /\ \A t \in Task : current[t] # None => stmt[current[t]].st = "pending"
  /\ \A t, u \in Task : current[t] # None /\ current[t] = current[u] => t = u

TypeInv == RsTypeOK /\ Awaiting

-----------------------------------------------------------------------------
LEMMA Blanks ==
  /\ AnyAlias \in Alias
  /\ \A st \in {"new", "failed"} : /\ Blank(st) \in Record /\ Blank(st).st = st
                                   /\ Blank(st).seen = None /\ Blank(st).home = None
BY AliasAssumption DEF AnyAlias, Blank, Record, Handle

(* Acknowledging a statement changes its fate alone.                        *)
LEMMA OkRecord ==
  ASSUME NEW r \in Record
  PROVE  LET ok == [r EXCEPT !.st = "ok"]
         IN ok \in Record /\ ok.st = "ok" /\ ok.seen = r.seen /\ ok.home = r.home
BY DEF Record

LEMMA InitType == Init => TypeInv
<1> SUFFICES ASSUME Init PROVE TypeInv
  OBVIOUS
<1> USE DEF Init, HandleInit
<1>1. HandleTypeOK
  BY Blanks DEF HandleTypeOK, Entry
<1>2. RsTypeOK
  BY <1>1, Blanks DEF RsTypeOK, Handle, Record
<1>3. Awaiting
  BY DEF Awaiting
<1> QED
  BY <1>2, <1>3 DEF TypeInv

(* Every step of a task that touches a statement: what it does to it.       *)
LEMMA Answered ==
  ASSUME TypeInv, NEW t \in Task, Execute(t) \/ Refuse(t) \/ Cancel(t), current[t] # None
  PROVE  /\ current[t] \in Stmt /\ stmt[current[t]].st = "pending"
         /\ stmt[current[t]] \in Record
         /\ current' = [current EXCEPT ![t] = None]
         /\ stmt' = [stmt EXCEPT ![current[t]] = IF Execute(t) THEN [@ EXCEPT !.st = "ok"]
                                                 ELSE Blank("failed")]
<1> USE DEF TypeInv, RsTypeOK, Awaiting
<1>1. /\ current[t] \in Stmt /\ stmt[current[t]].st = "pending"
      /\ stmt[current[t]] \in Record
  BY DEF Record
<1>2. current' = [current EXCEPT ![t] = None]
  BY DEF Execute, Refuse, Cancel
<1>3. CASE Execute(t)
  BY <1>1, <1>2, <1>3 DEF Execute
<1>4. CASE ~Execute(t) /\ Refuse(t)
  BY <1>1, <1>2, <1>4 DEF Refuse
<1>5. CASE ~Execute(t) /\ Cancel(t)
  <2>1. stmt' = [s \in Stmt |-> IF s = current[t] THEN Blank("failed") ELSE stmt[s]]
    BY <1>5 DEF Cancel
  <2>2. stmt' = [stmt EXCEPT ![current[t]] = Blank("failed")]
    BY <1>1, <2>1
  <2> QED BY <1>1, <1>2, <1>5, <2>2
<1> QED
  BY <1>3, <1>4, <1>5

LEMMA StepType == TypeInv /\ [Next]_vars => TypeInv'
<1> SUFFICES ASSUME TypeInv, [Next]_vars PROVE TypeInv'
  OBVIOUS
<1> USE DEF TypeInv, RsTypeOK, Handle
<1>1. CASE UNCHANGED vars
  BY <1>1 DEF vars, handleVars, rsVars, HandleTypeOK, Awaiting
<1>2. ASSUME NEW t \in Task, TaskStep(t) PROVE TypeInv'
  <2>1. ASSUME NEW h \in Tx, Begin(t, h) PROVE TypeInv'
    <3>1. HandleTypeOK'
      BY <2>1, HandleOpsType, Blanks DEF Begin, SetCurrent
    <3> QED BY <2>1, <3>1 DEF Begin, Awaiting
  <2>2. CASE CommitOrRollback(t)
    <3>1. cur[t] \in Tx /\ slot' \in Tx \cup {None}
      BY <2>2 DEF CommitOrRollback, HandleTypeOK
    <3>2. HandleTypeOK'
      BY <2>2, <3>1, HandleOpsType DEF CommitOrRollback
    <3> QED BY <2>2, <3>2 DEF CommitOrRollback, rsVars, Awaiting
  <2>3. CASE Return(t)
    <3>1. cur[t] \in Tx
      BY <2>3 DEF Return
    <3>2. HandleTypeOK'
      BY <2>3 DEF Return, SetCurrent, HandleTypeOK
    <3> QED BY <2>3, <3>1, <3>2 DEF Return, Awaiting
  <2>4. CASE Cancel(t)
    <3>1. HandleTypeOK'
      BY <2>4 DEF Cancel, handleVars, HandleTypeOK
    <3>2. stmt' \in [Stmt -> Record]
      BY <2>4, Blanks DEF Cancel, Record
    <3>3. RsTypeOK'
      BY <2>4, <3>1, <3>2 DEF Cancel, Record
    <3>4. Awaiting'
      <4>1. \A s \in Stmt : s # current[t] => stmt'[s] = stmt[s]
        BY <2>4 DEF Cancel
      <4> QED BY <2>4, <4>1 DEF Cancel, Awaiting
    <3> QED BY <3>3, <3>4
  <2>5. ASSUME NEW s \in Stmt, Issue(t, s) PROVE TypeInv'
    <3>1. HandleTypeOK' /\ Dispatch("query") \in Handle
      BY <2>5 DEF Issue, handleVars, HandleTypeOK, Dispatch
    <3>2. stmt' = [stmt EXCEPT ![s] = [st |-> "pending", home |-> cur[t],
                                       seen |-> Dispatch("query")]]
          /\ stmt[s].st = "new" /\ current' = [current EXCEPT ![t] = s]
      BY <2>5 DEF Issue
    <3>3. RsTypeOK'
      BY <2>5, <3>1, <3>2 DEF Issue
    <3>4. Awaiting'
      BY <3>2, StmtAssumption DEF Awaiting
    <3> QED BY <3>3, <3>4
  <2>6. CASE Execute(t) \/ Refuse(t)
    <3> DEFINE s == current[t]
    <3>1. s # None /\ (Execute(t) \/ Refuse(t) \/ Cancel(t))
      BY <2>6 DEF Execute, Refuse
    <3>2. /\ s \in Stmt /\ stmt[s] \in Record
          /\ current' = [current EXCEPT ![t] = None]
          /\ stmt' = [stmt EXCEPT ![s] = IF Execute(t) THEN [@ EXCEPT !.st = "ok"]
                                         ELSE Blank("failed")]
      BY <3>1, Answered
    <3>3. stmt' \in [Stmt -> Record] /\ \A x \in Stmt : x # s => stmt'[x] = stmt[x]
      BY <3>2, OkRecord, Blanks DEF Record
    <3>4. stmt[s].seen \in Tx \cup {None} /\ slot' \in Tx \cup {None}
      BY <2>6, <3>2 DEF Execute, Refuse, HandleTypeOK, Record
    <3>5. HandleTypeOK'
      <4>1. CASE Execute(t)
        <5>1. CASE stmt[s].seen = None
          BY <4>1, <5>1, <3>2, <3>4 DEF Execute, PoolExecute, HandleTypeOK
        <5>2. CASE stmt[s].seen # None
          BY <4>1, <5>2, <3>2, <3>4, HandleOpsType DEF Execute
        <5> QED BY <5>1, <5>2
      <4>2. CASE Refuse(t)
        <5>1. CASE stmt[s].seen = None
          BY <4>2, <5>1, <3>4 DEF Refuse, HandleTypeOK
        <5>2. CASE stmt[s].seen # None
          BY <4>2, <5>2, <3>4, HandleOpsType DEF Refuse
        <5> QED BY <5>1, <5>2
      <4> QED BY <2>6, <4>1, <4>2
    <3>6. RsTypeOK'
      BY <2>6, <3>2, <3>3, <3>5 DEF Execute, Refuse, Record
    <3>7. Awaiting'
      BY <3>2, <3>3 DEF Awaiting
    <3> QED BY <3>6, <3>7
  <2> QED
    BY <1>2, <2>1, <2>2, <2>3, <2>4, <2>5, <2>6 DEF TaskStep
<1> QED
  BY <1>1, <1>2 DEF Next

LEMMA TypeInvariant == Spec => []TypeInv
BY InitType, StepType, PTL DEF Spec

(* Every variable keeps its type, for all values of the constants.          *)
THEOREM TypeCorrect == Spec => []RsTypeOK
<1>1. TypeInv => RsTypeOK
  BY DEF TypeInv
<1> QED
  BY <1>1, TypeInvariant, PTL
-----------------------------------------------------------------------------
(* The slot.                                                                *)

(* The slot names no handle that was not begun; without a dropped future it *)
(* names one whose closure has not returned.                                *)
SlotNamed == slot # None => state[slot] # "unused" /\ (~dropped => owner[slot] # None)

LEMMA StepSlot == TypeInv /\ SlotNamed /\ [Next]_vars => SlotNamed'
<1> SUFFICES ASSUME TypeInv, SlotNamed, [Next]_vars PROVE SlotNamed'
  OBVIOUS
<1> USE DEF SlotNamed
<1>0. HandleTypeOK /\ RsTypeOK /\ None \notin Tx /\ None \notin Task
  BY NoneAssumption, TaskAssumption DEF TypeInv, RsTypeOK
<1>1. CASE UNCHANGED vars
  BY <1>1 DEF vars, handleVars, rsVars
<1>2. ASSUME NEW t \in Task, TaskStep(t) PROVE SlotNamed'
  <2>1. ASSUME NEW h \in Tx, Begin(t, h) PROVE SlotNamed'
    <3>1. slot' = h /\ state'[h] = "live" /\ owner'[h] = t
      BY <2>1, <1>0 DEF Begin, HandleBegin, SetCurrent, HandleTypeOK, RsTypeOK
    <3> QED BY <3>1, <1>0
  <2>2. CASE CommitOrRollback(t)
    <3>1. \A g \in Tx : state'[g] = "unused" => state[g] = "unused"
      BY <2>2, <1>0, UsedForGood DEF CommitOrRollback, RsTypeOK, Handle
    <3> QED BY <2>2, <3>1, <1>0 DEF CommitOrRollback, rsVars, HandleTypeOK
  <2>3. CASE Return(t)
    BY <2>3 DEF Return, SetCurrent
  <2>4. CASE Cancel(t)
    BY <2>4 DEF Cancel, handleVars
  <2>5. CASE \E s \in Stmt : Issue(t, s)
    BY <2>5 DEF Issue, handleVars
  <2>6. CASE Execute(t)
    BY <2>6 DEF Execute, PoolExecute, HandleExecute
  <2>7. CASE Refuse(t)
    <3>1. \A g \in Tx : state'[g] = "unused" => state[g] = "unused"
      BY <2>7, <1>0 DEF Refuse, HandleError, HandleTypeOK
    <3> QED BY <2>7, <3>1, <1>0 DEF Refuse, HandleTypeOK
  <2> QED
    BY <1>2, <2>1, <2>2, <2>3, <2>4, <2>5, <2>6, <2>7 DEF TaskStep
<1> QED
  BY <1>1, <1>2 DEF Next

LEMMA SlotInvariant == Spec => [](TypeInv /\ SlotNamed)
<1>1. Init => SlotNamed
  BY DEF Init, HandleInit, SlotNamed
<1> QED
  BY <1>1, InitType, StepType, StepSlot, PTL DEF Spec

(* As long as no future was dropped, the slot names no handle whose closure *)
(* has returned, however many tasks interleave and nest their closures.     *)
THEOREM ReturnClearsSlot == Spec => []ReturnLeavesSlot
<1>1. SlotNamed => ReturnLeavesSlot
  BY DEF SlotNamed, ReturnLeavesSlot
<1> QED
  BY <1>1, SlotInvariant, PTL

-----------------------------------------------------------------------------
(* Writes.                                                                  *)

(* A write on a handle's log was acknowledged and read that handle; what is *)
(* permanent was acknowledged, on the pool or on a handle that committed.   *)
WritePlaces ==
  /\ \A h \in Tx, s \in Stmt : Ran(h, s) => stmt[s].st = "ok" /\ stmt[s].seen = h
  /\ \A s \in durable : stmt[s].st = "ok"
  /\ NoLateLeak

WriteInv == TypeInv /\ WritePlaces

(* Whatever leaves logs, permanent writes and acknowledged statements alone *)
(* and un-commits no handle keeps the writes in place.                      *)
LEMMA PlacesKept ==
  ASSUME WriteInv, log' = log, durable' = durable,
         \A s \in Stmt : stmt[s].st = "ok" => stmt'[s] = stmt[s],
         \A h \in Tx : state[h] = "committed" => state'[h] = "committed"
  PROVE  WritePlaces'
<1>1. \A s \in durable : s \in Stmt /\ stmt[s].seen \in Tx \cup {None}
  BY DEF WriteInv, TypeInv, RsTypeOK, HandleTypeOK, Handle
<1> QED
  BY <1>1 DEF WriteInv, WritePlaces, NoLateLeak, Ran

LEMMA CommitPlaces ==
  ASSUME WriteInv, NEW h \in Tx, HandleCommit(h), stmt' = stmt
  PROVE  WritePlaces'
<1>0. HandleTypeOK
  BY DEF WriteInv, TypeInv, RsTypeOK
<1>1. CASE state[h] = "live"
  <2>1. /\ durable' = durable \cup {s \in Stmt : Ran(h, s)} /\ log' = log
        /\ state'[h] = "committed" /\ \A g \in Tx : g # h => state'[g] = state[g]
    BY <1>0, <1>1 DEF HandleCommit, Written, HandleTypeOK
  <2>2. \A s \in durable : s \in Stmt /\ stmt[s].seen \in Tx \cup {None}
    BY DEF WriteInv, TypeInv, RsTypeOK, HandleTypeOK, Handle
  <2>3. \A s \in durable : stmt[s].seen # None => state'[stmt[s].seen] = "committed"
    BY <2>1, <2>2 DEF WriteInv, WritePlaces, NoLateLeak
  <2>4. \A s \in Stmt : Ran(h, s) => stmt[s].seen = h /\ stmt[s].st = "ok"
    BY DEF WriteInv, WritePlaces
  <2>5. NoLateLeak' /\ \A s \in durable' : stmt'[s].st = "ok"
    BY <2>1, <2>3, <2>4 DEF WriteInv, WritePlaces, NoLateLeak
  <2> QED
    BY <2>1, <2>5 DEF WriteInv, WritePlaces, Ran
<1>2. CASE state[h] # "live"
  BY <1>0, <1>2, PlacesKept DEF HandleCommit, HandleTypeOK
<1> QED
  BY <1>1, <1>2

LEMMA ExecutePlaces ==
  ASSUME WriteInv, NEW t \in Task, Execute(t)
  PROVE  WritePlaces'
<1> DEFINE x == current[t]
<1>0. HandleTypeOK /\ RsTypeOK /\ x # None
  BY DEF WriteInv, TypeInv, RsTypeOK, Execute
<1>1. x \in Stmt /\ stmt[x].st = "pending" /\ stmt[x] \in Record
      /\ stmt' = [stmt EXCEPT ![x] = [@ EXCEPT !.st = "ok"]]
  BY <1>0, Answered DEF WriteInv
<1>2. /\ \A s \in Stmt : s # x => stmt'[s] = stmt[s]
      /\ stmt'[x].st = "ok" /\ stmt'[x].seen = stmt[x].seen
  BY <1>0, <1>1, OkRecord DEF RsTypeOK
<1>3. /\ \A s \in Stmt : stmt[s].st = "ok" => stmt'[s].st = "ok"
      /\ \A s \in Stmt : stmt'[s].seen = stmt[s].seen
  BY <1>2
<1>4. \A s \in durable : s \in Stmt
  BY <1>0 DEF HandleTypeOK
<1>5. CASE stmt[x].seen = None
  <2>1. durable' = durable \cup {x} /\ state' = state /\ log' = log
    BY <1>5 DEF Execute, PoolExecute
  <2>2. NoLateLeak'
    BY <2>1, <1>3, <1>4, <1>5, <1>1 DEF WriteInv, WritePlaces, NoLateLeak
  <2>3. \A s \in durable' : stmt'[s].st = "ok"
    BY <2>1, <1>2, <1>3, <1>4 DEF WriteInv, WritePlaces
  <2>4. \A h \in Tx, s \in Stmt : Ran(h, s)' => stmt'[s].st = "ok" /\ stmt'[s].seen = h
    BY <2>1, <1>3 DEF WriteInv, WritePlaces, Ran
  <2> QED BY <2>2, <2>3, <2>4 DEF WritePlaces
<1>6. CASE stmt[x].seen # None
  <2> DEFINE h == stmt[x].seen
  <2>1. h \in Tx /\ HandleExecute(h, x)
    BY <1>1, <1>6 DEF Execute, Record, Handle
  <2>2. durable' = durable /\ state' = state
    BY <2>1 DEF HandleExecute
  <2>3. \A g \in Tx, s \in Stmt : Ran(g, s)' <=> Ran(g, s) \/ (g = h /\ s = x)
    BY <2>1, <1>0, <1>1, LogSteps
  <2>4. \A g \in Tx, s \in Stmt : Ran(g, s)' => stmt'[s].st = "ok" /\ stmt'[s].seen = g
    BY <2>3, <1>2, <1>3 DEF WriteInv, WritePlaces
  <2>5. NoLateLeak' /\ \A s \in durable' : stmt'[s].st = "ok"
    BY <2>2, <1>3, <1>4 DEF WriteInv, WritePlaces, NoLateLeak
  <2> QED BY <2>4, <2>5 DEF WritePlaces
<1> QED
  BY <1>5, <1>6

LEMMA StepWrites == WriteInv /\ [Next]_vars => WriteInv'
<1> SUFFICES ASSUME WriteInv, [Next]_vars PROVE WriteInv'
  OBVIOUS
<1>0. HandleTypeOK /\ RsTypeOK
  BY DEF WriteInv, TypeInv, RsTypeOK
<1>1. TypeInv'
  BY StepType DEF WriteInv
<1>2. CASE UNCHANGED vars
  <2>1. WritePlaces'
    BY <1>2, PlacesKept DEF vars, handleVars, rsVars
  <2> QED BY <1>1, <2>1 DEF WriteInv
<1>3. ASSUME NEW t \in Task, TaskStep(t) PROVE WritePlaces'
  <2>1. ASSUME NEW h \in Tx, Begin(t, h) PROVE WritePlaces'
    <3>1. /\ log' = log /\ durable' = durable /\ stmt' = stmt
          /\ state[h] = "unused" /\ state' = [state EXCEPT ![h] = "live"]
      BY <2>1 DEF Begin, HandleBegin
    <3> QED BY <3>1, <1>0, PlacesKept DEF HandleTypeOK
  <2>2. CASE CommitOrRollback(t)
    <3>1. cur[t] \in Tx /\ stmt' = stmt
      BY <2>2, <1>0 DEF CommitOrRollback, rsVars, RsTypeOK, Handle
    <3>2. CASE HandleCommit(cur[t])
      BY <3>1, <3>2, CommitPlaces
    <3>3. CASE HandleRollback(cur[t])
      BY <3>1, <3>3, <1>0, PlacesKept DEF HandleRollback, Held, HandleTypeOK
    <3> QED BY <2>2, <3>2, <3>3 DEF CommitOrRollback
  <2>3. CASE Return(t)
    BY <2>3, PlacesKept DEF Return
  <2>4. CASE Cancel(t)
    <3>1. \A s \in Stmt : stmt[s].st = "ok" => stmt'[s] = stmt[s]
      BY <2>4, <1>0, StmtAssumption DEF Cancel, WriteInv, TypeInv, Awaiting
    <3> QED BY <2>4, <3>1, PlacesKept DEF Cancel, handleVars
  <2>5. ASSUME NEW s \in Stmt, Issue(t, s) PROVE WritePlaces'
    <3>1. \A x \in Stmt : stmt[x].st = "ok" => stmt'[x] = stmt[x]
      BY <2>5, <1>0 DEF Issue, RsTypeOK
    <3> QED BY <2>5, <3>1, PlacesKept DEF Issue, handleVars
  <2>6. CASE Execute(t)
    BY <2>6, ExecutePlaces
  <2>7. CASE Refuse(t)
    <3>1. /\ current[t] \in Stmt /\ stmt[current[t]].st = "pending"
          /\ stmt' = [stmt EXCEPT ![current[t]] = Blank("failed")]
      BY <2>7, <1>0 DEF Refuse, RsTypeOK, WriteInv, TypeInv, Awaiting
    <3>2. \A x \in Stmt : stmt[x].st = "ok" => stmt'[x] = stmt[x]
      BY <3>1, <1>0 DEF RsTypeOK
    <3>3. /\ log' = log /\ durable' = durable
          /\ \A h \in Tx : state[h] = "committed" => state'[h] = "committed"
      BY <2>7, <1>0 DEF Refuse, HandleError, HandleTypeOK
    <3> QED BY <3>2, <3>3, PlacesKept
  <2> QED
    BY <1>3, <2>1, <2>2, <2>3, <2>4, <2>5, <2>6, <2>7 DEF TaskStep
<1> QED
  BY <1>1, <1>2, <1>3 DEF Next, WriteInv

(* A write that read a handle from the slot is permanent only if that       *)
(* handle committed: not if its closure returned or its future was dropped  *)
(* without a commit, and not if the handle outlived both.                   *)
THEOREM NoWriteLeaks == Spec => []NoLateLeak
<1>1. Init => WriteInv
  BY InitType DEF Init, HandleInit, WriteInv, WritePlaces, NoLateLeak, Ran, OnLog
<1>2. WriteInv => NoLateLeak
  BY DEF WriteInv, WritePlaces
<1> QED
  BY <1>1, <1>2, StepWrites, PTL DEF Spec

-----------------------------------------------------------------------------
(* Refinement.  Every step is a step of AtomicBlocks, with handles for      *)
(* blocks, or leaves the blocks unchanged.                                  *)
Answers == [s \in Stmt |-> stmt[s].st]
Seens == [s \in Stmt |-> stmt[s].seen]
blockVars == <<Phase, Pending, durable, Answers, Seens>>

LEMMA InitBlocks == Init => Blocks!Init
BY DEF Init, HandleInit, Blocks!Init, Phase, Pending, Held, Written, Ran, OnLog, Blank

(* The operations that end a handle commit its block, abort it, or find it  *)
(* ended.                                                                   *)
LEMMA EndSteps ==
  ASSUME HandleTypeOK, NEW h \in Tx, stmt' = stmt, HandleCommit(h) \/ HandleRollback(h)
  PROVE  Blocks!Commit(h) \/ Blocks!Abort(h) \/ UNCHANGED blockVars
<1>1. Pending' = Pending /\ Answers' = Answers /\ Seens' = Seens
  BY DEF HandleCommit, HandleRollback, Pending, Written, Ran, Answers, Seens
<1>2. Phase[h] = IF Held(h) THEN "open" ELSE state[h]
  BY DEF Phase
<1>3. CASE HandleCommit(h) /\ state[h] = "live"
  <2>1. Phase' = [Phase EXCEPT ![h] = "committed"] /\ Phase[h] = "open"
    BY <1>2, <1>3 DEF HandleCommit, Phase, Held, HandleTypeOK
  <2>2. durable' = durable \cup Pending[h]
    BY <1>3 DEF HandleCommit, Pending
  <2> QED
    BY <1>1, <2>1, <2>2 DEF Blocks!Commit, Answers, Seens
<1>4. CASE Held(h) /\ ~(HandleCommit(h) /\ state[h] = "live")
  <2>1. Phase' = [Phase EXCEPT ![h] = "rolledback"] /\ Phase[h] = "open" /\ durable' = durable
    BY <1>2, <1>4 DEF HandleCommit, HandleRollback, Phase, Held, HandleTypeOK
  <2> QED
    BY <1>1, <2>1 DEF Blocks!Abort, Answers, Seens
<1>5. CASE ~Held(h)
  <2>1. state' = state /\ durable' = durable
    BY <1>5 DEF HandleCommit, HandleRollback, Held, HandleTypeOK
  <2> QED
    BY <1>1, <2>1 DEF blockVars, Phase, Held
<1> QED
  BY <1>3, <1>4, <1>5 DEF Held

(* A statement that is answered with an error, or dropped with its future,  *)
(* is a refused write: whatever else the step does, no block sees it.       *)
LEMMA RefuseStep ==
  ASSUME RsTypeOK, NEW s \in Stmt, stmt[s].st = "pending",
         stmt' = [stmt EXCEPT ![s] = Blank("failed")],
         durable' = durable, Phase' = Phase, Pending' = Pending
  PROVE  Blocks!Refuse(s)
<1>1. Answers[s] = "pending" /\ Answers' = [Answers EXCEPT ![s] = "failed"]
      /\ Seens' = [Seens EXCEPT ![s] = None]
  BY DEF Answers, Seens, RsTypeOK, Blank
<1> QED
  BY <1>1 DEF Blocks!Refuse, Answers, Seens

LEMMA ExecuteStep ==
  ASSUME TypeInv, NEW t \in Task, Execute(t)
  PROVE  \E s \in Stmt : Blocks!WriteInside(s) \/ Blocks!WriteOutside(s)
<1>0. RsTypeOK /\ HandleTypeOK /\ current[t] # None
  BY DEF TypeInv, RsTypeOK, Execute
<1>1. PICK s \in Stmt :
      /\ s = current[t] /\ stmt[s].st = "pending" /\ stmt[s] \in Record
      /\ stmt' = [stmt EXCEPT ![s] = [@ EXCEPT !.st = "ok"]]
  BY <1>0, Answered
<1>2. Answers[s] = "pending" /\ Seens[s] = stmt[s].seen
      /\ Answers' = [Answers EXCEPT ![s] = "ok"] /\ Seens' = Seens
  BY <1>0, <1>1, OkRecord DEF Answers, Seens, RsTypeOK
<1>3. CASE stmt[s].seen = None
  <2>1. durable' = durable \cup {s} /\ Phase' = Phase /\ Pending' = Pending
    BY <1>1, <1>3 DEF Execute, PoolExecute, Phase, Pending, Held, Written, Ran
  <2>2. Blocks!WriteOutside(s)
    BY <2>1, <1>2, <1>3 DEF Blocks!WriteOutside, Answers, Seens
  <2>3. \E x \in Stmt : Blocks!WriteOutside(x)
    BY <2>2
  <2> QED BY <2>3
<1>4. CASE stmt[s].seen # None
  <2> DEFINE h == stmt[s].seen
  <2>1. h \in Tx /\ HandleExecute(h, s)
    BY <1>1, <1>4 DEF Execute, Record, Handle
  <2>2. durable' = durable /\ Phase' = Phase /\ Phase[h] = "open"
    BY <2>1 DEF HandleExecute, Phase, Held
  <2>3. \A g \in Tx, x \in Stmt : Ran(g, x)' <=> Ran(g, x) \/ (g = h /\ x = s)
    BY <2>1, <1>0, <1>1, LogSteps
  <2>4. \A g \in Tx : Written(g)' = IF g = h THEN Written(g) \cup {s} ELSE Written(g)
    BY <2>3, <1>1 DEF Written
  <2>5. Pending' = [Pending EXCEPT ![h] = @ \cup {s}]
    BY <2>1, <2>4 DEF Pending
  <2>6. Blocks!WriteInside(s)
    BY <2>2, <2>5, <1>2, <1>4 DEF Blocks!WriteInside, Answers, Seens
  <2>7. \E x \in Stmt : Blocks!WriteInside(x)
    BY <2>6
  <2> QED BY <2>7
<1> QED
  BY <1>3, <1>4

LEMMA StepBlocks == TypeInv /\ SlotNamed /\ [Next]_vars => [Blocks!Next]_blockVars
<1> SUFFICES ASSUME TypeInv, SlotNamed, [Next]_vars PROVE [Blocks!Next]_blockVars
  OBVIOUS
<1>0. HandleTypeOK /\ RsTypeOK
  BY DEF TypeInv, RsTypeOK
<1> USE DEF Phase, Pending, Held, Written, Ran, Answers, Seens
<1>1. CASE UNCHANGED vars
  BY <1>1 DEF vars, handleVars, rsVars, blockVars
<1>2. ASSUME NEW t \in Task, TaskStep(t) PROVE [Blocks!Next]_blockVars
  <2>1. ASSUME NEW h \in Tx, Begin(t, h) PROVE [Blocks!Next]_blockVars
    <3>1. Phase' = [Phase EXCEPT ![h] = "open"] /\ Phase[h] = "unused"
      BY <2>1, <1>0 DEF Begin, HandleBegin, HandleTypeOK
    <3>2. Pending' = Pending /\ durable' = durable /\ stmt' = stmt
      BY <2>1 DEF Begin, HandleBegin
    <3>3. Blocks!Open(h)
      BY <3>1, <3>2 DEF Blocks!Open
    <3> QED BY <3>3 DEF Blocks!Next
  <2>2. CASE CommitOrRollback(t)
    <3>1. cur[t] \in Tx /\ stmt' = stmt /\ (HandleCommit(cur[t]) \/ HandleRollback(cur[t]))
      BY <2>2, <1>0 DEF CommitOrRollback, rsVars, RsTypeOK, Handle
    <3> QED BY <3>1, <1>0, EndSteps DEF Blocks!Next
  <2>3. CASE Return(t)
    BY <2>3 DEF Return, blockVars
  <2>4. CASE Cancel(t)
    <3>1. durable' = durable /\ Phase' = Phase /\ Pending' = Pending
      BY <2>4 DEF Cancel, handleVars
    <3>2. CASE current[t] # None
      <4>1. PICK s \in Stmt : /\ s = current[t] /\ stmt[s].st = "pending"
                              /\ stmt' = [stmt EXCEPT ![s] = Blank("failed")]
        <5>1. current[t] \in Stmt /\ stmt[current[t]].st = "pending"
          BY <2>4, <3>2, Answered
        <5>2. stmt' = [x \in Stmt |-> IF x = current[t] THEN Blank("failed") ELSE stmt[x]]
          BY <2>4 DEF Cancel
        <5> QED BY <5>1, <5>2, <1>0 DEF RsTypeOK
      <4>2. \E x \in Stmt : Blocks!Refuse(x)
        BY <1>0, <3>1, <4>1, RefuseStep
      <4> QED BY <4>2 DEF Blocks!Next
    <3>3. CASE current[t] = None
      <4>1. stmt' = stmt
        BY <2>4, <3>3, <1>0, StmtAssumption DEF Cancel, RsTypeOK
      <4> QED BY <3>1, <4>1 DEF blockVars
    <3> QED BY <3>2, <3>3
  <2>5. ASSUME NEW s \in Stmt, Issue(t, s) PROVE [Blocks!Next]_blockVars
    <3>1. Phase' = Phase /\ Pending' = Pending /\ durable' = durable
      BY <2>5 DEF Issue, handleVars
    <3>2. Answers[s] = "new" /\ Answers' = [Answers EXCEPT ![s] = "pending"]
          /\ Seens' = [Seens EXCEPT ![s] = slot]
      BY <2>5, <1>0 DEF Issue, RsTypeOK, Dispatch
    <3>3. slot \in Tx \cup {None} /\ (slot # None => Phase[slot] # "unused")
      BY <1>0 DEF HandleTypeOK, SlotNamed
    <3>4. PICK b \in Tx \cup {None} : b = slot
      BY <3>3
    <3>5. Blocks!Issue(s, b)
      BY <3>1, <3>2, <3>3, <3>4 DEF Blocks!Issue
    <3>6. \E x \in Stmt, c \in Tx \cup {None} : Blocks!Issue(x, c)
      BY <3>5
    <3> QED BY <3>6 DEF Blocks!Next
  <2>6. CASE Execute(t)
    BY <2>6, ExecuteStep DEF Blocks!Next
  <2>7. CASE Refuse(t)
    <3>1. PICK s \in Stmt :
          /\ s = current[t] /\ stmt[s].st = "pending" /\ stmt[s] \in Record
          /\ stmt' = [stmt EXCEPT ![s] = Blank("failed")]
      BY <2>7, <1>0 DEF Refuse, RsTypeOK, TypeInv, Awaiting, Record
    <3>2. durable' = durable /\ log' = log
      BY <2>7 DEF Refuse, HandleError
    <3>3. Phase' = Phase
      <4>1. CASE stmt[s].seen = None
        BY <2>7, <3>1, <4>1 DEF Refuse
      <4>2. CASE stmt[s].seen # None
        BY <2>7, <3>1, <4>2, <1>0 DEF Refuse, HandleError, HandleTypeOK
      <4> QED BY <4>1, <4>2
    <3>4. \E x \in Stmt : Blocks!Refuse(x)
      BY <1>0, <3>1, <3>2, <3>3, RefuseStep
    <3> QED BY <3>4 DEF Blocks!Next
  <2> QED
    BY <1>2, <2>1, <2>2, <2>3, <2>4, <2>5, <2>6, <2>7 DEF TaskStep
<1> QED
  BY <1>1, <1>2 DEF Next

(* Closures of any number of tasks, nested and dropped at any await,        *)
(* implement AtomicBlocks: a write that read a handle takes effect with     *)
(* that handle's commit and only with it, one that read none at once.       *)
THEOREM HandlesRefine == Spec => HandlesSpec
<1>1. Init => SlotNamed
  BY DEF Init, HandleInit, SlotNamed
<1>2. TypeInv /\ SlotNamed /\ [Next]_vars => [Blocks!Next]_(Blocks!vars)
  BY StepBlocks DEF blockVars, Blocks!vars, Answers, Seens
<1> QED
  BY InitBlocks, SlotInvariant, <1>2, PTL DEF Spec, HandlesSpec, Blocks!Spec

-----------------------------------------------------------------------------
(* One task whose closures do not nest and whose future is not dropped: the *)
(* slot is the handle of the closure it is in.                              *)
Alone ==
  /\ \A t \in Task : slot = cur[t]
  /\ \A h \in Tx : below[h] = None
  /\ Enlisted

LEMMA StepAlone ==
  ASSUME \A t, u \in Task : t = u, ~MayNest, ~MayCancel
  PROVE  TypeInv /\ Alone /\ [Next]_vars => Alone'
<1> SUFFICES ASSUME TypeInv, Alone, [Next]_vars PROVE Alone'
  OBVIOUS
<1>0. RsTypeOK
  BY DEF TypeInv
<1> USE DEF Alone, Enlisted
<1>1. CASE UNCHANGED vars
  BY <1>1 DEF vars, handleVars, rsVars
<1>2. ASSUME NEW t \in Task, TaskStep(t) PROVE Alone'
  <2>1. ASSUME NEW h \in Tx, Begin(t, h) PROVE Alone'
    <3>1. slot' = h /\ cur' = [cur EXCEPT ![t] = h] /\ stmt' = stmt
          /\ below' = [below EXCEPT ![h] = None]
      BY <2>1 DEF Begin, SetCurrent
    <3> QED BY <3>1, <1>0 DEF RsTypeOK
  <2>2. CASE CommitOrRollback(t)
    BY <2>2 DEF CommitOrRollback, rsVars
  <2>3. CASE Return(t)
    <3>1. cur[t] \in Tx
      BY <2>3, <1>0 DEF Return, RsTypeOK, Handle
    <3> QED BY <2>3, <3>1, <1>0 DEF Return, SetCurrent, RsTypeOK
  <2>4. CASE Cancel(t)
    BY <2>4 DEF Cancel
  <2>5. ASSUME NEW s \in Stmt, Issue(t, s) PROVE Alone'
    BY <2>5, <1>0 DEF Issue, handleVars, Dispatch, RsTypeOK
  <2>6. CASE Execute(t)
    <3>1. current[t] \in Stmt /\ stmt[current[t]].st = "pending" /\ stmt[current[t]] \in Record
          /\ stmt' = [stmt EXCEPT ![current[t]] = [@ EXCEPT !.st = "ok"]]
      BY <2>6, Answered DEF Execute
    <3>2. \A s \in Stmt : stmt'[s].st \in {"pending", "ok"} => stmt'[s].seen = stmt'[s].home
      BY <3>1, <1>0, OkRecord DEF RsTypeOK
    <3> QED BY <2>6, <3>2 DEF Execute
  <2>7. CASE Refuse(t)
    <3>1. /\ current[t] \in Stmt
          /\ stmt' = [stmt EXCEPT ![current[t]] = Blank("failed")]
      BY <2>7, <1>0 DEF Refuse, RsTypeOK
    <3>2. \A s \in Stmt : stmt'[s].st \in {"pending", "ok"} => stmt'[s].seen = stmt'[s].home
      BY <3>1, <1>0, Blanks DEF RsTypeOK
    <3> QED BY <2>7, <3>2 DEF Refuse
  <2> QED
    BY <1>2, <2>1, <2>2, <2>3, <2>4, <2>5, <2>6, <2>7 DEF TaskStep
<1> QED
  BY <1>1, <1>2 DEF Next

(* Every statement of such a task runs where its closure is: on the         *)
(* closure's handle inside one, on the pool outside.                        *)
THEOREM LoneClosureEnlists ==
  (\A t, u \in Task : t = u) /\ ~MayNest /\ ~MayCancel => (Spec => []Enlisted)
<1> SUFFICES ASSUME \A t, u \in Task : t = u, ~MayNest, ~MayCancel PROVE Spec => []Enlisted
  OBVIOUS
<1>1. Init => Alone
  BY Blanks DEF Init, HandleInit, Alone, Enlisted
<1>2. TypeInv /\ Alone /\ [Next]_vars => Alone'
  BY StepAlone
<1>3. Alone => Enlisted
  BY DEF Alone
<1> QED
  BY <1>1, <1>2, <1>3, TypeInvariant, PTL DEF Spec
=============================================================================
