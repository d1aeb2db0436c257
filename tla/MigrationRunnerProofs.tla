----------------------- MODULE MigrationRunnerProofs -----------------------
(* Proofs about MigrationRunner.                                            *)
EXTENDS MigrationRunner, TLAPS

(* The file a runner opened is the least pending one; operations are left   *)
(* in "op" and nowhere else; between databases a runner is at none, and it  *)
(* is done when none is left; it runs only what is meant for its database.  *)
Working(r) == pc[r] \in {"file", "op", "record"}

TypeInv ==
  /\ TypeOK
  /\ \A r \in Runner : pc[r] = "op" <=> ops[r] # {}
  /\ \A r \in Runner : pc[r] \in {"idle", "alias", "done", "failed"} => here[r] = None
  /\ \A r \in Runner : pc[r] = "op" => ~call[r].dry
  /\ \A r \in Runner : pc[r] = "done" => left[r] = {}
  /\ \A r \in Runner, s \in Step : s \in ops[r] => Relevant(s, here[r])

-----------------------------------------------------------------------------
LEMMA StepFacts ==
  /\ File \subseteq Nat
  /\ \A s \in Step : s[1] \in File /\ s[2] \in Nat /\ s = <<s[1], s[2]>> /\ Op(s) \in Operation
<1>1. \A f \in File : f \in Nat /\ Script[f] \in Seq(Operation)
  BY ScriptAssumption DEF File
<1>2. ASSUME NEW s \in Step
      PROVE  s[1] \in File /\ s[2] \in Nat /\ s = <<s[1], s[2]>> /\ Op(s) \in Operation
  <2>1. PICK f \in File : s \in {f} \X DOMAIN Script[f]
    BY DEF Step
  <2>2. s[1] = f /\ s[2] \in DOMAIN Script[f] /\ s = <<s[1], s[2]>>
    BY <2>1
  <2>3. s[2] \in Nat /\ Script[f][s[2]] \in Operation
    BY <1>1, <2>2
  <2> QED BY <2>2, <2>3 DEF Op
<1> QED BY <1>1, <1>2

LEMMA TypeInit == Init => TypeInv
<1> SUFFICES ASSUME Init PROVE TypeInv
  OBVIOUS
<1>1. StoreTypeOK
  <2>1. budget \in 0..MaxFaults
    BY FaultAssumption DEF Init, StoreInit
  <2> QED BY <2>1 DEF Init, StoreInit, StoreTypeOK
<1>2. TypeOK
  BY <1>1 DEF Init, TypeOK
<1> QED
  BY <1>2 DEF Init, TypeInv

LEMMA HistoryType ==
  ASSUME StoreTypeOK, Fault \/ Refused \/ Undisturbed
  PROVE  budget' \in 0..MaxFaults /\ disturbed' \in BOOLEAN
<1>1. budget' \in 0..MaxFaults
  BY FaultAssumption DEF StoreTypeOK, Fault, Refused, Undisturbed, history
<1>2. disturbed' \in BOOLEAN
  BY DEF StoreTypeOK, Fault, Refused, Undisturbed, history
<1> QED BY <1>1, <1>2

(* Leaving a run clears its work.                                           *)
LEMMA StopType ==
  ASSUME TypeInv, NEW r \in Runner, NEW l \in {"idle", "done", "failed"}, Stop(r, l),
         l # "idle" => pc[r] # "idle", StoreTypeOK'
  PROVE  TypeInv'
<1>1. TypeOK'
  BY DEF TypeInv, TypeOK, Stop, Goto, Current
<1> QED
  BY <1>1 DEF TypeInv, TypeOK, Stop, Goto

LEMMA TypeStep == TypeInv /\ [Next]_vars => TypeInv'
<1> SUFFICES ASSUME TypeInv, [Next]_vars PROVE TypeInv'
  OBVIOUS
<1> USE DEF Undisturbed, history, store
<1>1. CASE UNCHANGED vars
  BY <1>1 DEF TypeInv, TypeOK, StoreTypeOK, Current, vars, runner
<1>2. ASSUME NEW r \in Runner, NEW c \in Call, Migrate(r, c) PROVE TypeInv'
  <2>1. StoreTypeOK' /\ ops[r] = {} /\ here[r] = None
    BY <1>2 DEF TypeInv, TypeOK, StoreTypeOK, Migrate, Active
  <2>2. TypeOK'
    <3>1. left' \in [Runner -> SUBSET Alias]
      BY <1>2 DEF Migrate, TypeInv, TypeOK
    <3>2. \A q \in Runner : pc'[q] # "idle" => call'[q] \in Call
      BY <1>2 DEF Migrate, Goto, TypeInv, TypeOK
    <3> QED BY <1>2, <2>1, <3>1, <3>2 DEF TypeInv, TypeOK, Migrate, Goto, Current
  <2> QED BY <1>2, <2>1, <2>2 DEF TypeInv, TypeOK, Migrate, Goto
<1>3. ASSUME NEW r \in Runner, NEW a \in Alias, Visit(r, a) PROVE TypeInv'
  <2>1. TypeOK'
    BY <1>3 DEF TypeInv, TypeOK, StoreTypeOK, Visit, Goto, Current
  <2> QED BY <1>3, <2>1 DEF TypeInv, TypeOK, Visit, Goto
<1>4. ASSUME NEW r \in Runner, Finish(r) PROVE TypeInv'
  BY <1>4, StopType DEF Finish, TypeInv, TypeOK, StoreTypeOK
<1>5. ASSUME NEW r \in Runner, EnsureTable(r) PROVE TypeInv'
  <2>1. here[r] \in Alias /\ call[r].schema \in Schema
    BY <1>5, CallAssumption DEF EnsureTable, TypeInv, TypeOK
  <2>2. StoreTypeOK'
    <3>1. budget' \in 0..MaxFaults /\ disturbed' \in BOOLEAN
      BY <1>5, HistoryType DEF EnsureTable, TypeInv, TypeOK
    <3>2. tracked' \in [Alias -> SUBSET Schema]
      BY <1>5, <2>1 DEF EnsureTable, TypeInv, TypeOK, StoreTypeOK
    <3> QED BY <1>5, <3>1, <3>2 DEF EnsureTable, TypeInv, TypeOK, StoreTypeOK
  <2>3. TypeOK'
    BY <1>5, <2>2 DEF TypeInv, TypeOK, EnsureTable, Goto, Current
  <2> QED BY <1>5, <2>3 DEF TypeInv, TypeOK, EnsureTable, Goto
<1>6. ASSUME NEW r \in Runner, ReadApplied(r) PROVE TypeInv'
  <2>1. StoreTypeOK' /\ ops[r] = {}
    <3>1. budget' \in 0..MaxFaults /\ disturbed' \in BOOLEAN
      BY <1>6, HistoryType DEF ReadApplied, TypeInv, TypeOK
    <3> QED BY <1>6, <3>1 DEF ReadApplied, TypeInv, TypeOK, StoreTypeOK
  <2>2. todo' \in [Runner -> SUBSET File]
    BY <1>6 DEF ReadApplied, TypeInv, TypeOK
  <2>3. TypeOK'
    BY <1>6, <2>1, <2>2 DEF TypeInv, TypeOK, ReadApplied, Goto, Current
  <2> QED BY <1>6, <2>3 DEF TypeInv, TypeOK, ReadApplied, Goto
<1>7. ASSUME NEW r \in Runner, NEW f \in File, OpenFile(r, f) PROVE TypeInv'
  <2> DEFINE mine == {s \in Step : s[1] = f /\ Relevant(s, here[r])}
  <2>1. StoreTypeOK' /\ here[r] \in Alias /\ ops[r] = {} /\ pc[r] = "file"
    BY <1>7 DEF OpenFile, TypeInv, TypeOK, StoreTypeOK
  <2>2. CASE mine = {} /\ Goto(r, "record") /\ UNCHANGED <<todo, ops>>
    <3>1. TypeOK'
      BY <1>7, <2>1, <2>2 DEF TypeInv, TypeOK, OpenFile, Goto, Current
    <3> QED BY <1>7, <2>1, <2>2, <3>1 DEF TypeInv, TypeOK, OpenFile, Goto
  <2>3. CASE todo' = [todo EXCEPT ![r] = @ \ {f}] /\ UNCHANGED <<pc, ops>>
    <3>1. TypeOK'
      BY <1>7, <2>1, <2>3 DEF TypeInv, TypeOK, OpenFile, Current
    <3> QED BY <1>7, <2>1, <2>3, <3>1 DEF TypeInv, TypeOK, OpenFile
  <2>4. CASE mine # {} /\ ~call[r].dry /\ Goto(r, "op")
             /\ ops' = [ops EXCEPT ![r] = mine] /\ UNCHANGED todo
    <3>1. TypeOK'
      BY <1>7, <2>1, <2>4 DEF TypeInv, TypeOK, OpenFile, Goto, Current
    <3> QED BY <1>7, <2>1, <2>4, <3>1 DEF TypeInv, TypeOK, OpenFile, Goto
  <2> QED BY <1>7, <2>2, <2>3, <2>4 DEF OpenFile
<1>8. ASSUME NEW r \in Runner, LeaveAlias(r) PROVE TypeInv'
  <2>1. TypeOK'
    BY <1>8 DEF TypeInv, TypeOK, StoreTypeOK, LeaveAlias, Goto, Current
  <2> QED BY <1>8, <2>1 DEF TypeInv, TypeOK, LeaveAlias, Goto
<1>9. ASSUME NEW r \in Runner, NEW s \in Step, RunOp(r, s) PROVE TypeInv'
  <2> DEFINE sc == Target(s, call[r].schema)
  <2>1. here[r] \in Alias /\ call[r].schema \in Schema /\ pc[r] = "op" /\ s \in ops[r]
    BY <1>9, CallAssumption DEF RunOp, NextOp, TypeInv, TypeOK
  <2>2. sc \in Schema
    BY <2>1, StepFacts, SchemaAssumption DEF Target, Operation
  <2>3. StoreTypeOK'
    BY <1>9, <2>1, <2>2 DEF RunOp, OpDone, Execute, TypeInv, TypeOK, StoreTypeOK
  <2>4. TypeOK'
    BY <1>9, <2>1, <2>3 DEF RunOp, OpDone, TypeInv, TypeOK, Goto, Current
  <2>5. UNCHANGED <<call, here>> /\ ops' = [ops EXCEPT ![r] = @ \ {s}]
        /\ Goto(r, IF ops[r] = {s} THEN "record" ELSE "op")
    BY <1>9 DEF RunOp, OpDone
  <2>6. \A q \in Runner : pc'[q] = "op" <=> ops'[q] # {}
    BY <2>1, <2>5 DEF TypeInv, TypeOK, Goto
  <2>7. \A q \in Runner, x \in Step : x \in ops'[q] => Relevant(x, here'[q])
    BY <2>5 DEF TypeInv, TypeOK
  <2>8. \A q \in Runner :
          /\ pc'[q] \in {"idle", "alias", "done", "failed"} => here'[q] = None
          /\ pc'[q] = "op" => ~call'[q].dry
          /\ pc'[q] = "done" => left'[q] = {}
    BY <1>9, <2>1, <2>5 DEF TypeInv, TypeOK, Goto, RunOp, OpDone
  <2> QED BY <2>4, <2>6, <2>7, <2>8 DEF TypeInv
<1>10. ASSUME NEW r \in Runner, Fail(r) PROVE TypeInv'
  <2>1. StoreTypeOK'
    <3>1. budget' \in 0..MaxFaults /\ disturbed' \in BOOLEAN
      BY <1>10, HistoryType DEF Fail, TypeInv, TypeOK
    <3> QED BY <1>10, <3>1 DEF Fail, TypeInv, TypeOK, StoreTypeOK
  <2> QED BY <1>10, <2>1, StopType DEF Fail
<1>11. ASSUME NEW r \in Runner, NEW f \in File, Record(r, f) PROVE TypeInv'
  <2>1. here[r] \in Alias /\ pc[r] = "record" /\ ops[r] = {}
    BY <1>11 DEF Record, TypeInv, TypeOK
  <2>2. StoreTypeOK'
    <3>1. budget' \in 0..MaxFaults /\ disturbed' \in BOOLEAN
      BY <1>11, HistoryType DEF Record, TypeInv, TypeOK
    <3>2. rows' \in [Alias -> SUBSET {Stem[g] : g \in File}]
      BY <1>11, <2>1 DEF Record, TypeInv, TypeOK, StoreTypeOK
    <3> QED BY <1>11, <3>1, <3>2 DEF Record, TypeInv, TypeOK, StoreTypeOK
  <2>3. TypeOK'
    BY <1>11, <2>1, <2>2 DEF Record, TypeInv, TypeOK, Goto, Current
  <2> QED BY <1>11, <2>1, <2>3 DEF Record, TypeInv, TypeOK, Goto
<1>12. ASSUME NEW r \in Runner, Crash(r) PROVE TypeInv'
  <2>1. StoreTypeOK'
    <3>1. budget' \in 0..MaxFaults /\ disturbed' \in BOOLEAN
      BY <1>12, HistoryType DEF Crash, TypeInv, TypeOK
    <3> QED BY <1>12, <3>1 DEF Crash, TypeInv, TypeOK, StoreTypeOK
  <2> QED BY <1>12, <2>1, StopType DEF Crash
<1> QED
  BY <1>1, <1>2, <1>3, <1>4, <1>5, <1>6, <1>7, <1>8, <1>9, <1>10, <1>11, <1>12
     DEF Next, RunnerStep

(* The state is well typed; a runner in the middle of a file has that file  *)
(* pending.                                                                 *)
THEOREM TypeCorrect == Spec => []TypeOK
<1>1. TypeInv => TypeOK
  BY DEF TypeInv
<1> QED
  BY TypeInit, TypeStep, <1>1, PTL DEF Spec

-----------------------------------------------------------------------------
(* One schema, and no two files with the same stem.                         *)
OneSchema == Schema = {Public}
DistinctStems == \A f, g \in File : Stem[f] = Stem[g] => f = g

(* What a runner has passed over on the database it is at is in effect      *)
(* there: files no longer pending, operations of the current file no longer *)
(* to be run, all of the file it is about to record; and so are the         *)
(* databases it has been to.                                                *)
In(a) == InEffect(a, Public)
Covered(a, f) == FileApplied(a, f, Public)

PassedInv ==
  \A r \in Runner : Working(r) /\ ~call[r].dry =>
    \A f \in File \ todo[r] : Covered(here[r], f)

OpsInv ==
  \A r \in Runner : pc[r] = "op" =>
    \A s \in Wanted(here[r]) : Current(r, s[1]) /\ s \notin ops[r] => s \in In(here[r])

RecordInv ==
  \A r \in Runner : pc[r] = "record" =>
    \A f \in File : Current(r, f) => Covered(here[r], f)

RecordedInv == \A a \in Alias, f \in File : Stem[f] \in rows[a] => Covered(a, f)

VisitedInv ==
  \A r \in Runner : pc[r] \notin {"idle", "failed"} /\ ~call[r].dry =>
    \A a \in Alias :
      Visits(call[r], a) /\ a \notin left[r] /\ a # here[r] => Wanted(a) \subseteq In(a)

LedgerInv == TypeInv /\ PassedInv /\ OpsInv /\ RecordInv /\ RecordedInv /\ VisitedInv

LEMMA TargetPublic ==
  ASSUME OneSchema, NEW s \in Step, NEW sc \in Schema
  PROVE  Target(s, sc) = Public
  BY StepFacts, SchemaAssumption DEF Target, Operation, OneSchema

LEMMA CurrentUnique ==
  ASSUME TypeOK, NEW r \in Runner, NEW f \in File, NEW g \in File, Current(r, f), Current(r, g)
  PROVE  f = g
  BY StepFacts DEF TypeOK, Current

(* Nothing is undone.                                                       *)
LEMMA EffectGrows ==
  ASSUME TypeInv, [Next]_vars, NEW a \in Alias
  PROVE  effect[a] \subseteq effect'[a]
<1> USE DEF store
<1>1. CASE UNCHANGED effect
  BY <1>1
<1>2. ASSUME NEW r \in Runner, NEW s \in Step, RunOp(r, s)
      PROVE  effect[a] \subseteq effect'[a]
  BY <1>2 DEF RunOp, Execute, TypeInv, TypeOK, StoreTypeOK
<1>3. UNCHANGED effect \/ \E r \in Runner, s \in Step : RunOp(r, s)
  BY DEF Next, RunnerStep, Migrate, Visit, Finish, EnsureTable, ReadApplied, LeaveAlias, Fail,
         OpenFile, Record, Crash, vars
<1> QED BY <1>1, <1>2, <1>3

LEMMA InGrows ==
  ASSUME TypeInv, [Next]_vars
  PROVE  \A a \in Alias : /\ In(a) \subseteq In(a)'
                          /\ \A f \in File : Covered(a, f) => Covered(a, f)'
<1>1. \A a \in Alias : In(a) \subseteq In(a)'
  BY EffectGrows DEF In, InEffect
<1> QED BY <1>1 DEF In, Covered, FileApplied

-----------------------------------------------------------------------------
LEMMA LedgerInit == Init => LedgerInv
  BY TypeInit DEF LedgerInv, Init, StoreInit, PassedInv, OpsInv, RecordInv, RecordedInv,
                  VisitedInv, Working

(* A runner that stops keeps nothing to account for but what it visited.    *)
LEMMA StopLedger ==
  ASSUME LedgerInv, [Next]_vars, TypeInv', NEW r \in Runner, UNCHANGED store,
         NEW l \in {"idle", "done", "failed"}, Stop(r, l), l = "done" => pc[r] = "alias" /\ left[r] = {}
  PROVE  LedgerInv'
<1>1. PassedInv' /\ OpsInv' /\ RecordInv' /\ RecordedInv'
  BY DEF LedgerInv, TypeInv, TypeOK, Stop, Goto, PassedInv, OpsInv, RecordInv, RecordedInv, Working,
         Current, store, Covered, FileApplied, In, InEffect
<1>2. VisitedInv'
  BY DEF LedgerInv, TypeInv, TypeOK, Stop, Goto, VisitedInv, store, In, InEffect
<1> QED BY <1>1, <1>2 DEF LedgerInv

LEMMA LedgerStep ==
  ASSUME OneSchema, DistinctStems, LedgerInv, [Next]_vars
  PROVE  LedgerInv'
<1>t. TypeInv'
  BY TypeStep DEF LedgerInv
<1>g. \A a \in Alias : /\ In(a) \subseteq In(a)'
                       /\ \A f \in File : Covered(a, f) => Covered(a, f)'
  BY InGrows DEF LedgerInv
<1> USE DEF Undisturbed, history
<1>1. CASE UNCHANGED vars
  BY <1>1, <1>t DEF LedgerInv, PassedInv, OpsInv, RecordInv, RecordedInv, VisitedInv, Working,
     Current, vars, runner, store, Covered, FileApplied, In, InEffect
<1>2. ASSUME NEW r \in Runner, NEW c \in Call, Migrate(r, c) PROVE LedgerInv'
  <2>1. PassedInv' /\ OpsInv' /\ RecordInv' /\ RecordedInv'
    BY <1>2, <1>g DEF LedgerInv, TypeInv, TypeOK, Migrate, Goto, PassedInv, OpsInv, RecordInv,
       RecordedInv, Working, Current, store
  <2>2. VisitedInv'
    BY <1>2, <1>g DEF LedgerInv, TypeInv, TypeOK, Migrate, Goto, VisitedInv
  <2> QED BY <2>1, <2>2, <1>t DEF LedgerInv
<1>3. ASSUME NEW r \in Runner, NEW a \in Alias, Visit(r, a) PROVE LedgerInv'
  <2>1. PassedInv' /\ OpsInv' /\ RecordInv' /\ RecordedInv'
    BY <1>3, <1>g DEF LedgerInv, TypeInv, TypeOK, Visit, Goto, PassedInv, OpsInv, RecordInv,
       RecordedInv, Working, Current, store
  <2>2. VisitedInv'
    BY <1>3, <1>g, SchemaAssumption DEF LedgerInv, TypeInv, TypeOK, Visit, Goto, VisitedInv
  <2> QED BY <2>1, <2>2, <1>t DEF LedgerInv
<1>4. ASSUME NEW r \in Runner, Finish(r) PROVE LedgerInv'
  BY <1>4, <1>t, StopLedger DEF Finish
<1>5. ASSUME NEW r \in Runner, EnsureTable(r) PROVE LedgerInv'
  <2>1. PassedInv' /\ OpsInv' /\ RecordInv' /\ RecordedInv'
    BY <1>5, <1>g DEF LedgerInv, TypeInv, TypeOK, EnsureTable, Goto, PassedInv, OpsInv, RecordInv,
       RecordedInv, Working, Current
  <2>2. VisitedInv'
    BY <1>5, <1>g DEF LedgerInv, TypeInv, TypeOK, EnsureTable, Goto, VisitedInv
  <2> QED BY <2>1, <2>2, <1>t DEF LedgerInv
<1>6. ASSUME NEW r \in Runner, ReadApplied(r) PROVE LedgerInv'
  <2>1. pc[r] = "read" /\ here[r] \in Alias /\ pc' = [pc EXCEPT ![r] = "file"]
        /\ UNCHANGED <<store, call, left, here, ops>>
        /\ todo' = [todo EXCEPT ![r] = todo'[r]]
    BY <1>6 DEF ReadApplied, Goto, LedgerInv, TypeInv, TypeOK
  <2>2. \A f \in File \ todo'[r] : Stem[f] \in rows[here[r]]
    BY <1>6 DEF ReadApplied, Applied, LedgerInv, TypeInv, TypeOK
  <2>3. \A f \in File \ todo'[r] : Covered(here[r], f)
    BY <2>1, <2>2 DEF LedgerInv, RecordedInv
  <2>4. PassedInv'
    BY <2>1, <2>3, <1>g DEF LedgerInv, TypeInv, TypeOK, PassedInv, Working
  <2>5. OpsInv' /\ RecordInv' /\ RecordedInv'
    BY <2>1, <1>g DEF LedgerInv, TypeInv, TypeOK, OpsInv, RecordInv, RecordedInv, Current, store
  <2>6. VisitedInv'
    BY <2>1, <1>g DEF LedgerInv, TypeInv, TypeOK, VisitedInv
  <2> QED BY <2>4, <2>5, <2>6, <1>t DEF LedgerInv
<1>7. ASSUME NEW r \in Runner, NEW f \in File, OpenFile(r, f) PROVE LedgerInv'
  <2> DEFINE mine == {s \in Step : s[1] = f /\ Relevant(s, here[r])}
  <2>0. /\ UNCHANGED <<store, call, left, here>> /\ pc[r] = "file" /\ Current(r, f)
        /\ here[r] \in Alias
    BY <1>7 DEF OpenFile, LedgerInv, TypeInv, TypeOK
  <2>1. RecordedInv'
    BY <2>0, <1>g DEF LedgerInv, RecordedInv, store
  <2>2. CASE mine = {} /\ Goto(r, "record") /\ UNCHANGED <<todo, ops>>
    <3>1. Covered(here[r], f)
      BY <2>2 DEF Covered, FileApplied, Wanted
    <3>2. \A g \in File : Current(r, g) => Covered(here[r], g)
      BY <3>1, <2>0, CurrentUnique DEF LedgerInv, TypeInv
    <3>3. RecordInv'
      BY <3>2, <2>0, <2>2, <1>g DEF LedgerInv, TypeInv, TypeOK, RecordInv, Goto, Current
    <3>4. PassedInv' /\ OpsInv'
      BY <2>0, <2>2, <1>g DEF LedgerInv, TypeInv, TypeOK, PassedInv, OpsInv, Working, Goto, Current
    <3>5. VisitedInv'
      BY <2>0, <2>2, <1>g DEF LedgerInv, TypeInv, TypeOK, VisitedInv, Goto
    <3> QED BY <2>1, <3>3, <3>4, <3>5, <1>t DEF LedgerInv
  <2>3. CASE call[r].dry /\ todo' = [todo EXCEPT ![r] = @ \ {f}] /\ UNCHANGED <<pc, ops>>
    <3>1. PassedInv'
      BY <2>0, <2>3, <1>g DEF LedgerInv, TypeInv, TypeOK, PassedInv, Working
    <3>2. OpsInv' /\ RecordInv'
      BY <2>0, <2>3, <1>g DEF LedgerInv, TypeInv, TypeOK, OpsInv, RecordInv, Current
    <3>3. VisitedInv'
      BY <2>0, <2>3, <1>g DEF LedgerInv, TypeInv, TypeOK, VisitedInv
    <3> QED BY <2>1, <3>1, <3>2, <3>3, <1>t DEF LedgerInv
  <2>4. CASE mine # {} /\ ~call[r].dry /\ Goto(r, "op")
             /\ ops' = [ops EXCEPT ![r] = mine] /\ UNCHANGED todo
    <3>1. PassedInv'
      BY <2>0, <2>4, <1>g DEF LedgerInv, TypeInv, TypeOK, PassedInv, Working, Goto
    <3>2. \A s \in Wanted(here[r]) : Current(r, s[1]) => s \in mine
      BY <2>0, CurrentUnique, StepFacts DEF Wanted, LedgerInv, TypeInv
    <3>3. OpsInv'
      BY <3>2, <2>0, <2>4, <1>g DEF LedgerInv, TypeInv, TypeOK, OpsInv, Goto, Current
    <3>4. RecordInv'
      BY <2>0, <2>4, <1>g DEF LedgerInv, TypeInv, TypeOK, RecordInv, Goto, Current
    <3>5. VisitedInv'
      BY <2>0, <2>4, <1>g DEF LedgerInv, TypeInv, TypeOK, VisitedInv, Goto
    <3> QED BY <2>1, <3>1, <3>3, <3>4, <3>5, <1>t DEF LedgerInv
  <2> QED BY <1>7, <2>2, <2>3, <2>4 DEF OpenFile
<1>8. ASSUME NEW r \in Runner, LeaveAlias(r) PROVE LedgerInv'
  <2>1. /\ UNCHANGED <<store, call, left, todo, ops>> /\ pc[r] = "file" /\ todo[r] = {}
        /\ pc' = [pc EXCEPT ![r] = "alias"] /\ here' = [here EXCEPT ![r] = None]
        /\ here[r] \in Alias
    BY <1>8 DEF LeaveAlias, Goto, LedgerInv, TypeInv, TypeOK
  <2>2. PassedInv' /\ OpsInv' /\ RecordInv' /\ RecordedInv'
    BY <2>1, <1>g DEF LedgerInv, TypeInv, TypeOK, PassedInv, OpsInv, RecordInv, RecordedInv, Working,
       Current, store
  <2>3. ~call[r].dry => Wanted(here[r]) \subseteq In(here[r])
    BY <2>1, StepFacts DEF LedgerInv, PassedInv, Working, Covered, FileApplied, Wanted, In
  <2>4. VisitedInv'
    BY <2>1, <2>3, <1>g DEF LedgerInv, TypeInv, TypeOK, VisitedInv
  <2> QED BY <2>2, <2>4, <1>t DEF LedgerInv
<1>9. ASSUME NEW r \in Runner, NEW s \in Step, RunOp(r, s) PROVE LedgerInv'
  <2>0. /\ UNCHANGED <<rows, call, left, here, todo>> /\ pc[r] = "op" /\ s \in ops[r]
        /\ here[r] \in Alias /\ Current(r, s[1]) /\ call[r].schema \in Schema
        /\ ops' = [ops EXCEPT ![r] = @ \ {s}]
        /\ pc' = [pc EXCEPT ![r] = IF ops[r] = {s} THEN "record" ELSE "op"]
    BY <1>9, CallAssumption
       DEF RunOp, OpDone, Goto, NextOp, Execute, LedgerInv, TypeInv, TypeOK, store
  <2>1. RecordedInv'
    BY <2>0, <1>g DEF LedgerInv, RecordedInv
  <2>2. s \in Wanted(here[r]) => s \in In(here[r])'
    <3> SUFFICES ASSUME Op(s).kind # "none" PROVE s \in In(here[r])'
      BY DEF Wanted
    <3>1. Target(s, call[r].schema) = Public /\ Target(s, Public) = Public
      BY <2>0, TargetPublic, SchemaAssumption
    <3>2. <<s, Public>> \in effect'[here[r]]
      BY <1>9, <2>0, <3>1 DEF RunOp, Execute, LedgerInv, TypeInv, TypeOK, StoreTypeOK
    <3> QED BY <2>0, <3>1, <3>2 DEF In, InEffect
  <2>3. \A x \in Wanted(here[r]) : Current(r, x[1]) /\ x \notin ops[r] \ {s} => x \in In(here[r])'
    BY <2>0, <2>2, <1>g DEF LedgerInv, OpsInv
  <2>4. OpsInv'
    BY <2>0, <2>3, <1>g DEF LedgerInv, TypeInv, TypeOK, OpsInv, Current
  <2>5. ops[r] = {s} => \A f \in File : Current(r, f) => Covered(here[r], f)'
    BY <2>0, <2>3 DEF Covered, FileApplied, In
  <2>6. RecordInv'
    BY <2>0, <2>5, <1>g DEF LedgerInv, TypeInv, TypeOK, RecordInv, Current
  <2>7. PassedInv'
    BY <2>0, <1>g DEF LedgerInv, TypeInv, TypeOK, PassedInv, Working
  <2>8. VisitedInv'
    BY <2>0, <1>g DEF LedgerInv, TypeInv, TypeOK, VisitedInv
  <2> QED BY <2>1, <2>4, <2>6, <2>7, <2>8, <1>t DEF LedgerInv
<1>10. ASSUME NEW r \in Runner, Fail(r) PROVE LedgerInv'
  BY <1>10, <1>t, StopLedger DEF Fail
<1>11. ASSUME NEW r \in Runner, NEW f \in File, Record(r, f) PROVE LedgerInv'
  <2>0. /\ UNCHANGED <<effect, call, left, here, ops>> /\ pc[r] = "record" /\ Current(r, f)
        /\ here[r] \in Alias /\ todo' = [todo EXCEPT ![r] = @ \ {f}]
        /\ pc' = [pc EXCEPT ![r] = "file"]
    BY <1>11 DEF Record, Goto, LedgerInv, TypeInv, TypeOK
  <2>1. Covered(here[r], f)
    BY <2>0 DEF LedgerInv, RecordInv
  <2>2. \A a \in Alias : rows'[a] \subseteq IF a = here[r] THEN rows[a] \cup {Stem[f]} ELSE rows[a]
    BY <1>11, <2>0 DEF Record, LedgerInv, TypeInv, TypeOK, StoreTypeOK
  <2>3. RecordedInv'
    BY <2>0, <2>1, <2>2, <1>g DEF LedgerInv, RecordedInv, DistinctStems
  <2>4. PassedInv'
    BY <2>0, <2>1, <1>g DEF LedgerInv, TypeInv, TypeOK, PassedInv, Working
  <2>5. OpsInv' /\ RecordInv'
    BY <2>0, <1>g DEF LedgerInv, TypeInv, TypeOK, OpsInv, RecordInv, Current
  <2>6. VisitedInv'
    BY <2>0, <1>g DEF LedgerInv, TypeInv, TypeOK, VisitedInv
  <2> QED BY <2>3, <2>4, <2>5, <2>6, <1>t DEF LedgerInv
<1>12. ASSUME NEW r \in Runner, Crash(r) PROVE LedgerInv'
  BY <1>12, <1>t, StopLedger DEF Crash
<1> QED
  BY <1>1, <1>2, <1>3, <1>4, <1>5, <1>6, <1>7, <1>8, <1>9, <1>10, <1>11, <1>12
     DEF Next, RunnerStep

(* A run that ends without an error leaves everything applied on every      *)
(* database it visited.                                                     *)
THEOREM DoneRunsApplied == OneSchema /\ DistinctStems => (Spec => []DoneMeansApplied)
<1> SUFFICES ASSUME OneSchema, DistinctStems PROVE Spec => []DoneMeansApplied
  OBVIOUS
<1>1. LedgerInv => DoneMeansApplied
  <2> SUFFICES ASSUME LedgerInv, NEW r \in Runner, pc[r] = "done", ~call[r].dry,
                      NEW a \in Alias, Visits(call[r], a)
               PROVE  AllApplied(a, call[r].schema)
    BY DEF DoneMeansApplied
  <2>1. call[r].schema = Public /\ here[r] = None /\ left[r] = {}
    BY CallAssumption DEF OneSchema, LedgerInv, TypeInv, TypeOK
  <2>2. Wanted(a) \subseteq In(a)
    BY <2>1, SchemaAssumption DEF LedgerInv, VisitedInv
  <2> QED BY <2>1, <2>2 DEF AllApplied, In
<1>2. LedgerInv /\ [Next]_vars => LedgerInv'
  BY LedgerStep
<1> QED BY LedgerInit, <1>1, <1>2, PTL DEF Spec

-----------------------------------------------------------------------------
(* The steps of the runners are steps of the ledger.                        *)
Recorded(a) == {f \in File : Stem[f] \in rows[a]}

LEMMA PerformStep ==
  ASSUME OneSchema, LedgerInv, NEW r \in Runner, NEW s \in Step, RunOp(r, s), Op(s).kind # "none",
         NEW a \in Alias, a = here[r]
  PROVE  Ledger!Perform(a, s)
<1>0. /\ UNCHANGED rows /\ s \in ops[r] /\ \A t \in ops[r] : s[2] <= t[2]
      /\ a \in Alias /\ Current(r, s[1]) /\ pc[r] = "op" /\ ~call[r].dry
      /\ call[r].schema \in Schema
  BY CallAssumption DEF RunOp, NextOp, Execute, LedgerInv, TypeInv, TypeOK
<1>1. Relevant(s, a)
  BY <1>0 DEF LedgerInv, TypeInv, TypeOK
<1>2. s \in Wanted(a)
  BY <1>1 DEF Wanted
<1>3. ASSUME NEW t \in Wanted(a), Before(t, s) PROVE t \in In(a)
  <2>1. t \in Step /\ t[1] \in Nat /\ s[1] \in Nat /\ t[2] \in Nat /\ s[2] \in Nat /\ t[1] \in File
    BY StepFacts DEF Wanted
  <2>2. CASE t[1] < s[1]
    <3>1. t[1] \notin todo[r]
      BY <1>0, <2>1, <2>2 DEF Current
    <3> QED BY <1>0, <2>1, <3>1 DEF LedgerInv, PassedInv, Working, Covered, FileApplied, In
  <2>3. CASE t[1] = s[1] /\ t[2] < s[2]
    <3>1. t \notin ops[r]
      BY <1>0, <2>1, <2>3
    <3> QED BY <1>0, <2>3, <3>1 DEF LedgerInv, OpsInv
  <2> QED BY <1>3, <2>2, <2>3 DEF Before
<1>4. \A b \in Alias : In(b)' = IF b = a THEN In(b) \cup {s} ELSE In(b)
  <2>1. \A t \in Step : Target(t, Public) = Public /\ Target(t, call[r].schema) = Public
    BY <1>0, TargetPublic, SchemaAssumption
  <2>2. effect' = [effect EXCEPT ![a] = @ \cup {<<s, Public>>}]
    BY <2>1 DEF RunOp, Execute
  <2> QED BY <1>0, <2>1, <2>2 DEF In, InEffect, LedgerInv, TypeInv, TypeOK, StoreTypeOK
<1>5. [b \in Alias |-> InEffect(b, Public)]'
        = [[b \in Alias |-> InEffect(b, Public)] EXCEPT ![a] = @ \cup {s}]
  BY <1>0, <1>4 DEF In
<1>6. UNCHANGED [b \in Alias |-> Recorded(b)]
  BY <1>0 DEF Recorded
<1> QED
  BY <1>0, <1>2, <1>3, <1>5, <1>6 DEF Ledger!Perform, In, Recorded

LEMMA RecordStep ==
  ASSUME DistinctStems, LedgerInv, NEW r \in Runner, NEW f \in File, Record(r, f), rows' # rows,
         NEW a \in Alias, a = here[r]
  PROVE  Ledger!Record(a, f)
<1>0. /\ UNCHANGED effect /\ a \in Alias /\ Covered(a, f)
      /\ rows' = [rows EXCEPT ![a] = @ \cup {Stem[f]}]
  BY DEF Record, LedgerInv, RecordInv, TypeInv, TypeOK
<1>1. \A b \in Alias : Recorded(b)' = IF b = a THEN Recorded(b) \cup {f} ELSE Recorded(b)
  BY <1>0 DEF Recorded, DistinctStems, LedgerInv, TypeInv, TypeOK, StoreTypeOK
<1>2. [b \in Alias |-> Recorded(b)]' = [[b \in Alias |-> Recorded(b)] EXCEPT ![a] = @ \cup {f}]
  BY <1>0, <1>1
<1>3. UNCHANGED [b \in Alias |-> InEffect(b, Public)]
  BY <1>0 DEF InEffect
<1>4. Ledger!Complete(a, f)
  <2>1. \A s \in Wanted(a) : s \in Step
    BY DEF Wanted
  <2> QED BY <1>0, <2>1 DEF Ledger!Complete, Covered, FileApplied
<1> QED
  BY <1>2, <1>3, <1>4 DEF Ledger!Record, Recorded

(* The runners, at any number, with any faults, implement the ledger.       *)
THEOREM RunnerRefines == OneSchema /\ DistinctStems => (Spec => LedgerSpec)
<1> SUFFICES ASSUME OneSchema, DistinctStems PROVE Spec => LedgerSpec
  OBVIOUS
<1> DEFINE D == [a \in Alias |-> InEffect(a, Public)]
           R == [a \in Alias |-> {f \in File : Stem[f] \in rows[a]}]
<1>1. Init => Ledger!LInit
  BY DEF Init, StoreInit, Ledger!LInit, InEffect
<1>2. LedgerInv /\ [Next]_vars => [Ledger!LNext]_<<D, R>>
  <2> SUFFICES ASSUME LedgerInv, [Next]_vars PROVE Ledger!LNext \/ UNCHANGED <<D, R>>
    OBVIOUS
  <2> USE DEF store
  <2>1. CASE UNCHANGED <<effect, rows>>
    BY <2>1 DEF InEffect
  <2>2. ASSUME NEW r \in Runner, NEW s \in Step, RunOp(r, s), Op(s).kind # "none"
        PROVE  Ledger!LNext
    <3>1. PICK a \in Alias : a = here[r]
      BY <2>2 DEF LedgerInv, TypeInv, TypeOK, RunOp
    <3>2. Ledger!Perform(a, s)
      BY <2>2, <3>1, PerformStep
    <3> QED BY <3>2 DEF Ledger!LNext
  <2>3. ASSUME NEW r \in Runner, NEW f \in File, Record(r, f), rows' # rows
        PROVE  Ledger!LNext
    <3>1. PICK a \in Alias : a = here[r]
      BY <2>3 DEF LedgerInv, TypeInv, TypeOK, Record
    <3>2. Ledger!Record(a, f)
      BY <2>3, <3>1, RecordStep
    <3> QED BY <3>2 DEF Ledger!LNext
  <2>4. \/ UNCHANGED <<effect, rows>>
        \/ \E r \in Runner, s \in Step : RunOp(r, s) /\ Op(s).kind # "none"
        \/ \E r \in Runner, f \in File : Record(r, f) /\ rows' # rows
    BY DEF Next, RunnerStep, Migrate, Visit, Finish, EnsureTable, ReadApplied, LeaveAlias, Fail,
           OpenFile, RunOp, Record, Crash, vars
  <2> QED BY <2>1, <2>2, <2>3, <2>4
<1>3. LedgerInv /\ [Next]_vars => LedgerInv'
  BY LedgerStep
<1> QED
  BY LedgerInit, <1>1, <1>2, <1>3, PTL DEF Spec, LedgerSpec, Ledger!LSpec

(* What a reader takes from the ledger, for the real runner: what is        *)
(* recorded is in effect, and nothing is in effect before what precedes it. *)
LEMMA LedgerPromises ==
  Ledger!LSpec => [](Ledger!LRecordedApplied /\ Ledger!LInOrder)
<1> DEFINE D == [a \in Alias |-> InEffect(a, Public)]
           R == [a \in Alias |-> {f \in File : Stem[f] \in rows[a]}]
           Entire(b, f) == \A x \in Wanted(b) : x[1] = f => x \in In(b)
           Promise ==
             /\ \A b \in Alias : \A f \in Recorded(b) : Entire(b, f)
             /\ \A b \in Alias : \A x \in In(b), t \in Wanted(b) : Before(t, x) => t \in In(b)
<1>0. Promise <=> Ledger!LRecordedApplied /\ Ledger!LInOrder
  BY DEF Ledger!LRecordedApplied, Ledger!LInOrder, Ledger!Complete, In, InEffect, Recorded, Wanted
<1>1. Ledger!LInit => Promise
  <2> SUFFICES ASSUME Ledger!LInit PROVE Promise
    OBVIOUS
  <2>1. \A b \in Alias : In(b) = {} /\ Recorded(b) = {}
    BY DEF Ledger!LInit, In, Recorded
  <2> QED BY <2>1
<1>2. Promise /\ [Ledger!LNext]_<<D, R>> => Promise'
  <2> SUFFICES ASSUME Promise, [Ledger!LNext]_<<D, R>> PROVE Promise'
    OBVIOUS
  <2>0. \A b \in Alias : D[b] = In(b) /\ R[b] = Recorded(b)
    BY DEF In, Recorded
  <2>1. CASE UNCHANGED <<D, R>>
    <3>1. \A b \in Alias : In(b)' = In(b) /\ Recorded(b)' = Recorded(b)
      BY <2>1 DEF In, Recorded
    <3> QED BY <3>1
  <2>2. ASSUME NEW a \in Alias, NEW s \in Step, Ledger!Perform(a, s) PROVE Promise'
    <3>1. \A b \in Alias : /\ In(b)' = IF b = a THEN In(b) \cup {s} ELSE In(b)
                           /\ Recorded(b)' = Recorded(b)
      BY <2>2 DEF Ledger!Perform, In, Recorded
    <3>2. \A t \in Wanted(a) : Before(t, s) => t \in In(a)
      BY <2>2 DEF Ledger!Perform, In, Wanted
    <3> QED BY <3>1, <3>2
  <2>3. ASSUME NEW a \in Alias, NEW f \in File, Ledger!Record(a, f) PROVE Promise'
    <3>1. \A b \in Alias : /\ Recorded(b)' = IF b = a THEN Recorded(b) \cup {f} ELSE Recorded(b)
                           /\ In(b)' = In(b)
      BY <2>3 DEF Ledger!Record, In, Recorded
    <3>2. Entire(a, f)
      BY <2>3 DEF Ledger!Record, Ledger!Complete, In, Wanted
    <3> QED BY <3>1, <3>2
  <2> QED BY <2>1, <2>2, <2>3 DEF Ledger!LNext
<1> HIDE DEF Promise
<1> QED BY <1>0, <1>1, <1>2, PTL DEF Ledger!LSpec

THEOREM AppliedInOrder ==
  OneSchema /\ DistinctStems => (Spec => [](Ledger!LRecordedApplied /\ Ledger!LInOrder))
<1> SUFFICES ASSUME OneSchema, DistinctStems
             PROVE  Spec => [](Ledger!LRecordedApplied /\ Ledger!LInOrder)
  OBVIOUS
<1>1. Spec => Ledger!LSpec
  BY RunnerRefines DEF LedgerSpec
<1> QED BY <1>1, LedgerPromises, PTL

-----------------------------------------------------------------------------
(* While nothing disturbed the runs there was one at a time, and what is in *)
(* effect is recorded or was run by the current run from the file it is in; *)
(* so what it has still to run is not in effect.                            *)
Ran(r, a, s) ==
  pc[r] \in {"op", "record"} /\ here[r] = a /\ Current(r, s[1]) /\ s \notin ops[r]

CalmInv ==
  /\ \A q, r \in Runner : Active(q) /\ Active(r) => q = r
  /\ again = {}
  /\ \A a \in Alias, s \in Step :
       s \in In(a) => Stem[s[1]] \in rows[a] \/ \E r \in Runner : Ran(r, a, s)
  /\ \A r \in Runner : Working(r) => \A f \in todo[r] : Stem[f] \notin rows[here[r]]

OnceInv ==
  /\ TypeInv
  /\ \A a \in Alias : rows[a] # {} => Public \in tracked[a]
  /\ ~disturbed => CalmInv

LEMMA OnceInit == Init => OnceInv
  BY TypeInit DEF OnceInv, CalmInv, Init, StoreInit, Active, Working, In, InEffect

LEMMA OnceStep ==
  ASSUME OneSchema, DistinctStems, OnceInv, [Next]_vars
  PROVE  OnceInv'
<1>t. TypeInv'
  BY TypeStep DEF OnceInv
<1>r. \A a \in Alias : rows'[a] # {} => Public \in tracked'[a]
  <2> USE DEF store
  <2>1. CASE UNCHANGED <<rows, tracked>>
    BY <2>1 DEF OnceInv
  <2>2. ASSUME NEW r \in Runner, EnsureTable(r) PROVE \A a \in Alias : rows'[a] # {} => Public \in tracked'[a]
    BY <2>2 DEF EnsureTable, OnceInv, TypeInv, TypeOK, StoreTypeOK
  <2>3. ASSUME NEW r \in Runner, NEW f \in File, Record(r, f)
        PROVE  \A a \in Alias : rows'[a] # {} => Public \in tracked'[a]
    BY <2>3 DEF Record, Insertable, OnceInv, TypeInv, TypeOK, StoreTypeOK
  <2>4. \/ UNCHANGED <<rows, tracked>>
        \/ \E r \in Runner : EnsureTable(r) \/ \E f \in File : Record(r, f)
    <3>1. ASSUME NEW r \in Runner, NEW a \in Alias, Visit(r, a) PROVE UNCHANGED <<rows, tracked>>
      BY <3>1 DEF Visit
    <3>2. ASSUME NEW r \in Runner, Finish(r) \/ ReadApplied(r) \/ LeaveAlias(r) \/ Fail(r) \/ Crash(r)
          PROVE  UNCHANGED <<rows, tracked>>
      BY <3>2 DEF Finish, ReadApplied, LeaveAlias, Fail, Crash
    <3>3. ASSUME NEW r \in Runner, NEW f \in File, OpenFile(r, f) PROVE UNCHANGED <<rows, tracked>>
      BY <3>3 DEF OpenFile
    <3>4. ASSUME NEW r \in Runner, NEW s \in Step, RunOp(r, s) PROVE UNCHANGED <<rows, tracked>>
      BY <3>4 DEF RunOp, Execute
    <3>5. ASSUME NEW r \in Runner, NEW c \in Call, Migrate(r, c) PROVE UNCHANGED <<rows, tracked>>
      BY <3>5 DEF Migrate
    <3>6. UNCHANGED vars => UNCHANGED <<rows, tracked>>
      BY DEF vars
    <3> HIDE DEF store
    <3> QED BY <3>1, <3>2, <3>3, <3>4, <3>5, <3>6 DEF Next, RunnerStep
  <2> QED BY <2>1, <2>2, <2>3, <2>4
<1> SUFFICES ASSUME ~disturbed' PROVE CalmInv'
  BY <1>t, <1>r DEF OnceInv
<1>c. CalmInv /\ ~disturbed
  <2>1. ASSUME NEW r \in Runner, NEW c \in Call, Migrate(r, c) PROVE ~disturbed
    BY <2>1, Zenon DEF Migrate
  <2>2. ASSUME NEW r \in Runner, RunnerStep(r) \/ Crash(r) PROVE disturbed' = disturbed
    BY <2>2 DEF RunnerStep, Visit, Finish, EnsureTable, ReadApplied, LeaveAlias, Fail, OpenFile, RunOp,
                OpDone, Record, Crash, Undisturbed, history, Fault, Refused
  <2>3. ASSUME UNCHANGED vars PROVE disturbed' = disturbed
    BY <2>3 DEF vars, history
  <2>4. ~disturbed
    BY <2>1, <2>2, <2>3 DEF Next
  <2> QED BY <2>4 DEF OnceInv
<1>d. ~Fault /\ ~Refused
  BY DEF Fault, Refused
<1> USE <1>d DEF Undisturbed, history
<1>1. CASE UNCHANGED vars
  BY <1>1, <1>c DEF CalmInv, Active, Working, Ran, Current, vars, runner, store, In, InEffect
<1>2. ASSUME NEW r \in Runner, NEW c \in Call, Migrate(r, c) PROVE CalmInv'
  <2>1. \A q \in Runner \ {r} : ~Active(q)
    BY <1>2, <1>c DEF Migrate
  <2>2. \A q \in Runner : ~Active(q)
    BY <2>1, <1>2 DEF Migrate
  <2>3. \A q, p \in Runner : Active(q)' /\ Active(p)' => q = p
    BY <1>2, <2>1 DEF Migrate, Goto, Active, OnceInv, TypeInv, TypeOK
  <2>4. \A a \in Alias, s \in Step : s \in In(a) => Stem[s[1]] \in rows[a]
    BY <2>2, <1>c DEF CalmInv, Ran, Active
  <2>5. \A q \in Runner : ~Working(q)'
    BY <1>2, <2>1 DEF Migrate, Goto, Active, Working, OnceInv, TypeInv, TypeOK
  <2> QED BY <1>2, <1>c, <2>3, <2>4, <2>5 DEF CalmInv, Migrate, store, In, InEffect
<1>3. ASSUME NEW r \in Runner, NEW a \in Alias, Visit(r, a) PROVE CalmInv'
  <2>1. /\ UNCHANGED <<store, todo, ops>> /\ pc[r] = "alias" /\ pc' = [pc EXCEPT ![r] = "ensure"]
        /\ here' = [here EXCEPT ![r] = a]
    BY <1>3 DEF Visit, Goto
  <2>2. \A b \in Alias, s \in Step, q \in Runner : Ran(q, b, s) => Ran(q, b, s)'
    BY <2>1 DEF Ran, Current, OnceInv, TypeInv, TypeOK
  <2> QED BY <2>1, <2>2, <1>c DEF CalmInv, Active, Working, store, In, InEffect, OnceInv, TypeInv, TypeOK
<1>4. ASSUME NEW r \in Runner, Finish(r) PROVE CalmInv'
  <2>1. /\ UNCHANGED store /\ pc[r] = "alias" /\ pc' = [pc EXCEPT ![r] = "done"]
        /\ here' = [here EXCEPT ![r] = None] /\ todo' = [todo EXCEPT ![r] = {}]
        /\ ops' = [ops EXCEPT ![r] = {}]
    BY <1>4 DEF Finish, Stop, Goto
  <2>2. \A b \in Alias, s \in Step, q \in Runner : Ran(q, b, s) => Ran(q, b, s)'
    BY <2>1 DEF Ran, Current, OnceInv, TypeInv, TypeOK
  <2> QED BY <2>1, <2>2, <1>c DEF CalmInv, Active, Working, store, In, InEffect, OnceInv, TypeInv, TypeOK
<1>5. ASSUME NEW r \in Runner, EnsureTable(r) PROVE CalmInv'
  <2>1. /\ UNCHANGED <<effect, rows, again, here, todo, ops>> /\ pc[r] = "ensure"
        /\ pc' = [pc EXCEPT ![r] = "read"]
    BY <1>5 DEF EnsureTable, Goto
  <2>2. \A b \in Alias, s \in Step, q \in Runner : Ran(q, b, s) => Ran(q, b, s)'
    BY <2>1 DEF Ran, Current, OnceInv, TypeInv, TypeOK
  <2> QED BY <2>1, <2>2, <1>c DEF CalmInv, Active, Working, In, InEffect, OnceInv, TypeInv, TypeOK
<1>6. ASSUME NEW r \in Runner, ReadApplied(r) PROVE CalmInv'
  <2>1. /\ UNCHANGED <<store, here, ops>> /\ pc[r] = "read" /\ pc' = [pc EXCEPT ![r] = "file"]
        /\ todo' = [todo EXCEPT ![r] = {f \in File : Stem[f] \notin Applied(r)}]
        /\ here[r] \in Alias
    BY <1>6 DEF ReadApplied, Goto, OnceInv, TypeInv, TypeOK
  <2>2. \A b \in Alias, s \in Step, q \in Runner : Ran(q, b, s) => Ran(q, b, s)'
    BY <2>1 DEF Ran, Current, OnceInv, TypeInv, TypeOK
  <2>3. \A f \in todo'[r] : Stem[f] \notin rows[here[r]]
    BY <2>1 DEF Applied, OnceInv, TypeInv, TypeOK
  <2> QED BY <2>1, <2>2, <2>3, <1>c
          DEF CalmInv, Active, Working, store, In, InEffect, OnceInv, TypeInv, TypeOK
<1>7. ASSUME NEW r \in Runner, NEW f \in File, OpenFile(r, f) PROVE CalmInv'
  <2>1. /\ UNCHANGED <<store, here>> /\ pc[r] = "file"
        /\ \A q \in Runner \ {r} : pc'[q] = pc[q] /\ todo'[q] = todo[q] /\ ops'[q] = ops[q]
        /\ pc'[r] \in {"file", "op", "record"} /\ todo'[r] \subseteq todo[r]
    BY <1>7 DEF OpenFile, Goto, OnceInv, TypeInv, TypeOK
  <2>2. \A b \in Alias, s \in Step, q \in Runner : Ran(q, b, s) => Ran(q, b, s)'
    BY <2>1 DEF Ran, Current, OnceInv, TypeInv, TypeOK
  <2>3. \A q \in Runner : Active(q)' <=> Active(q)
    BY <2>1 DEF Active
  <2>4. \A q \in Runner : Working(q)' => \A g \in todo'[q] : Stem[g] \notin rows[here[q]]
    BY <2>1, <1>c DEF CalmInv, Working
  <2> QED BY <2>1, <2>2, <2>3, <2>4, <1>c DEF CalmInv, store, In, InEffect
<1>8. ASSUME NEW r \in Runner, LeaveAlias(r) PROVE CalmInv'
  <2>1. /\ UNCHANGED <<store, todo, ops>> /\ pc[r] = "file" /\ pc' = [pc EXCEPT ![r] = "alias"]
        /\ here' = [here EXCEPT ![r] = None]
    BY <1>8 DEF LeaveAlias, Goto
  <2>2. \A b \in Alias, s \in Step, q \in Runner : Ran(q, b, s) => Ran(q, b, s)'
    BY <2>1 DEF Ran, Current, OnceInv, TypeInv, TypeOK
  <2> QED BY <2>1, <2>2, <1>c DEF CalmInv, Active, Working, store, In, InEffect, OnceInv, TypeInv, TypeOK
<1>9. ASSUME NEW r \in Runner, NEW s \in Step, RunOp(r, s) PROVE CalmInv'
  <2>1. /\ UNCHANGED <<rows, here, todo>> /\ pc[r] = "op" /\ s \in ops[r] /\ here[r] \in Alias
        /\ ops' = [ops EXCEPT ![r] = @ \ {s}] /\ pc'[r] \in {"op", "record"}
        /\ \A q \in Runner \ {r} : pc'[q] = pc[q]
        /\ Current(r, s[1]) /\ call[r].schema \in Schema
    BY <1>9, CallAssumption
       DEF RunOp, OpDone, NextOp, Goto, Execute, store, OnceInv, TypeInv, TypeOK
  <2>2. Target(s, call[r].schema) = Public /\ \A x \in Step : Target(x, Public) = Public
    BY <2>1, TargetPublic, SchemaAssumption
  <2>3. s \notin In(here[r])
    <3>1. Stem[s[1]] \notin rows[here[r]]
      BY <2>1, <1>c DEF CalmInv, Working, Current
    <3>2. \A q \in Runner : ~Ran(q, here[r], s)
      BY <2>1, <1>c DEF CalmInv, Ran, Active
    <3> QED BY <2>1, <3>1, <3>2, <1>c DEF CalmInv
  <2>4. again' = again
    BY <1>9, <2>1, <2>2, <2>3 DEF RunOp, Execute, store, In, InEffect
  <2>5. \A b \in Alias, x \in Step : x \in In(b)' => x \in In(b) \/ (b = here[r] /\ x = s)
    BY <1>9, <2>1, <2>2 DEF RunOp, Execute, store, In, InEffect, OnceInv, TypeInv, TypeOK, StoreTypeOK
  <2>6. Ran(r, here[r], s)'
    BY <2>1 DEF Ran, Current, OnceInv, TypeInv, TypeOK
  <2>7. \A b \in Alias, x \in Step, q \in Runner : Ran(q, b, x) => Ran(q, b, x)'
    BY <2>1 DEF Ran, Current, OnceInv, TypeInv, TypeOK
  <2>8. \A q \in Runner : (Active(q)' <=> Active(q)) /\ (Working(q)' <=> Working(q))
    BY <2>1 DEF Active, Working
  <2> QED BY <2>1, <2>4, <2>5, <2>6, <2>7, <2>8, <1>c DEF CalmInv
<1>10. ASSUME NEW r \in Runner, Fail(r) PROVE FALSE
  BY <1>10 DEF Fail
<1>11. ASSUME NEW r \in Runner, NEW f \in File, Record(r, f) PROVE CalmInv'
  <2>1. /\ UNCHANGED <<effect, again, here, ops>> /\ pc[r] = "record" /\ Current(r, f)
        /\ here[r] \in Alias /\ todo' = [todo EXCEPT ![r] = @ \ {f}]
        /\ pc' = [pc EXCEPT ![r] = "file"]
        /\ rows' = [rows EXCEPT ![here[r]] = @ \cup {Stem[f]}]
    BY <1>11 DEF Record, Goto, OnceInv, TypeInv, TypeOK
  <2>2. \A b \in Alias : rows'[b] = IF b = here[r] THEN rows[b] \cup {Stem[f]} ELSE rows[b]
    BY <2>1 DEF OnceInv, TypeInv, TypeOK, StoreTypeOK
  <2>3. \A q \in Runner : Active(q)' <=> Active(q)
    BY <2>1 DEF Active, OnceInv, TypeInv, TypeOK
  <2>4. \A q \in Runner \ {r} : ~Working(q)
    BY <2>1, <1>c DEF CalmInv, Active, Working
  <2>5. \A b \in Alias, s \in Step : s \in In(b) => Stem[s[1]] \in rows'[b]
    <3> SUFFICES ASSUME NEW b \in Alias, NEW s \in Step, s \in In(b), Stem[s[1]] \notin rows[b]
                 PROVE  Stem[s[1]] \in rows'[b]
      BY <2>2
    <3>1. PICK q \in Runner : Ran(q, b, s)
      BY <1>c DEF CalmInv
    <3>2. q = r /\ b = here[r] /\ Current(r, s[1])
      BY <3>1, <2>4 DEF Ran, Working
    <3>3. s[1] = f
      BY <2>1, <3>2, StepFacts, CurrentUnique DEF OnceInv, TypeInv
    <3> QED BY <2>2, <3>2, <3>3
  <2>6. \A q \in Runner : Working(q)' => q = r
    BY <2>1, <2>4 DEF Working, OnceInv, TypeInv, TypeOK
  <2>7. \A g \in todo'[r] : Stem[g] \notin rows'[here[r]]
    <3>1. \A g \in todo[r] : Stem[g] \notin rows[here[r]] /\ g \in File
      BY <2>1, <1>c DEF CalmInv, Working, OnceInv, TypeInv, TypeOK
    <3> QED BY <2>1, <2>2, <3>1 DEF DistinctStems, OnceInv, TypeInv, TypeOK
  <2> QED BY <2>1, <2>3, <2>5, <2>6, <2>7, <1>c DEF CalmInv, In, InEffect
<1>12. ASSUME NEW r \in Runner, Crash(r) PROVE FALSE
  BY <1>12 DEF Crash
<1> QED
  BY <1>1, <1>2, <1>3, <1>4, <1>5, <1>6, <1>7, <1>8, <1>9, <1>10, <1>11, <1>12
     DEF Next, RunnerStep

(* Without a fault and without overlapping runs no operation changes a      *)
(* database twice, however often migrate is run, dry or not.                *)
THEOREM OperationsRunOnce == OneSchema /\ DistinctStems => (Spec => []RunsOnce)
<1> SUFFICES ASSUME OneSchema, DistinctStems PROVE Spec => []RunsOnce
  OBVIOUS
<1>1. OnceInv => RunsOnce
  BY DEF OnceInv, CalmInv, RunsOnce
<1>2. OnceInv /\ [Next]_vars => OnceInv'
  BY OnceStep
<1> QED BY OnceInit, <1>1, <1>2, PTL DEF Spec
=============================================================================
