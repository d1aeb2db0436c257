--------------------------- MODULE MigrationRunner ---------------------------
(***************************************************************************)
(* MigrationRunner.migrate (ryx-python/ryx/migrations/runner.py) on a      *)
(* project that has migration files.  A runner is a process; runners may   *)
(* overlap, crash between any two statements, and be started again.        *)
(***************************************************************************)
EXTENDS MigrationStore

CONSTANTS
  Runner,  \* processes that run migrate
  Route,   \* the database the router (else Meta.database) gives a table's model
  Call     \* the arguments migrate is run with

ASSUME RouteAssumption == Route \in [Table -> Alias]
ASSUME CallAssumption ==
  Call \subseteq [schema : Schema, only : Alias \cup {None}, dry : BOOLEAN]

VARIABLES
  pc,    \* "idle", the next call to a database, "done" or "failed"
  call,  \* the arguments of the current or the last run
  left,  \* the databases it has still to visit
  here,  \* the one it is at
  todo,  \* the pending files
  ops    \* the operations of the current file still to run

runner == <<pc, call, left, here, todo, ops>>
vars == <<store, history, runner>>

Active(r) == pc[r] \notin {"idle", "done", "failed"}

(* Files and operations are sorted: the next is the least.                  *)
Current(r, f) == f \in todo[r] /\ \A g \in todo[r] : f <= g
NextOp(r, s) == s \in ops[r] /\ \A t \in ops[r] : s[2] <= t[2]

(* _filter_models_for_db: a database that no model is routed to is skipped. *)
Visits(c, a) == c.only \in {None, a} /\ \E t \in Table : Route[t] = a

TypeOK ==
  /\ StoreTypeOK
  /\ pc \in [Runner ->
       {"idle", "alias", "ensure", "read", "file", "op", "record", "done", "failed"}]
  /\ call \in [Runner -> Call \cup {None}]
  /\ \A r \in Runner : pc[r] # "idle" => call[r] \in Call
  /\ left \in [Runner -> SUBSET Alias]
  /\ here \in [Runner -> Alias \cup {None}]
  /\ \A r \in Runner : pc[r] \in {"ensure", "read", "file", "op", "record"} => here[r] \in Alias
  /\ todo \in [Runner -> SUBSET File]
  /\ ops \in [Runner -> SUBSET Step]
  /\ \A r \in Runner : pc[r] \in {"op", "record"} => \E f \in File : Current(r, f)
  /\ \A r \in Runner, s \in Step : s \in ops[r] => Current(r, s[1])

Init ==
  /\ StoreInit
  /\ pc = [r \in Runner |-> "idle"]
  /\ call = [r \in Runner |-> None]
  /\ left = [r \in Runner |-> {}]
  /\ here = [r \in Runner |-> None]
  /\ todo = [r \in Runner |-> {}]
  /\ ops = [r \in Runner |-> {}]

Goto(r, l) == pc' = [pc EXCEPT ![r] = l]

(* Mutation: the operations of a run that failed stay.                      *)
StopKeepsOps(r, l) ==
  /\ Goto(r, l)
  /\ left' = [left EXCEPT ![r] = {}]
  /\ here' = [here EXCEPT ![r] = None]
  /\ todo' = [todo EXCEPT ![r] = {}]
  /\ UNCHANGED <<call, ops>>

Stop(r, l) ==
  /\ Goto(r, l)
  /\ left' = [left EXCEPT ![r] = {}]
  /\ here' = [here EXCEPT ![r] = None]
  /\ todo' = [todo EXCEPT ![r] = {}]
  /\ ops' = [ops EXCEPT ![r] = {}]
  /\ UNCHANGED call

-----------------------------------------------------------------------------
Migrate(r, c) ==
  /\ ~Active(r)
  /\ Goto(r, "alias")
  /\ call' = [call EXCEPT ![r] = c]
  /\ left' = [left EXCEPT ![r] = {a \in Alias : Visits(c, a)}]
  /\ disturbed' = (disturbed \/ \E q \in Runner \ {r} : Active(q))
  /\ UNCHANGED <<store, budget, here, todo, ops>>

(* The next database in the loop of migrate, or the end of it.              *)
Visit(r, a) ==
  /\ pc[r] = "alias" /\ a \in left[r]
  /\ Goto(r, "ensure")
  /\ left' = [left EXCEPT ![r] = @ \ {a}]
  /\ here' = [here EXCEPT ![r] = a]
  /\ Undisturbed
  /\ UNCHANGED <<store, call, todo, ops>>

Finish(r) ==
  /\ pc[r] = "alias" /\ left[r] = {}
  /\ Stop(r, "done")
  /\ Undisturbed
  /\ UNCHANGED store

(* _ensure_migrations_table, in a dry run too.  The name is qualified with  *)
(* the runner's schema.  A failure is swallowed.                            *)
EnsureTable(r) ==
  /\ pc[r] = "ensure"
  /\ \/ Undisturbed /\ tracked' = [tracked EXCEPT ![here[r]] = @ \cup {call[r].schema}]
     \/ Fault /\ UNCHANGED tracked
  /\ Goto(r, "read")
  /\ UNCHANGED <<site, effect, rows, again, call, left, here, todo, ops>>

(* _get_applied_migrations, by the unqualified name; any failure reads as   *)
(* "nothing applied".  The pending files are computed once.                 *)
Applied(r) == IF Public \in tracked[here[r]] THEN rows[here[r]] ELSE {}

(* Mutation: a table that cannot be read leaves nothing to do.              *)
ReadOrNothing(r) ==
  /\ pc[r] = "read"
  /\ \/ Undisturbed /\ todo' = [todo EXCEPT ![r] = {f \in File : Stem[f] \notin Applied(r)}]
     \/ Fault /\ todo' = [todo EXCEPT ![r] = {}]
  /\ Goto(r, "file")
  /\ UNCHANGED <<store, call, left, here, ops>>

ReadApplied(r) ==
  /\ pc[r] = "read"
  /\ \/ Undisturbed /\ todo' = [todo EXCEPT ![r] = {f \in File : Stem[f] \notin Applied(r)}]
     \/ Fault /\ todo' = [todo EXCEPT ![r] = File]
  /\ Goto(r, "file")
  /\ UNCHANGED <<store, call, left, here, ops>>

(* The next pending file: import it, keep the operations for this database. *)
(* None: record it at once, in a dry run too.  A dry run passes over others.*)
(* Mutation: a dry run does not pass on.                                    *)
OpenFileAgain(r, f) ==
  LET mine == {s \in Step : s[1] = f /\ Relevant(s, here[r])} IN
  /\ pc[r] = "file" /\ Current(r, f)
  /\ mine = {} => Goto(r, "record") /\ UNCHANGED ops
  /\ mine # {} /\ call[r].dry => UNCHANGED <<pc, ops>>
  /\ mine # {} /\ ~call[r].dry => Goto(r, "op") /\ ops' = [ops EXCEPT ![r] = mine]
  /\ Undisturbed
  /\ UNCHANGED <<store, call, left, here, todo>>

OpenFile(r, f) ==
  LET mine == {s \in Step : s[1] = f /\ Relevant(s, here[r])} IN
  /\ pc[r] = "file" /\ Current(r, f)
  /\ \/ mine = {} /\ Goto(r, "record") /\ UNCHANGED <<todo, ops>>
     \/ /\ mine # {} /\ call[r].dry
        /\ todo' = [todo EXCEPT ![r] = @ \ {f}]
        /\ UNCHANGED <<pc, ops>>
     \/ /\ mine # {} /\ ~call[r].dry
        /\ Goto(r, "op") /\ ops' = [ops EXCEPT ![r] = mine]
        /\ UNCHANGED todo
  /\ Undisturbed
  /\ UNCHANGED <<store, call, left, here>>

(* All files done: indexes, constraints and join tables of the models, all  *)
(* IF NOT EXISTS with errors swallowed, which no property reads.            *)
LeaveAlias(r) ==
  /\ pc[r] = "file" /\ todo[r] = {}
  /\ Goto(r, "alias")
  /\ here' = [here EXCEPT ![r] = None]
  /\ Undisturbed
  /\ UNCHANGED <<store, call, left, todo, ops>>

OpDone(r, s) ==
  /\ ops' = [ops EXCEPT ![r] = @ \ {s}]
  /\ Goto(r, IF ops[r] = {s} THEN "record" ELSE "op")
  /\ Undisturbed
  /\ UNCHANGED <<call, left, here, todo>>

(* The statements of a file, one after the other.                           *)
RunOp(r, s) ==
  LET sc == Target(s, call[r].schema) IN
  /\ pc[r] = "op" /\ NextOp(r, s)
  /\ IF Op(s).kind = "none" THEN UNCHANGED store ELSE Execute(here[r], s, sc)
  /\ OpDone(r, s)

(* Mutation: an error is logged and the next operation runs.                *)
FailGoesOn(r) ==
  /\ pc[r] = "op"
  /\ \E s \in Step :
       /\ NextOp(r, s)
       /\ \/ Fault
          \/ /\ Refused /\ Op(s).kind # "none"
             /\ ~Accepts(here[r], s, Target(s, call[r].schema))
       /\ ops' = [ops EXCEPT ![r] = @ \ {s}]
       /\ Goto(r, IF ops[r] = {s} THEN "record" ELSE "op")
  /\ UNCHANGED <<store, call, left, here, todo>>

(* An error of a file or a statement ends the run.                          *)
Fail(r) ==
  /\ \/ pc[r] \in {"file", "op"} /\ Fault
     \/ /\ pc[r] = "op" /\ Refused
        /\ \E s \in Step :
             /\ NextOp(r, s) /\ Op(s).kind # "none"
             /\ ~Accepts(here[r], s, Target(s, call[r].schema))
  /\ Stop(r, "failed")
  /\ UNCHANGED store

(* Mutation: the stem goes where no later run looks for it.                 *)
RecordLost(r, f) ==
  /\ pc[r] = "record" /\ Current(r, f)
  /\ todo' = [todo EXCEPT ![r] = @ \ {f}]
  /\ Goto(r, "file")
  /\ Undisturbed
  /\ UNCHANGED <<store, call, left, here, ops>>

(* _record_migration: a failure is logged and forgotten.                    *)
Record(r, f) ==
  /\ pc[r] = "record" /\ Current(r, f)
  /\ \/ /\ Insertable(here[r], Stem[f]) /\ Undisturbed
        /\ rows' = [rows EXCEPT ![here[r]] = @ \cup {Stem[f]}]
     \/ ~Insertable(here[r], Stem[f]) /\ Refused /\ UNCHANGED rows
     \/ Fault /\ UNCHANGED rows
  /\ todo' = [todo EXCEPT ![r] = @ \ {f}]
  /\ Goto(r, "file")
  /\ UNCHANGED <<site, effect, tracked, again, call, left, here, ops>>

Crash(r) ==
  /\ Active(r) /\ Fault
  /\ Stop(r, "idle")
  /\ UNCHANGED store

-----------------------------------------------------------------------------
RunnerStep(r) ==
  \/ \E a \in Alias : Visit(r, a)
  \/ Finish(r) \/ EnsureTable(r) \/ ReadApplied(r) \/ LeaveAlias(r) \/ Fail(r)
  \/ \E f \in File : OpenFile(r, f) \/ Record(r, f)
  \/ \E s \in Step : RunOp(r, s)

Next == \E r \in Runner : RunnerStep(r) \/ Crash(r) \/ \E c \in Call : Migrate(r, c)

Spec == Init /\ [][Next]_vars

(* A run that began makes progress; whoever migrates does so again and      *)
(* again, and not only dry or for one database.                             *)
Whole(c) == c.only = None /\ ~c.dry
RetrySpec ==
  /\ Spec
  /\ \A r \in Runner : WF_vars(RunnerStep(r))
  /\ SF_vars(\E r \in Runner, c \in Call : Whole(c) /\ Migrate(r, c))

-----------------------------------------------------------------------------
InEffect(a, sc) == {s \in Step : <<s, Target(s, sc)>> \in effect[a]}
FileApplied(a, f, sc) == \A s \in Wanted(a) : s[1] = f => s \in InEffect(a, sc)
AllApplied(a, sc) == Wanted(a) \subseteq InEffect(a, sc)

Ledger == INSTANCE MigrationLedger WITH
  Order <- {p \in Step \X Step : Before(p[1], p[2])},
  Meant <- [a \in Alias |-> Wanted(a)],
  FileOf <- [s \in Step |-> s[1]],
  done <- [a \in Alias |-> InEffect(a, Public)],
  recorded <- [a \in Alias |-> {f \in File : Stem[f] \in rows[a]}]

(* The runner implements the ledger: with runs that overlap, crash and fail *)
(* at any statement, operations take effect in order, and a file is         *)
(* recorded (migrate, _record_migration) only when all of it is in effect.  *)
LedgerSpec == Ledger!LSpec

(* A run that ends without an error has applied everything to every         *)
(* database it visited, though failures to read or to record are swallowed. *)
DoneMeansApplied ==
  \A r \in Runner : pc[r] = "done" /\ ~call[r].dry =>
    \A a \in Alias : Visits(call[r], a) => AllApplied(a, call[r].schema)

(* An operation changes the database a second time only after a crash, a    *)
(* failed statement or overlapping runs: reruns of migrate skip what was    *)
(* recorded.                                                                *)
RunsOnce == ~disturbed => again = {}

(* What comes before an operation is in effect, its file is not recorded,   *)
(* and the database does not take it.                                       *)
Wedged(a) ==
  \E s \in Wanted(a) :
    /\ \A x \in Wanted(a) : Before(x, s) => x \in InEffect(a, Public)
    /\ Stem[s[1]] \notin rows[a]
    /\ ~Accepts(a, s, Target(s, Public))

(* Who keeps running migrate gets everything applied in the end, or every   *)
(* later run fails at the first operation that some database does not take: *)
(* one it never takes, or, after a fault between an operation and the       *)
(* record of its file, one that is in effect and cannot be made twice.      *)
AppliedOrWedged ==
  \/ <>[](\A a \in Alias : Visits([only |-> None], a) => AllApplied(a, Public))
  \/ <>[](\E a \in Alias : Wedged(a))
=============================================================================
