------------------------------ MODULE GilLock ------------------------------
(***************************************************************************)
(* How the Python interface shares three things: the GIL, the tokio mutex  *)
(* around one transaction handle, and tokio's worker threads               *)
(* (ryx-python/src/lib.rs, PyTransactionHandle).                           *)
(*                                                                         *)
(* Coroutines run on the event loop thread, which holds the GIL.  What     *)
(* they await runs on a tokio worker: it takes the handle's mutex, runs    *)
(* SQL without the GIL, and needs the GIL to hand its result back.  A      *)
(* query gives the mutex back before it asks for the GIL; commit, rollback,*)
(* savepoint and rollback_to ask for it with the mutex in their hands.     *)
(* get_alias, which transaction.__aenter__ calls first, blocks on the      *)
(* mutex with the GIL in its hands.                                        *)
(***************************************************************************)
EXTENDS Naturals, Sequences, FiniteSets

CONSTANTS
  Coroutine,  \* coroutines that use the handle
  Nester,     \* those of them that open nested blocks or end the block
  Workers,    \* tokio worker threads
  Loop,       \* the event loop thread, as a waiter for the mutex
  NoOne

ASSUME NesterAssumption == Nester \subseteq Coroutine
ASSUME WorkersAssumption == Workers \in Nat \ {0}
ASSUME LoopAssumption == {Loop, NoOne} \cap Coroutine = {} /\ Loop # NoOne

VARIABLES
  running,    \* the coroutine the loop runs, with the GIL; NoOne: GIL free
  inAlias,    \* does it sit in get_alias?
  phase,      \* of what a coroutine awaits; "idle" if it awaits nothing
  awaits,     \* "query" or "handle" (a method of the handle)
  queue,      \* waiters for the mutex; the first one holds it
  bystander   \* another Python thread: "wants" the GIL or "rests"

gilVars == <<running, inAlias, phase, awaits, queue, bystander>>

GilTypeOK ==
  /\ running \in Coroutine \cup {NoOne}
  /\ inAlias \in BOOLEAN
  /\ phase \in [Coroutine -> {"idle", "queued", "sql", "attach"}]
  /\ awaits \in [Coroutine -> {"query", "handle"}]
  /\ queue \in Seq(Coroutine \cup {Loop})
  /\ bystander \in {"wants", "rests"}

GilInit ==
  /\ running = NoOne
  /\ inAlias = FALSE
  /\ phase = [c \in Coroutine |-> "idle"]
  /\ awaits = [c \in Coroutine |-> "query"]
  /\ queue = << >>
  /\ bystander = "rests"

-----------------------------------------------------------------------------
GilFree == running = NoOne
Holds(w) == queue # << >> /\ Head(queue) = w

(* Python::attach blocks the worker that calls it.                          *)
WorkerFree == Cardinality({c \in Coroutine : phase[c] = "attach"}) < Workers

(* The loop takes the GIL to run a coroutine that awaits nothing.           *)
Resume(c) ==
  /\ GilFree /\ phase[c] = "idle"
  /\ running' = c
  /\ UNCHANGED <<inAlias, phase, awaits, queue, bystander>>

(* future_into_py: the coroutine starts to await, the loop goes on.         *)
Await(c, k, q) ==
  /\ phase' = [phase EXCEPT ![c] = "queued"]
  /\ awaits' = [awaits EXCEPT ![c] = k]
  /\ queue' = Append(q, c)
  /\ running' = NoOne

(* It awaits a statement, which the backend enlists on the handle.          *)
RunQuery(c) ==
  /\ running = c /\ ~inAlias
  /\ Await(c, "query", queue)
  /\ UNCHANGED <<inAlias, bystander>>

(* It awaits commit, rollback or rollback_to.                               *)
HandleMethod(c) ==
  /\ c \in Nester
  /\ running = c /\ ~inAlias
  /\ Await(c, "handle", queue)
  /\ UNCHANGED <<inAlias, bystander>>

(* It enters transaction(): get_alias calls blocking_lock.                  *)
GetAlias(c) ==
  /\ c \in Nester
  /\ running = c /\ ~inAlias
  /\ inAlias' = TRUE
  /\ queue' = Append(queue, Loop)
  /\ UNCHANGED <<running, phase, awaits, bystander>>

(* Mutation: get_alias's guard is not dropped.                              *)
AliasReadKeepsGuard(c) ==
  /\ running = c /\ inAlias
  /\ Holds(Loop)
  /\ inAlias' = FALSE
  /\ Await(c, "handle", queue)
  /\ UNCHANGED bystander

(* get_alias returns, the guard is dropped, and savepoint is awaited.       *)
AliasRead(c) ==
  /\ running = c /\ inAlias
  /\ Holds(Loop)
  /\ inAlias' = FALSE
  /\ Await(c, "handle", Tail(queue))
  /\ UNCHANGED bystander

(* The new block is on another database: the guard is dropped, and the      *)
(* BEGIN that is awaited has nothing to do with this handle.                *)
AliasDiffers(c) ==
  /\ running = c /\ inAlias
  /\ Holds(Loop)
  /\ inAlias' = FALSE
  /\ queue' = Tail(queue)
  /\ running' = NoOne
  /\ UNCHANGED <<phase, awaits, bystander>>

(* The coroutine returns or does other work.                                *)
GoOn(c) ==
  /\ running = c /\ ~inAlias
  /\ running' = NoOne
  /\ UNCHANGED <<inAlias, phase, awaits, queue, bystander>>

-----------------------------------------------------------------------------
(* A worker polls what a coroutine awaits: the mutex is granted in order of *)
(* arrival, and the statement is sent.                                      *)
Granted(c) ==
  /\ phase[c] = "queued" /\ Holds(c)
  /\ WorkerFree
  /\ phase' = [phase EXCEPT ![c] = "sql"]
  /\ UNCHANGED <<running, inAlias, awaits, queue, bystander>>

(* Mutation: a query, too, asks for the GIL with the mutex.                 *)
AnsweredKeepsMutex(c) ==
  /\ phase[c] = "sql"
  /\ WorkerFree
  /\ phase' = [phase EXCEPT ![c] = "attach"]
  /\ UNCHANGED <<running, inAlias, awaits, queue, bystander>>

(* The database answers; a query drops the mutex, a method keeps it.        *)
Answered(c) ==
  /\ phase[c] = "sql"
  /\ WorkerFree
  /\ phase' = [phase EXCEPT ![c] = "attach"]
  /\ queue' = IF awaits[c] = "query" THEN Tail(queue) ELSE queue
  /\ UNCHANGED <<running, inAlias, awaits, bystander>>

(* Mutation: the guard is never dropped.                                    *)
AttachKeepsMutex(c) ==
  /\ phase[c] = "attach" /\ GilFree
  /\ phase' = [phase EXCEPT ![c] = "idle"]
  /\ UNCHANGED <<running, inAlias, awaits, queue, bystander>>

(* Python::attach gets the GIL, the result is set, everything is dropped.   *)
Attach(c) ==
  /\ phase[c] = "attach" /\ GilFree
  /\ phase' = [phase EXCEPT ![c] = "idle"]
  /\ queue' = IF awaits[c] = "handle" THEN Tail(queue) ELSE queue
  /\ UNCHANGED <<running, inAlias, awaits, bystander>>

(* Another Python thread wants to run, and runs.                            *)
BystanderWants ==
  /\ bystander = "rests"
  /\ bystander' = "wants"
  /\ UNCHANGED <<running, inAlias, phase, awaits, queue>>

BystanderRuns ==
  /\ bystander = "wants" /\ GilFree
  /\ bystander' = "rests"
  /\ UNCHANGED <<running, inAlias, phase, awaits, queue>>

CoroutineStep(c) ==
  \/ Resume(c) \/ RunQuery(c) \/ HandleMethod(c)
  \/ GetAlias(c) \/ AliasRead(c) \/ AliasDiffers(c) \/ GoOn(c)

WorkerStep(c) == Granted(c) \/ Answered(c) \/ Attach(c)

GilNext ==
  \/ \E c \in Coroutine : CoroutineStep(c) \/ WorkerStep(c)
  \/ BystanderWants \/ BystanderRuns

GilSpec == GilInit /\ [][GilNext]_gilVars

(* A coroutine does not run for ever; tokio polls what is ready and the     *)
(* database answers; a thread that keeps asking for the GIL gets it, since  *)
(* the interpreter makes its holder give way after a switch interval.       *)
GilFairness ==
  /\ \A c \in Coroutine :
       /\ WF_gilVars(RunQuery(c) \/ HandleMethod(c) \/ AliasRead(c) \/ AliasDiffers(c) \/ GoOn(c))
       /\ WF_gilVars(Granted(c)) /\ WF_gilVars(Answered(c)) /\ SF_gilVars(Attach(c))
  /\ SF_gilVars(BystanderRuns)

-----------------------------------------------------------------------------
(* While get_alias keeps the GIL waiting for the mutex, the mutex is with a *)
(* query that has not come to ask for the GIL: the interpreter stands still *)
(* for one statement of the database, not for a thread that waits for it.   *)
WaitsOnlyForSql ==
  inAlias /\ ~Holds(Loop) =>
    awaits[Head(queue)] = "query" /\ phase[Head(queue)] \in {"queued", "sql"}

(* While a coroutine's statement is with the database, the loop does not     *)
(* hold the GIL for want of its answer ("if a query takes 100ms to execute  *)
(* on the database, the GIL is not held for those 100ms, allowing other     *)
(* Python threads to continue running"): get_alias holds it that long.      *)
GilFreeInSql == \A c \in Coroutine : phase[c] = "sql" => ~inAlias

(* A thread that wants the GIL gets it in the end: what get_alias makes it  *)
(* wait for comes to an end.  It is so as long as one coroutine opens       *)
(* nested blocks on a handle; two can make the loop wait for each other.    *)
ThreadsRun == bystander = "wants" ~> bystander = "rests"

(* Whatever a coroutine awaits is answered.                                 *)
AllAnswered == \A c \in Coroutine : phase[c] # "idle" ~> phase[c] = "idle"
=============================================================================
