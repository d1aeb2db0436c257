----------------------------- MODULE BindingProofs -----------------------------
(***************************************************************************)
(* Proofs about what a call of the binding goes through, in three parts.   *)
(*                                                                         *)
(* 1. The GIL and the mutex of a handle (GilLock), for any coroutines and  *)
(*    workers: when get_alias can wait for a thread that waits for it.     *)
(* 2. The plan cache (PlanCache), for any threads, queries, lookups, text  *)
(*    and hash: what compile() returns whatever the interleaving.          *)
(* 3. Queries (QuerySession, QueryCompiler, QueryMeaning), for any keys,   *)
(*    requests, custom lookups, pools and Q trees.  Every state of a       *)
(*    session satisfies SInv: what is in the making and what was asked for *)
(*    are well-formed queries on their pool.  From there                   *)
(*    - each list of terms the compiler writes has as many "?" as the      *)
(*      values made beside it, but for the shapes of Miscounted: one       *)
(*      condition, one list of conditions, a tree by induction on its      *)
(*      size, the WHERE clause, the statement;                             *)
(*    - each term reads, for any choice of true atoms, as the node it was  *)
(*      made from means, again from the condition to the WHERE clause;     *)
(*    - each step wrapped around a column is one of the condition's parts, *)
(*      and the compare of a two-digit part is of numbers.                 *)
(* The definitions by recursive functions (Total, FlattenSeq, Nodes,       *)
(* CompileQ, Truth, MeansQ) are opened once: each function is shown to     *)
(* exist over the naturals or the trees up to a size, so that its CHOOSE   *)
(* is the function the definition describes.                               *)
(***************************************************************************)
EXTENDS GilLock, PlanCache, QueryMeaning, SequenceTheorems, WellFoundedInduction, TLAPS

(***************************************************************************)
(* The GIL and the mutex.                                                  *)
(***************************************************************************)

(* The waiters are distinct; a coroutine waits exactly while what it awaits*)
(* has not given the mutex back, the loop exactly while it is in get_alias.*)
Waiter == Coroutine \cup {Loop}
Distinct(q) == \A i, j \in DOMAIN q : q[i] = q[j] => i = j
Keeps(c) == phase[c] = "sql" \/ (phase[c] = "attach" /\ awaits[c] = "handle")
Waits(w) == \E i \in DOMAIN queue : queue[i] = w

QueueInv ==
  /\ Distinct(queue)
  /\ \A c \in Coroutine : Waits(c) => phase[c] = "queued" \/ Keeps(c)
  /\ \A c \in Coroutine : Keeps(c) => Holds(c)
  /\ Waits(Loop) <=> inAlias

RunInv ==
  /\ running # NoOne => phase[running] = "idle"
  /\ inAlias => running \in Nester
  /\ \A c \in Coroutine : phase[c] # "idle" /\ awaits[c] = "handle" => c \in Nester

Inv == GilTypeOK /\ QueueInv /\ RunInv

-----------------------------------------------------------------------------
(* Joining and leaving the queue: r is q with w at its end, r is the rest  *)
(* of q.                                                                   *)
Joined(r, q, w) ==
  /\ r \in Seq(Waiter) /\ Distinct(r)
  /\ \A x : (\E i \in DOMAIN r : r[i] = x) <=> x = w \/ \E i \in DOMAIN q : q[i] = x
  /\ r # << >>
  /\ q # << >> => Head(r) = Head(q)

Left(r, q) ==
  /\ r \in Seq(Waiter) /\ Distinct(r)
  /\ \A x : (\E i \in DOMAIN r : r[i] = x) <=> x # Head(q) /\ \E i \in DOMAIN q : q[i] = x

LEMMA Join ==
  ASSUME NEW q \in Seq(Waiter), NEW w \in Waiter, Distinct(q),
         \A i \in DOMAIN q : q[i] # w
  PROVE  Joined(Append(q, w), q, w)
<1> DEFINE r == Append(q, w)
<1>1. /\ r \in Seq(Waiter) /\ DOMAIN q = 1..Len(q) /\ Len(q) \in Nat
      /\ DOMAIN r = 1..(Len(q) + 1)
      /\ r[Len(q) + 1] = w
      /\ \A i \in 1..Len(q) : r[i] = q[i]
  OBVIOUS
<1>2. Distinct(r)
  BY <1>1 DEF Distinct
<1>3. \A x : (\E i \in DOMAIN r : r[i] = x) <=> x = w \/ \E i \in DOMAIN q : q[i] = x
  BY <1>1
<1>4. r # << >> /\ (q # << >> => Head(r) = Head(q))
  BY <1>1
<1> QED
  BY <1>1, <1>2, <1>3, <1>4 DEF Joined

LEMMA Leave ==
  ASSUME NEW q \in Seq(Waiter), Distinct(q), q # << >>
  PROVE  Left(Tail(q), q)
<1> DEFINE r == Tail(q)
<1>1. /\ r \in Seq(Waiter) /\ DOMAIN q = 1..Len(q) /\ Len(q) \in Nat /\ Len(q) > 0
      /\ DOMAIN r = 1..(Len(q) - 1)
      /\ \A i \in 1..(Len(q) - 1) : r[i] = q[i + 1]
      /\ Head(q) = q[1]
  OBVIOUS
<1>2. Distinct(r)
  BY <1>1 DEF Distinct
<1>3. ASSUME NEW x
      PROVE  (\E i \in DOMAIN r : r[i] = x) <=> x # Head(q) /\ \E i \in DOMAIN q : q[i] = x
  <2>1. ASSUME NEW i \in DOMAIN r, r[i] = x
        PROVE  x # Head(q) /\ \E j \in DOMAIN q : q[j] = x
    <3>1. i + 1 \in DOMAIN q /\ q[i + 1] = x /\ 1 \in DOMAIN q /\ i + 1 # 1
      BY <1>1, <2>1
    <3> QED BY <1>1, <3>1 DEF Distinct
  <2>2. ASSUME x # Head(q), NEW i \in DOMAIN q, q[i] = x
        PROVE  \E j \in DOMAIN r : r[j] = x
    <3>1. i - 1 \in DOMAIN r /\ r[i - 1] = x
      BY <1>1, <2>2
    <3> QED BY <3>1
  <2> QED BY <2>1, <2>2
<1> QED
  BY <1>1, <1>2, <1>3 DEF Left

-----------------------------------------------------------------------------
LEMMA InitInv == GilInit => Inv
<1> SUFFICES ASSUME GilInit PROVE Inv
  OBVIOUS
<1>1. GilTypeOK
  <2>1. << >> \in Seq(Waiter)
    OBVIOUS
  <2> QED BY <2>1 DEF GilInit, GilTypeOK, Waiter
<1>2. QueueInv
  BY DEF GilInit, QueueInv, Distinct, Keeps, Waits
<1>3. RunInv
  BY DEF GilInit, RunInv
<1> QED
  BY <1>1, <1>2, <1>3 DEF Inv

(* Awaiting something from the running coroutine, with the mutex's waiters *)
(* q, among which neither it nor the loop is.                              *)
LEMMA AwaitInv ==
  ASSUME Inv, NEW c \in Coroutine, NEW k \in {"query", "handle"},
         NEW q \in Seq(Waiter),
         running = c, k = "handle" => c \in Nester,
         Await(c, k, q), inAlias' = FALSE, bystander' = bystander,
         Distinct(q), \A i \in DOMAIN q : q[i] # Loop,
         \A d \in Coroutine : (\E i \in DOMAIN q : q[i] = d) => Waits(d),
         \A d \in Coroutine : Keeps(d) => q # << >> /\ Head(q) = d
  PROVE  Inv'
<1>0. /\ phase \in [Coroutine -> {"idle", "queued", "sql", "attach"}]
      /\ awaits \in [Coroutine -> {"query", "handle"}]
      /\ bystander \in {"wants", "rests"}
  BY DEF Inv, GilTypeOK, Waiter
<1>1. /\ phase' = [phase EXCEPT ![c] = "queued"] /\ awaits' = [awaits EXCEPT ![c] = k]
      /\ queue' = Append(q, c) /\ running' = NoOne /\ phase[c] = "idle"
      /\ c # NoOne /\ c # Loop
  BY LoopAssumption DEF Await, Inv, RunInv
<1>2. \A i \in DOMAIN q : q[i] # c
  BY <1>1 DEF Inv, QueueInv, Keeps
<1>3. /\ queue' \in Seq(Waiter) /\ Distinct(queue')
      /\ \A x : Waits(x)' <=> x = c \/ \E i \in DOMAIN q : q[i] = x
      /\ queue' # << >> /\ (q # << >> => Head(queue') = Head(q))
  <2>1. c \in Waiter
    BY DEF Waiter
  <2>2. Joined(queue', q, c)
    BY <1>1, <1>2, <2>1, Join
  <2> QED BY <2>2 DEF Waits, Joined
<1>4. GilTypeOK'
  BY <1>0, <1>1, <1>3 DEF GilTypeOK, Waiter
<1>5. \A d \in Coroutine : Waits(d)' => (phase[d] = "queued" \/ Keeps(d))'
  <2>1. ASSUME NEW d \in Coroutine, d # c, Waits(d)'
        PROVE  phase'[d] = "queued" \/ Keeps(d)'
    <3>1. phase[d] = "queued" \/ Keeps(d)
      BY <2>1, <1>3 DEF Inv, QueueInv
    <3> QED BY <3>1, <2>1, <1>0, <1>1 DEF Keeps
  <2> QED BY <2>1, <1>0, <1>1
<1>6. \A d \in Coroutine : Keeps(d)' => Holds(d)'
  <2>1. ASSUME NEW d \in Coroutine, Keeps(d)' PROVE d # c /\ Keeps(d)
    BY <2>1, <1>0, <1>1 DEF Keeps
  <2> QED BY <2>1, <1>3 DEF Holds
<1>7. Waits(Loop)' <=> inAlias'
  BY <1>1, <1>3
<1>8. RunInv'
  BY <1>0, <1>1 DEF RunInv, Inv
<1> QED
  BY <1>3, <1>4, <1>5, <1>6, <1>7, <1>8 DEF Inv, QueueInv

LEMMA StepInv == Inv /\ [GilNext]_gilVars => Inv'
<1> SUFFICES ASSUME Inv, [GilNext]_gilVars PROVE Inv'
  OBVIOUS
<1>0. /\ running \in Coroutine \cup {NoOne} /\ inAlias \in BOOLEAN
      /\ phase \in [Coroutine -> {"idle", "queued", "sql", "attach"}]
      /\ awaits \in [Coroutine -> {"query", "handle"}]
      /\ queue \in Seq(Waiter)
      /\ bystander \in {"wants", "rests"}
  BY DEF Inv, GilTypeOK, Waiter
<1>1. QueueInv /\ RunInv
  BY DEF Inv
<1>2. CASE UNCHANGED gilVars
  BY <1>2 DEF gilVars, Inv, GilTypeOK, QueueInv, RunInv, Keeps, Waits, Holds
<1>3. CASE BystanderWants \/ BystanderRuns
  <2>1. UNCHANGED <<running, inAlias, phase, awaits, queue>> /\ bystander' \in {"wants", "rests"}
    BY <1>3 DEF BystanderWants, BystanderRuns
  <2> QED
    BY <2>1, <1>0, <1>1 DEF Inv, GilTypeOK, Waiter, QueueInv, RunInv, Keeps, Waits, Holds
<1>4. ASSUME NEW c \in Coroutine, Resume(c) \/ GoOn(c) PROVE Inv'
  <2>1. /\ UNCHANGED <<inAlias, phase, awaits, queue, bystander>>
        /\ running' \in Coroutine \cup {NoOne}
        /\ running' # NoOne => phase[running'] = "idle"
        /\ ~inAlias
    BY <1>4, <1>1, LoopAssumption, NesterAssumption
       DEF Resume, GoOn, GilFree, RunInv
  <2> QED
    BY <2>1, <1>0, <1>1 DEF Inv, GilTypeOK, Waiter, QueueInv, RunInv, Keeps, Waits, Holds
<1>5. ASSUME NEW c \in Coroutine, RunQuery(c) \/ HandleMethod(c) PROVE Inv'
  <2>1. /\ \E k \in {"query", "handle"} : Await(c, k, queue) /\ (k = "handle" => c \in Nester)
        /\ running = c /\ ~inAlias /\ inAlias' = FALSE /\ bystander' = bystander
    BY <1>5, <1>0 DEF RunQuery, HandleMethod
  <2>2. /\ \A i \in DOMAIN queue : queue[i] # Loop
        /\ Distinct(queue)
        /\ \A d \in Coroutine : (\E i \in DOMAIN queue : queue[i] = d) => Waits(d)
        /\ \A d \in Coroutine : Keeps(d) => queue # << >> /\ Head(queue) = d
    BY <2>1, <1>1 DEF QueueInv, Waits, Holds
  <2> QED
    BY <2>1, <2>2, <1>0, AwaitInv
<1>6. ASSUME NEW c \in Coroutine, GetAlias(c) PROVE Inv'
  <2>1. /\ c \in Nester /\ running = c /\ ~inAlias /\ inAlias' = TRUE
        /\ queue' = Append(queue, Loop)
        /\ UNCHANGED <<running, phase, awaits, bystander>>
    BY <1>6 DEF GetAlias
  <2>2. \A i \in DOMAIN queue : queue[i] # Loop
    BY <2>1, <1>1 DEF QueueInv, Waits
  <2>3. /\ queue' \in Seq(Waiter) /\ Distinct(queue')
        /\ \A x : Waits(x)' <=> x = Loop \/ Waits(x)
        /\ queue' # << >> /\ (queue # << >> => Head(queue') = Head(queue))
    <3>1. Distinct(queue) /\ Loop \in Waiter
      BY <1>1 DEF QueueInv, Waiter
    <3>2. Joined(queue', queue, Loop)
      BY <3>1, <2>1, <2>2, <1>0, Join
    <3> QED BY <3>2 DEF Waits, Joined
  <2>4. GilTypeOK'
    BY <2>1, <2>3, <1>0 DEF GilTypeOK, Waiter
  <2>5. \A d \in Coroutine : Waits(d)' => (phase[d] = "queued" \/ Keeps(d))'
    BY <2>1, <2>3, <1>1, LoopAssumption DEF QueueInv, Keeps
  <2>6. \A d \in Coroutine : Keeps(d)' => Holds(d)'
    BY <2>1, <2>3, <1>1 DEF QueueInv, Keeps, Holds
  <2>7. RunInv'
    BY <2>1, <1>1 DEF RunInv
  <2> QED
    BY <2>1, <2>3, <2>4, <2>5, <2>6, <2>7 DEF Inv, QueueInv
<1>7. ASSUME NEW c \in Coroutine, AliasRead(c) PROVE Inv'
  <2>1. /\ running = c /\ inAlias /\ Holds(Loop) /\ inAlias' = FALSE
        /\ Await(c, "handle", Tail(queue)) /\ bystander' = bystander
    BY <1>7 DEF AliasRead
  <2>2. c \in Nester /\ queue # << >> /\ Head(queue) = Loop
    BY <2>1, <1>1 DEF RunInv, Holds
  <2>3. /\ Tail(queue) \in Seq(Waiter) /\ Distinct(Tail(queue))
        /\ \A x : (\E i \in DOMAIN Tail(queue) : Tail(queue)[i] = x) <=> x # Loop /\ Waits(x)
    <3>1. Distinct(queue)
      BY <1>1 DEF QueueInv
    <3>2. Left(Tail(queue), queue)
      BY <3>1, <2>2, <1>0, Leave
    <3> QED BY <3>2, <2>2 DEF Waits, Left
  <2>4. \A d \in Coroutine : ~Keeps(d)
    BY <2>2, <1>1, LoopAssumption DEF QueueInv, Holds
  <2> QED
    BY <2>1, <2>2, <2>3, <2>4, AwaitInv
<1>8. ASSUME NEW c \in Coroutine, Granted(c) PROVE Inv'
  <2>1. /\ phase[c] = "queued" /\ Holds(c) /\ phase' = [phase EXCEPT ![c] = "sql"]
        /\ UNCHANGED <<running, inAlias, awaits, queue, bystander>>
    BY <1>8 DEF Granted
  <2>2. GilTypeOK' /\ RunInv'
    BY <2>1, <1>0, <1>1 DEF GilTypeOK, Waiter, RunInv
  <2>3. \A d \in Coroutine : Keeps(d)' <=> d = c \/ Keeps(d)
    BY <2>1, <1>0 DEF Keeps
  <2>4. QueueInv'
    BY <2>1, <2>3, <1>0, <1>1 DEF QueueInv, Waits, Holds
  <2> QED
    BY <2>2, <2>4 DEF Inv
<1>9. ASSUME NEW c \in Coroutine, Answered(c) PROVE Inv'
  <2>1. /\ phase[c] = "sql" /\ phase' = [phase EXCEPT ![c] = "attach"]
        /\ queue' = IF awaits[c] = "query" THEN Tail(queue) ELSE queue
        /\ UNCHANGED <<running, inAlias, awaits, bystander>>
    BY <1>9 DEF Answered
  <2>2. queue # << >> /\ Head(queue) = c
    BY <2>1, <1>1 DEF QueueInv, Keeps, Holds
  <2>3. \A d \in Coroutine : d # c => ~Keeps(d)
    BY <2>2, <1>1 DEF QueueInv, Holds
  <2>4. RunInv'
    BY <2>1, <1>0, <1>1 DEF RunInv
  <2>5. CASE awaits[c] = "query"
    <3>1. /\ queue' \in Seq(Waiter) /\ Distinct(queue')
          /\ \A x : Waits(x)' <=> x # c /\ Waits(x)
      <4>1. queue' = Tail(queue) /\ Distinct(queue)
        BY <2>1, <2>2, <2>5, <1>1 DEF QueueInv
      <4>2. Left(queue', queue)
        BY <4>1, <2>2, <1>0, Leave
      <4> QED BY <4>2, <2>2 DEF Waits, Left
    <3>2. \A d \in Coroutine : ~Keeps(d)'
      BY <2>1, <2>3, <2>5, <1>0 DEF Keeps
    <3>3. \A d \in Coroutine : Waits(d)' => (phase[d] = "queued" \/ Keeps(d))'
      BY <2>1, <2>3, <3>1, <1>0, <1>1 DEF QueueInv
    <3>4. GilTypeOK'
      BY <2>1, <3>1, <1>0 DEF GilTypeOK, Waiter
    <3>5. QueueInv'
      BY <2>1, <3>1, <3>2, <3>3, <1>1, LoopAssumption DEF QueueInv
    <3> QED BY <2>4, <3>4, <3>5 DEF Inv
  <2>6. CASE awaits[c] = "handle"
    <3>1. \A d \in Coroutine : Keeps(d)' <=> Keeps(d)
      BY <2>1, <2>6, <1>0 DEF Keeps
    <3>2. GilTypeOK' /\ QueueInv'
      BY <2>1, <2>6, <3>1, <1>0, <1>1 DEF GilTypeOK, Waiter, QueueInv, Waits, Holds
    <3> QED BY <2>4, <3>2 DEF Inv
  <2> QED
    BY <2>5, <2>6, <1>0
<1>10. ASSUME NEW c \in Coroutine, Attach(c) PROVE Inv'
  <2>1. /\ phase[c] = "attach" /\ running = NoOne /\ phase' = [phase EXCEPT ![c] = "idle"]
        /\ queue' = IF awaits[c] = "handle" THEN Tail(queue) ELSE queue
        /\ UNCHANGED <<running, inAlias, awaits, bystander>>
    BY <1>10 DEF Attach, GilFree
  <2>2. RunInv'
    BY <2>1, <1>0, <1>1 DEF RunInv
  <2>3. CASE awaits[c] = "handle"
    <3>1. queue # << >> /\ Head(queue) = c
      BY <2>1, <2>3, <1>1 DEF QueueInv, Keeps, Holds
    <3>2. /\ queue' \in Seq(Waiter) /\ Distinct(queue')
          /\ \A x : Waits(x)' <=> x # c /\ Waits(x)
      <4>1. queue' = Tail(queue) /\ Distinct(queue)
        BY <2>1, <2>3, <3>1, <1>1 DEF QueueInv
      <4>2. Left(queue', queue)
        BY <4>1, <3>1, <1>0, Leave
      <4> QED BY <4>2, <3>1 DEF Waits, Left
    <3>3. \A d \in Coroutine : ~Keeps(d)'
      BY <2>1, <3>1, <1>0, <1>1 DEF QueueInv, Keeps, Holds
    <3>4. \A d \in Coroutine : Waits(d)' => (phase[d] = "queued" \/ Keeps(d))'
      BY <2>1, <3>1, <3>2, <1>0, <1>1 DEF QueueInv, Keeps, Holds
    <3>5. GilTypeOK'
      BY <2>1, <3>2, <1>0 DEF GilTypeOK, Waiter
    <3>6. QueueInv'
      BY <2>1, <3>2, <3>3, <3>4, <1>1, LoopAssumption DEF QueueInv
    <3> QED BY <2>2, <3>5, <3>6 DEF Inv
  <2>4. CASE awaits[c] = "query"
    <3>1. \A d \in Coroutine : Keeps(d)' <=> Keeps(d)
      BY <2>1, <2>4, <1>0 DEF Keeps
    <3>2. ~Waits(c)
      BY <2>1, <2>4, <1>1 DEF QueueInv, Keeps
    <3>3. GilTypeOK' /\ QueueInv'
      BY <2>1, <2>4, <3>1, <3>2, <1>0, <1>1 DEF GilTypeOK, Waiter, QueueInv, Waits, Holds
    <3> QED BY <2>2, <3>3 DEF Inv
  <2> QED
    BY <2>3, <2>4, <1>0
<1>11. ASSUME NEW c \in Coroutine, AliasDiffers(c) PROVE Inv'
  <2>1. /\ running = c /\ inAlias /\ Holds(Loop) /\ inAlias' = FALSE
        /\ queue' = Tail(queue) /\ running' = NoOne /\ UNCHANGED <<phase, awaits, bystander>>
    BY <1>11 DEF AliasDiffers
  <2>2. queue # << >> /\ Head(queue) = Loop
    BY <2>1 DEF Holds
  <2>3. /\ queue' \in Seq(Waiter) /\ Distinct(queue')
        /\ \A x : Waits(x)' <=> x # Loop /\ Waits(x)
    <3>1. Distinct(queue)
      BY <1>1 DEF QueueInv
    <3>2. Left(queue', queue)
      BY <3>1, <2>1, <2>2, <1>0, Leave
    <3> QED BY <3>2, <2>2 DEF Waits, Left
  <2>4. \A d \in Coroutine : ~Keeps(d)
    BY <2>2, <1>1, LoopAssumption DEF QueueInv, Holds
  <2>5. GilTypeOK'
    BY <2>1, <2>3, <1>0 DEF GilTypeOK, Waiter
  <2>6. QueueInv'
    BY <2>1, <2>3, <2>4, <1>1 DEF QueueInv, Keeps
  <2>7. RunInv'
    BY <2>1, <1>1 DEF RunInv
  <2> QED
    BY <2>5, <2>6, <2>7 DEF Inv
<1> QED
  BY <1>2, <1>3, <1>4, <1>5, <1>6, <1>7, <1>8, <1>9, <1>10, <1>11
     DEF GilNext, CoroutineStep, WorkerStep

(* If one coroutine at most ends the block or opens blocks in it, get_alias*)
(* never waits for a worker that waits for the GIL.                        *)
THEOREM OneNesterNoStandoff ==
  (\A m, n \in Nester : m = n) => (GilSpec => []WaitsOnlyForSql)
<1> SUFFICES ASSUME \A m, n \in Nester : m = n PROVE GilSpec => []WaitsOnlyForSql
  OBVIOUS
<1>1. Inv => WaitsOnlyForSql
  <2> SUFFICES ASSUME Inv, inAlias, ~Holds(Loop)
               PROVE  /\ awaits[Head(queue)] = "query"
                      /\ phase[Head(queue)] \in {"queued", "sql"}
    BY DEF WaitsOnlyForSql
  <2> DEFINE c == Head(queue)
  <2>1. running \in Nester /\ phase[running] = "idle" /\ Waits(Loop)
    BY NesterAssumption, LoopAssumption DEF Inv, RunInv, QueueInv
  <2>2. queue \in Seq(Waiter) /\ queue # << >>
    BY <2>1 DEF Inv, GilTypeOK, Waits, Waiter
  <2>3. c \in Coroutine /\ Waits(c)
    BY <2>2 DEF Holds, Waits, Waiter
  <2>4. phase[c] = "queued" \/ Keeps(c)
    BY <2>3 DEF Inv, QueueInv
  <2>5. awaits[c] = "query"
    BY <2>1, <2>3, <2>4 DEF Inv, RunInv, GilTypeOK, Keeps
  <2> QED
    BY <2>4, <2>5 DEF Keeps
<1> QED
  BY InitInv, StepInv, <1>1, PTL DEF GilSpec

(***************************************************************************)
(* The plan cache.                                                         *)
(***************************************************************************)

Plan == {PlanOf(q, r) : q \in Query, r \in Registries} \cup {Unwritten}

Call ==
  [stage : {"idle"}]
    \cup [stage : {"failed"}, query : Query]
    \cup [stage : {"checked"}, query : Query, hit : BOOLEAN]
    \cup [stage : {"written", "storing"}, query : Query, hit : BOOLEAN,
          under : Registries, plan : Plan]
    \cup [stage : {"done"}, query : Query, under : Registries, plan : Plan]

PlanTypeOK ==
  /\ calls \in [Callers -> Call]
  /\ registry \in Registries
  /\ plans \in [DOMAIN plans -> Plan]
  /\ emitted \subseteq [query : Query, under : Registries]

\* A thread that saw no plan carries the text it wrote
Carried ==
  \A c \in Callers : calls[c].stage \in {"written", "storing"} /\ ~calls[c].hit =>
    \E e \in emitted : /\ KeyOf(e.query) = KeyOf(calls[c].query)
                       /\ e.query = calls[c].query /\ e.under = calls[c].under
                       /\ calls[c].plan = PlanOf(e.query, e.under)

IInv == PlanTypeOK /\ Carried /\ PlanOrigin /\ SeenStays /\ AnswerOrigin

LEMMA InitIInv == CacheInit => IInv
  BY DEF CacheInit, IInv, PlanTypeOK, Carried, PlanOrigin, SeenStays, AnswerOrigin, Call, Idle, Done

\* What a step of c does to its own record is all there is to show of the parts
\* of the invariant that speak of one thread.
LEMMA OwnStep ==
  ASSUME IInv, NEW c \in Callers, NEW new,
         calls' = [calls EXCEPT ![c] = new],
         emitted \subseteq emitted',
         new.stage \in {"written", "storing"} /\ ~new.hit =>
           \E e \in emitted' : /\ KeyOf(e.query) = KeyOf(new.query)
                              /\ e.query = new.query /\ e.under = new.under
                              /\ new.plan = PlanOf(e.query, e.under),
         new.stage = "done" =>
           \E e \in emitted' : /\ KeyOf(e.query) = KeyOf(new.query)
                              /\ new.plan = PlanOf(e.query, e.under)
  PROVE  Carried' /\ AnswerOrigin'
<1>1. calls'[c] = new /\ \A d \in Callers : d # c => calls'[d] = calls[d]
  BY DEF IInv, PlanTypeOK
<1>2. Carried'
  <2> SUFFICES ASSUME NEW d \in Callers, calls'[d].stage \in {"written", "storing"}, ~calls'[d].hit
               PROVE  \E e \in emitted' : /\ KeyOf(e.query) = KeyOf(calls'[d].query)
                                          /\ e.query = calls'[d].query /\ e.under = calls'[d].under
                                          /\ calls'[d].plan = PlanOf(e.query, e.under)
    BY DEF Carried, PlanOf
  <2>1. CASE d = c
    BY <1>1, <2>1
  <2>2. CASE d # c
    BY <1>1, <2>2 DEF IInv, Carried
  <2> QED
    BY <2>1, <2>2
<1>3. AnswerOrigin'
  <2> SUFFICES ASSUME NEW d \in Callers, calls'[d].stage = "done"
               PROVE  \E e \in emitted' : /\ KeyOf(e.query) = KeyOf(calls'[d].query)
                                          /\ calls'[d].plan = PlanOf(e.query, e.under)
    BY DEF AnswerOrigin, Done, PlanOf
  <2>1. CASE d = c
    BY <1>1, <2>1
  <2>2. CASE d # c
    BY <1>1, <2>2 DEF IInv, AnswerOrigin, Done
  <2> QED
    BY <2>1, <2>2
<1> QED
  BY <1>2, <1>3

\* The hash is looked up: only SeenStays has something to say of it.
LEMMA CheckIInv ==
  ASSUME IInv, NEW c \in Callers, NEW q \in Query, Check(c, q)
  PROVE  IInv'
<1> DEFINE seen == KeyOf(q) \in DOMAIN plans
           new  == [stage |-> "checked", query |-> q, hit |-> seen]
<1>1. calls' = [calls EXCEPT ![c] = new] /\ UNCHANGED <<plans, registry, emitted>>
  BY DEF Check
<1>2. seen \in BOOLEAN
  OBVIOUS
<1>3. new \in Call /\ new.stage = "checked" /\ new.query = q /\ new.hit = seen
  BY <1>2 DEF Call
<1>4. (new.hit <=> KeyOf(q) \in DOMAIN plans)
  BY <1>3
<1> HIDE DEF new, seen
<1>5. PlanTypeOK'
  BY <1>1, <1>3 DEF IInv, PlanTypeOK
<1>6. Carried' /\ AnswerOrigin'
  BY <1>1, <1>3, OwnStep
<1>7. calls'[c] = new /\ \A d \in Callers : d # c => calls'[d] = calls[d]
  BY <1>1 DEF IInv, PlanTypeOK
<1>8. PlanOrigin' /\ SeenStays'
  BY <1>1, <1>3, <1>4, <1>7 DEF IInv, PlanOrigin, SeenStays, PlanOf
<1> QED
  BY <1>5, <1>6, <1>8 DEF IInv

\* A text is written: the history gains it, and the thread carries it.
LEMMA WriteIInv ==
  ASSUME IInv, NEW c \in Callers, Write(c)
  PROVE  IInv'
<1> DEFINE q == calls[c].query
<1>1. UNCHANGED <<plans, registry>> /\ calls[c].stage = "checked"
  BY DEF Write
<1>2. q \in Query /\ calls[c].hit \in BOOLEAN /\ registry \in Registries
  BY <1>1 DEF IInv, PlanTypeOK, Call
<1>3. CASE SqlOf(q, registry).err # "none"
  <2> DEFINE new == [stage |-> "failed", query |-> q]
  <2>1. calls' = [calls EXCEPT ![c] = new] /\ UNCHANGED emitted
    BY <1>3 DEF Write
  <2>2. new \in Call /\ new.stage = "failed"
    BY <1>2 DEF Call
  <2> HIDE DEF new
  <2>3. PlanTypeOK'
    BY <1>1, <2>1, <2>2 DEF IInv, PlanTypeOK
  <2>4. Carried' /\ AnswerOrigin'
    BY <2>1, <2>2, OwnStep
  <2>5. calls'[c] = new /\ \A d \in Callers : d # c => calls'[d] = calls[d]
    BY <2>1 DEF IInv, PlanTypeOK
  <2>6. PlanOrigin' /\ SeenStays'
    BY <1>1, <2>1, <2>2, <2>5 DEF IInv, PlanOrigin, SeenStays, PlanOf
  <2> QED
    BY <2>3, <2>4, <2>6 DEF IInv
<1>4. CASE SqlOf(q, registry).err = "none"
  <2> DEFINE text == IF calls[c].hit THEN Unwritten ELSE PlanOf(q, registry)
             new  == [stage |-> "written", query |-> q, hit |-> calls[c].hit,
                      under |-> registry, plan |-> text]
             e    == [query |-> q, under |-> registry]
  <2>1. calls' = [calls EXCEPT ![c] = new]
        /\ emitted' = IF calls[c].hit THEN emitted ELSE emitted \cup {e}
    BY <1>4 DEF Write
  <2>2. text \in Plan /\ (~calls[c].hit => text = PlanOf(q, registry))
    BY <1>2 DEF Plan
  <2> HIDE DEF text
  <2>3. /\ new \in Call /\ new.stage = "written" /\ new.query = q
        /\ new.hit = calls[c].hit /\ new.under = registry /\ new.plan = text
    BY <1>2, <2>2 DEF Call
  <2>4. e \in [query : Query, under : Registries] /\ e.query = q /\ e.under = registry
    BY <1>2
  <2> HIDE DEF new, e
  <2>5. PlanTypeOK'
    BY <1>1, <2>1, <2>3, <2>4 DEF IInv, PlanTypeOK
  <2>6. emitted \subseteq emitted' /\ (~calls[c].hit => e \in emitted')
    BY <2>1
  <2>7. Carried' /\ AnswerOrigin'
    BY <2>1, <2>2, <2>3, <2>4, <2>6, OwnStep
  <2>8. calls'[c] = new /\ \A d \in Callers : d # c => calls'[d] = calls[d]
    BY <2>1 DEF IInv, PlanTypeOK
  <2>9. PlanOrigin'
    BY <1>1, <2>6 DEF IInv, PlanOrigin, PlanOf
  <2>10. SeenStays'
    BY <1>1, <2>3, <2>8 DEF IInv, SeenStays
  <2> QED
    BY <2>5, <2>7, <2>9, <2>10 DEF IInv
<1> QED
  BY <1>3, <1>4

\* A plan found in the cache was written for a query of its hash.
LEMMA ReuseIInv ==
  ASSUME IInv, NEW c \in Callers, Reuse(c)
  PROVE  IInv'
<1> DEFINE k   == KeyOf(calls[c].query)
           new == Answer(c, plans[k])
<1>1. /\ calls' = [calls EXCEPT ![c] = new]
      /\ UNCHANGED <<plans, registry, emitted>>
      /\ calls[c].stage = "written" /\ k \in DOMAIN plans
  BY DEF Reuse
<1>2. calls[c].query \in Query /\ calls[c].under \in Registries /\ plans[k] \in Plan
  BY <1>1 DEF IInv, PlanTypeOK, Call
<1>3. /\ new \in Call /\ new.stage = "done" /\ new.query = calls[c].query /\ new.plan = plans[k]
  BY <1>2 DEF Answer, Call
<1>4. \E e \in emitted : KeyOf(e.query) = k /\ plans[k] = PlanOf(e.query, e.under)
  BY <1>1 DEF IInv, PlanOrigin
<1> HIDE DEF new
<1>5. PlanTypeOK'
  BY <1>1, <1>3 DEF IInv, PlanTypeOK
<1>6. Carried' /\ AnswerOrigin'
  BY <1>1, <1>3, <1>4, OwnStep
<1>7. calls'[c] = new /\ \A d \in Callers : d # c => calls'[d] = calls[d]
  BY <1>1 DEF IInv, PlanTypeOK
<1>8. PlanOrigin' /\ SeenStays'
  BY <1>1, <1>3, <1>7 DEF IInv, PlanOrigin, SeenStays, PlanOf
<1> QED
  BY <1>5, <1>6, <1>8 DEF IInv

\* A thread that saw its hash cannot miss: only such a thread carries no text.
LEMMA MissIInv ==
  ASSUME IInv, NEW c \in Callers, Miss(c)
  PROVE  IInv'
<1> DEFINE old == calls[c]
           new == [old EXCEPT !.stage = "storing"]
<1>1. /\ calls' = [calls EXCEPT ![c].stage = "storing"]
      /\ UNCHANGED <<plans, registry, emitted>>
      /\ old.stage = "written" /\ KeyOf(old.query) \notin DOMAIN plans
  BY DEF Miss
<1>2. old \in [stage : {"written", "storing"}, query : Query, hit : BOOLEAN,
               under : Registries, plan : Plan]
  BY <1>1 DEF IInv, PlanTypeOK, Call
<1>3. /\ new \in Call /\ new.stage = "storing" /\ new.query = old.query
      /\ new.hit = old.hit /\ new.under = old.under /\ new.plan = old.plan
  BY <1>2 DEF Call
<1>4. calls' = [calls EXCEPT ![c] = new]
  BY <1>1 DEF IInv, PlanTypeOK
<1>5. ~old.hit
  BY <1>1 DEF IInv, SeenStays
<1>6. \E e \in emitted : /\ KeyOf(e.query) = KeyOf(old.query)
                        /\ e.query = old.query /\ e.under = old.under
                        /\ old.plan = PlanOf(e.query, e.under)
  BY <1>1, <1>5 DEF IInv, Carried
<1> HIDE DEF new
<1>6a. /\ emitted \subseteq emitted' /\ new.stage # "done"
       /\ \E e \in emitted' : /\ KeyOf(e.query) = KeyOf(new.query)
                             /\ e.query = new.query /\ e.under = new.under
                             /\ new.plan = PlanOf(e.query, e.under)
  BY <1>1, <1>3, <1>6
<1>7. PlanTypeOK'
  BY <1>1, <1>3, <1>4 DEF IInv, PlanTypeOK
<1>8. Carried' /\ AnswerOrigin'
  BY <1>4, <1>6a, OwnStep
<1>9. calls'[c] = new /\ \A d \in Callers : d # c => calls'[d] = calls[d]
  BY <1>4 DEF IInv, PlanTypeOK
<1>10. PlanOrigin' /\ SeenStays'
  BY <1>1, <1>3, <1>5, <1>9 DEF IInv, PlanOrigin, SeenStays, PlanOf
<1> QED
  BY <1>7, <1>8, <1>10 DEF IInv

\* The text stored is the one this thread wrote.
LEMMA StoreIInv ==
  ASSUME IInv, NEW c \in Callers, Store(c)
  PROVE  IInv'
<1> DEFINE k   == KeyOf(calls[c].query)
           new == Answer(c, calls[c].plan)
<1>1. /\ plans' = [x \in DOMAIN plans \cup {k} |-> IF x = k THEN calls[c].plan ELSE plans[x]]
      /\ calls' = [calls EXCEPT ![c] = new]
      /\ UNCHANGED <<registry, emitted>>
      /\ calls[c].stage = "storing"
  BY DEF Store
<1>2. calls[c].query \in Query /\ calls[c].under \in Registries /\ calls[c].plan \in Plan
  BY <1>1 DEF IInv, PlanTypeOK, Call
<1>3. /\ new \in Call /\ new.stage = "done" /\ new.query = calls[c].query
      /\ new.plan = calls[c].plan
  BY <1>2 DEF Answer, Call
<1>4. \E e \in emitted : KeyOf(e.query) = k /\ calls[c].plan = PlanOf(e.query, e.under)
  BY <1>1 DEF IInv, Carried, SeenStays
<1> HIDE DEF new
<1>5. PlanTypeOK'
  BY <1>1, <1>2, <1>3 DEF IInv, PlanTypeOK
<1>6. Carried' /\ AnswerOrigin'
  BY <1>1, <1>3, <1>4, OwnStep
<1>7. PlanOrigin'
  BY <1>1, <1>4 DEF IInv, PlanOrigin, PlanOf
<1>8. calls'[c] = new /\ \A d \in Callers : d # c => calls'[d] = calls[d]
  BY <1>1 DEF IInv, PlanTypeOK
<1>9. SeenStays'
  BY <1>1, <1>3, <1>8 DEF IInv, SeenStays
<1> QED
  BY <1>5, <1>6, <1>7, <1>9 DEF IInv

LEMMA RegisterIInv ==
  ASSUME IInv, NEW r \in Registries, Register(r)
  PROVE  IInv'
  BY DEF IInv, Register, PlanTypeOK, Carried, PlanOrigin, SeenStays, AnswerOrigin, Done, PlanOf

LEMMA NextIInv == IInv /\ [CacheNext]_cacheVars => IInv'
<1> SUFFICES ASSUME IInv, [CacheNext]_cacheVars PROVE IInv'
  OBVIOUS
<1>1. CASE UNCHANGED cacheVars
  BY <1>1 DEF cacheVars, IInv, PlanTypeOK, Carried, PlanOrigin, SeenStays, AnswerOrigin, Done, PlanOf
<1>2. CASE CacheNext
  BY <1>2, CheckIInv, WriteIInv, ReuseIInv, MissIInv, StoreIInv, RegisterIInv DEF CacheNext
<1> QED
  BY <1>1, <1>2

\* The invariant holds in every state the calls of compile() reach.
THEOREM SpecIInv == CacheSpec => []IInv
  BY InitIInv, NextIInv, PTL DEF CacheSpec

\* A thread that wrote no text because it saw its hash finds a plan, so an
\* empty text is never stored or returned.  (compilr.rs 146-196)
THEOREM HitsAreKept == CacheSpec => []SeenStays
  BY SpecIInv, PTL DEF IInv

\* Every plan of the cache was written for a query of its hash.
THEOREM PlansAreOwn == CacheSpec => []PlanOrigin
  BY SpecIInv, PTL DEF IInv

\* Every answer was written for a query of the hash of the query asked.
THEOREM AnswersAreOwn == CacheSpec => []AnswerOrigin
  BY SpecIInv, PTL DEF IInv

-----------------------------------------------------------------------------
\* Queries of one hash compile to one text, whatever the lookups
SoundHash ==
  \A q, p \in Query, r, s \in Registries :
    KeyOf(q) = KeyOf(p) => PlanOf(q, r) = PlanOf(p, s)

LEMMA AnswersAreFresh == SoundHash /\ IInv => Fresh
<1> SUFFICES ASSUME SoundHash, IInv, NEW c \in Callers, Done(c)
             PROVE  calls[c].plan = PlanOf(calls[c].query, calls[c].under)
  BY DEF Fresh
<1>1. PICK e \in emitted : /\ KeyOf(e.query) = KeyOf(calls[c].query)
                          /\ calls[c].plan = PlanOf(e.query, e.under)
  BY DEF IInv, AnswerOrigin
<1>2. e.query \in Query /\ e.under \in Registries
  BY DEF IInv, PlanTypeOK
<1>3. calls[c].query \in Query /\ calls[c].under \in Registries
  BY DEF IInv, PlanTypeOK, Call, Done
<1> QED
  BY <1>1, <1>2, <1>3 DEF SoundHash

\* If the hash determines the text, every answer is the text of the query asked
\* under the lookups its caller walked it with: what compile() promises.
THEOREM SoundHashIsFresh == SoundHash => (CacheSpec => []Fresh)
<1> SUFFICES ASSUME SoundHash PROVE CacheSpec => []Fresh
  OBVIOUS
<1>1. IInv => Fresh
  BY AnswersAreFresh
<1> QED
  BY <1>1, SpecIInv, PTL

(***************************************************************************)
(* Queries.  First what the library lacks: induction over the naturals,    *)
(* lists, sums, lists of lists, and trees.                                 *)
(***************************************************************************)

(* Induction over the naturals, from the library's theorem that < is well  *)
(* founded.                                                                *)
LEMMA Induction ==
  ASSUME NEW S \in SUBSET Nat, 0 \in S, \A n \in S : n + 1 \in S
  PROVE  S = Nat
<1> SUFFICES ASSUME Nat \ S # {} PROVE FALSE
  OBVIOUS
<1> DEFINE R == OpToRel(<, Nat)
<1>1. IsWellFoundedOn(R, Nat)
  BY NatLessThanWellFounded
<1>2. \A i, j \in Nat : i < j => <<i, j>> \in R
  BY DEF OpToRel
<1> HIDE DEF R
<1>3. PICK n \in Nat \ S : \A m \in Nat \ S : ~(<<m, n>> \in R)
  <2>1. Nat \ S \subseteq Nat
    OBVIOUS
  <2> QED BY <1>1, <2>1, WFMin
<1>4. n - 1 \in Nat /\ n - 1 < n /\ (n - 1) + 1 = n
  BY <1>3
<1>5. n - 1 \in S
  BY <1>2, <1>3, <1>4
<1> QED
  BY <1>4, <1>5

\* Up to a bound, from the one before.
LEMMA Upto ==
  ASSUME NEW N \in Nat, NEW S, 0 \in S, \A n \in 0..(N - 1) : n \in S => n + 1 \in S
  PROVE  \A n \in 0..N : n \in S
<1> DEFINE T == {n \in Nat : n <= N => n \in S}
<1>1. 0 \in T
  OBVIOUS
<1>2. ASSUME NEW n \in T PROVE n + 1 \in T
  <2>1. CASE n + 1 <= N
    <3>1. n \in 0..(N - 1) /\ n <= N
      BY <2>1
    <3> QED BY <3>1
  <2>2. CASE ~(n + 1 <= N)
    BY <2>2
  <2> QED BY <2>1, <2>2
<1> HIDE DEF T
<1>3. T = Nat
  <2>1. T \in SUBSET Nat
    BY DEF T
  <2> QED BY <1>1, <1>2, <2>1, Induction
<1> QED BY <1>3 DEF T

-----------------------------------------------------------------------------
(* Lists.                                                                  *)

LEMMA ListIs ==
  ASSUME NEW s, IsList(s)
  PROVE  /\ Len(s) \in Nat /\ DOMAIN s = 1..Len(s)
         /\ s = [i \in 1..Len(s) |-> s[i]]
         /\ \A x : x \in ToSet(s) <=> \E i \in 1..Len(s) : s[i] = x
BY DEF IsList, ToSet

LEMMA FunctionIsList ==
  ASSUME NEW n \in Nat, NEW g, g = [i \in 1..n |-> g[i]]
  PROVE  IsList(g) /\ Len(g) = n /\ DOMAIN g = 1..n
<1>1. g \in [1..n -> ToSet(g)]
  BY DEF ToSet
<1>2. g \in Seq(ToSet(g)) /\ Len(g) = n
  BY <1>1
<1> QED BY <1>2 DEF IsList

LEMMA SeqIsList == ASSUME NEW S, NEW s \in Seq(S) PROVE IsList(s)
BY DEF IsList, ToSet

LEMMA NoElements == IsList(<<>>) /\ Len(<<>>) = 0 /\ ToSet(<<>>) = {}
BY DEF IsList, ToSet

LEMMA TupleIsList ==
  ASSUME NEW x PROVE IsList(<<x>>) /\ ToSet(<<x>>) = {x} /\ Len(<<x>>) = 1 /\ <<x>>[1] = x
BY DEF IsList, ToSet

LEMMA PairIsList ==
  ASSUME NEW x, NEW y PROVE IsList(<<x, y>>) /\ ToSet(<<x, y>>) = {x, y} /\ Len(<<x, y>>) = 2
BY DEF IsList, ToSet

LEMMA NoLength == ASSUME NEW s, IsList(s) PROVE Len(s) = 0 <=> s = <<>>
BY DEF IsList

LEMMA SameList ==
  ASSUME NEW s, IsList(s), NEW t, IsList(t), Len(s) = Len(t), \A i \in 1..Len(s) : s[i] = t[i]
  PROVE  s = t
<1>1. s = [i \in 1..Len(s) |-> s[i]] /\ t = [i \in 1..Len(t) |-> t[i]]
  BY ListIs
<1> QED BY <1>1

\* The concatenation of two lists.
LEMMA JoinLists ==
  ASSUME NEW s, IsList(s), NEW t, IsList(t)
  PROVE  /\ IsList(s \o t) /\ Len(s \o t) = Len(s) + Len(t)
         /\ ToSet(s \o t) = ToSet(s) \cup ToSet(t)
         /\ \A i \in 1..Len(s) : (s \o t)[i] = s[i]
         /\ \A i \in 1..Len(t) : (s \o t)[Len(s) + i] = t[i]
<1> DEFINE S == ToSet(s) \cup ToSet(t)
<1>1. s \in Seq(S) /\ t \in Seq(S) /\ Len(s) \in Nat /\ Len(t) \in Nat
  BY DEF IsList
<1>2. s \o t \in Seq(S) /\ Len(s \o t) = Len(s) + Len(t) /\ DOMAIN (s \o t) = 1..(Len(s) + Len(t))
      /\ (\A i \in 1..Len(s) : (s \o t)[i] = s[i])
      /\ (\A i \in 1..Len(t) : (s \o t)[Len(s) + i] = t[i])
  BY <1>1
<1>3. ASSUME NEW x \in S PROVE x \in ToSet(s \o t)
  <2>1. CASE x \in ToSet(s)
    <3>1. PICK i \in 1..Len(s) : s[i] = x
      BY <2>1, ListIs
    <3>2. i \in DOMAIN (s \o t)
      BY <1>1, <1>2
    <3> QED BY <3>1, <3>2, <1>2 DEF ToSet
  <2>2. CASE x \in ToSet(t)
    <3>1. PICK i \in 1..Len(t) : t[i] = x
      BY <2>2, ListIs
    <3>2. Len(s) + i \in DOMAIN (s \o t)
      BY <1>1, <1>2
    <3> QED BY <3>1, <3>2, <1>2 DEF ToSet
  <2> QED BY <2>1, <2>2
<1>4. ASSUME NEW k \in 1..(Len(s) + Len(t)) PROVE (s \o t)[k] \in S
  BY <1>2, <1>4
<1>5. ToSet(s \o t) = S
  BY <1>2, <1>3, <1>4 DEF ToSet
<1>6. IsList(s \o t)
  <2> HIDE DEF S
  <2> QED BY <1>5, <1>2 DEF IsList
<1> QED BY <1>2, <1>5, <1>6

-----------------------------------------------------------------------------
(* Sums.  Total is a recursive function: it exists.                        *)

SumOf(s, m, f) == f = [i \in 0..m |-> IF i = 0 THEN 0 ELSE f[i - 1] + s[i]]

LEMMA SumExists == ASSUME NEW s PROVE \A m \in Nat : \E f : SumOf(s, m, f)
<1> DEFINE S == {m \in Nat : \E f : SumOf(s, m, f)}
<1>1. 0 \in S
  <2> DEFINE f == [i \in 0..0 |-> 0]
  <2>1. \A i \in 0..0 : i = 0
    OBVIOUS
  <2>2. SumOf(s, 0, f)
    BY <2>1 DEF SumOf
  <2> QED BY <2>2
<1>2. ASSUME NEW m \in S PROVE m + 1 \in S
  <2>1. PICK f : SumOf(s, m, f)
    OBVIOUS
  <2> DEFINE g == [i \in 0..(m + 1) |-> IF i = 0 THEN 0 ELSE f[i - 1] + s[i]]
  <2>2. m \in Nat
    OBVIOUS
  <2>3. \A i \in 0..m : g[i] = f[i]
    BY <2>1, <2>2 DEF SumOf
  <2>4. \A i \in 0..(m + 1) : i # 0 => i - 1 \in 0..m
    BY <2>2
  <2>5. g = [i \in 0..(m + 1) |-> IF i = 0 THEN 0 ELSE g[i - 1] + s[i]]
    BY <2>3, <2>4
  <2>6. SumOf(s, m + 1, g)
    BY <2>5 DEF SumOf
  <2> QED BY <2>6, <2>2
<1> HIDE DEF S
<1>3. S = Nat
  BY <1>1, <1>2, Induction DEF S
<1> QED BY <1>3 DEF S

\* The partial sums of a list of numbers.
LEMMA Sums ==
  ASSUME NEW s \in Seq(Nat)
  PROVE  \E f : /\ f[0] = 0 /\ \A i \in 1..Len(s) : f[i] = f[i - 1] + s[i]
                /\ \A i \in 0..Len(s) : f[i] \in Nat
                /\ Total(s) = f[Len(s)]
<1> DEFINE f == CHOOSE g : SumOf(s, Len(s), g)
<1>0. Len(s) \in Nat
  OBVIOUS
<1>1. SumOf(s, Len(s), f)
  BY <1>0, SumExists
<1>2. Total(s) = f[Len(s)]
  BY DEF Total, SumOf
<1> HIDE DEF f
<1>3. f[0] = 0 /\ \A i \in 1..Len(s) : f[i] = f[i - 1] + s[i]
  <2>1. \A i \in 0..Len(s) : f[i] = IF i = 0 THEN 0 ELSE f[i - 1] + s[i]
    BY <1>1, Zenon DEF SumOf
  <2>2. 0 \in 0..Len(s) /\ \A i \in 1..Len(s) : i \in 0..Len(s) /\ i # 0
    BY <1>0
  <2> QED BY <2>1, <2>2
<1> DEFINE S == {i \in 0..Len(s) : f[i] \in Nat}
<1>4. 0 \in S
  BY <1>3
<1>5. \A i \in 0..(Len(s) - 1) : i \in S => i + 1 \in S
  BY <1>3
<1>6. \A i \in 0..Len(s) : i \in S
  <2> HIDE DEF S
  <2> QED BY <1>0, <1>4, <1>5, Upto
<1> QED BY <1>2, <1>3, <1>6

LEMMA TotalNat == ASSUME NEW s \in Seq(Nat) PROVE Total(s) \in Nat
BY Sums

LEMMA TotalEmpty == Total(<<>>) = 0
<1>1. <<>> \in Seq(Nat) /\ Len(<<>>) = 0
  OBVIOUS
<1> QED BY <1>1, Sums

LEMMA TotalOne == ASSUME NEW x \in Nat PROVE Total(<<x>>) = x
<1>1. <<x>> \in Seq(Nat) /\ Len(<<x>>) = 1 /\ <<x>>[1] = x
  OBVIOUS
<1>2. PICK f : f[0] = 0 /\ (\A i \in 1..1 : f[i] = f[i - 1] + <<x>>[i]) /\ Total(<<x>>) = f[1]
  BY <1>1, Sums
<1> QED BY <1>1, <1>2

\* No element is greater than the sum.
LEMMA TotalBounds == ASSUME NEW s \in Seq(Nat), NEW k \in 1..Len(s) PROVE s[k] <= Total(s)
<1>1. PICK f : /\ f[0] = 0 /\ \A i \in 1..Len(s) : f[i] = f[i - 1] + s[i]
               /\ \A i \in 0..Len(s) : f[i] \in Nat
               /\ Total(s) = f[Len(s)]
  BY Sums
<1> DEFINE S == {i \in 0..Len(s) : k <= i => s[k] <= f[i]}
<1>2. 0 \in S
  OBVIOUS
<1>3. ASSUME NEW i \in 0..(Len(s) - 1), i \in S PROVE i + 1 \in S
  <2>1. f[i + 1] = f[i] + s[i + 1] /\ f[i] \in Nat /\ s[i + 1] \in Nat /\ s[k] \in Nat
    BY <1>1
  <2>2. CASE k = i + 1
    BY <2>1, <2>2
  <2>3. CASE k # i + 1
    BY <2>1, <2>3, <1>3
  <2> QED BY <2>2, <2>3
<1>4. \A i \in 0..Len(s) : i \in S
  <2>1. Len(s) \in Nat
    OBVIOUS
  <2> HIDE DEF S
  <2> QED BY <2>1, <1>2, <1>3, Upto
<1> QED BY <1>1, <1>4

LEMMA TotalJoin ==
  ASSUME NEW s \in Seq(Nat), NEW t \in Seq(Nat)
  PROVE  Total(s \o t) = Total(s) + Total(t)
<1> DEFINE r == s \o t
<1>0. r \in Seq(Nat) /\ Len(r) = Len(s) + Len(t) /\ (\A i \in 1..Len(s) : r[i] = s[i])
      /\ (\A i \in 1..Len(t) : r[Len(s) + i] = t[i]) /\ Len(s) \in Nat /\ Len(t) \in Nat
  OBVIOUS
<1> HIDE DEF r
<1>1. PICK f : /\ f[0] = 0 /\ \A i \in 1..Len(s) : f[i] = f[i - 1] + s[i]
               /\ \A i \in 0..Len(s) : f[i] \in Nat
               /\ Total(s) = f[Len(s)]
  BY Sums
<1>2. PICK g : /\ g[0] = 0 /\ \A i \in 1..Len(t) : g[i] = g[i - 1] + t[i]
               /\ \A i \in 0..Len(t) : g[i] \in Nat
               /\ Total(t) = g[Len(t)]
  BY Sums
<1>3. PICK h : /\ h[0] = 0 /\ \A i \in 1..Len(r) : h[i] = h[i - 1] + r[i]
               /\ \A i \in 0..Len(r) : h[i] \in Nat
               /\ Total(r) = h[Len(r)]
  BY <1>0, Sums
<1> DEFINE S == {i \in 0..Len(s) : h[i] = f[i]}
           T == {i \in 0..Len(t) : h[Len(s) + i] = f[Len(s)] + g[i]}
<1>4. \A i \in 0..Len(s) : i \in S
  <2>1. 0 \in S
    BY <1>0, <1>1, <1>3
  <2>2. ASSUME NEW i \in 0..(Len(s) - 1), i \in S PROVE i + 1 \in S
    <3>1. i + 1 \in 1..Len(s) /\ i + 1 \in 1..Len(r) /\ (i + 1) - 1 = i
      BY <1>0
    <3>2. h[i + 1] = h[i] + r[i + 1] /\ f[i + 1] = f[i] + s[i + 1] /\ r[i + 1] = s[i + 1]
      BY <3>1, <1>0, <1>1, <1>3
    <3> QED BY <3>1, <3>2, <2>2
  <2> HIDE DEF S
  <2> QED BY <2>1, <2>2, <1>0, Upto
<1>5. \A i \in 0..Len(t) : i \in T
  <2>1. 0 \in T
    <3>1. Len(s) \in S /\ Len(s) + 0 = Len(s) /\ 0 \in 0..Len(t)
      BY <1>0, <1>4
    <3>2. h[Len(s)] = f[Len(s)] /\ f[Len(s)] \in Nat
      BY <3>1, <1>0, <1>1
    <3>3. h[Len(s) + 0] = f[Len(s)] + g[0]
      BY <3>1, <3>2, <1>2
    <3> QED BY <3>1, <3>3
  <2>2. ASSUME NEW i \in 0..(Len(t) - 1), i \in T PROVE i + 1 \in T
    <3>1. i + 1 \in 1..Len(t) /\ Len(s) + (i + 1) \in 1..Len(r) /\ (Len(s) + (i + 1)) - 1 = Len(s) + i
          /\ (i + 1) - 1 = i /\ i \in 0..Len(t)
      BY <1>0
    <3>2. h[Len(s) + (i + 1)] = h[Len(s) + i] + r[Len(s) + (i + 1)] /\ g[i + 1] = g[i] + t[i + 1]
          /\ r[Len(s) + (i + 1)] = t[i + 1]
      <4>1. h[Len(s) + (i + 1)] = h[Len(s) + i] + r[Len(s) + (i + 1)]
        BY <3>1, <1>3
      <4>2. g[i + 1] = g[i] + t[i + 1]
        BY <3>1, <1>2
      <4>3. r[Len(s) + (i + 1)] = t[i + 1]
        BY <3>1, <1>0, Zenon
      <4> QED BY <4>1, <4>2, <4>3
    <3>3. f[Len(s)] \in Nat /\ g[i] \in Nat /\ t[i + 1] \in Nat
      <4>1. f[Len(s)] \in Nat
        BY <1>0, <1>1
      <4>2. g[i] \in Nat
        BY <3>1, <1>2
      <4>3. t[i + 1] \in Nat
        BY <3>1
      <4> QED BY <4>1, <4>2, <4>3
    <3> QED BY <3>1, <3>2, <3>3, <2>2
  <2> HIDE DEF T
  <2> QED BY <2>1, <2>2, <1>0, Upto
<1>6. Len(t) \in T
  BY <1>0, <1>5
<1> QED BY <1>0, <1>1, <1>2, <1>3, <1>6 DEF r

-----------------------------------------------------------------------------
(* Lists of lists.  FlattenSeq is a recursive function: it exists, and what*)
(* it makes is the lists one after another.                                *)

FlatStep(seqs, f, i) == IF i = 1 THEN seqs[i] ELSE f[i - 1] \o seqs[i]
FlatOf(seqs, m, f) == f = [i \in 1..m |-> FlatStep(seqs, f, i)]

LEMMA FlatExists == ASSUME NEW seqs PROVE \A m \in Nat : \E f : FlatOf(seqs, m, f)
<1> DEFINE S == {m \in Nat : \E f : FlatOf(seqs, m, f)}
<1>1. 0 \in S
  <2> DEFINE f == [i \in 1..0 |-> << >>]
  <2>1. f = [i \in 1..0 |-> FlatStep(seqs, f, i)]
    OBVIOUS
  <2>2. FlatOf(seqs, 0, f)
    BY <2>1 DEF FlatOf
  <2> QED BY <2>2
<1>2. ASSUME NEW m \in S PROVE m + 1 \in S
  <2>1. PICK f : FlatOf(seqs, m, f)
    OBVIOUS
  <2> DEFINE g == [i \in 1..(m + 1) |-> FlatStep(seqs, f, i)]
  <2>2. m \in Nat
    OBVIOUS
  <2>3. \A i \in 1..m : g[i] = f[i]
    BY <2>1, <2>2 DEF FlatOf
  <2>4. ASSUME NEW i \in 1..(m + 1) PROVE FlatStep(seqs, f, i) = FlatStep(seqs, g, i)
    <3>1. CASE i = 1
      BY <3>1 DEF FlatStep
    <3>2. CASE i # 1
      <4>1. i - 1 \in 1..m
        BY <3>2, <2>2
      <4> QED BY <4>1, <2>3 DEF FlatStep
    <3> QED BY <3>1, <3>2
  <2>5. g = [i \in 1..(m + 1) |-> FlatStep(seqs, g, i)]
    BY <2>4
  <2>6. FlatOf(seqs, m + 1, g)
    BY <2>5 DEF FlatOf
  <2> QED BY <2>6, <2>2
<1> HIDE DEF S
<1>3. S = Nat
  BY <1>1, <1>2, Induction DEF S
<1> QED BY <1>3 DEF S

LEMMA NothingJoined == ASSUME NEW s, IsList(s) PROVE <<>> \o s = s /\ s \o <<>> = s
BY DEF IsList

\* What the first i lists make, for each i.
Joins(f, seqs) ==
  /\ f[0] = <<>>
  /\ \A i \in 1..Len(seqs) : f[i] = f[i - 1] \o seqs[i]
  /\ \A i \in 0..Len(seqs) : IsList(f[i])

LEMMA Flat ==
  ASSUME NEW seqs, IsList(seqs), \A i \in 1..Len(seqs) : IsList(seqs[i])
  PROVE  \E f : Joins(f, seqs) /\ FlattenSeq(seqs) = f[Len(seqs)]
<1> DEFINE N == Len(seqs)
<1>1. N \in Nat
  BY ListIs
<1>2. CASE N = 0
  <2> DEFINE f == [i \in {0} |-> <<>>]
  <2>1. Joins(f, seqs)
    BY <1>2, NoElements DEF Joins
  <2>2. FlattenSeq(seqs) = seqs /\ seqs = <<>>
    BY <1>2, NoLength DEF FlattenSeq
  <2>3. f[N] = <<>>
    BY <1>2
  <2> QED BY <2>1, <2>2, <2>3
<1>3. CASE N # 0
  <2> DEFINE g == CHOOSE h : FlatOf(seqs, N, h)
             f == [i \in 0..N |-> IF i = 0 THEN <<>> ELSE g[i]]
  <2>1. FlatOf(seqs, N, g)
    BY <1>1, FlatExists
  <2>2. FlattenSeq(seqs) = g[N]
    BY <1>3 DEF FlattenSeq, FlatOf, FlatStep
  <2> HIDE DEF g
  <2>3. /\ g[1] = seqs[1]
        /\ \A i \in 1..N : i # 1 => g[i] = g[i - 1] \o seqs[i]
    <3>1. \A i \in 1..N : g[i] = FlatStep(seqs, g, i)
      BY <2>1 DEF FlatOf
    <3>2. 1 \in 1..N
      BY <1>1, <1>3
    <3>3. FlatStep(seqs, g, 1) = seqs[1] /\ \A i \in 1..N : i # 1 => FlatStep(seqs, g, i) = g[i - 1] \o seqs[i]
      BY DEF FlatStep
    <3>4. g[1] = seqs[1]
      BY <3>1, <3>2, <3>3
    <3>5. \A i \in 1..N : i # 1 => g[i] = g[i - 1] \o seqs[i]
      BY <3>1, <3>3
    <3> QED BY <3>4, <3>5
  <2>4. f[0] = <<>> /\ \A i \in 1..N : f[i] = g[i]
    BY <1>1
  <2>5. ASSUME NEW i \in 1..N PROVE f[i] = f[i - 1] \o seqs[i]
    <3>1. CASE i = 1
      BY <3>1, <2>3, <2>4, NothingJoined
    <3>2. CASE i # 1
      <4>1. i - 1 \in 1..N
        BY <3>2, <1>1
      <4> QED BY <4>1, <3>2, <2>3, <2>4
    <3> QED BY <3>1, <3>2
  <2> HIDE DEF f
  <2> DEFINE S == {i \in 0..N : IsList(f[i])}
  <2>6. 0 \in S
    BY <1>1, <2>4, NoElements
  <2>7. ASSUME NEW i \in 0..(N - 1), i \in S PROVE i + 1 \in S
    <3>1. i + 1 \in 1..N /\ (i + 1) - 1 = i
      BY <1>1
    <3>2. f[i + 1] = f[i] \o seqs[i + 1]
      BY <3>1, <2>5
    <3>3. IsList(f[i]) /\ IsList(seqs[i + 1])
      BY <3>1, <2>7
    <3>4. IsList(f[i + 1])
      BY <3>2, <3>3, JoinLists
    <3> QED BY <3>1, <3>4
  <2>8. \A i \in 0..N : i \in S
    <3> HIDE DEF S, N
    <3> QED BY <1>1, <2>6, <2>7, Upto
  <2>9. Joins(f, seqs)
    BY <2>4, <2>5, <2>8 DEF Joins
  <2>10. FlattenSeq(seqs) = f[N]
    BY <1>1, <1>3, <2>2, <2>4
  <2> QED BY <2>9, <2>10
<1> QED BY <1>2, <1>3

LEMMA FlatIsList ==
  ASSUME NEW seqs, IsList(seqs), \A i \in 1..Len(seqs) : IsList(seqs[i])
  PROVE  /\ IsList(FlattenSeq(seqs))
         /\ ToSet(FlattenSeq(seqs)) = UNION {ToSet(seqs[i]) : i \in 1..Len(seqs)}
<1>1. PICK f : Joins(f, seqs) /\ FlattenSeq(seqs) = f[Len(seqs)]
  BY Flat
<1>2. Len(seqs) \in Nat
  BY ListIs
<1> DEFINE S == {n \in 0..Len(seqs) : ToSet(f[n]) = UNION {ToSet(seqs[i]) : i \in 1..n}}
<1>3. 0 \in S
  <2>1. ToSet(f[0]) = {}
    BY <1>1, NoElements DEF Joins
  <2>2. UNION {ToSet(seqs[i]) : i \in 1..0} = {}
    OBVIOUS
  <2> QED BY <1>2, <2>1, <2>2
<1>4. ASSUME NEW n \in 0..(Len(seqs) - 1), n \in S PROVE n + 1 \in S
  <2>1. n + 1 \in 1..Len(seqs) /\ (n + 1) - 1 = n /\ n \in 0..Len(seqs) /\ n + 1 \in 0..Len(seqs)
    BY <1>2
  <2>2. f[n + 1] = f[n] \o seqs[n + 1] /\ IsList(f[n]) /\ IsList(seqs[n + 1])
    BY <1>1, <2>1 DEF Joins
  <2>3. ToSet(f[n + 1]) = ToSet(f[n]) \cup ToSet(seqs[n + 1])
    BY <2>2, JoinLists
  <2>4. ToSet(f[n]) = UNION {ToSet(seqs[i]) : i \in 1..n}
    BY <1>4
  <2>5. \A i : i \in 1..(n + 1) <=> i \in 1..n \/ i = n + 1
    BY <2>1
  <2>6. ToSet(f[n + 1]) = UNION {ToSet(seqs[i]) : i \in 1..(n + 1)}
    BY <2>3, <2>4, <2>5
  <2> QED BY <2>1, <2>6
<1>5. \A n \in 0..Len(seqs) : n \in S
  <2> HIDE DEF S
  <2> QED BY <1>2, <1>3, <1>4, Upto
<1>6. Len(seqs) \in S /\ IsList(f[Len(seqs)])
  BY <1>1, <1>2, <1>5 DEF Joins
<1> QED BY <1>1, <1>6

\* Lists of one element each.
LEMMA FlatSingles ==
  ASSUME NEW seqs, IsList(seqs), \A i \in 1..Len(seqs) : IsList(seqs[i]) /\ Len(seqs[i]) = 1
  PROVE  FlattenSeq(seqs) = [i \in 1..Len(seqs) |-> seqs[i][1]]
<1>1. PICK f : Joins(f, seqs) /\ FlattenSeq(seqs) = f[Len(seqs)]
  BY Flat
<1>2. Len(seqs) \in Nat
  BY ListIs
<1> DEFINE Right(n) == IsList(f[n]) /\ Len(f[n]) = n /\ \A i \in 1..n : f[n][i] = seqs[i][1]
           S == {n \in 0..Len(seqs) : Right(n)}
<1>3. 0 \in S
  BY <1>1, <1>2, NoElements DEF Joins
<1>4. ASSUME NEW n \in 0..(Len(seqs) - 1), n \in S PROVE n + 1 \in S
  <2>1. n + 1 \in 1..Len(seqs) /\ (n + 1) - 1 = n /\ n \in 0..Len(seqs) /\ n + 1 \in 0..Len(seqs) /\ n \in Nat
    BY <1>2
  <2>2. f[n + 1] = f[n] \o seqs[n + 1] /\ IsList(f[n]) /\ IsList(seqs[n + 1]) /\ Len(seqs[n + 1]) = 1
    BY <1>1, <2>1 DEF Joins
  <2>3. Right(n)
    BY <1>4
  <2> DEFINE s == f[n]
             t == seqs[n + 1]
             r == f[n + 1]
  <2>a. IsList(s) /\ IsList(t) /\ Len(s) = n /\ Len(t) = 1 /\ r = s \o t
    BY <2>2, <2>3
  <2> HIDE DEF s, t, r
  <2>c. IsList(s) /\ IsList(t)
    BY <2>a
  <2>d. IsList(s \o t) /\ Len(s \o t) = Len(s) + Len(t)
    BY <2>c, JoinLists
  <2>e. \A i \in 1..Len(s) : (s \o t)[i] = s[i]
    BY <2>c, JoinLists
  <2>f. \A i \in 1..Len(t) : (s \o t)[Len(s) + i] = t[i]
    BY <2>c, JoinLists
  <2>b. /\ IsList(r) /\ Len(r) = n + 1
        /\ \A i \in 1..n : r[i] = s[i]
        /\ \A i \in 1..1 : r[n + i] = t[i]
    BY <2>a, <2>d, <2>e, <2>f
  <2>4. IsList(f[n + 1]) /\ Len(f[n + 1]) = n + 1
    BY <2>b DEF r
  <2>5. (\A i \in 1..n : f[n + 1][i] = f[n][i]) /\ f[n + 1][n + 1] = seqs[n + 1][1]
    BY <2>b DEF r, s, t
  <2>6. \A i \in 1..(n + 1) : f[n + 1][i] = seqs[i][1]
    <3>1. \A i \in 1..(n + 1) : i \in 1..n \/ i = n + 1
      BY <2>1
    <3> QED BY <3>1, <2>3, <2>5
  <2> QED BY <2>1, <2>4, <2>6
<1>5. \A n \in 0..Len(seqs) : n \in S
  <2> HIDE DEF S
  <2> QED BY <1>2, <1>3, <1>4, Upto
<1>6. Right(Len(seqs))
  BY <1>2, <1>5
<1>7. f[Len(seqs)] = [i \in 1..Len(f[Len(seqs)]) |-> f[Len(seqs)][i]]
  BY <1>6, ListIs
<1> QED BY <1>1, <1>6, <1>7

-----------------------------------------------------------------------------
(* Trees.  A forest is a set of nodes with all their children, each smaller*)
(* than its parent.                                                        *)

Sized(t) ==
  /\ t.size \in Nat /\ IsList(t.kids)
  /\ \A i \in 1..Len(t.kids) : t.kids[i].size \in Nat /\ t.kids[i].size < t.size

Forest(S) == \A t \in S : Sized(t) /\ \A i \in 1..Len(t.kids) : t.kids[i] \in S

Below(S, n) == {t \in S : t.size < n}

LEMMA BelowIsForest ==
  ASSUME NEW S, Forest(S), NEW n \in Nat PROVE Forest(Below(S, n))
<1> SUFFICES ASSUME NEW t \in Below(S, n)
             PROVE  Sized(t) /\ \A i \in 1..Len(t.kids) : t.kids[i] \in Below(S, n)
  BY DEF Forest
<1>1. t \in S /\ t.size < n /\ Sized(t) /\ \A i \in 1..Len(t.kids) : t.kids[i] \in S
  BY DEF Forest, Below
<1>2. ASSUME NEW i \in 1..Len(t.kids) PROVE t.kids[i] \in Below(S, n)
  <2>1. t.kids[i].size \in Nat /\ t.size \in Nat /\ t.kids[i].size < t.size
    BY <1>1 DEF Sized
  <2>2. t.kids[i].size < n
    BY <1>1, <2>1
  <2> QED BY <1>1, <2>2 DEF Below
<1> QED BY <1>1, <1>2

\* Nodes is a recursive function of the depth: it exists.
Level(q, f, i) == IF i = 0 THEN {q} ELSE UNION {ToSet(t.kids) : t \in f[i - 1]}
LevelsOf(q, m, f) == f = [i \in 0..m |-> Level(q, f, i)]

LEMMA LevelsExist == ASSUME NEW q PROVE \A m \in Nat : \E f : LevelsOf(q, m, f)
<1> DEFINE S == {m \in Nat : \E f : LevelsOf(q, m, f)}
<1>1. 0 \in S
  <2> DEFINE f == [i \in 0..0 |-> {q}]
  <2>1. \A i \in 0..0 : Level(q, f, i) = {q}
    BY DEF Level
  <2>2. f = [i \in 0..0 |-> Level(q, f, i)]
    BY <2>1
  <2>3. LevelsOf(q, 0, f)
    BY <2>2 DEF LevelsOf
  <2> QED BY <2>3
<1>2. ASSUME NEW m \in S PROVE m + 1 \in S
  <2>1. PICK f : LevelsOf(q, m, f)
    OBVIOUS
  <2> DEFINE g == [i \in 0..(m + 1) |-> Level(q, f, i)]
  <2>2. m \in Nat
    OBVIOUS
  <2>3. \A i \in 0..m : g[i] = f[i]
    BY <2>1, <2>2 DEF LevelsOf
  <2>4. ASSUME NEW i \in 0..(m + 1) PROVE Level(q, f, i) = Level(q, g, i)
    <3>1. CASE i = 0
      BY <3>1 DEF Level
    <3>2. CASE i # 0
      <4>1. i - 1 \in 0..m
        BY <3>2, <2>2
      <4>2. f[i - 1] = g[i - 1]
        BY <4>1, <2>3
      <4> QED BY <4>2, <3>2 DEF Level
    <3> QED BY <3>1, <3>2
  <2>5. g = [i \in 0..(m + 1) |-> Level(q, g, i)]
    BY <2>4
  <2>6. LevelsOf(q, m + 1, g)
    BY <2>5 DEF LevelsOf
  <2> QED BY <2>6, <2>2
<1> HIDE DEF S
<1>3. S = Nat
  BY <1>1, <1>2, Induction DEF S
<1> QED BY <1>3 DEF S

LEMMA Levels ==
  ASSUME NEW q, q.size \in Nat
  PROVE  \E f : /\ f[0] = {q}
                /\ \A i \in 1..q.size : f[i] = UNION {ToSet(t.kids) : t \in f[i - 1]}
                /\ Nodes(q) = UNION {f[n] : n \in 0..q.size}
<1> DEFINE f == CHOOSE g : LevelsOf(q, q.size, g)
<1>1. LevelsOf(q, q.size, f)
  BY LevelsExist
<1>2. Nodes(q) = UNION {f[n] : n \in 0..q.size}
  BY DEF Nodes, LevelsOf, Level
<1> HIDE DEF f
<1>3. \A i \in 0..q.size : f[i] = Level(q, f, i)
  BY <1>1 DEF LevelsOf
<1>4. f[0] = {q}
  <2>1. 0 \in 0..q.size
    OBVIOUS
  <2> QED BY <2>1, <1>3 DEF Level
<1>5. ASSUME NEW i \in 1..q.size PROVE f[i] = UNION {ToSet(t.kids) : t \in f[i - 1]}
  <2>1. i \in 0..q.size /\ i # 0
    OBVIOUS
  <2> QED BY <2>1, <1>3 DEF Level
<1> QED BY <1>2, <1>4, <1>5

\* If all of them are sized, the nodes of a tree are a forest with its root.
LEMMA NodesAreForest ==
  ASSUME NEW q, q.size \in Nat, \A t \in Nodes(q) : Sized(t)
  PROVE  /\ Forest(Nodes(q)) /\ q \in Nodes(q)
         /\ \A t \in Nodes(q) : t.size <= q.size
<1>1. PICK f : /\ f[0] = {q}
               /\ \A i \in 1..q.size : f[i] = UNION {ToSet(t.kids) : t \in f[i - 1]}
               /\ Nodes(q) = UNION {f[n] : n \in 0..q.size}
  BY Levels
<1>2. ASSUME NEW n \in 0..q.size, NEW t \in f[n] PROVE t \in Nodes(q)
  BY <1>1
<1> DEFINE S == {n \in 0..q.size : \A t \in f[n] : t.size + n <= q.size}
<1>3. 0 \in S
  BY <1>1
<1>4. ASSUME NEW n \in 0..(q.size - 1), n \in S PROVE n + 1 \in S
  <2>1. n \in Nat /\ n + 1 \in 1..q.size /\ (n + 1) - 1 = n /\ n + 1 \in 0..q.size /\ n \in 0..q.size
    OBVIOUS
  <2>2. ASSUME NEW u \in f[n + 1] PROVE u.size + (n + 1) <= q.size
    <3>1. PICK t \in f[n] : u \in ToSet(t.kids)
      BY <1>1, <2>1
    <3>2. t.size + n <= q.size /\ Sized(t)
      BY <1>2, <1>4, <2>1
    <3>3. PICK i \in 1..Len(t.kids) : t.kids[i] = u
      BY <3>1, <3>2, ListIs DEF Sized
    <3>4. u.size \in Nat /\ t.size \in Nat /\ u.size < t.size
      BY <3>2, <3>3 DEF Sized
    <3> QED BY <2>1, <3>2, <3>4
  <2> QED BY <2>1, <2>2
<1>5. \A n \in 0..q.size : n \in S
  <2> HIDE DEF S
  <2> QED BY <1>3, <1>4, Upto
<1>6. ASSUME NEW t \in Nodes(q) PROVE t.size <= q.size /\ \A i \in 1..Len(t.kids) : t.kids[i] \in Nodes(q)
  <2>1. PICK n \in 0..q.size : t \in f[n]
    BY <1>1
  <2>2. t.size + n <= q.size /\ t.size \in Nat /\ n \in Nat
    BY <1>5, <2>1 DEF Sized
  <2>3. ASSUME NEW i \in 1..Len(t.kids) PROVE t.kids[i] \in Nodes(q)
    <3>1. IsList(t.kids) /\ t.kids[i].size \in Nat /\ t.kids[i].size < t.size
      BY DEF Sized
    <3>2. t.kids[i] \in ToSet(t.kids)
      BY <3>1, ListIs
    <3>3. n + 1 \in 1..q.size /\ (n + 1) - 1 = n /\ n + 1 \in 0..q.size
      BY <2>2, <3>1
    <3>4. t.kids[i] \in f[n + 1]
      BY <1>1, <2>1, <3>2, <3>3
    <3> QED BY <1>2, <3>3, <3>4
  <2> QED BY <2>2, <2>3
<1>7. q \in Nodes(q)
  <2>1. 0 \in 0..q.size /\ q \in f[0]
    BY <1>1
  <2> QED BY <1>2, <2>1
<1> QED BY <1>6, <1>7 DEF Forest

\* The nodes of a tree of a forest are in the forest.
LEMMA NodesIn ==
  ASSUME NEW S, Forest(S), NEW q \in S
  PROVE  /\ Nodes(q) \subseteq S /\ Forest(Nodes(q)) /\ q \in Nodes(q)
         /\ \A t \in Nodes(q) : t.size <= q.size
<1>0. q.size \in Nat
  BY DEF Forest, Sized
<1>1. PICK f : /\ f[0] = {q}
               /\ \A i \in 1..q.size : f[i] = UNION {ToSet(t.kids) : t \in f[i - 1]}
               /\ Nodes(q) = UNION {f[n] : n \in 0..q.size}
  BY <1>0, Levels
<1> DEFINE N == {n \in 0..q.size : f[n] \subseteq S}
<1>3. 0 \in N
  BY <1>0, <1>1
<1>4. ASSUME NEW n \in 0..(q.size - 1), n \in N PROVE n + 1 \in N
  <2>1. n + 1 \in 1..q.size /\ (n + 1) - 1 = n /\ n + 1 \in 0..q.size
    BY <1>0
  <2>2. ASSUME NEW u \in f[n + 1] PROVE u \in S
    <3>1. PICK t \in f[n] : u \in ToSet(t.kids)
      BY <1>1, <2>1
    <3>2. t \in S /\ Sized(t) /\ \A i \in 1..Len(t.kids) : t.kids[i] \in S
      BY <1>4 DEF Forest
    <3> QED BY <3>1, <3>2, ListIs DEF Sized
  <2> QED BY <2>1, <2>2
<1>5. \A n \in 0..q.size : n \in N
  <2> HIDE DEF N
  <2> QED BY <1>0, <1>3, <1>4, Upto
<1>6. Nodes(q) \subseteq S
  BY <1>1, <1>5
<1>7. \A t \in Nodes(q) : Sized(t)
  BY <1>6 DEF Forest
<1> QED BY <1>0, <1>6, <1>7, NodesAreForest

-----------------------------------------------------------------------------
(* What compile_q makes of a tree, of the root and what its children make. *)

CompiledOn(S, b, c, r) == r = [t \in S |-> CompileNode(t, [i \in DOMAIN t.kids |-> r[t.kids[i]]], b, c)]

LEMMA CompiledExists ==
  ASSUME NEW S, Forest(S), NEW b, NEW c
  PROVE  \A n \in Nat : \E r : CompiledOn(Below(S, n), b, c, r)
<1> DEFINE N == {n \in Nat : \E r : CompiledOn(Below(S, n), b, c, r)}
<1>1. 0 \in N
  <2>1. Below(S, 0) = {}
    BY DEF Below, Forest, Sized
  <2> DEFINE r == [t \in {} |-> t]
  <2>2. r = [t \in {} |-> CompileNode(t, [i \in DOMAIN t.kids |-> r[t.kids[i]]], b, c)]
    OBVIOUS
  <2>3. CompiledOn(Below(S, 0), b, c, r)
    BY <2>1, <2>2 DEF CompiledOn
  <2> QED BY <2>3
<1>2. ASSUME NEW n \in N PROVE n + 1 \in N
  <2>1. PICK r : CompiledOn(Below(S, n), b, c, r)
    OBVIOUS
  <2> DEFINE g == [t \in Below(S, n + 1) |-> CompileNode(t, [i \in DOMAIN t.kids |-> r[t.kids[i]]], b, c)]
  <2>2. n \in Nat
    OBVIOUS
  <2>3. \A t \in Below(S, n) : t \in Below(S, n + 1)
    BY <2>2 DEF Below, Forest, Sized
  <2>4. \A t \in Below(S, n) : r[t] = CompileNode(t, [i \in DOMAIN t.kids |-> r[t.kids[i]]], b, c)
    BY <2>1 DEF CompiledOn
  <2>5. \A t \in Below(S, n) : g[t] = r[t]
    BY <2>3, <2>4
  <2> HIDE DEF g
  <2>6. ASSUME NEW t \in Below(S, n + 1)
        PROVE  [i \in DOMAIN t.kids |-> r[t.kids[i]]] = [i \in DOMAIN t.kids |-> g[t.kids[i]]]
    <3>1. t \in S /\ t.size < n + 1 /\ Sized(t)
      BY DEF Below, Forest
    <3>2. DOMAIN t.kids = 1..Len(t.kids)
      BY <3>1, ListIs DEF Sized
    <3>3. ASSUME NEW i \in 1..Len(t.kids) PROVE t.kids[i] \in Below(S, n)
      <4>1. t.kids[i].size \in Nat /\ t.kids[i].size < t.size /\ t.size \in Nat
        BY <3>1 DEF Sized
      <4>2. t.kids[i].size < n
        BY <2>2, <3>1, <4>1
      <4>3. t.kids[i] \in S
        BY <3>1 DEF Forest
      <4> QED BY <4>2, <4>3 DEF Below
    <3> QED BY <2>5, <3>2, <3>3
  <2>7. g = [t \in Below(S, n + 1) |-> CompileNode(t, [i \in DOMAIN t.kids |-> g[t.kids[i]]], b, c)]
    BY <2>6 DEF g
  <2>8. CompiledOn(Below(S, n + 1), b, c, g)
    BY <2>7 DEF CompiledOn
  <2> QED BY <2>2, <2>8
<1> HIDE DEF N
<1>3. N = Nat
  <2>1. N \in SUBSET Nat
    BY DEF N
  <2> QED BY <1>1, <1>2, <2>1, Induction
<1> QED BY <1>3 DEF N

LEMMA CompiledAgree ==
  ASSUME NEW S, Forest(S), NEW T, Forest(T), NEW b, NEW c, NEW r, CompiledOn(S, b, c, r), NEW g, CompiledOn(T, b, c, g),
         NEW q \in S \cap T
  PROVE  r[q] = g[q]
<1> DEFINE N == {n \in Nat : \A t \in S \cap T : t.size < n => r[t] = g[t]}
<1>1. 0 \in N
  BY DEF Forest, Sized
<1>2. ASSUME NEW n \in N PROVE n + 1 \in N
  <2>1. n \in Nat /\ \A t \in S \cap T : t.size < n => r[t] = g[t]
    OBVIOUS
  <2>2. ASSUME NEW t \in S \cap T, t.size < n + 1 PROVE r[t] = g[t]
    <3>1. Sized(t) /\ \A i \in 1..Len(t.kids) : t.kids[i] \in S \cap T
      BY DEF Forest
    <3>2. DOMAIN t.kids = 1..Len(t.kids)
      BY <3>1, ListIs DEF Sized
    <3>3. ASSUME NEW i \in 1..Len(t.kids) PROVE r[t.kids[i]] = g[t.kids[i]]
      <4>1. t.kids[i].size \in Nat /\ t.kids[i].size < t.size /\ t.size \in Nat
        BY <3>1 DEF Sized
      <4>2. t.kids[i].size < n
        BY <2>1, <2>2, <4>1
      <4> QED BY <2>1, <3>1, <4>2
    <3>4. [i \in DOMAIN t.kids |-> r[t.kids[i]]] = [i \in DOMAIN t.kids |-> g[t.kids[i]]]
      BY <3>2, <3>3
    <3>5. /\ r[t] = CompileNode(t, [i \in DOMAIN t.kids |-> r[t.kids[i]]], b, c)
          /\ g[t] = CompileNode(t, [i \in DOMAIN t.kids |-> g[t.kids[i]]], b, c)
      BY DEF CompiledOn
    <3> QED BY <3>4, <3>5
  <2> QED BY <2>1, <2>2
<1> HIDE DEF N
<1>3. N = Nat
  <2>1. N \in SUBSET Nat
    BY DEF N
  <2> QED BY <1>1, <1>2, <2>1, Induction
<1>4. q.size \in Nat /\ q.size < q.size + 1 /\ q.size + 1 \in N
  BY <1>3 DEF Forest, Sized
<1> QED BY <1>4 DEF N

\* The whole of a tree.
LEMMA CompiledIs ==
  ASSUME NEW S, Forest(S), NEW q \in S, NEW b, NEW c
  PROVE  \E r : CompiledOn(Nodes(q), b, c, r) /\ CompileQ(q, b, c) = r[q]
<1>1. Forest(Nodes(q)) /\ q \in Nodes(q) /\ \A t \in Nodes(q) : t.size <= q.size
  BY NodesIn
<1>2. q.size \in Nat /\ q.size + 1 \in Nat /\ \A t \in Nodes(q) : t.size \in Nat
  BY <1>1 DEF Forest, Sized
<1>3. Below(Nodes(q), q.size + 1) = Nodes(q)
  BY <1>1, <1>2 DEF Below
<1> DEFINE r == CHOOSE g : CompiledOn(Nodes(q), b, c, g)
<1>4. \E g : CompiledOn(Nodes(q), b, c, g)
  BY <1>1, <1>2, <1>3, CompiledExists
<1>5. CompiledOn(Nodes(q), b, c, r)
  BY <1>4
<1>6. CompileQ(q, b, c) = r[q]
  BY DEF CompileQ, CompiledOn
<1> QED BY <1>5, <1>6

LEMMA CompiledUnfolds ==
  ASSUME NEW S, Forest(S), NEW q \in S, NEW b, NEW c
  PROVE  CompileQ(q, b, c) = CompileNode(q, [i \in DOMAIN q.kids |-> CompileQ(q.kids[i], b, c)], b, c)
<1>1. PICK r : CompiledOn(Nodes(q), b, c, r) /\ CompileQ(q, b, c) = r[q]
  BY CompiledIs
<1>2. Forest(Nodes(q)) /\ q \in Nodes(q)
  BY NodesIn
<1>3. Sized(q) /\ \A i \in 1..Len(q.kids) : q.kids[i] \in S /\ q.kids[i] \in Nodes(q)
  BY <1>2 DEF Forest
<1>4. DOMAIN q.kids = 1..Len(q.kids)
  BY <1>3, ListIs DEF Sized
<1>5. ASSUME NEW i \in 1..Len(q.kids) PROVE r[q.kids[i]] = CompileQ(q.kids[i], b, c)
  <2> DEFINE k == q.kids[i]
  <2>1. k \in S /\ k \in Nodes(q)
    BY <1>3
  <2> HIDE DEF k
  <2>2. PICK g : CompiledOn(Nodes(k), b, c, g) /\ CompileQ(k, b, c) = g[k]
    BY <2>1, CompiledIs
  <2>3. Forest(Nodes(k)) /\ k \in Nodes(k)
    BY <2>1, NodesIn
  <2>4. r[k] = g[k]
    BY <1>1, <1>2, <2>1, <2>2, <2>3, CompiledAgree
  <2> QED BY <2>2, <2>4 DEF k
<1>6. [i \in DOMAIN q.kids |-> r[q.kids[i]]] = [i \in DOMAIN q.kids |-> CompileQ(q.kids[i], b, c)]
  BY <1>4, <1>5
<1>7. r[q] = CompileNode(q, [i \in DOMAIN q.kids |-> r[q.kids[i]]], b, c)
  BY <1>1, <1>2 DEF CompiledOn
<1> QED BY <1>1, <1>6, <1>7

-----------------------------------------------------------------------------
(* The truth of a term.                                                    *)

TruthOn(S, v, r) == r = [t \in S |-> TermTruth(t, [i \in DOMAIN t.kids |-> r[t.kids[i]]], v)]

LEMMA TruthExists ==
  ASSUME NEW S, Forest(S), NEW v
  PROVE  \A n \in Nat : \E r : TruthOn(Below(S, n), v, r)
<1> DEFINE N == {n \in Nat : \E r : TruthOn(Below(S, n), v, r)}
<1>1. 0 \in N
  <2>1. Below(S, 0) = {}
    BY DEF Below, Forest, Sized
  <2> DEFINE r == [t \in {} |-> t]
  <2>2. r = [t \in {} |-> TermTruth(t, [i \in DOMAIN t.kids |-> r[t.kids[i]]], v)]
    OBVIOUS
  <2>3. TruthOn(Below(S, 0), v, r)
    BY <2>1, <2>2 DEF TruthOn
  <2> QED BY <2>3
<1>2. ASSUME NEW n \in N PROVE n + 1 \in N
  <2>1. PICK r : TruthOn(Below(S, n), v, r)
    OBVIOUS
  <2> DEFINE g == [t \in Below(S, n + 1) |-> TermTruth(t, [i \in DOMAIN t.kids |-> r[t.kids[i]]], v)]
  <2>2. n \in Nat
    OBVIOUS
  <2>3. \A t \in Below(S, n) : t \in Below(S, n + 1)
    BY <2>2 DEF Below, Forest, Sized
  <2>4. \A t \in Below(S, n) : r[t] = TermTruth(t, [i \in DOMAIN t.kids |-> r[t.kids[i]]], v)
    BY <2>1 DEF TruthOn
  <2>5. \A t \in Below(S, n) : g[t] = r[t]
    BY <2>3, <2>4
  <2> HIDE DEF g
  <2>6. ASSUME NEW t \in Below(S, n + 1)
        PROVE  [i \in DOMAIN t.kids |-> r[t.kids[i]]] = [i \in DOMAIN t.kids |-> g[t.kids[i]]]
    <3>1. t \in S /\ t.size < n + 1 /\ Sized(t)
      BY DEF Below, Forest
    <3>2. DOMAIN t.kids = 1..Len(t.kids)
      BY <3>1, ListIs DEF Sized
    <3>3. ASSUME NEW i \in 1..Len(t.kids) PROVE t.kids[i] \in Below(S, n)
      <4>1. t.kids[i].size \in Nat /\ t.kids[i].size < t.size /\ t.size \in Nat
        BY <3>1 DEF Sized
      <4>2. t.kids[i].size < n
        BY <2>2, <3>1, <4>1
      <4>3. t.kids[i] \in S
        BY <3>1 DEF Forest
      <4> QED BY <4>2, <4>3 DEF Below
    <3> QED BY <2>5, <3>2, <3>3
  <2>7. g = [t \in Below(S, n + 1) |-> TermTruth(t, [i \in DOMAIN t.kids |-> g[t.kids[i]]], v)]
    BY <2>6 DEF g
  <2>8. TruthOn(Below(S, n + 1), v, g)
    BY <2>7 DEF TruthOn
  <2> QED BY <2>2, <2>8
<1> HIDE DEF N
<1>3. N = Nat
  <2>1. N \in SUBSET Nat
    BY DEF N
  <2> QED BY <1>1, <1>2, <2>1, Induction
<1> QED BY <1>3 DEF N

LEMMA TruthAgree ==
  ASSUME NEW S, Forest(S), NEW T, Forest(T), NEW v, NEW r, TruthOn(S, v, r), NEW g, TruthOn(T, v, g),
         NEW q \in S \cap T
  PROVE  r[q] = g[q]
<1> DEFINE N == {n \in Nat : \A t \in S \cap T : t.size < n => r[t] = g[t]}
<1>1. 0 \in N
  BY DEF Forest, Sized
<1>2. ASSUME NEW n \in N PROVE n + 1 \in N
  <2>1. n \in Nat /\ \A t \in S \cap T : t.size < n => r[t] = g[t]
    OBVIOUS
  <2>2. ASSUME NEW t \in S \cap T, t.size < n + 1 PROVE r[t] = g[t]
    <3>1. Sized(t) /\ \A i \in 1..Len(t.kids) : t.kids[i] \in S \cap T
      BY DEF Forest
    <3>2. DOMAIN t.kids = 1..Len(t.kids)
      BY <3>1, ListIs DEF Sized
    <3>3. ASSUME NEW i \in 1..Len(t.kids) PROVE r[t.kids[i]] = g[t.kids[i]]
      <4>1. t.kids[i].size \in Nat /\ t.kids[i].size < t.size /\ t.size \in Nat
        BY <3>1 DEF Sized
      <4>2. t.kids[i].size < n
        BY <2>1, <2>2, <4>1
      <4> QED BY <2>1, <3>1, <4>2
    <3>4. [i \in DOMAIN t.kids |-> r[t.kids[i]]] = [i \in DOMAIN t.kids |-> g[t.kids[i]]]
      BY <3>2, <3>3
    <3>5. /\ r[t] = TermTruth(t, [i \in DOMAIN t.kids |-> r[t.kids[i]]], v)
          /\ g[t] = TermTruth(t, [i \in DOMAIN t.kids |-> g[t.kids[i]]], v)
      BY DEF TruthOn
    <3> QED BY <3>4, <3>5
  <2> QED BY <2>1, <2>2
<1> HIDE DEF N
<1>3. N = Nat
  <2>1. N \in SUBSET Nat
    BY DEF N
  <2> QED BY <1>1, <1>2, <2>1, Induction
<1>4. q.size \in Nat /\ q.size < q.size + 1 /\ q.size + 1 \in N
  BY <1>3 DEF Forest, Sized
<1> QED BY <1>4 DEF N

\* The whole of a tree.
LEMMA TruthIs ==
  ASSUME NEW S, Forest(S), NEW q \in S, NEW v
  PROVE  \E r : TruthOn(Nodes(q), v, r) /\ Truth(q, v) = r[q]
<1>1. Forest(Nodes(q)) /\ q \in Nodes(q) /\ \A t \in Nodes(q) : t.size <= q.size
  BY NodesIn
<1>2. q.size \in Nat /\ q.size + 1 \in Nat /\ \A t \in Nodes(q) : t.size \in Nat
  BY <1>1 DEF Forest, Sized
<1>3. Below(Nodes(q), q.size + 1) = Nodes(q)
  BY <1>1, <1>2 DEF Below
<1> DEFINE r == CHOOSE g : TruthOn(Nodes(q), v, g)
<1>4. \E g : TruthOn(Nodes(q), v, g)
  BY <1>1, <1>2, <1>3, TruthExists
<1>5. TruthOn(Nodes(q), v, r)
  BY <1>4
<1>6. Truth(q, v) = r[q]
  BY DEF Truth, TruthOn
<1> QED BY <1>5, <1>6

LEMMA TruthUnfolds ==
  ASSUME NEW S, Forest(S), NEW q \in S, NEW v
  PROVE  Truth(q, v) = TermTruth(q, [i \in DOMAIN q.kids |-> Truth(q.kids[i], v)], v)
<1>1. PICK r : TruthOn(Nodes(q), v, r) /\ Truth(q, v) = r[q]
  BY TruthIs
<1>2. Forest(Nodes(q)) /\ q \in Nodes(q)
  BY NodesIn
<1>3. Sized(q) /\ \A i \in 1..Len(q.kids) : q.kids[i] \in S /\ q.kids[i] \in Nodes(q)
  BY <1>2 DEF Forest
<1>4. DOMAIN q.kids = 1..Len(q.kids)
  BY <1>3, ListIs DEF Sized
<1>5. ASSUME NEW i \in 1..Len(q.kids) PROVE r[q.kids[i]] = Truth(q.kids[i], v)
  <2> DEFINE k == q.kids[i]
  <2>1. k \in S /\ k \in Nodes(q)
    BY <1>3
  <2> HIDE DEF k
  <2>2. PICK g : TruthOn(Nodes(k), v, g) /\ Truth(k, v) = g[k]
    BY <2>1, TruthIs
  <2>3. Forest(Nodes(k)) /\ k \in Nodes(k)
    BY <2>1, NodesIn
  <2>4. r[k] = g[k]
    BY <1>1, <1>2, <2>1, <2>2, <2>3, TruthAgree
  <2> QED BY <2>2, <2>4 DEF k
<1>6. [i \in DOMAIN q.kids |-> r[q.kids[i]]] = [i \in DOMAIN q.kids |-> Truth(q.kids[i], v)]
  BY <1>4, <1>5
<1>7. r[q] = TermTruth(q, [i \in DOMAIN q.kids |-> r[q.kids[i]]], v)
  BY <1>1, <1>2 DEF TruthOn
<1> QED BY <1>1, <1>6, <1>7

-----------------------------------------------------------------------------
(* What a Q tree asks for.                                                 *)

MeaningOn(S, v, r) == r = [t \in S |-> NodeMeans(t, [i \in DOMAIN t.kids |-> r[t.kids[i]]], v)]

LEMMA MeaningExists ==
  ASSUME NEW S, Forest(S), NEW v
  PROVE  \A n \in Nat : \E r : MeaningOn(Below(S, n), v, r)
<1> DEFINE N == {n \in Nat : \E r : MeaningOn(Below(S, n), v, r)}
<1>1. 0 \in N
  <2>1. Below(S, 0) = {}
    BY DEF Below, Forest, Sized
  <2> DEFINE r == [t \in {} |-> t]
  <2>2. r = [t \in {} |-> NodeMeans(t, [i \in DOMAIN t.kids |-> r[t.kids[i]]], v)]
    OBVIOUS
  <2>3. MeaningOn(Below(S, 0), v, r)
    BY <2>1, <2>2 DEF MeaningOn
  <2> QED BY <2>3
<1>2. ASSUME NEW n \in N PROVE n + 1 \in N
  <2>1. PICK r : MeaningOn(Below(S, n), v, r)
    OBVIOUS
  <2> DEFINE g == [t \in Below(S, n + 1) |-> NodeMeans(t, [i \in DOMAIN t.kids |-> r[t.kids[i]]], v)]
  <2>2. n \in Nat
    OBVIOUS
  <2>3. \A t \in Below(S, n) : t \in Below(S, n + 1)
    BY <2>2 DEF Below, Forest, Sized
  <2>4. \A t \in Below(S, n) : r[t] = NodeMeans(t, [i \in DOMAIN t.kids |-> r[t.kids[i]]], v)
    BY <2>1 DEF MeaningOn
  <2>5. \A t \in Below(S, n) : g[t] = r[t]
    BY <2>3, <2>4
  <2> HIDE DEF g
  <2>6. ASSUME NEW t \in Below(S, n + 1)
        PROVE  [i \in DOMAIN t.kids |-> r[t.kids[i]]] = [i \in DOMAIN t.kids |-> g[t.kids[i]]]
    <3>1. t \in S /\ t.size < n + 1 /\ Sized(t)
      BY DEF Below, Forest
    <3>2. DOMAIN t.kids = 1..Len(t.kids)
      BY <3>1, ListIs DEF Sized
    <3>3. ASSUME NEW i \in 1..Len(t.kids) PROVE t.kids[i] \in Below(S, n)
      <4>1. t.kids[i].size \in Nat /\ t.kids[i].size < t.size /\ t.size \in Nat
        BY <3>1 DEF Sized
      <4>2. t.kids[i].size < n
        BY <2>2, <3>1, <4>1
      <4>3. t.kids[i] \in S
        BY <3>1 DEF Forest
      <4> QED BY <4>2, <4>3 DEF Below
    <3> QED BY <2>5, <3>2, <3>3
  <2>7. g = [t \in Below(S, n + 1) |-> NodeMeans(t, [i \in DOMAIN t.kids |-> g[t.kids[i]]], v)]
    BY <2>6 DEF g
  <2>8. MeaningOn(Below(S, n + 1), v, g)
    BY <2>7 DEF MeaningOn
  <2> QED BY <2>2, <2>8
<1> HIDE DEF N
<1>3. N = Nat
  <2>1. N \in SUBSET Nat
    BY DEF N
  <2> QED BY <1>1, <1>2, <2>1, Induction
<1> QED BY <1>3 DEF N

LEMMA MeaningAgree ==
  ASSUME NEW S, Forest(S), NEW T, Forest(T), NEW v, NEW r, MeaningOn(S, v, r), NEW g, MeaningOn(T, v, g),
         NEW q \in S \cap T
  PROVE  r[q] = g[q]
<1> DEFINE N == {n \in Nat : \A t \in S \cap T : t.size < n => r[t] = g[t]}
<1>1. 0 \in N
  BY DEF Forest, Sized
<1>2. ASSUME NEW n \in N PROVE n + 1 \in N
  <2>1. n \in Nat /\ \A t \in S \cap T : t.size < n => r[t] = g[t]
    OBVIOUS
  <2>2. ASSUME NEW t \in S \cap T, t.size < n + 1 PROVE r[t] = g[t]
    <3>1. Sized(t) /\ \A i \in 1..Len(t.kids) : t.kids[i] \in S \cap T
      BY DEF Forest
    <3>2. DOMAIN t.kids = 1..Len(t.kids)
      BY <3>1, ListIs DEF Sized
    <3>3. ASSUME NEW i \in 1..Len(t.kids) PROVE r[t.kids[i]] = g[t.kids[i]]
      <4>1. t.kids[i].size \in Nat /\ t.kids[i].size < t.size /\ t.size \in Nat
        BY <3>1 DEF Sized
      <4>2. t.kids[i].size < n
        BY <2>1, <2>2, <4>1
      <4> QED BY <2>1, <3>1, <4>2
    <3>4. [i \in DOMAIN t.kids |-> r[t.kids[i]]] = [i \in DOMAIN t.kids |-> g[t.kids[i]]]
      BY <3>2, <3>3
    <3>5. /\ r[t] = NodeMeans(t, [i \in DOMAIN t.kids |-> r[t.kids[i]]], v)
          /\ g[t] = NodeMeans(t, [i \in DOMAIN t.kids |-> g[t.kids[i]]], v)
      BY DEF MeaningOn
    <3> QED BY <3>4, <3>5
  <2> QED BY <2>1, <2>2
<1> HIDE DEF N
<1>3. N = Nat
  <2>1. N \in SUBSET Nat
    BY DEF N
  <2> QED BY <1>1, <1>2, <2>1, Induction
<1>4. q.size \in Nat /\ q.size < q.size + 1 /\ q.size + 1 \in N
  BY <1>3 DEF Forest, Sized
<1> QED BY <1>4 DEF N

\* The whole of a tree.
LEMMA MeaningIs ==
  ASSUME NEW S, Forest(S), NEW q \in S, NEW v
  PROVE  \E r : MeaningOn(Nodes(q), v, r) /\ MeansQ(q, v) = r[q]
<1>1. Forest(Nodes(q)) /\ q \in Nodes(q) /\ \A t \in Nodes(q) : t.size <= q.size
  BY NodesIn
<1>2. q.size \in Nat /\ q.size + 1 \in Nat /\ \A t \in Nodes(q) : t.size \in Nat
  BY <1>1 DEF Forest, Sized
<1>3. Below(Nodes(q), q.size + 1) = Nodes(q)
  BY <1>1, <1>2 DEF Below
<1> DEFINE r == CHOOSE g : MeaningOn(Nodes(q), v, g)
<1>4. \E g : MeaningOn(Nodes(q), v, g)
  BY <1>1, <1>2, <1>3, MeaningExists
<1>5. MeaningOn(Nodes(q), v, r)
  BY <1>4
<1>6. MeansQ(q, v) = r[q]
  BY DEF MeansQ, MeaningOn
<1> QED BY <1>5, <1>6

LEMMA MeaningUnfolds ==
  ASSUME NEW S, Forest(S), NEW q \in S, NEW v
  PROVE  MeansQ(q, v) = NodeMeans(q, [i \in DOMAIN q.kids |-> MeansQ(q.kids[i], v)], v)
<1>1. PICK r : MeaningOn(Nodes(q), v, r) /\ MeansQ(q, v) = r[q]
  BY MeaningIs
<1>2. Forest(Nodes(q)) /\ q \in Nodes(q)
  BY NodesIn
<1>3. Sized(q) /\ \A i \in 1..Len(q.kids) : q.kids[i] \in S /\ q.kids[i] \in Nodes(q)
  BY <1>2 DEF Forest
<1>4. DOMAIN q.kids = 1..Len(q.kids)
  BY <1>3, ListIs DEF Sized
<1>5. ASSUME NEW i \in 1..Len(q.kids) PROVE r[q.kids[i]] = MeansQ(q.kids[i], v)
  <2> DEFINE k == q.kids[i]
  <2>1. k \in S /\ k \in Nodes(q)
    BY <1>3
  <2> HIDE DEF k
  <2>2. PICK g : MeaningOn(Nodes(k), v, g) /\ MeansQ(k, v) = g[k]
    BY <2>1, MeaningIs
  <2>3. Forest(Nodes(k)) /\ k \in Nodes(k)
    BY <2>1, NodesIn
  <2>4. r[k] = g[k]
    BY <1>1, <1>2, <2>1, <2>2, <2>3, MeaningAgree
  <2> QED BY <2>2, <2>4 DEF k
<1>6. [i \in DOMAIN q.kids |-> r[q.kids[i]]] = [i \in DOMAIN q.kids |-> MeansQ(q.kids[i], v)]
  BY <1>4, <1>5
<1>7. r[q] = NodeMeans(q, [i \in DOMAIN q.kids |-> r[q.kids[i]]], v)
  BY <1>1, <1>2 DEF MeaningOn
<1> QED BY <1>1, <1>6, <1>7

-----------------------------------------------------------------------------
(* The first and the last of a set of places, and parts of lists.          *)

LEMMA Least ==
  ASSUME NEW I \in SUBSET Nat, I # {}
  PROVE  Min(I) \in I /\ \A i \in I : Min(I) <= i
<1> DEFINE R == OpToRel(<, Nat)
<1>1. IsWellFoundedOn(R, Nat)
  BY NatLessThanWellFounded
<1>2. \A i, j \in Nat : i < j => <<i, j>> \in R
  BY DEF OpToRel
<1> HIDE DEF R
<1>3. PICK n \in I : \A m \in I : ~(<<m, n>> \in R)
  BY <1>1, WFMin
<1>4. ASSUME NEW m \in I PROVE n <= m
  <2>1. m \in Nat /\ n \in Nat /\ ~(m < n)
    BY <1>2, <1>3
  <2> QED BY <2>1
<1> QED BY <1>3, <1>4 DEF Min

LEMMA Greatest ==
  ASSUME NEW n \in Nat, NEW I \in SUBSET (1..n), I # {}
  PROVE  Max(I) \in I /\ \A i \in I : i <= Max(I)
<1> DEFINE J == {n - i : i \in I}
<1>1. J \in SUBSET Nat /\ J # {}
  <2>1. PICK i : i \in I
    OBVIOUS
  <2>2. n - i \in J
    BY <2>1
  <2>3. \A k \in I : n - k \in Nat
    OBVIOUS
  <2> QED BY <2>2, <2>3
<1> HIDE DEF J
<1>2. Min(J) \in J /\ \A j \in J : Min(J) <= j
  BY <1>1, Least
<1>3. PICK k \in I : Min(J) = n - k
  BY <1>2 DEF J
<1>4. ASSUME NEW i \in I PROVE i <= k
  <2>1. n - i \in J
    BY DEF J
  <2> QED BY <2>1, <1>2, <1>3
<1> QED BY <1>4 DEF Max

LEMMA SubList ==
  ASSUME NEW s, IsList(s), NEW a \in Nat \ {0}, NEW b \in 0..Len(s), a <= b + 1
  PROVE  /\ IsList(SubSeq(s, a, b)) /\ Len(SubSeq(s, a, b)) = b - a + 1
         /\ \A i \in 1..(b - a + 1) : SubSeq(s, a, b)[i] = s[a + i - 1]
<1>1. \A i \in a..b : s[i] \in ToSet(s)
  BY ListIs
<1>2. SubSeq(s, a, b) \in Seq(ToSet(s))
  BY <1>1, ListIs, SubSeqProperties
<1>3. Len(SubSeq(s, a, b)) = b - a + 1
  <2>1. Len(SubSeq(s, a, b)) = IF a <= b THEN b - a + 1 ELSE 0
    BY <1>1, ListIs, SubSeqProperties
  <2> QED BY <2>1, ListIs
<1>4. \A i \in 1..(b - a + 1) : SubSeq(s, a, b)[i] = s[a + i - 1]
  BY <1>1, ListIs, SubSeqProperties
<1> QED BY <1>2, <1>3, <1>4, SeqIsList

-----------------------------------------------------------------------------
(* Keys.                                                                   *)

LEMMA ParsedKey ==
  ASSUME NEW name, NEW segs, IsList(segs), NEW known
  PROVE  LET key == ParseKey(name, segs, known)
         IN /\ key.field = [name |-> name, segs |-> key.field.segs] /\ IsList(key.field.segs)
            /\ IsList(key.lookup) /\ key.lookup # <<>>
<1> DEFINE I == {i \in 1..Len(segs) : segs[i] \in known}
           last == SelectLastInSeq(segs, LAMBDA s : s \in known)
           key == ParseKey(name, segs, known)
<1>1. last = IF I # {} THEN Max(I) ELSE 0
  BY DEF SelectLastInSeq
<1>2. last \in 0..Len(segs)
  <2>1. Len(segs) \in Nat
    BY ListIs
  <2>2. I \in SUBSET (1..Len(segs))
    OBVIOUS
  <2> HIDE DEF I, last
  <2>3. CASE I = {}
    BY <1>1, <2>1, <2>3
  <2>4. CASE I # {}
    <3>1. Max(I) \in I
      BY <2>1, <2>2, <2>4, Greatest, Zenon
    <3>2. last \in 1..Len(segs)
      BY <1>1, <2>2, <2>4, <3>1, Zenon
    <3> QED BY <2>1, <3>2
  <2> QED BY <2>3, <2>4
<1>3. key = IF last = 0 THEN [field |-> [name |-> name, segs |-> <<>>], lookup |-> <<"exact">>]
            ELSE [field  |-> [name |-> name, segs |-> SubSeq(segs, 1, last - 1)],
                  lookup |-> SubSeq(segs, last, Len(segs))]
  BY DEF ParseKey
<1> HIDE DEF last, key
<1>4. CASE last = 0
  <2>1. key.field = [name |-> name, segs |-> <<>>] /\ key.lookup = <<"exact">>
    BY <1>3, <1>4
  <2>2. IsList(key.lookup) /\ key.lookup # <<>>
    BY <2>1, TupleIsList
  <2> QED BY <2>1, <2>2, NoElements DEF key
<1>5. CASE last # 0
  <2>1. key.field = [name |-> name, segs |-> SubSeq(segs, 1, last - 1)]
        /\ key.lookup = SubSeq(segs, last, Len(segs))
    BY <1>3, <1>5
  <2>2. Len(segs) \in Nat /\ last \in 1..Len(segs)
    BY <1>2, <1>5, ListIs
  <2>3. IsList(SubSeq(segs, 1, last - 1))
    BY <2>2, SubList
  <2>4. IsList(SubSeq(segs, last, Len(segs))) /\ Len(SubSeq(segs, last, Len(segs))) = Len(segs) - last + 1
    BY <2>2, SubList
  <2>5. SubSeq(segs, last, Len(segs)) # <<>>
    <3>1. Len(SubSeq(segs, last, Len(segs))) # 0
      BY <2>2, <2>4
    <3> QED BY <3>1, NoElements
  <2> QED BY <2>1, <2>3, <2>4, <2>5 DEF key
<1> QED BY <1>4, <1>5

LEMMA KeyedIsCondition ==
  ASSUME NEW name, NEW segs, IsList(segs), NEW value, IsValue(value), NEW negated \in BOOLEAN, NEW known
  PROVE  IsCondition(Keyed(name, segs, value, negated, known))
<1> DEFINE key == ParseKey(name, segs, known)
<1>1. /\ key.field = [name |-> name, segs |-> key.field.segs] /\ IsList(key.field.segs)
      /\ IsList(key.lookup) /\ key.lookup # <<>>
  BY ParsedKey
<1>2. Keyed(name, segs, value, negated, known) = Condition(key.field, key.lookup, value, negated)
  BY DEF Keyed
<1> HIDE DEF key
<1> DEFINE f == Condition(key.field, key.lookup, value, negated)
<1>3. f.field = key.field /\ f.lookup = key.lookup /\ f.value = value /\ f.negated = negated
      /\ f = Condition(f.field, f.lookup, f.value, f.negated)
  BY DEF Condition
<1> HIDE DEF f
<1>4. f.field = [name |-> f.field.name, segs |-> f.field.segs]
  BY <1>1, <1>3
<1>5. IsCondition(f)
  BY <1>1, <1>3, <1>4 DEF IsCondition
<1> QED BY <1>2, <1>5 DEF f

-----------------------------------------------------------------------------
(* Queries.  A query in the making, or asked for, has all the parts of a   *)
(* node, its conditions are conditions, its tree is one Q's constructors and*)
(* to_q_node write, nothing adds a HAVING, and its backend is the one of its*)
(* pool, which Rust takes to be the default one.                           *)

NodeParts == {"table", "backend", "alias", "schema", "op", "filters", "q", "joins", "annotations",
              "groupBy", "having", "orderBy", "nearest", "limit", "offset", "distinct", "extra"}
IsQueryNode(n) == n = [p \in NodeParts |-> n[p]]

IsQNode(t) == IsNode(t) /\ (t.kind = "not" => Len(t.kids) = 1)
Tree(q) == \E S : q \in S /\ Forest(S) /\ \A t \in S : IsQNode(t)

Conditions(s) == IsList(s) /\ \A i \in 1..Len(s) : IsCondition(s[i])
IsQuery(n) ==
  /\ IsQueryNode(n) /\ n.backend \in Backends /\ Conditions(n.filters)
  /\ n.q = NoQ \/ Tree(n.q)
  /\ n.having = <<>>

IsOp(op) == op.kind \in {"insert", "update"} => IsList(op.cols)
Pool(n) == IF n.alias = "" THEN "default" ELSE n.alias
OnPool(n) == n.backend = AliasBackend[IF front = "python" THEN Pool(n) ELSE "default"]

Sound(n) == IsQuery(n) /\ IsOp(n.op) /\ OnPool(n)

SInv ==
  /\ front \in {"rust", "python"} /\ custom \in Customs
  /\ Sound(node)
  /\ stmt # NoStmt => Sound(stmt)

-----------------------------------------------------------------------------
(* The builders.                                                           *)

SameButFor(n, m, P) == IsQueryNode(m) /\ \A p \in NodeParts \ P : m[p] = n[p]

LEMMA Replaced ==
  ASSUME NEW n, IsQueryNode(n), NEW part \in NodeParts, NEW item
  PROVE  SameButFor(n, [n EXCEPT ![part] = item], {part}) /\ [n EXCEPT ![part] = item][part] = item
BY DEF IsQueryNode, SameButFor

LEMMA PartsOf ==
  ASSUME NEW n, NEW m, NEW P, SameButFor(n, m, P)
  PROVE  /\ IsQueryNode(m)
         /\ "backend" \notin P => m.backend = n.backend
         /\ "alias" \notin P => m.alias = n.alias
         /\ "filters" \notin P => m.filters = n.filters
         /\ "q" \notin P => m.q = n.q
         /\ "having" \notin P => m.having = n.having
         /\ "op" \notin P => m.op = n.op
BY DEF SameButFor, NodeParts

Harmless == NodeParts \ {"backend", "alias", "filters", "q", "having", "op"}

LEMMA SamePool ==
  ASSUME NEW n, NEW m, m.backend = n.backend, m.alias = n.alias, OnPool(n)
  PROVE  OnPool(m)
<1>1. Pool(m) = Pool(n)
  BY DEF Pool
<1> QED BY <1>1 DEF OnPool

LEMMA PartSound ==
  ASSUME NEW n, Sound(n), NEW part \in Harmless, NEW item
  PROVE  Sound([n EXCEPT ![part] = item])
<1> DEFINE m == [n EXCEPT ![part] = item]
<1>1. SameButFor(n, m, {part})
  BY Replaced DEF Harmless, Sound, IsQuery
<1> HIDE DEF m
<1>2. /\ IsQueryNode(m) /\ m.backend = n.backend /\ m.alias = n.alias /\ m.filters = n.filters
      /\ m.q = n.q /\ m.having = n.having /\ m.op = n.op
  BY <1>1, PartsOf DEF Harmless
<1>3. OnPool(m)
  BY <1>2, SamePool DEF Sound
<1> QED BY <1>2, <1>3 DEF Sound, IsQuery, m

LEMMA OpSound ==
  ASSUME NEW n, Sound(n), NEW op, IsOp(op)
  PROVE  Sound([n EXCEPT !.op = op])
<1> DEFINE m == [n EXCEPT !["op"] = op]
<1>0. "op" \in NodeParts
  BY DEF NodeParts
<1>1. SameButFor(n, m, {"op"}) /\ m["op"] = op
  BY <1>0, Replaced DEF Sound, IsQuery
<1> HIDE DEF m
<1>2. /\ IsQueryNode(m) /\ m.backend = n.backend /\ m.alias = n.alias /\ m.filters = n.filters
      /\ m.q = n.q /\ m.having = n.having /\ m.op = op
  BY <1>1, PartsOf
<1>3. OnPool(m)
  BY <1>2, SamePool DEF Sound
<1> QED BY <1>2, <1>3 DEF Sound, IsQuery, m

LEMMA WithOpSound ==
  ASSUME NEW n, Sound(n), NEW kind, NEW cols, kind \in {"insert", "update"} => IsList(cols)
  PROVE  Sound(WithOp(n, kind, cols))
<1>1. IsOp([kind |-> kind, cols |-> cols])
  BY DEF IsOp
<1> QED BY <1>1, OpSound DEF WithOp

LEMMA FiltersSound ==
  ASSUME NEW n, Sound(n), NEW s, Conditions(s)
  PROVE  Sound([n EXCEPT !.filters = n.filters \o s])
<1> DEFINE m == [n EXCEPT !["filters"] = n.filters \o s]
<1>0. "filters" \in NodeParts
  BY DEF NodeParts
<1>1. SameButFor(n, m, {"filters"}) /\ m["filters"] = n.filters \o s
  BY <1>0, Replaced DEF Sound, IsQuery
<1> HIDE DEF m
<1>2. /\ IsQueryNode(m) /\ m.backend = n.backend /\ m.alias = n.alias /\ m.filters = n.filters \o s
      /\ m.q = n.q /\ m.having = n.having /\ m.op = n.op
  BY <1>1, PartsOf
<1>3. OnPool(m)
  BY <1>2, SamePool DEF Sound
<1> DEFINE r == n.filters
           u == r \o s
<1>4. Conditions(r) /\ Conditions(s)
  BY DEF Sound, IsQuery
<1>5. IsList(r) /\ IsList(s) /\ Len(r) \in Nat /\ Len(s) \in Nat
  BY <1>4, ListIs DEF Conditions
<1>6. IsList(u) /\ Len(u) = Len(r) + Len(s)
  BY <1>5, JoinLists
<1>7. (\A i \in 1..Len(r) : u[i] = r[i]) /\ (\A i \in 1..Len(s) : u[Len(r) + i] = s[i])
  BY <1>5, JoinLists
<1> HIDE DEF u, r
<1>8. ASSUME NEW i \in 1..Len(u) PROVE IsCondition(u[i])
  <2>1. CASE i \in 1..Len(r)
    BY <2>1, <1>4, <1>7 DEF Conditions
  <2>2. CASE i \notin 1..Len(r)
    <3>1. i - Len(r) \in 1..Len(s) /\ Len(r) + (i - Len(r)) = i
      BY <2>2, <1>5, <1>6
    <3>2. u[i] = s[i - Len(r)]
      BY <3>1, <1>7
    <3> QED BY <3>1, <3>2, <1>4 DEF Conditions
  <2> QED BY <2>1, <2>2
<1>9. Conditions(m.filters)
  BY <1>2, <1>6, <1>8 DEF Conditions, u, r
<1> QED BY <1>2, <1>3, <1>9 DEF Sound, IsQuery, m

\* The same, of one condition.
LEMMA OneCondition ==
  ASSUME NEW n, Sound(n), NEW f, IsCondition(f)
  PROVE  Sound([n EXCEPT !.filters = Append(n.filters, f)])
<1>1. Conditions(<<f>>)
  BY TupleIsList DEF Conditions
<1>2. IsList(n.filters)
  BY DEF Sound, IsQuery, Conditions
<1>3. n.filters \o <<f>> = Append(n.filters, f)
  BY <1>2 DEF IsList
<1> QED BY <1>1, <1>3, FiltersSound

-----------------------------------------------------------------------------
(* Trees of conditions.                                                    *)

LEMMA NodeSized == ASSUME NEW t, IsNode(t) PROVE Sized(t)
<1>1. CASE t.kind = "leaf"
  <2>1. t = QLeaf(t.test)
    BY <1>1 DEF IsNode
  <2>2. t.kids = <<>> /\ t.size = 0
    BY <2>1 DEF QLeaf
  <2> QED BY <2>2, NoElements DEF Sized
<1>2. CASE t.kind # "leaf"
  <2>1. IsList(t.kids) /\ t = QTree(t.kind, t.kids) /\ \A i \in DOMAIN t.kids : t.kids[i].size \in Nat
    BY <1>2 DEF IsNode
  <2> DEFINE s == [i \in DOMAIN t.kids |-> t.kids[i].size]
  <2>2. t.size = 1 + Total(s)
    BY <2>1 DEF QTree, Above
  <2>3. s \in Seq(Nat) /\ Len(s) = Len(t.kids) /\ Len(s) \in Nat
    BY <2>1, ListIs
  <2>4. Total(s) \in Nat /\ \A i \in 1..Len(s) : s[i] <= Total(s)
    BY <2>3, TotalNat, TotalBounds
  <2>5. ASSUME NEW i \in 1..Len(t.kids) PROVE t.kids[i].size \in Nat /\ t.kids[i].size < t.size
    <3>1. i \in DOMAIN t.kids
      BY <2>1, ListIs
    <3>2. s[i] = t.kids[i].size /\ s[i] \in Nat /\ s[i] <= Total(s)
      BY <2>1, <2>3, <2>4, <3>1
    <3> HIDE DEF s
    <3> QED BY <3>2, <2>2, <2>4
  <2>6. t.size \in Nat
    BY <2>2, <2>4
  <2> QED BY <2>1, <2>5, <2>6 DEF Sized
<1> QED BY <1>1, <1>2

LEMMA TreeIs ==
  ASSUME NEW q, Tree(q)
  PROVE  /\ q # NoQ /\ IsQNode(q) /\ Sized(q) /\ q.size \in Nat
         /\ IsList(q.kids) /\ DOMAIN q.kids = 1..Len(q.kids) /\ Len(q.kids) \in Nat
         /\ \A i \in 1..Len(q.kids) : Tree(q.kids[i])
<1>1. PICK S : q \in S /\ Forest(S) /\ \A t \in S : IsQNode(t)
  BY DEF Tree
<1>2. IsQNode(q) /\ Sized(q) /\ \A i \in 1..Len(q.kids) : q.kids[i] \in S
  BY <1>1 DEF Forest
<1>3. q # NoQ
  BY <1>2 DEF IsQNode, IsNode, NoQ
<1>4. IsList(q.kids) /\ q.size \in Nat
  BY <1>2 DEF Sized
<1> QED BY <1>1, <1>2, <1>3, <1>4, ListIs DEF Tree

LEMMA NewTree ==
  ASSUME NEW t, IsQNode(t), \A i \in 1..Len(t.kids) : Tree(t.kids[i])
  PROVE  Tree(t)
<1> DEFINE T(i) == CHOOSE S : t.kids[i] \in S /\ Forest(S) /\ \A u \in S : IsQNode(u)
           S == {t} \cup UNION {T(i) : i \in 1..Len(t.kids)}
<1>1. \A i \in 1..Len(t.kids) : t.kids[i] \in T(i) /\ Forest(T(i)) /\ \A u \in T(i) : IsQNode(u)
  BY DEF Tree
<1> HIDE DEF T
<1>2. Sized(t)
  BY NodeSized DEF IsQNode
<1>3. \A u \in S : IsQNode(u)
  BY <1>1
<1>4. ASSUME NEW u \in S PROVE Sized(u) /\ \A j \in 1..Len(u.kids) : u.kids[j] \in S
  <2>1. CASE u = t
    BY <2>1, <1>1, <1>2
  <2>2. CASE u # t
    <3>1. PICK i \in 1..Len(t.kids) : u \in T(i)
      BY <2>2
    <3>2. Sized(u) /\ \A j \in 1..Len(u.kids) : u.kids[j] \in T(i)
      BY <1>1, <3>1 DEF Forest
    <3> QED BY <3>2
  <2> QED BY <2>1, <2>2
<1>5. Forest(S) /\ t \in S
  BY <1>4 DEF Forest
<1> QED BY <1>3, <1>5 DEF Tree

LEMMA LeafTree == ASSUME NEW f, IsCondition(f) PROVE Tree(QLeaf(f))
<1> DEFINE t == QLeaf(f)
<1>1. t.kind = "leaf" /\ t = QLeaf(t.test) /\ t.test = f /\ t.kids = <<>>
  BY DEF QLeaf
<1> HIDE DEF t
<1>2. IsQNode(t)
  BY <1>1 DEF IsQNode, IsNode
<1>3. \A i \in 1..Len(t.kids) : Tree(t.kids[i])
  BY <1>1, NoElements
<1>4. Tree(t)
  BY <1>2, <1>3, NewTree
<1> QED BY <1>4 DEF t

LEMMA BranchTree ==
  ASSUME NEW kind \in {"and", "or", "not"}, NEW kids, IsList(kids),
         \A i \in 1..Len(kids) : Tree(kids[i]), kind = "not" => Len(kids) = 1
  PROVE  Tree(QTree(kind, kids))
<1> DEFINE t == QTree(kind, kids)
<1>1. t.kind = kind /\ t.kids = kids /\ t = QTree(t.kind, t.kids)
  BY DEF QTree
<1> HIDE DEF t
<1>2. \A i \in DOMAIN kids : kids[i].size \in Nat
  BY TreeIs, ListIs
<1>3. IsQNode(t)
  BY <1>1, <1>2 DEF IsQNode, IsNode
<1>4. Tree(t)
  BY <1>1, <1>3, NewTree
<1> QED BY <1>4 DEF t

\* A tree of the menu whose "not" nodes all have a child.
LEMMA MenuTree ==
  ASSUME NEW known \in {AllLookups} \cup {RegisteredLookups(c) : c \in Customs}, NEW q \in Trees(known),
         \A t \in Nodes(q) : t.kind = "not" => t.kids # <<>>
  PROVE  Tree(q)
<1>1. IsNode(q) /\ \A t \in Nodes(q) : IsNode(t)
  BY TreesAssumption
<1>2. \A t \in Nodes(q) : Sized(t)
  BY <1>1, NodeSized
<1>3. q.size \in Nat
  BY <1>1, NodeSized DEF Sized
<1>4. Forest(Nodes(q)) /\ q \in Nodes(q)
  BY <1>2, <1>3, NodesAreForest
<1>5. ASSUME NEW t \in Nodes(q) PROVE IsQNode(t)
  <2>1. CASE t.kind = "not"
    <3>1. IsList(t.kids) /\ Len(t.kids) <= 1 /\ t.kids # <<>>
      BY <1>1, <2>1 DEF IsNode
    <3>2. Len(t.kids) \in Nat /\ Len(t.kids) # 0
      BY <3>1, ListIs, NoLength
    <3> QED BY <1>1, <3>1, <3>2 DEF IsQNode
  <2> QED BY <2>1, <1>1 DEF IsQNode
<1> QED BY <1>4, <1>5 DEF Tree

LEMMA WithQSound ==
  ASSUME NEW n, Sound(n), NEW q, Tree(q)
  PROVE  Sound(WithQ(n, q))
<1> DEFINE p == IF n.q = NoQ THEN q ELSE QTree("and", <<n.q, q>>)
           m == [n EXCEPT !["q"] = p]
<1>1. n.q # NoQ => Tree(QTree("and", <<n.q, q>>))
  <2> SUFFICES ASSUME n.q # NoQ PROVE Tree(QTree("and", <<n.q, q>>))
    OBVIOUS
  <2>1. Tree(n.q)
    BY DEF Sound, IsQuery
  <2> DEFINE kids == <<n.q, q>>
  <2>2. IsList(kids) /\ Len(kids) = 2 /\ \A i \in 1..2 : Tree(kids[i])
    BY <2>1, PairIsList
  <2> HIDE DEF kids
  <2>3. Tree(QTree("and", kids))
    BY <2>2, BranchTree
  <2> QED BY <2>3 DEF kids
<1>2. Tree(p)
  BY <1>1
<1> HIDE DEF p
<1>3. "q" \in NodeParts
  BY DEF NodeParts
<1>4. SameButFor(n, m, {"q"}) /\ m["q"] = p
  BY <1>3, Replaced DEF Sound, IsQuery
<1>5. WithQ(n, q) = m
  <2>1. "q" \in DOMAIN n
    BY <1>3 DEF Sound, IsQuery, IsQueryNode
  <2> QED BY <2>1 DEF WithQ, p
<1> HIDE DEF m
<1>6. /\ IsQueryNode(m) /\ m.backend = n.backend /\ m.alias = n.alias /\ m.filters = n.filters
      /\ m.q = p /\ m.having = n.having /\ m.op = n.op
  BY <1>4, PartsOf
<1>7. OnPool(m)
  BY <1>6, SamePool DEF Sound
<1>8. Sound(m)
  BY <1>2, <1>6, <1>7 DEF Sound, IsQuery
<1> QED BY <1>5, <1>8

-----------------------------------------------------------------------------
(* The steps of a session.                                                 *)

LEMMA WithIs ==
  ASSUME NEW n, Sound(n), NEW part \in Harmless, NEW item
  PROVE  Sound(With(n, part, item))
<1>1. \A x : Sound([n EXCEPT ![part] = x])
  BY PartSound
<1>2. CASE part \in ListParts
  <2>1. part \in DOMAIN n
    BY DEF Sound, IsQuery, IsQueryNode, Harmless
  <2>2. With(n, part, item) = [n EXCEPT ![part] = Append(n[part], item)]
    BY <1>2, <2>1 DEF With
  <2> QED BY <1>1, <2>2
<1>3. CASE part \notin ListParts
  BY <1>1, <1>3 DEF With
<1> QED BY <1>2, <1>3

LEMMA WithAllIs ==
  ASSUME NEW n, Sound(n), NEW part \in Harmless, NEW items
  PROVE  Sound(WithAll(n, part, items))
<1>1. part \in DOMAIN n
  BY DEF Sound, IsQuery, IsQueryNode, Harmless
<1>2. WithAll(n, part, items) = [n EXCEPT ![part] = n[part] \o items]
  BY <1>1 DEF WithAll
<1>3. \A x : Sound([n EXCEPT ![part] = x])
  BY PartSound
<1> QED BY <1>2, <1>3

LEMMA FiltersAre ==
  ASSUME NEW n, Sound(n), NEW f, IsCondition(f)
  PROVE  Sound(With(n, "filters", f)) /\ Sound(WithAll(n, "filters", <<f>>))
<1>1. "filters" \in DOMAIN n
  BY DEF Sound, IsQuery, IsQueryNode, NodeParts
<1>2. With(n, "filters", f) = [n EXCEPT !.filters = Append(n.filters, f)]
  BY <1>1 DEF With, ListParts
<1>3. WithAll(n, "filters", <<f>>) = [n EXCEPT !.filters = n.filters \o <<f>>]
  BY <1>1 DEF WithAll
<1>4. Conditions(<<f>>)
  BY TupleIsList DEF Conditions
<1>5. Sound(With(n, "filters", f))
  BY <1>2, OneCondition, Zenon
<1>6. Sound(WithAll(n, "filters", <<f>>))
  <2>1. Sound([n EXCEPT !.filters = n.filters \o <<f>>])
    BY <1>4, FiltersSound
  <2> QED BY <1>3, <2>1, Zenon
<1> QED BY <1>5, <1>6

LEMMA HarmlessParts ==
  {"joins", "annotations", "groupBy", "orderBy", "extra", "limit", "offset", "distinct", "schema", "nearest"}
    \subseteq Harmless
BY DEF Harmless, NodeParts

LEMMA NewQueries ==
  ASSUME NEW n, NEW table, NEW pool \in DOMAIN AliasBackend,
         n = [SelectNode(table) EXCEPT !.backend = AliasBackend[pool]], pool = "default"
  PROVE  Sound(n)
<1>1. n = [p \in NodeParts |-> n[p]]
  BY DEF SelectNode, NodeParts
<1>2. n.backend = AliasBackend["default"] /\ n.filters = <<>> /\ n.q = NoQ /\ n.having = <<>> /\ n.op.kind = "select"
  BY DEF SelectNode
<1>3. Pool(n) = "default"
  <2>1. n.alias = ""
    BY DEF SelectNode
  <2> QED BY <2>1, Zenon DEF Pool
<1>4. n.backend \in Backends
  BY <1>2, PoolsAssumption
<1>5. Conditions(n.filters)
  BY <1>2, NoElements DEF Conditions
<1>6. IsOp(n.op)
  BY <1>2 DEF IsOp
<1>7. OnPool(n)
  BY <1>2, <1>3 DEF OnPool
<1> QED BY <1>1, <1>2, <1>4, <1>5, <1>6, <1>7 DEF Sound, IsQuery, IsQueryNode

LEMMA SoundIsNode == ASSUME NEW n, Sound(n) PROVE n # PlanError /\ n.backend \in Backends
<1>1. IsQueryNode(n) /\ "table" \in NodeParts
  BY DEF Sound, IsQuery, NodeParts
<1>2. n # PlanError
  BY <1>1 DEF IsQueryNode, PlanError, NodeParts
<1> QED BY <1>2 DEF Sound, IsQuery

\* A plan of no ops.
Follows(start, ops, f) == f = [i \in 0..Len(ops) |-> IF i = 0 THEN start ELSE PlanOp(f[i - 1], ops[i])]

LEMMA NoOps ==
  ASSUME NEW start
  PROVE  LET after[i \in 0..Len(<<>>)] == IF i = 0 THEN start ELSE PlanOp(after[i - 1], <<>>[i])
         IN after[Len(<<>>)] = start
<1> DEFINE g == [i \in 0..Len(<<>>) |-> start]
           f == CHOOSE h : Follows(start, <<>>, h)
<1>1. Len(<<>>) = 0 /\ \A i \in 0..Len(<<>>) : i = 0
  OBVIOUS
<1>2. g = [i \in 0..Len(<<>>) |-> IF i = 0 THEN start ELSE PlanOp(g[i - 1], <<>>[i])]
  BY <1>1
<1>3. Follows(start, <<>>, g)
  BY <1>2 DEF Follows
<1> HIDE DEF g
<1>4. Follows(start, <<>>, f)
  BY <1>3
<1>5. f[Len(<<>>)] = start
  <2> HIDE DEF f
  <2> QED BY <1>1, <1>4 DEF Follows
<1> QED BY <1>5 DEF Follows

\* The default pool's backend, as NewQuerySet and BuildPlan look it up.
LEMMA InitSInv == SessionInit => SInv
<1> SUFFICES ASSUME SessionInit PROVE SInv
  OBVIOUS
<1>0. "default" \in DOMAIN AliasBackend
  BY PoolsAssumption
<1>1. front = "rust" => Sound(node)
  <2>1. Sound(NewQuerySet(Table))
    BY <1>0, NewQueries DEF NewQuerySet
  <2> QED BY <2>1 DEF SessionInit
<1>2. front = "python" => Sound(node)
  <2> DEFINE start == [[SelectNode(Table) EXCEPT !.backend = AliasBackend["default"]] EXCEPT !.alias = ""]
             n == [SelectNode(Table) EXCEPT !.backend = AliasBackend["default"]]
  <2>1. Sound(n)
    BY <1>0, NewQueries
  <2>2. start = n
    <3>1. n = [p \in NodeParts |-> n[p]] /\ n.alias = ""
      BY DEF SelectNode, NodeParts
    <3> QED BY <3>1
  <2>3. BuildPlan(Table, <<>>, "") = start
    <3> DEFINE s == [SelectNode(Table) EXCEPT !.backend = AliasBackend["default"], !.alias = ""]
    <3>1. BuildPlan(Table, <<>>, "") = LET after[i \in 0..Len(<<>>)] ==
             IF i = 0 THEN s ELSE PlanOp(after[i - 1], <<>>[i]) IN after[Len(<<>>)]
      BY <1>0, Zenon DEF BuildPlan
    <3>2. s = start
      BY Zenon
    <3> HIDE DEF s, start
    <3>3. BuildPlan(Table, <<>>, "") = s
      BY <3>1, NoOps
    <3> QED BY <3>2, <3>3
  <2> QED BY <2>1, <2>2, <2>3 DEF SessionInit
<1>3. front \in {"rust", "python"} /\ custom \in Customs /\ stmt = NoStmt
  BY DEF SessionInit
<1> QED BY <1>1, <1>2, <1>3 DEF SInv

LEMMA BuiltSInv ==
  ASSUME NEW n, SInv, Built(n), Sound(n)
  PROVE  SInv'
<1>1. /\ node' = n /\ front' = front /\ custom' = custom /\ stmt' = stmt /\ stmt = NoStmt
  BY DEF Built
<1>3. OnPool(node)'
  <2>1. OnPool(n)
    BY DEF Sound
  <2> QED BY <1>1, <2>1 DEF OnPool
<1>4. Sound(node)'
  BY <1>1, <1>3 DEF Sound
<1> QED BY <1>1, <1>4 DEF SInv

LEMMA KnownNames == ASSUME SInv PROVE Known \in {AllLookups} \cup {RegisteredLookups(c) : c \in Customs}
BY DEF SInv, Known

LEMMA FilterSInv ==
  ASSUME SInv, NEW k \in Keys, NEW negated \in BOOLEAN, Filter(k, negated)
  PROVE  SInv'
<1>1. IsList(k.segs) /\ IsValue(k.value) /\ Sound(node) /\ front \in {"rust", "python"}
  BY KeysAssumption DEF SInv
<1>2. \A known : IsCondition(Keyed(k.name, k.segs, k.value, negated, known))
  BY <1>1, KeyedIsCondition
<1>3. CASE front = "rust"
  <2> DEFINE f == Keyed(k.name, k.segs, k.value, negated, AllLookups)
             arg == [kind |-> "key", name |-> k.name, segs |-> k.segs, value |-> k.value]
  <2>1. Built(RsFilter(node, arg, negated))
    BY <1>3 DEF Filter
  <2>2. RsFilter(node, arg, negated) = With(node, "filters", f)
    BY DEF RsFilter
  <2>3. Sound(With(node, "filters", f))
    BY <1>1, <1>2, FiltersAre
  <2> QED BY <2>1, <2>2, <2>3, BuiltSInv
<1>4. CASE front = "python"
  <2> DEFINE f == Keyed(k.name, k.segs, k.value, negated, Known)
             op == [tag |-> "filters", items |-> <<f>>]
  <2>1. Built(PlanOp(node, op))
    BY <1>4 DEF Filter
  <2>2. PlanOp(node, op) = WithAll(node, "filters", <<f>>)
    <3>1. node # PlanError
      BY <1>1, SoundIsNode
    <3> HIDE DEF f
    <3> QED BY <3>1 DEF PlanOp
  <2>3. Sound(WithAll(node, "filters", <<f>>))
    BY <1>1, <1>2, FiltersAre
  <2> QED BY <2>1, <2>2, <2>3, BuiltSInv
<1> QED BY <1>1, <1>3, <1>4

LEMMA FilterTreeSInv ==
  ASSUME SInv, NEW q \in Trees(Known), NEW negated \in BOOLEAN, FilterTree(q, negated)
  PROVE  SInv'
<1>1. Sound(node) /\ front \in {"rust", "python"} /\ node # PlanError
  BY SoundIsNode DEF SInv
<1>2. Known \in {AllLookups} \cup {RegisteredLookups(c) : c \in Customs}
  BY KnownNames
<1>3. ASSUME Tree(q) PROVE Tree(QTree("not", <<q>>))
  <2> DEFINE kids == <<q>>
  <2>1. IsList(kids) /\ Len(kids) = 1 /\ \A i \in 1..Len(kids) : Tree(kids[i])
    BY <1>3, TupleIsList
  <2> HIDE DEF kids
  <2>2. Tree(QTree("not", kids))
    BY <2>1, BranchTree
  <2> QED BY <2>2 DEF kids
<1> DEFINE p == IF negated THEN QTree("not", <<q>>) ELSE q
<1>4. Tree(q) => Tree(p)
  BY <1>3
<1>5. CASE front = "rust"
  <2>1. \A t \in Nodes(q) : t.kind # "leaf" => t.kids # <<>>
    BY <1>5 DEF FilterTree
  <2>2. \A t \in Nodes(q) : t.kind = "not" => t.kids # <<>>
    BY <2>1
  <2>3. Tree(p)
    BY <1>2, <1>4, <2>2, MenuTree
  <2>4. Built(RsFilter(node, [kind |-> "q", q |-> q], negated))
    BY <1>5 DEF FilterTree
  <2>5. RsFilter(node, [kind |-> "q", q |-> q], negated) = WithQ(node, p)
    BY DEF RsFilter
  <2>6. Sound(WithQ(node, p))
    BY <1>1, <2>3, WithQSound
  <2> QED BY <2>4, <2>5, <2>6, BuiltSInv
<1>6. CASE front = "python"
  <2>1. Built(PlanOp(node, [tag |-> "q_node", q |-> p])) /\ PlanOp(node, [tag |-> "q_node", q |-> p]) # PlanError
    BY <1>6 DEF FilterTree, Built
  <2> HIDE DEF p
  <2>2. PlanOp(node, [tag |-> "q_node", q |-> p]) = IF PyQ(p) = PlanError THEN PlanError ELSE WithQ(node, PyQ(p))
    BY <1>1 DEF PlanOp
  <2>3. PyQ(p) = p /\ \A t \in Nodes(p) : ~(t.kind = "not" /\ t.kids = <<>>)
    BY <2>1, <2>2 DEF PyQ
  <2>4. \A t \in Nodes(q) : t.kind = "not" => t.kids # <<>>
    <3>1. CASE ~negated
      BY <2>3, <3>1 DEF p
    <3>2. CASE negated
      <4> DEFINE S == Nodes(q) \cup {p}
      <4>1. IsNode(q) /\ \A t \in Nodes(q) : IsNode(t)
        BY <1>2, TreesAssumption
      <4>2. Forest(Nodes(q)) /\ q \in Nodes(q) /\ q.size \in Nat
        <5>1. q.size \in Nat
          BY <4>1, NodeSized DEF Sized
        <5> QED BY <4>1, <5>1, NodeSized, NodesAreForest
      <4>3. p.kids = <<q>> /\ p.kind = "not" /\ p = QTree(p.kind, p.kids)
        BY <3>2 DEF p, QTree
      <4>4. IsList(p.kids) /\ Len(p.kids) = 1 /\ p.kids[1] = q /\ DOMAIN p.kids = 1..1
        BY <4>3, TupleIsList, ListIs
      <4>5. IsNode(p)
        BY <4>2, <4>3, <4>4 DEF IsNode
      <4>6. Sized(p)
        BY <4>5, NodeSized
      <4>7. Forest(S) /\ p \in S
        BY <4>2, <4>4, <4>6 DEF Forest
      <4>8. Forest(Nodes(p)) /\ p \in Nodes(p)
        BY <4>7, NodesIn
      <4>9. q \in Nodes(p)
        BY <4>4, <4>8 DEF Forest
      <4>10. Nodes(q) \subseteq Nodes(p)
        BY <4>8, <4>9, NodesIn
      <4> QED BY <2>3, <4>10
    <3> QED BY <3>1, <3>2
  <2>5. Tree(p)
    BY <1>2, <1>4, <2>4, MenuTree DEF p
  <2>6. Sound(WithQ(node, p))
    BY <1>1, <2>5, WithQSound
  <2>7. PlanOp(node, [tag |-> "q_node", q |-> p]) = WithQ(node, p)
    BY <2>1, <2>2, <2>3
  <2> QED BY <2>1, <2>6, <2>7, BuiltSInv
<1> QED BY <1>1, <1>5, <1>6

LEMMA RouteSInv ==
  ASSUME SInv, NEW a \in DOMAIN AliasBackend, Route(a)
  PROVE  SInv'
<1>1. Sound(node) /\ front \in {"rust", "python"} /\ node # PlanError
  BY SoundIsNode DEF SInv
<1>2. "alias" \in NodeParts /\ "backend" \in NodeParts /\ "alias" \notin ListParts /\ "backend" \notin ListParts
  BY DEF NodeParts, ListParts
<1>3. IsQueryNode(node)
  BY <1>1 DEF Sound, IsQuery
<1>4. CASE front = "rust"
  <2> DEFINE m == [node EXCEPT !["alias"] = a]
  <2>1. Built(m)
    BY <1>2, <1>4 DEF Route, RsUsing, With
  <2>2. SameButFor(node, m, {"alias"})
    BY <1>2, <1>3, Replaced
  <2> HIDE DEF m
  <2>3. /\ IsQueryNode(m) /\ m.backend = node.backend /\ m.filters = node.filters
        /\ m.q = node.q /\ m.having = node.having /\ m.op = node.op
    BY <2>2, PartsOf
  <2>4. Sound(m)
    BY <1>1, <1>4, <2>3 DEF Sound, IsQuery, OnPool
  <2> QED BY <2>1, <2>4, BuiltSInv
<1>5. CASE front = "python"
  <2> DEFINE b == AliasBackend[a]
             n == [node EXCEPT !["backend"] = b]
             m == [n EXCEPT !["alias"] = a]
  <2>1. Built(PlanOp(node, [tag |-> "using", item |-> a]))
    BY <1>5 DEF Route
  <2>2. PlanOp(node, [tag |-> "using", item |-> a]) = With(With(node, "backend", b), "alias", a)
    BY <1>1 DEF PlanOp
  <2>3. With(With(node, "backend", b), "alias", a) = m
    BY <1>2 DEF With
  <2> HIDE DEF m, b
  <2>4. SameButFor(node, n, {"backend"}) /\ n["backend"] = b
    BY <1>2, <1>3, Replaced, Zenon
  <2> USE DEF m, b
  <2>5. IsQueryNode(n)
    BY <2>4 DEF SameButFor
  <2>6. SameButFor(n, m, {"alias"}) /\ m["alias"] = a
    <3> HIDE DEF n
    <3> QED BY <1>2, <2>5, Replaced
  <2> HIDE DEF m, n
  <2>7. /\ IsQueryNode(m) /\ m.backend = b /\ m.alias = a /\ m.filters = node.filters
        /\ m.q = node.q /\ m.having = node.having /\ m.op = node.op
    BY <2>4, <2>6, PartsOf
  <2>8. Pool(m) = a
    <3>1. a # ""
      BY PoolsAssumption, Zenon
    <3> QED BY <2>7, <3>1, Zenon DEF Pool
  <2>9. b \in Backends
    BY PoolsAssumption
  <2>10. OnPool(m)
    BY <1>5, <2>7, <2>8 DEF OnPool
  <2>11. Sound(m)
    BY <1>1, <2>7, <2>9, <2>10 DEF Sound, IsQuery
  <2> QED BY <2>1, <2>2, <2>3, <2>11, BuiltSInv
<1> QED BY <1>1, <1>4, <1>5

LEMMA SelectRelatedSound ==
  ASSUME NEW n, Sound(n), NEW names, NEW fields
  PROVE  Sound(SelectRelated(n, names, fields))
<1> DEFINE Made(js, xs, cols) == WithOp(WithAll(WithAll(n, "joins", js), "extra", xs), "select", cols)
<1>1. ASSUME NEW js, NEW xs, NEW cols PROVE Sound(Made(js, xs, cols))
  <2>1. Sound(WithAll(n, "joins", js))
    BY WithAllIs, HarmlessParts
  <2>2. Sound(WithAll(WithAll(n, "joins", js), "extra", xs))
    BY <2>1, WithAllIs, HarmlessParts
  <2> QED BY <2>2, WithOpSound
<1>2. \E js, xs, cols : SelectRelated(n, names, fields) = Made(js, xs, cols)
  BY DEF SelectRelated
<1> QED BY <1>1, <1>2

LEMMA RelatedSInv ==
  ASSUME SInv, NEW names, Related(names)
  PROVE  SInv'
<1>1. Built(SelectRelated(node, names, Fields))
  BY DEF Related
<1>2. Sound(SelectRelated(node, names, Fields))
  BY SelectRelatedSound DEF SInv
<1> QED BY <1>1, <1>2, BuiltSInv

LEMMA DistinctTags ==
  ASSUME NEW n, n # PlanError, NEW item
  PROVE  /\ PlanOp(n, [tag |-> "filters", items |-> <<item>>]) = WithAll(n, "filters", <<item>>)
         /\ PlanOp(n, [tag |-> "annotations", items |-> <<item>>]) = WithAll(n, "annotations", <<item>>)
         /\ PlanOp(n, [tag |-> "group_by", items |-> <<item>>]) = WithAll(n, "groupBy", <<item>>)
         /\ PlanOp(n, [tag |-> "order_by", items |-> <<item>>]) = WithAll(n, "orderBy", <<item>>)
         /\ PlanOp(n, [tag |-> "join", item |-> item]) = With(n, "joins", PyJoin(item))
BY DEF PlanOp

LEMMA NearestOp ==
  ASSUME NEW n, Sound(n), NEW tag \in {"nearest_neighbor", "order_by_distance"}, NEW item
  PROVE  PlanOp(n, [tag |-> tag, item |-> item]) = PlanError \/ Sound(PlanOp(n, [tag |-> tag, item |-> item]))
<1>1. n # PlanError
  BY SoundIsNode
<1>2. \E x : PlanOp(n, [tag |-> tag, item |-> item])
              = IF item.operator \in {"<->", "<=>", "<#>"} THEN With(n, "nearest", x) ELSE PlanError
  BY <1>1 DEF PlanOp
<1>3. \A x : Sound(With(n, "nearest", x))
  BY WithIs, HarmlessParts
<1> QED BY <1>2, <1>3

\* An op with an item whose tag is none of those above.
LEMMA ItemOp ==
  ASSUME NEW n, Sound(n), NEW tag, NEW item,
         tag \notin {"q_node", "using", "select_cols", "group_by", "order_by", "filters", "annotations"}
  PROVE  PlanOp(n, [tag |-> tag, item |-> item]) = PlanError \/ Sound(PlanOp(n, [tag |-> tag, item |-> item]))
<1> DEFINE m == PlanOp(n, [tag |-> tag, item |-> item])
<1>1. n # PlanError
  BY SoundIsNode
<1>2. CASE tag = "join"
  <2>1. m = With(n, "joins", PyJoin(item))
    BY <1>1, <1>2 DEF PlanOp
  <2> HIDE DEF m
  <2> QED BY <2>1, WithIs, HarmlessParts DEF m
<1>3. CASE tag = "extra_alias"
  <2>1. m = With(n, "extra", item)
    BY <1>1, <1>3 DEF PlanOp
  <2> HIDE DEF m
  <2> QED BY <2>1, WithIs, HarmlessParts DEF m
<1>4. CASE tag \in {"limit", "offset", "schema"}
  <2>1. m = With(n, tag, item)
    BY <1>1, <1>4 DEF PlanOp
  <2> HIDE DEF m
  <2>2. tag \in Harmless
    BY <1>4, HarmlessParts
  <2>3. Sound(m)
    BY <2>1, <2>2, WithIs
  <2> QED BY <2>3 DEF m
<1>5. CASE tag = "distinct"
  <2>1. m = IF item THEN With(n, "distinct", TRUE) ELSE n
    BY <1>1, <1>5 DEF PlanOp
  <2> HIDE DEF m
  <2>2. Sound(With(n, "distinct", TRUE))
    BY WithIs, HarmlessParts
  <2>3. Sound(m)
    BY <2>1, <2>2
  <2> QED BY <2>3 DEF m
<1>6. CASE tag \in {"nearest_neighbor", "order_by_distance"}
  BY <1>6, NearestOp
<1>7. CASE tag \notin {"join", "extra_alias", "limit", "offset", "schema", "distinct", "nearest_neighbor",
                       "order_by_distance"}
  <2>1. m = n
    BY <1>1, <1>7 DEF PlanOp
  <2> QED BY <2>1
<1> QED BY <1>2, <1>3, <1>4, <1>5, <1>6, <1>7

LEMMA ShapeSInv ==
  ASSUME SInv, NEW s \in Shapes, Shape(s)
  PROVE  SInv'
<1>1. Sound(node) /\ front \in {"rust", "python"} /\ node # PlanError
  BY SoundIsNode DEF SInv
<1>2. CASE front = "rust"
  <2>1. CASE s.part \in RustParts /\ Built(With(node, s.part, s.item))
    <3>1. s.part \in Harmless
      BY <2>1, HarmlessParts DEF RustParts
    <3>2. Sound(With(node, s.part, s.item))
      BY <1>1, <3>1, WithIs
    <3> QED BY <2>1, <3>2, BuiltSInv
  <2>2. CASE Built(RsNearest(node, s.item.field, s.item.operator, s.item.limit))
    <3>1. Sound(RsNearest(node, s.item.field, s.item.operator, s.item.limit))
      BY <1>1, WithIs, HarmlessParts DEF RsNearest
    <3> QED BY <2>2, <3>1, BuiltSInv
  <2> QED BY <1>2, <2>1, <2>2 DEF Shape
<1>3. CASE front = "python"
  <2> DEFINE part == s.part
             item == s.item
  <2>0. ASSUME NEW m, Built(m), m = PlanError \/ Sound(m) PROVE SInv'
    <3>1. m # PlanError
      BY <2>0 DEF Built
    <3> QED BY <2>0, <3>1, BuiltSInv
  <2>1. CASE part = "nearest"
    <3>1. \E tag \in {"nearest_neighbor", "order_by_distance"} : Built(PlanOp(node, [tag |-> tag, item |-> item]))
      BY <1>3, <2>1 DEF Shape
    <3> QED BY <3>1, <1>1, <2>0, NearestOp
  <2>2. CASE part \in {"orderBy", "groupBy", "annotations"}
    <3>1. \E name \in Harmless : Built(WithAll(node, name, <<item>>))
      <4>1. CASE part = "orderBy"
        <5>1. Built(PlanOp(node, [tag |-> "order_by", items |-> <<item>>]))
          BY <1>3, <4>1 DEF Shape
        <5>2. "orderBy" \in Harmless
          BY HarmlessParts
        <5> QED BY <1>1, <5>1, <5>2, DistinctTags
      <4>2. CASE part = "groupBy"
        <5>1. Built(PlanOp(node, [tag |-> "group_by", items |-> <<item>>]))
          BY <1>3, <4>2 DEF Shape
        <5>2. "groupBy" \in Harmless
          BY HarmlessParts
        <5> QED BY <1>1, <5>1, <5>2, DistinctTags
      <4>3. CASE part = "annotations"
        <5>1. Built(PlanOp(node, [tag |-> "annotations", items |-> <<item>>]))
          BY <1>3, <4>3 DEF Shape
        <5>2. "annotations" \in Harmless
          BY HarmlessParts
        <5> QED BY <1>1, <5>1, <5>2, DistinctTags
      <4> QED BY <2>2, <4>1, <4>2, <4>3
    <3> QED BY <3>1, <1>1, <2>0, WithAllIs
  <2>3. CASE part = "joins"
    <3>1. Built(PlanOp(node, [tag |-> "join", item |-> item]))
      BY <1>3, <2>3 DEF Shape
    <3>2. Built(With(node, "joins", PyJoin(item)))
      BY <1>1, <3>1, DistinctTags
    <3>3. Sound(With(node, "joins", PyJoin(item)))
      BY <1>1, WithIs, HarmlessParts
    <3> QED BY <3>2, <3>3, BuiltSInv
  <2>4. CASE part = "filters"
    <3>1. Built(PlanOp(node, [tag |-> part, items |-> <<item>>]))
      BY <1>3, <2>4 DEF Shape
    <3>2. Built(WithAll(node, "filters", <<item>>))
      BY <1>1, <2>4, <3>1, DistinctTags
    <3>3. Sound(WithAll(node, "filters", <<item>>))
      BY <1>1, <2>4, FiltersAre, ShapesAssumption
    <3> QED BY <3>2, <3>3, BuiltSInv
  <2>5. CASE part \notin {"nearest", "orderBy", "groupBy", "annotations", "joins", "filters"}
    <3>1. Built(PlanOp(node, [tag |-> part, item |-> item]))
      BY <1>3, <2>5 DEF Shape
    <3>2. part \notin {"q_node", "using", "select_cols", "group_by", "order_by", "filters", "annotations"}
      BY <2>5, ShapesAssumption
    <3> HIDE DEF part, item
    <3>3. PlanOp(node, [tag |-> part, item |-> item]) = PlanError \/ Sound(PlanOp(node, [tag |-> part, item |-> item]))
      BY <1>1, <3>2, ItemOp
    <3> QED BY <3>1, <3>3, <2>0
  <2> QED BY <2>1, <2>2, <2>3, <2>4, <2>5
<1> QED BY <1>1, <1>2, <1>3

LEMMA GetSound ==
  ASSUME NEW n, Sound(n), NEW name, NEW segs, IsList(segs), NEW value, IsValue(value)
  PROVE  LET first == ParseKey(name, segs, AllLookups).field
         IN Sound(RsFilter(n, [kind |-> "key", name |-> first.name, segs |-> first.segs, value |-> value], FALSE))
<1> DEFINE first == ParseKey(name, segs, AllLookups).field
           f == Keyed(first.name, first.segs, value, FALSE, AllLookups)
<1>1. IsList(first.segs)
  BY ParsedKey
<1> HIDE DEF first
<1>2. IsCondition(f)
  BY <1>1, KeyedIsCondition
<1>3. Sound(With(n, "filters", f))
  <2> HIDE DEF f
  <2> QED BY <1>2, FiltersAre
<1>4. RsFilter(n, [kind |-> "key", name |-> first.name, segs |-> first.segs, value |-> value], FALSE)
        = With(n, "filters", f)
  BY DEF RsFilter
<1> QED BY <1>3, <1>4 DEF first

LEMMA RsStatementSound ==
  ASSUME SInv, NEW r \in Requests, r.call \in RustCalls \ {"insert"}
  PROVE  Sound(RsStatement(node, r.call, r.args))
<1> DEFINE m == RsStatement(node, r.call, r.args)
<1>1. Sound(node)
  BY DEF SInv
<1>2. CASE r.call = "all"
  BY <1>1, <1>2 DEF RsStatement
<1>3. CASE r.call = "get"
  <2>1. IsList(r.args.segs) /\ IsValue(r.args.value)
    BY <1>3, RequestsAssumption
  <2>2. m = LET first == ParseKey(r.args.name, r.args.segs, AllLookups).field
            IN RsFilter(node, [kind |-> "key", name |-> first.name, segs |-> first.segs,
                               value |-> r.args.value], FALSE)
    BY <1>3 DEF RsStatement
  <2> HIDE DEF m
  <2> QED BY <1>1, <2>1, <2>2, GetSound DEF m
<1>4. CASE r.call = "first"
  <2>1. m = With(node, "limit", 1)
    BY <1>4 DEF RsStatement
  <2> HIDE DEF m
  <2> QED BY <1>1, <2>1, WithIs, HarmlessParts DEF m
<1>5. CASE r.call \in {"count", "delete"}
  <2>1. m = WithOp(node, r.call, <<>>)
    BY <1>5 DEF RsStatement
  <2> HIDE DEF m
  <2>2. Sound(m)
    BY <1>1, <1>5, <2>1, WithOpSound
  <2> QED BY <2>2 DEF m
<1>6. CASE r.call = "update"
  <2>1. m = WithOp(node, "update", r.args.assigns) /\ IsList(r.args.assigns)
    BY <1>6, RequestsAssumption DEF RsStatement
  <2> HIDE DEF m
  <2> QED BY <1>1, <2>1, WithOpSound DEF m
<1>7. CASE r.call \in {"aggregate", "annotate"}
  <2>1. \E kind \in {"aggregate", "select"} : m = WithAll(WithOp(node, kind, <<>>), "annotations", r.args.aggs)
    BY <1>7 DEF RsStatement
  <2> HIDE DEF m
  <2>2. \A kind \in {"aggregate", "select"} : Sound(WithOp(node, kind, <<>>))
    BY <1>1, WithOpSound
  <2>3. Sound(m)
    BY <2>1, <2>2, WithAllIs, HarmlessParts
  <2> QED BY <2>3 DEF m
<1>8. CASE r.call = "values"
  <2>1. m = WithOp(node, "select", r.args.cols)
    BY <1>8 DEF RsStatement
  <2> HIDE DEF m
  <2> QED BY <1>1, <2>1, WithOpSound DEF m
<1> QED BY <1>2, <1>3, <1>4, <1>5, <1>6, <1>7, <1>8 DEF RustCalls

LEMMA PyStatementSound ==
  ASSUME SInv, NEW r \in Requests, r.call \in PythonCalls
  PROVE  Sound(PyStatement(node, r.call, r.args))
<1> DEFINE m == PyStatement(node, r.call, r.args)
<1>1. Sound(node)
  BY DEF SInv
<1>2. CASE r.call = "all"
  BY <1>1, <1>2 DEF PyStatement
<1>3. CASE r.call = "first"
  <2>1. m = With(node, "limit", 1)
    BY <1>3 DEF PyStatement
  <2> HIDE DEF m
  <2> QED BY <1>1, <2>1, WithIs, HarmlessParts DEF m
<1>4. CASE r.call \in {"count", "aggregate", "delete"}
  <2>1. m = WithOp(node, r.call, <<>>)
    BY <1>4 DEF PyStatement
  <2> HIDE DEF m
  <2>2. Sound(m)
    BY <1>1, <1>4, <2>1, WithOpSound
  <2> QED BY <2>2 DEF m
<1>5. CASE r.call = "update"
  <2>1. m = WithOp(node, "update", r.args.assigns) /\ IsList(r.args.assigns)
    BY <1>5, RequestsAssumption DEF PyStatement
  <2> HIDE DEF m
  <2> QED BY <1>1, <2>1, WithOpSound DEF m
<1>6. CASE r.call = "insert"
  <2> DEFINE op == [kind |-> "insert", cols |-> r.args.assigns, returning |-> r.args.returning]
  <2>1. m = [node EXCEPT !.op = op] /\ IsList(r.args.assigns)
    BY <1>6, RequestsAssumption DEF PyStatement
  <2>2. IsOp(op)
    BY <2>1 DEF IsOp
  <2> HIDE DEF m, op
  <2> QED BY <1>1, <2>1, <2>2, OpSound DEF m
<1> QED BY <1>2, <1>3, <1>4, <1>5, <1>6 DEF PythonCalls

LEMMA RsInsertSound ==
  ASSUME NEW table, NEW schema, NEW assigns, IsList(assigns), front = "rust"
  PROVE  Sound(RsInsert(table, schema, assigns))
<1> DEFINE n == [SelectNode(table) EXCEPT !.backend = AliasBackend["default"]]
           m == [n EXCEPT !["schema"] = schema]
           op == [kind |-> "insert", cols |-> assigns, returning |-> TRUE]
<1>1. Sound(n)
  BY NewQueries, PoolsAssumption
<1>2. Sound(m)
  <2> HIDE DEF n
  <2> QED BY <1>1, PartSound, HarmlessParts
<1>3. Sound([m EXCEPT !.op = op])
  <2>1. IsOp(op)
    BY DEF IsOp
  <2> HIDE DEF m, op
  <2> QED BY <1>2, <2>1, OpSound
<1>4. RsInsert(table, schema, assigns) = [m EXCEPT !.op = op]
  BY DEF RsInsert
<1> QED BY <1>3, <1>4

LEMMA AskSInv ==
  ASSUME SInv, NEW r \in Requests, Ask(r)
  PROVE  SInv'
<1>1. /\ Sound(node) /\ front' = front /\ node' = node /\ custom' = custom /\ front \in {"rust", "python"}
      /\ r.call \in (IF front = "rust" THEN RustCalls ELSE PythonCalls)
  BY DEF SInv, Ask
<1>2. \E m : Sound(m) /\ stmt' = m
  <2>1. CASE front = "rust" /\ r.call = "insert"
    <3>1. stmt' = RsInsert(Table, node.schema, r.args.assigns)
      BY <2>1 DEF Ask
    <3>2. IsList(r.args.assigns)
      BY <2>1, RequestsAssumption
    <3> QED BY <2>1, <3>1, <3>2, RsInsertSound
  <2>2. CASE front = "rust" /\ r.call # "insert"
    <3>1. stmt' = RsStatement(node, r.call, r.args)
      BY <2>2 DEF Ask
    <3> QED BY <1>1, <2>2, <3>1, RsStatementSound
  <2>3. CASE front = "python"
    <3>1. stmt' = PyStatement(node, r.call, r.args)
      BY <2>3 DEF Ask
    <3> QED BY <1>1, <2>3, <3>1, PyStatementSound
  <2> QED BY <1>1, <2>1, <2>2, <2>3
<1>3. PICK m : Sound(m) /\ stmt' = m
  BY <1>2
<1>4. Sound(node)'
  <2>1. OnPool(node)'
    BY <1>1 DEF Sound, OnPool
  <2> QED BY <1>1, <2>1 DEF Sound
<1>5. Sound(stmt)'
  <2>1. OnPool(m)
    BY <1>3 DEF Sound
  <2>2. OnPool(stmt)'
    BY <1>1, <1>3, <2>1 DEF OnPool
  <2> QED BY <1>3, <2>2 DEF Sound
<1> QED BY <1>1, <1>4, <1>5 DEF SInv

LEMMA NextSInv == SInv /\ [SessionNext]_sessionVars => SInv'
<1> SUFFICES ASSUME SInv, [SessionNext]_sessionVars PROVE SInv'
  OBVIOUS
<1>1. ASSUME NEW k \in Keys, NEW negated \in BOOLEAN, Filter(k, negated) PROVE SInv'
  BY <1>1, FilterSInv
<1>2. ASSUME NEW q \in Trees(Known), NEW negated \in BOOLEAN, FilterTree(q, negated) PROVE SInv'
  BY <1>2, FilterTreeSInv
<1>3. ASSUME NEW a \in DOMAIN AliasBackend, Route(a) PROVE SInv'
  BY <1>3, RouteSInv
<1>4. ASSUME NEW names, Related(names) PROVE SInv'
  BY <1>4, RelatedSInv
<1>5. ASSUME NEW s \in Shapes, Shape(s) PROVE SInv'
  BY <1>5, ShapeSInv
<1>6. ASSUME NEW r \in Requests, Ask(r) PROVE SInv'
  BY <1>6, AskSInv
<1>7. CASE UNCHANGED sessionVars
  <2>1. front' = front /\ node' = node /\ custom' = custom /\ stmt' = stmt
    BY <1>7 DEF sessionVars
  <2>2. ASSUME Sound(node) PROVE Sound(node)'
    BY <2>1, <2>2 DEF Sound, OnPool
  <2>3. ASSUME Sound(stmt) PROVE Sound(stmt)'
    BY <2>1, <2>3 DEF Sound, OnPool
  <2> QED BY <2>1, <2>2, <2>3 DEF SInv
<1> QED BY <1>1, <1>2, <1>3, <1>4, <1>5, <1>6, <1>7 DEF SessionNext

\* Every state of a session satisfies the invariant: whatever the calls on a query set, what
\* it holds and what it asks for is a query with conditions that parsed, a tree that Q built
\* and the backend of the pool it runs on.
THEOREM SessionInvariant == SessionSpec => []SInv
<1> QED BY InitSInv, NextSInv, PTL DEF SessionSpec

\* The Python binding compiles every statement for the backend of the pool that
\* will run it; the Rust query set does unless using() named a pool.
THEOREM StatementsFitPools == SessionSpec => []CompiledForPool
<1>1. SInv => CompiledForPool
  <2> SUFFICES ASSUME SInv, Asked PROVE LET pool == IF stmt.alias = "" THEN "default" ELSE stmt.alias
                                        IN stmt.backend = AliasBackend[pool] \/ (front = "rust" /\ stmt.alias # "")
    BY Zenon DEF CompiledForPool
  <2> DEFINE pool == IF stmt.alias = "" THEN "default" ELSE stmt.alias
  <2>1. OnPool(stmt) /\ front \in {"rust", "python"}
    BY DEF SInv, Asked, Sound
  <2>2. Pool(stmt) = pool
    BY Zenon DEF Pool
  <2>3. CASE front = "python"
    <3>1. stmt.backend = AliasBackend[Pool(stmt)]
      BY <2>1, <2>3 DEF OnPool
    <3> QED BY <3>1, <2>2, Zenon
  <2>4. CASE front = "rust"
    <3>1. stmt.backend = AliasBackend["default"]
      BY <2>1, <2>4 DEF OnPool
    <3> QED BY <3>1, <2>4, Zenon
  <2> QED BY <2>1, <2>3, <2>4
<1> QED BY <1>1, SessionInvariant, PTL

-----------------------------------------------------------------------------
(* Placeholders and values.  Terms and chains first.                       *)

Grown(t) == \E S : t \in S /\ Forest(S)

IsTerm(t) ==
  /\ t = [link |-> t.link, kind |-> t.kind, frag |-> t.frag, not |-> t.not, kids |-> t.kids,
          size |-> t.size, holes |-> t.holes]
  /\ t.kind \in {"atom", "never", "group"} /\ t.holes \in Nat /\ Grown(t)

Chain(c) == IsList(c) /\ \A i \in 1..Len(c) : IsTerm(c[i])

LEMMA GrownFrom ==
  ASSUME NEW t, Sized(t), \A i \in 1..Len(t.kids) : Grown(t.kids[i])
  PROVE  Grown(t)
<1> DEFINE T(i) == CHOOSE S : t.kids[i] \in S /\ Forest(S)
           S == {t} \cup UNION {T(i) : i \in 1..Len(t.kids)}
<1>1. \A i \in 1..Len(t.kids) : t.kids[i] \in T(i) /\ Forest(T(i))
  BY DEF Grown
<1> HIDE DEF T
<1>2. ASSUME NEW u \in S PROVE Sized(u) /\ \A j \in 1..Len(u.kids) : u.kids[j] \in S
  <2>1. CASE u = t
    BY <2>1, <1>1
  <2>2. CASE u # t
    <3>1. PICK i \in 1..Len(t.kids) : u \in T(i)
      BY <2>2
    <3>2. Sized(u) /\ \A j \in 1..Len(u.kids) : u.kids[j] \in T(i)
      BY <1>1, <3>1 DEF Forest
    <3> QED BY <3>2
  <2> QED BY <2>1, <2>2
<1>3. Forest(S) /\ t \in S
  BY <1>2 DEF Forest
<1> QED BY <1>3 DEF Grown

LEMMA GrownIs ==
  ASSUME NEW t, Grown(t)
  PROVE  Sized(t) /\ t.size \in Nat /\ IsList(t.kids) /\ \A i \in 1..Len(t.kids) : Grown(t.kids[i])
<1>1. PICK S : t \in S /\ Forest(S)
  BY DEF Grown
<1> QED BY <1>1 DEF Forest, Grown, Sized

LEMMA AtomIsTerm ==
  ASSUME NEW frag, frag.holes \in Nat
  PROVE  LET t == Term(frag) IN /\ IsTerm(t) /\ t.kind = "atom" /\ t.frag = frag /\ t.holes = frag.holes
                                /\ t.kids = <<>>
<1> DEFINE t == Term(frag)
<1>1. /\ t = [link |-> t.link, kind |-> t.kind, frag |-> t.frag, not |-> t.not, kids |-> t.kids,
              size |-> t.size, holes |-> t.holes]
      /\ t.kind = "atom" /\ t.frag = frag /\ t.holes = frag.holes /\ t.kids = <<>> /\ t.size = 0
  BY DEF Term, TermOf
<1> HIDE DEF t
<1>2. Sized(t) /\ Len(t.kids) = 0
  BY <1>1, NoElements DEF Sized
<1>3. Grown(t)
  BY <1>2, GrownFrom
<1>4. IsTerm(t)
  BY <1>1, <1>3 DEF IsTerm
<1> QED BY <1>1, <1>4 DEF t

NeverTerm == TermOf("never", Failure("none"), FALSE, <<>>, 0, 0)

LEMMA NeverIsTerm == IsTerm(NeverTerm) /\ NeverTerm.kind = "never" /\ NeverTerm.holes = 0 /\ NeverTerm.kids = <<>>
<1> DEFINE t == NeverTerm
<1>1. /\ t = [link |-> t.link, kind |-> t.kind, frag |-> t.frag, not |-> t.not, kids |-> t.kids,
              size |-> t.size, holes |-> t.holes]
      /\ t.kind = "never" /\ t.holes = 0 /\ t.kids = <<>> /\ t.size = 0
  BY DEF NeverTerm, TermOf
<1> HIDE DEF t
<1>2. Sized(t) /\ Len(t.kids) = 0
  BY <1>1, NoElements DEF Sized
<1>3. Grown(t)
  BY <1>2, GrownFrom
<1>4. IsTerm(t)
  BY <1>1, <1>3 DEF IsTerm
<1> QED BY <1>1, <1>4 DEF t

LEMMA HolesNat ==
  ASSUME NEW c, Chain(c)
  PROVE  [i \in DOMAIN c |-> c[i].holes] \in Seq(Nat) /\ Len([i \in DOMAIN c |-> c[i].holes]) = Len(c) /\ Holes(c) \in Nat
<1> DEFINE s == [i \in DOMAIN c |-> c[i].holes]
<1>1. DOMAIN c = 1..Len(c) /\ Len(c) \in Nat /\ \A i \in 1..Len(c) : c[i].holes \in Nat
  BY ListIs DEF Chain, IsTerm
<1>2. s \in [1..Len(c) -> Nat]
  BY <1>1
<1>3. s \in Seq(Nat) /\ Len(s) = Len(c)
  BY <1>1, <1>2
<1> HIDE DEF s
<1>4. Total(s) \in Nat
  BY <1>3, TotalNat
<1> QED BY <1>3, <1>4 DEF s, Holes

LEMMA GroupIsTerm ==
  ASSUME NEW c, Chain(c), NEW neg
  PROVE  LET t == Group(c, neg) IN /\ IsTerm(t) /\ t.kind = "group" /\ t.not = neg /\ t.holes = Holes(c)
                                   /\ t.kids = c
<1> DEFINE t == Group(c, neg)
           s == [i \in DOMAIN c |-> c[i].size]
<1>1. /\ t = [link |-> t.link, kind |-> t.kind, frag |-> t.frag, not |-> t.not, kids |-> t.kids,
              size |-> t.size, holes |-> t.holes]
      /\ t.kind = "group" /\ t.not = neg /\ t.holes = Holes(c) /\ t.kids = c /\ t.size = Above(c)
  BY DEF Group, TermOf
<1> HIDE DEF t
<1>2. IsList(c) /\ DOMAIN c = 1..Len(c) /\ Len(c) \in Nat
  BY ListIs DEF Chain
<1>3. ASSUME NEW i \in 1..Len(c) PROVE Grown(c[i]) /\ c[i].size \in Nat
  BY <1>3, GrownIs DEF Chain, IsTerm
<1>4. s \in Seq(Nat) /\ Len(s) = Len(c)
  BY <1>2, <1>3
<1>5. \A i \in 1..Len(c) : s[i] = c[i].size
  BY <1>2
<1>6. Above(c) = 1 + Total(s)
  BY DEF Above
<1> HIDE DEF s
<1>7. Total(s) \in Nat /\ \A i \in 1..Len(c) : s[i] <= Total(s)
  BY <1>4, TotalNat, TotalBounds
<1>8. \A i \in 1..Len(c) : c[i].size \in Nat /\ c[i].size < t.size
  BY <1>1, <1>3, <1>5, <1>6, <1>7
<1>9. t.size \in Nat
  BY <1>1, <1>6, <1>7
<1>10. Sized(t)
  BY <1>1, <1>2, <1>8, <1>9 DEF Sized
<1>11. Grown(t)
  BY <1>1, <1>3, <1>10, GrownFrom
<1>12. t.holes \in Nat
  BY <1>1, HolesNat
<1>13. IsTerm(t)
  BY <1>1, <1>11, <1>12 DEF IsTerm
<1> QED BY <1>1, <1>13 DEF t

LEMMA LinkIsTerm ==
  ASSUME NEW t, IsTerm(t), NEW l
  PROVE  LET u == [t EXCEPT !.link = l]
         IN IsTerm(u) /\ u.link = l /\ u.kind = t.kind /\ u.frag = t.frag /\ u.not = t.not /\ u.kids = t.kids
            /\ u.holes = t.holes
<1> DEFINE u == [t EXCEPT !.link = l]
<1>1. /\ u = [link |-> u.link, kind |-> u.kind, frag |-> u.frag, not |-> u.not, kids |-> u.kids,
              size |-> u.size, holes |-> u.holes]
      /\ u.link = l /\ u.kind = t.kind /\ u.frag = t.frag /\ u.not = t.not /\ u.kids = t.kids
      /\ u.holes = t.holes /\ u.size = t.size
  BY DEF IsTerm
<1> HIDE DEF u
<1>2. Sized(t) /\ \A i \in 1..Len(t.kids) : Grown(t.kids[i])
  BY GrownIs DEF IsTerm
<1>3. Sized(u)
  BY <1>1, <1>2 DEF Sized
<1>4. Grown(u)
  BY <1>1, <1>2, <1>3, GrownFrom
<1>5. IsTerm(u)
  BY <1>1, <1>4 DEF IsTerm
<1> QED BY <1>1, <1>5 DEF u

LEMMA OneTerm ==
  ASSUME NEW t, IsTerm(t)
  PROVE  Chain(<<t>>) /\ Holes(<<t>>) = t.holes
<1> DEFINE c == <<t>>
<1>1. IsList(c) /\ Len(c) = 1 /\ c[1] = t
  BY TupleIsList
<1>2. Chain(c)
  BY <1>1 DEF Chain
<1>3. [i \in DOMAIN c |-> c[i].holes] = <<t.holes>>
  OBVIOUS
<1>4. Total(<<t.holes>>) = t.holes
  BY TotalOne DEF IsTerm
<1>5. Holes(c) = t.holes
  BY <1>3, <1>4 DEF Holes
<1> QED BY <1>2, <1>5

LEMMA NoTerms == Chain(<<>>) /\ Holes(<<>>) = 0
<1>1. [i \in DOMAIN <<>> |-> <<>>[i].holes] = <<>>
  OBVIOUS
<1> QED BY <1>1, NoElements, TotalEmpty DEF Chain, Holes

\* Two sums make the sum of the whole.
LEMMA TotalOfParts ==
  ASSUME NEW a \in Seq(Nat), NEW b \in Seq(Nat), NEW r \in Seq(Nat), Len(r) = Len(a) + Len(b),
         \A i \in 1..Len(a) : r[i] = a[i], \A i \in 1..Len(b) : r[Len(a) + i] = b[i]
  PROVE  Total(r) = Total(a) + Total(b)
<1> DEFINE u == a \o b
<1>1. u \in Seq(Nat) /\ Len(u) = Len(a) + Len(b) /\ Len(a) \in Nat /\ Len(b) \in Nat
      /\ (\A i \in 1..Len(a) : u[i] = a[i]) /\ (\A i \in 1..Len(b) : u[Len(a) + i] = b[i])
  OBVIOUS
<1>2. Total(u) = Total(a) + Total(b)
  BY TotalJoin
<1> HIDE DEF u
<1>3. ASSUME NEW i \in 1..Len(r) PROVE r[i] = u[i]
  <2>1. CASE i \in 1..Len(a)
    BY <2>1, <1>1
  <2>2. CASE i \notin 1..Len(a)
    <3>1. i - Len(a) \in 1..Len(b) /\ Len(a) + (i - Len(a)) = i
      BY <2>2, <1>1
    <3>2. r[i] = b[i - Len(a)] /\ u[i] = b[i - Len(a)]
      BY <3>1, <1>1
    <3> QED BY <3>2
  <2> QED BY <2>1, <2>2
<1>4. r = u
  BY <1>1, <1>3, SeqIsList, SameList
<1> QED BY <1>2, <1>4

LEMMA ChainJoin ==
  ASSUME NEW c, Chain(c), NEW d, Chain(d)
  PROVE  Chain(c \o d) /\ Holes(c \o d) = Holes(c) + Holes(d)
<1> DEFINE r == c \o d
<1>1. IsList(c) /\ IsList(d) /\ Len(c) \in Nat /\ Len(d) \in Nat
  BY ListIs DEF Chain
<1>2. IsList(r) /\ Len(r) = Len(c) + Len(d)
  BY <1>1, JoinLists
<1>3. (\A i \in 1..Len(c) : r[i] = c[i]) /\ (\A i \in 1..Len(d) : r[Len(c) + i] = d[i])
  BY <1>1, JoinLists
<1> HIDE DEF r
<1>4. ASSUME NEW i \in 1..Len(r) PROVE IsTerm(r[i])
  <2>1. CASE i \in 1..Len(c)
    BY <2>1, <1>3 DEF Chain
  <2>2. CASE i \notin 1..Len(c)
    <3>1. i - Len(c) \in 1..Len(d) /\ Len(c) + (i - Len(c)) = i
      BY <2>2, <1>1, <1>2
    <3> QED BY <3>1, <1>3 DEF Chain
  <2> QED BY <2>1, <2>2
<1>5. Chain(r)
  BY <1>2, <1>4 DEF Chain
<1> DEFINE x == [i \in DOMAIN c |-> c[i].holes]
           y == [i \in DOMAIN d |-> d[i].holes]
           z == [i \in DOMAIN r |-> r[i].holes]
<1>6. x \in Seq(Nat) /\ y \in Seq(Nat) /\ z \in Seq(Nat) /\ Len(x) = Len(c) /\ Len(y) = Len(d) /\ Len(z) = Len(r)
  BY <1>5, HolesNat
<1>7. /\ \A i \in 1..Len(x) : z[i] = x[i]
      /\ \A i \in 1..Len(y) : z[Len(x) + i] = y[i]
  <2>1. DOMAIN c = 1..Len(c) /\ DOMAIN d = 1..Len(d) /\ DOMAIN r = 1..Len(r)
    BY <1>1, <1>2, ListIs
  <2>2. \A i \in 1..Len(x) : z[i] = x[i]
    BY <1>1, <1>2, <1>3, <1>6, <2>1
  <2>3. \A i \in 1..Len(y) : z[Len(x) + i] = y[i]
    <3>1. \A i \in 1..Len(d) : Len(c) + i \in 1..Len(r)
      BY <1>1, <1>2
    <3> QED BY <1>3, <1>6, <2>1, <3>1
  <2> QED BY <2>2, <2>3
<1>8. Total(z) = Total(x) + Total(y)
  <2> HIDE DEF x, y, z
  <2>1. Len(z) = Len(x) + Len(y)
    BY <1>2, <1>6
  <2> QED BY <1>6, <1>7, <2>1, TotalOfParts
<1> QED BY <1>5, <1>8 DEF r, Holes

LEMMA LinkedChain ==
  ASSUME NEW c, Chain(c), c # <<>>, NEW l
  PROVE  LET d == [c EXCEPT ![1].link = l]
         IN /\ Chain(d) /\ Holes(d) = Holes(c) /\ Len(d) = Len(c) /\ d[1] = [c[1] EXCEPT !.link = l]
            /\ \A i \in 2..Len(c) : d[i] = c[i]
<1> DEFINE t == [c[1] EXCEPT !.link = l]
           d == [c EXCEPT ![1].link = l]
           e == [i \in 1..Len(c) |-> IF i = 1 THEN t ELSE c[i]]
<1>1. IsList(c) /\ Len(c) \in Nat /\ DOMAIN c = 1..Len(c) /\ c = [i \in 1..Len(c) |-> c[i]] /\ Len(c) # 0
  BY ListIs, NoLength DEF Chain
<1>2. d = e
  BY <1>1
<1>3. IsTerm(c[1])
  BY <1>1 DEF Chain
<1>4. IsTerm(t) /\ t.holes = c[1].holes
  BY <1>3, LinkIsTerm
<1> HIDE DEF t
<1>5. IsList(e) /\ Len(e) = Len(c) /\ DOMAIN e = 1..Len(c)
  BY <1>1, FunctionIsList
<1>6. e[1] = t /\ \A i \in 2..Len(c) : e[i] = c[i]
  BY <1>1
<1>7. \A i \in 1..Len(c) : IsTerm(e[i]) /\ e[i].holes = c[i].holes
  BY <1>1, <1>4 DEF Chain
<1> HIDE DEF e
<1>8. Chain(e)
  BY <1>5, <1>7 DEF Chain
<1>9. [i \in DOMAIN e |-> e[i].holes] = [i \in DOMAIN c |-> c[i].holes]
  BY <1>1, <1>5, <1>7
<1>10. Holes(e) = Holes(c)
  BY <1>9 DEF Holes
<1> QED BY <1>2, <1>5, <1>6, <1>8, <1>10 DEF t

Weights(s) == [i \in DOMAIN s |-> IF s[i].type = "List" THEN 0 ELSE 1]

LEMMA WeightsAre ==
  ASSUME NEW s, IsList(s)
  PROVE  Weights(s) \in Seq(Nat) /\ Len(Weights(s)) = Len(s) /\ DOMAIN s = 1..Len(s)
         /\ Bound(s) = Total(Weights(s)) /\ Bound(s) \in Nat
<1>1. DOMAIN s = 1..Len(s) /\ Len(s) \in Nat
  BY ListIs
<1>2. Weights(s) \in [1..Len(s) -> Nat]
  BY <1>1 DEF Weights
<1>3. Weights(s) \in Seq(Nat) /\ Len(Weights(s)) = Len(s)
  BY <1>1, <1>2
<1>4. Bound(s) = Total(Weights(s))
  BY DEF Bound, Weights
<1> QED BY <1>1, <1>3, <1>4, TotalNat

LEMMA BoundJoin ==
  ASSUME NEW s, IsList(s), NEW t, IsList(t)
  PROVE  Bound(s \o t) = Bound(s) + Bound(t)
<1> DEFINE r == s \o t
           x == Weights(s)
           y == Weights(t)
           z == Weights(r)
<1>1. Len(s) \in Nat /\ Len(t) \in Nat
  BY ListIs
<1>2. IsList(r) /\ Len(r) = Len(s) + Len(t)
  BY JoinLists
<1>3. (\A i \in 1..Len(s) : r[i] = s[i]) /\ (\A i \in 1..Len(t) : r[Len(s) + i] = t[i])
  BY JoinLists
<1> HIDE DEF r
<1>4. x \in Seq(Nat) /\ y \in Seq(Nat) /\ z \in Seq(Nat) /\ Len(x) = Len(s) /\ Len(y) = Len(t) /\ Len(z) = Len(r)
  BY <1>2, WeightsAre
<1>5. DOMAIN s = 1..Len(s) /\ DOMAIN t = 1..Len(t) /\ DOMAIN r = 1..Len(r)
  BY <1>2, ListIs
<1>6. \A i \in 1..Len(x) : z[i] = x[i]
  BY <1>1, <1>2, <1>3, <1>4, <1>5 DEF Weights
<1>7. \A i \in 1..Len(y) : z[Len(x) + i] = y[i]
  <2>1. \A i \in 1..Len(t) : Len(s) + i \in 1..Len(r)
    BY <1>1, <1>2
  <2> QED BY <1>3, <1>4, <1>5, <2>1 DEF Weights
<1>8. Total(z) = Total(x) + Total(y)
  <2>1. Len(z) = Len(x) + Len(y)
    BY <1>2, <1>4
  <2> HIDE DEF x, y, z
  <2> QED BY <1>4, <1>6, <1>7, <2>1, TotalOfParts
<1> QED BY <1>2, <1>8, WeightsAre DEF r

LEMMA BoundEmpty == Bound(<<>>) = 0
<1>1. [i \in DOMAIN <<>> |-> IF <<>>[i].type = "List" THEN 0 ELSE 1] = <<>>
  OBVIOUS
<1> QED BY <1>1, TotalEmpty DEF Bound

LEMMA BoundOne == ASSUME NEW v PROVE Bound(<<v>>) = IF v.type = "List" THEN 0 ELSE 1
<1> DEFINE w == IF v.type = "List" THEN 0 ELSE 1
<1>1. [i \in DOMAIN <<v>> |-> IF <<v>>[i].type = "List" THEN 0 ELSE 1] = <<w>>
  OBVIOUS
<1>2. Total(<<w>>) = w
  BY TotalOne
<1> QED BY <1>1, <1>2 DEF Bound

-----------------------------------------------------------------------------
(* Chains written one after another.                                       *)

Linked(chains, link, i) ==
  IF i = 1 \/ chains[i] = <<>> THEN chains[i] ELSE [chains[i] EXCEPT ![1].link = link]

LEMMA LinkedIs ==
  ASSUME NEW cs, NEW link, NEW i \in 1..Len(cs), Chain(cs[i])
  PROVE  Chain(Linked(cs, link, i)) /\ Holes(Linked(cs, link, i)) = Holes(cs[i])
         /\ Len(Linked(cs, link, i)) = Len(cs[i])
<1>1. CASE i = 1 \/ cs[i] = <<>>
  BY <1>1 DEF Linked
<1>2. CASE ~(i = 1 \/ cs[i] = <<>>)
  <2> DEFINE c == cs[i]
  <2>1. Linked(cs, link, i) = [c EXCEPT ![1].link = link]
    BY <1>2 DEF Linked
  <2>2. Chain(c) /\ c # <<>>
    BY <1>2
  <2> HIDE DEF c
  <2> DEFINE d == [c EXCEPT ![1].link = link]
  <2>3. Chain(d) /\ Holes(d) = Holes(c) /\ Len(d) = Len(c)
    BY <2>2, LinkedChain
  <2> HIDE DEF d
  <2>4. Linked(cs, link, i) = d
    BY <2>1 DEF d
  <2> QED BY <2>3, <2>4 DEF c
<1> QED BY <1>1, <1>2

LinkedAll(cs, link) == [i \in DOMAIN cs |-> Linked(cs, link, i)]

LEMMA SeparatedIs ==
  ASSUME NEW cs, IsList(cs), NEW link, \A i \in 1..Len(cs) : Chain(cs[i])
  PROVE  /\ Separated(cs, link) = FlattenSeq(LinkedAll(cs, link))
         /\ IsList(LinkedAll(cs, link)) /\ Len(LinkedAll(cs, link)) = Len(cs)
         /\ \A i \in 1..Len(cs) : LinkedAll(cs, link)[i] = Linked(cs, link, i) /\ Chain(LinkedAll(cs, link)[i])
<1>1. Separated(cs, link) = FlattenSeq(LinkedAll(cs, link))
  BY DEF Separated, LinkedAll, Linked
<1>2. DOMAIN cs = 1..Len(cs) /\ Len(cs) \in Nat
  BY ListIs
<1>3. IsList(LinkedAll(cs, link)) /\ Len(LinkedAll(cs, link)) = Len(cs)
  <2> DEFINE g == LinkedAll(cs, link)
  <2>1. g = [i \in 1..Len(cs) |-> g[i]]
    BY <1>2 DEF LinkedAll
  <2> HIDE DEF g
  <2>2. IsList(g) /\ Len(g) = Len(cs)
    BY <1>2, <2>1, FunctionIsList
  <2> QED BY <2>2 DEF g
<1>4. \A i \in 1..Len(cs) : LinkedAll(cs, link)[i] = Linked(cs, link, i)
  BY <1>2 DEF LinkedAll
<1>5. \A i \in 1..Len(cs) : Chain(Linked(cs, link, i))
  BY LinkedIs
<1> QED BY <1>1, <1>3, <1>4, <1>5

\* Where every part has as many "?" as values, the whole has.
LEMMA SeparatedBalance ==
  ASSUME NEW cs, IsList(cs), NEW link, \A i \in 1..Len(cs) : Chain(cs[i]),
         NEW vs, IsList(vs), Len(vs) = Len(cs), \A i \in 1..Len(vs) : IsList(vs[i])
  PROVE  /\ Chain(Separated(cs, link)) /\ IsList(FlattenSeq(vs))
         /\ (\A i \in 1..Len(cs) : Holes(cs[i]) = Bound(vs[i])) => Holes(Separated(cs, link)) = Bound(FlattenSeq(vs))
<1> DEFINE ls == LinkedAll(cs, link)
<1>1. Separated(cs, link) = FlattenSeq(ls) /\ IsList(ls) /\ Len(ls) = Len(cs)
      /\ \A i \in 1..Len(cs) : ls[i] = Linked(cs, link, i) /\ Chain(ls[i])
  BY SeparatedIs
<1>2. \A i \in 1..Len(cs) : Holes(ls[i]) = Holes(cs[i])
  BY <1>1, LinkedIs
<1> HIDE DEF ls
<1>3. \A i \in 1..Len(ls) : IsList(ls[i])
  BY <1>1 DEF Chain
<1>4. PICK f : Joins(f, ls) /\ FlattenSeq(ls) = f[Len(ls)]
  BY <1>1, <1>3, Flat
<1>5. PICK g : Joins(g, vs) /\ FlattenSeq(vs) = g[Len(vs)]
  BY Flat
<1>6. Len(cs) \in Nat
  BY ListIs
<1> DEFINE Balanced == \A i \in 1..Len(cs) : Holes(cs[i]) = Bound(vs[i])
           Right(n) == Chain(f[n]) /\ IsList(g[n]) /\ (Balanced => Holes(f[n]) = Bound(g[n]))
           S == {n \in 0..Len(cs) : Right(n)}
<1>7. 0 \in S
  <2>1. f[0] = <<>> /\ g[0] = <<>>
    BY <1>4, <1>5 DEF Joins
  <2> QED BY <1>6, <2>1, NoTerms, NoElements, BoundEmpty
<1>8. ASSUME NEW n \in 0..(Len(cs) - 1), n \in S PROVE n + 1 \in S
  <2>1. n + 1 \in 1..Len(cs) /\ (n + 1) - 1 = n /\ n + 1 \in 0..Len(cs)
    BY <1>6
  <2>2. f[n + 1] = f[n] \o ls[n + 1] /\ g[n + 1] = g[n] \o vs[n + 1]
    BY <1>1, <1>4, <1>5, <2>1 DEF Joins
  <2>3. Right(n)
    BY <1>8
  <2>4. Chain(ls[n + 1]) /\ IsList(vs[n + 1]) /\ Holes(ls[n + 1]) = Holes(cs[n + 1])
    BY <1>1, <1>2, <2>1
  <2>5. Chain(f[n + 1]) /\ Holes(f[n + 1]) = Holes(f[n]) + Holes(ls[n + 1])
    BY <2>2, <2>3, <2>4, ChainJoin
  <2>6. IsList(g[n + 1])
    BY <2>2, <2>3, <2>4, JoinLists
  <2>7. Bound(g[n + 1]) = Bound(g[n]) + Bound(vs[n + 1])
    BY <2>2, <2>3, <2>4, BoundJoin
  <2>8. Balanced => Holes(f[n + 1]) = Bound(g[n + 1])
    BY <2>1, <2>3, <2>4, <2>5, <2>7
  <2> HIDE DEF Balanced
  <2> QED BY <2>1, <2>5, <2>6, <2>8
<1>9. \A n \in 0..Len(cs) : n \in S
  <2> HIDE DEF S
  <2> QED BY <1>6, <1>7, <1>8, Upto
<1>10. Right(Len(cs))
  BY <1>6, <1>9
<1> QED BY <1>1, <1>4, <1>5, <1>10

Balanced(r) == Chain(r.chain) /\ IsList(r.values) /\ Holes(r.chain) = Bound(r.values)
Formed(r) == r.err = "none" => Chain(r.chain) /\ IsList(r.values) /\ r = Result("none", r.chain, r.values)

\* A list of results, conjoined or not, with the parentheses of compile_where_combined
\* or without.
LEMMA CombinedIs ==
  ASSUME NEW rs, IsList(rs), NEW link, \A i \in 1..Len(rs) : Formed(rs[i])
  PROVE  LET r == Combined(rs, link)
         IN r.err = "none" =>
              /\ \A i \in 1..Len(rs) : rs[i].err = "none"
              /\ Formed(r)
              /\ r.chain = Separated([i \in DOMAIN rs |-> rs[i].chain], link)
              /\ (\A i \in 1..Len(rs) : Balanced(rs[i])) => Balanced(r)
<1> DEFINE r == Combined(rs, link)
           cs == [i \in DOMAIN rs |-> rs[i].chain]
           vs == [i \in DOMAIN rs |-> rs[i].values]
<1> SUFFICES ASSUME r.err = "none"
    PROVE  /\ \A i \in 1..Len(rs) : rs[i].err = "none"
           /\ Formed(r) /\ r.chain = Separated(cs, link)
           /\ (\A i \in 1..Len(rs) : Balanced(rs[i])) => Balanced(r)
  OBVIOUS
<1>1. DOMAIN rs = 1..Len(rs) /\ Len(rs) \in Nat
  BY ListIs
<1>2. \A i \in DOMAIN rs : rs[i].err = "none"
  BY DEF Combined, Fails, Result
<1>3. r.chain = Separated(cs, link) /\ r.values = FlattenSeq(vs) /\ r = Result("none", r.chain, r.values)
  BY <1>2 DEF Combined, Result
<1>4. IsList(cs) /\ Len(cs) = Len(rs) /\ IsList(vs) /\ Len(vs) = Len(rs)
  <2>1. cs = [i \in 1..Len(rs) |-> cs[i]] /\ vs = [i \in 1..Len(rs) |-> vs[i]]
    BY <1>1
  <2> HIDE DEF cs, vs
  <2> QED BY <1>1, <2>1, FunctionIsList
<1>5. \A i \in 1..Len(rs) : cs[i] = rs[i].chain /\ vs[i] = rs[i].values
  BY <1>1
<1>6. \A i \in 1..Len(rs) : Chain(cs[i]) /\ IsList(vs[i])
  BY <1>1, <1>2, <1>5 DEF Formed
<1> HIDE DEF r, cs, vs
<1>7. Chain(Separated(cs, link)) /\ IsList(FlattenSeq(vs))
      /\ ((\A i \in 1..Len(cs) : Holes(cs[i]) = Bound(vs[i])) => Holes(Separated(cs, link)) = Bound(FlattenSeq(vs)))
  BY <1>4, <1>6, SeparatedBalance
<1>8. (\A i \in 1..Len(rs) : Balanced(rs[i])) => Balanced(r)
  BY <1>3, <1>4, <1>5, <1>7 DEF Balanced
<1> QED BY <1>1, <1>2, <1>3, <1>7, <1>8 DEF Formed

-----------------------------------------------------------------------------
(* One condition: the fragment it tests, how often, and the values it binds.*)

\* What the registry resolves a condition to, and the value bound to it.
FragmentOf(f, backend) ==
  LET col == FinalColumn(f, backend)
  IN IF Plain(f) /\ Final(f) \in KnownTransforms THEN Builtin(Final(f), col, backend)
     ELSE Resolve(f.lookup, f.field.name, col, backend, KeyOfPath(f), custom)
ValueOf(f) == IF Plain(f) THEN LikeWrapped(f.lookup[1], f.value) ELSE f.value

Own == {"isnull", "in", "range", "has_any", "has_all"}

TestOf(f, backend) ==
  LET col   == FinalColumn(f, backend)
      items == Items(f.value)
      isNull == f.value.type \in {"Bool", "Int"} => f.value.truth
  IN IF ~Direct(f) \/ Final(f) \notin Own THEN FragmentOf(f, backend)
     ELSE CASE Final(f) = "isnull" -> Fragment(col, IF isNull THEN "IS NULL" ELSE "IS NOT NULL", 0)
            [] Final(f) = "in"     -> Fragment(col, "IN", Len(items))
            [] Final(f) = "range"  -> Fragment(col, "BETWEEN", 2)
            [] TestsKeys(f)        -> IF backend = "PostgreSQL" THEN Fragment(col, Final(f), 2)
                                      ELSE IF backend = "MySQL" THEN Fragment(col, Final(f), Len(items))
                                      ELSE Fragment(col, "json_extract IS NOT NULL", 1)

ValuesOf(f) ==
  IF ~Direct(f) \/ Final(f) \notin Own THEN <<ValueOf(f)>>
  ELSE IF Final(f) = "isnull" THEN <<>> ELSE Items(f.value)

LinkOf(f) == IF Final(f) = "has_any" THEN "OR" ELSE "AND"
PerKey(f, backend) == TestsKeys(f) /\ backend = "SQLite"

TestChain(t, n, link) == [i \in 1..n |-> IF i = 1 THEN t ELSE [t EXCEPT !.link = link]]
ChainOf(f, backend) ==
  IF PerKey(f, backend) THEN TestChain(Term(TestOf(f, backend)), Len(Items(f.value)), LinkOf(f))
  ELSE <<Term(TestOf(f, backend))>>

RegistrySound == \A name \in DOMAIN custom : custom[name].holes \in Nat

LEMMA ItemsAre ==
  ASSUME NEW v, IsValue(v)
  PROVE  IsList(Items(v)) /\ Len(Items(v)) \in Nat
<1>1. IsList(Items(v))
  BY TupleIsList DEF Items, IsValue
<1> QED BY <1>1, ListIs

LEMMA DirectIs ==
  ASSUME NEW f, IsCondition(f)
  PROVE  Len(f.lookup) \in Nat \ {0} /\ (Direct(f) => Final(f) = f.lookup[1] /\ f.lookup = <<f.lookup[1]>>)
<1>1. IsList(f.lookup) /\ f.lookup # <<>>
  BY DEF IsCondition
<1>2. Len(f.lookup) \in Nat /\ Len(f.lookup) # 0
  BY <1>1, ListIs, NoLength
<1>3. Direct(f) => f.lookup = <<f.lookup[1]>>
  <2> SUFFICES ASSUME Direct(f) PROVE f.lookup = <<f.lookup[1]>>
    OBVIOUS
  <2> DEFINE s == f.lookup
             t == <<f.lookup[1]>>
  <2>1. IsList(s) /\ IsList(t) /\ Len(s) = 1 /\ Len(t) = 1 /\ t[1] = s[1]
    BY <1>1, TupleIsList DEF Direct
  <2> HIDE DEF s, t
  <2>2. s = t
    BY <2>1, SameList
  <2> QED BY <2>2 DEF s, t
<1> QED BY <1>2, <1>3 DEF Direct, Final

\* The tests SQLite writes, one for each key.
LEMMA KeysChain ==
  ASSUME NEW t, IsTerm(t), NEW items, IsList(items), NEW link
  PROVE  Separated([i \in DOMAIN items |-> <<t>>], link) = TestChain(t, Len(items), link)
<1> DEFINE cs == [i \in DOMAIN items |-> <<t>>]
<1>1. DOMAIN items = 1..Len(items) /\ Len(items) \in Nat
  BY ListIs
<1>2. cs = [i \in 1..Len(items) |-> cs[i]]
  BY <1>1
<1>3. \A i \in 1..Len(items) : cs[i] = <<t>>
  BY <1>1
<1>4. Chain(<<t>>) /\ Len(<<t>>) = 1 /\ <<t>> # <<>> /\ <<t>>[1] = t
  BY OneTerm
<1> HIDE DEF cs
<1>5. IsList(cs) /\ Len(cs) = Len(items)
  BY <1>1, <1>2, FunctionIsList
<1>6. \A i \in 1..Len(cs) : Chain(cs[i])
  BY <1>3, <1>4, <1>5
<1> DEFINE ls == LinkedAll(cs, link)
<1>7. Separated(cs, link) = FlattenSeq(ls) /\ IsList(ls) /\ Len(ls) = Len(cs)
      /\ \A i \in 1..Len(cs) : ls[i] = Linked(cs, link, i) /\ Chain(ls[i])
  BY <1>5, <1>6, SeparatedIs
<1> HIDE DEF ls
<1>8. ASSUME NEW i \in 1..Len(cs)
      PROVE  IsList(ls[i]) /\ Len(ls[i]) = 1 /\ ls[i][1] = IF i = 1 THEN t ELSE [t EXCEPT !.link = link]
  <2>1. cs[i] = <<t>>
    BY <1>3, <1>5
  <2>2. CASE i = 1
    <3>1. ls[i] = <<t>>
      BY <1>7, <2>1, <2>2 DEF Linked
    <3> QED BY <2>2, <3>1, TupleIsList
  <2>3. CASE i # 1
    <3> DEFINE u == [t EXCEPT !.link = link]
    <3>1. ls[i] = [<<t>> EXCEPT ![1].link = link]
      BY <1>4, <1>7, <2>1, <2>3 DEF Linked
    <3>2. [<<t>> EXCEPT ![1].link = link] = <<u>>
      OBVIOUS
    <3> HIDE DEF u
    <3>3. IsList(ls[i]) /\ Len(ls[i]) = 1 /\ ls[i][1] = u
      BY <3>1, <3>2, TupleIsList
    <3> QED BY <2>3, <3>3 DEF u
  <2> QED BY <2>2, <2>3
<1>9. FlattenSeq(ls) = [i \in 1..Len(ls) |-> ls[i][1]]
  BY <1>7, <1>8, FlatSingles
<1>10. [i \in 1..Len(ls) |-> ls[i][1]] = [i \in 1..Len(items) |-> IF i = 1 THEN t ELSE [t EXCEPT !.link = link]]
  BY <1>5, <1>7, <1>8
<1> QED BY <1>7, <1>9, <1>10 DEF cs, TestChain

LEMMA TestChainIs ==
  ASSUME NEW t, IsTerm(t), NEW n \in Nat, NEW link
  PROVE  LET c == TestChain(t, n, link)
         IN /\ Chain(c) /\ Len(c) = n
            /\ \A i \in 1..n : c[i].kind = t.kind /\ c[i].frag = t.frag /\ c[i].holes = t.holes /\ c[i].kids = t.kids
<1> DEFINE c == TestChain(t, n, link)
           u == [t EXCEPT !.link = link]
<1>1. IsTerm(u) /\ u.kind = t.kind /\ u.frag = t.frag /\ u.holes = t.holes /\ u.kids = t.kids
  BY LinkIsTerm
<1>2. c = [i \in 1..n |-> IF i = 1 THEN t ELSE u]
  BY DEF TestChain
<1> HIDE DEF c, u
<1>3. c = [i \in 1..n |-> c[i]] /\ \A i \in 1..n : c[i] = IF i = 1 THEN t ELSE u
  BY <1>2
<1>4. IsList(c) /\ Len(c) = n
  BY <1>3, FunctionIsList
<1>5. \A i \in 1..n : IsTerm(c[i])
  BY <1>1, <1>3
<1>6. Chain(c)
  BY <1>4, <1>5 DEF Chain
<1>7. \A i \in 1..n : c[i].kind = t.kind /\ c[i].frag = t.frag /\ c[i].holes = t.holes /\ c[i].kids = t.kids
  BY <1>1, <1>3
<1> QED BY <1>4, <1>6, <1>7 DEF c

\* A sum of ones.
LEMMA TotalOnes ==
  ASSUME NEW s \in Seq(Nat), \A i \in 1..Len(s) : s[i] = 1
  PROVE  Total(s) = Len(s)
<1>1. PICK f : /\ f[0] = 0 /\ \A i \in 1..Len(s) : f[i] = f[i - 1] + s[i]
               /\ \A i \in 0..Len(s) : f[i] \in Nat
               /\ Total(s) = f[Len(s)]
  BY Sums
<1> DEFINE S == {i \in 0..Len(s) : f[i] = i}
<1>0. Len(s) \in Nat
  OBVIOUS
<1>2. 0 \in S
  BY <1>0, <1>1
<1>3. ASSUME NEW i \in 0..(Len(s) - 1), i \in S PROVE i + 1 \in S
  <2>1. i + 1 \in 1..Len(s) /\ (i + 1) - 1 = i
    BY <1>0
  <2> QED BY <2>1, <1>1, <1>3
<1>4. \A i \in 0..Len(s) : i \in S
  <2> HIDE DEF S
  <2> QED BY <1>0, <1>2, <1>3, Upto
<1> QED BY <1>0, <1>1, <1>4

LEMMA TestChainHoles ==
  ASSUME NEW t, IsTerm(t), t.holes = 1, NEW n \in Nat, NEW link
  PROVE  Holes(TestChain(t, n, link)) = n
<1> DEFINE c == TestChain(t, n, link)
<1>1. Chain(c) /\ Len(c) = n /\ \A i \in 1..n : c[i].holes = 1
  BY TestChainIs
<1> HIDE DEF c
<1> DEFINE s == [i \in DOMAIN c |-> c[i].holes]
<1>2. s \in Seq(Nat) /\ Len(s) = n
  BY <1>1, HolesNat
<1>3. DOMAIN c = 1..n
  BY <1>1, ListIs DEF Chain
<1>4. \A i \in 1..Len(s) : s[i] = 1
  BY <1>1, <1>2, <1>3
<1>5. Holes(c) = Total(s)
  BY DEF Holes
<1> HIDE DEF s
<1>6. Total(s) = n
  BY <1>2, <1>4, TotalOnes
<1> QED BY <1>5, <1>6 DEF c

\* The holes of a fragment the registry makes.
Written(name, backend) ==
  CASE name \in JsonParts \cup {"isnull"}     -> 0
    [] name \in {"contains", "contained_by"} -> IF backend = "SQLite" THEN 0 ELSE 1
    [] name = "range"                        -> 2
    [] name = "has_key"                      -> IF backend = "PostgreSQL" THEN 2 ELSE 1
    [] name \in {"has_any", "has_all"}       -> IF backend = "MySQL" THEN 1 ELSE 2
    [] OTHER                                 -> 1

LEMMA FragmentFields ==
  ASSUME NEW col, NEW op, NEW holes
  PROVE  LET fr == Fragment(col, op, holes)
         IN fr.err = "none" /\ fr.col = col /\ fr.op = op /\ fr.holes = holes
BY DEF Fragment

LEMMA CommonNames ==
  DOMAIN CommonOp = {"exact", "gt", "gte", "lt", "lte", "icontains", "startswith", "istartswith", "endswith",
                     "iendswith", "isnull", "in", "range"}
BY DEF CommonOp

LEMMA BuiltinHoles ==
  ASSUME NEW name \in BuiltinNames, NEW col, NEW backend \in Backends
  PROVE  Builtin(name, col, backend).holes = Written(name, backend)
<1>1. CASE name \in {"exact", "gt", "gte", "lt", "lte", "icontains", "startswith", "istartswith", "endswith",
                     "iendswith", "isnull", "in", "range"}
  <2>1. Builtin(name, col, backend) = CommonLookup(name, col)
    BY <1>1, CommonNames DEF Builtin, DateParts
  <2>2. CommonLookup(name, col).holes = CASE name = "isnull" -> 0 [] name = "range" -> 2 [] OTHER -> 1
    BY DEF CommonLookup, Fragment
  <2>3. Written(name, backend) = CASE name = "isnull" -> 0 [] name = "range" -> 2 [] OTHER -> 1
    BY <1>1 DEF Written, JsonParts
  <2> QED BY <2>1, <2>2, <2>3
<1>2. CASE name \in DateParts
  <2>1. Builtin(name, col, backend) = ImplicitPart(name, col, backend)
    BY <1>2, CommonNames DEF Builtin, DateParts
  <2>2. ImplicitPart(name, col, backend).holes = 1
    BY DEF ImplicitPart, Fragment
  <2>3. Written(name, backend) = 1
    BY <1>2 DEF Written, DateParts, JsonParts
  <2> QED BY <2>1, <2>2, <2>3
<1>3. CASE name \in JsonParts \cup {"contains", "has_key", "has_any", "has_all", "contained_by"}
  <2>1. Builtin(name, col, backend) = JsonLookup(name, col, backend)
    BY <1>3, CommonNames DEF Builtin, DateParts, JsonParts
  <2>2. CASE name \in JsonParts
    <3> DEFINE u == ApplyTransform(name, col, backend, IF name = "json" THEN "" ELSE "key")
    <3>1. JsonLookup(name, col, backend) = Fragment(u, "bare", 0)
      BY <2>2 DEF JsonLookup, JsonParts
    <3> HIDE DEF u
    <3>2. Written(name, backend) = 0
      BY <2>2 DEF Written, JsonParts
    <3> QED BY <2>1, <3>1, <3>2, FragmentFields
  <2>3. CASE name = "has_key"
    <3>1. JsonLookup(name, col, backend) = Fragment(col, "has_key", IF backend = "PostgreSQL" THEN 2 ELSE 1)
      BY <2>3 DEF JsonLookup, JsonParts
    <3>2. Written(name, backend) = IF backend = "PostgreSQL" THEN 2 ELSE 1
      BY <2>3 DEF Written, JsonParts
    <3> QED BY <2>1, <3>1, <3>2, FragmentFields
  <2>4. CASE name \in {"has_any", "has_all"}
    <3>1. JsonLookup(name, col, backend) = Fragment(col, name, IF backend = "MySQL" THEN 1 ELSE 2)
      BY <2>4 DEF JsonLookup, JsonParts
    <3>2. Written(name, backend) = IF backend = "MySQL" THEN 1 ELSE 2
      BY <2>4 DEF Written, JsonParts
    <3> QED BY <2>1, <3>1, <3>2, FragmentFields
  <2>5. CASE name \in {"contains", "contained_by"}
    <3>1. JsonLookup(name, col, backend) = IF backend = "SQLite" THEN Fragment(col, "bare", 0) ELSE Fragment(col, name, 1)
      BY <2>5 DEF JsonLookup, JsonParts
    <3>2. Written(name, backend) = IF backend = "SQLite" THEN 0 ELSE 1
      BY <2>5 DEF Written, JsonParts
    <3> QED BY <2>1, <3>1, <3>2, FragmentFields
  <2> QED BY <1>3, <2>2, <2>3, <2>4, <2>5
<1> QED BY <1>1, <1>2, <1>3 DEF BuiltinNames, Comparisons, KnownTransforms

\* What a condition resolves to compiles unless its lookup is unknown.
LEMMA FragmentIs ==
  ASSUME NEW f, IsCondition(f), NEW backend \in Backends, RegistrySound, FragmentOf(f, backend).err = "none"
  PROVE  /\ FragmentOf(f, backend).holes = IF Customized(f) THEN custom[Final(f)].holes ELSE Written(Final(f), backend)
         /\ FragmentOf(f, backend).holes \in Nat
         /\ Customized(f) \/ Final(f) \in BuiltinNames
<1> DEFINE fr == FragmentOf(f, backend)
           col == FinalColumn(f, backend)
<1>1. Final(f) = Last(f.lookup)
  BY DEF Final, Last
<1>2. CASE Plain(f) /\ Final(f) \in KnownTransforms
  <2>1. fr = Builtin(Final(f), col, backend)
    BY <1>2 DEF FragmentOf
  <2>2. ~Customized(f) /\ Final(f) \in BuiltinNames
    BY <1>2 DEF Customized, BuiltinNames
  <2>3. fr.holes = Written(Final(f), backend)
    BY <2>1, <2>2, BuiltinHoles
  <2>4. Written(Final(f), backend) \in Nat
    BY DEF Written
  <2> QED BY <2>2, <2>3, <2>4
<1>3. CASE ~(Plain(f) /\ Final(f) \in KnownTransforms)
  <2>1. \E u : fr = ResolveSimple(Final(f), u, backend, custom)
    BY <1>1, <1>3 DEF FragmentOf, Resolve
  <2>2. PICK u : fr = ResolveSimple(Final(f), u, backend, custom)
    BY <2>1
  <2>3. CASE Final(f) \in DOMAIN custom
    <3>1. fr = Fragment(u, custom[Final(f)].op, custom[Final(f)].holes)
      BY <2>2, <2>3 DEF ResolveSimple
    <3>2. fr.holes = custom[Final(f)].holes
      BY <3>1 DEF Fragment
    <3>3. Customized(f)
      BY <1>3, <2>3 DEF Customized
    <3>4. custom[Final(f)].holes \in Nat
      BY <2>3 DEF RegistrySound
    <3> QED BY <3>2, <3>3, <3>4
  <2>4. CASE Final(f) \notin DOMAIN custom
    <3>1. Final(f) \in BuiltinNames
      <4>1. SUFFICES ASSUME Final(f) \notin BuiltinNames PROVE FALSE
        OBVIOUS
      <4>2. fr = Failure("UnknownLookup")
        BY <2>2, <2>4, <4>1 DEF ResolveSimple
      <4>3. Failure("UnknownLookup").err = "UnknownLookup"
        BY DEF Failure
      <4>4. fr.err = "UnknownLookup"
        BY <4>2, <4>3, Zenon
      <4> QED BY <4>4
    <3>2. fr = Builtin(Final(f), u, backend)
      BY <2>2, <2>4, <3>1 DEF ResolveSimple
    <3>3. fr.holes = Written(Final(f), backend)
      BY <3>1, <3>2, BuiltinHoles
    <3>4. ~Customized(f)
      BY <2>4 DEF Customized
    <3>5. Written(Final(f), backend) \in Nat
      BY DEF Written
    <3> QED BY <3>1, <3>3, <3>4, <3>5
  <2> QED BY <2>3, <2>4
<1> QED BY <1>2, <1>3

\* compile_single_filter, case by case.
LEMMA SingleIs ==
  ASSUME NEW f, IsCondition(f), NEW backend \in Backends,
         SingleFilter(f, backend, custom).err = "none"
  PROVE  /\ SingleFilter(f, backend, custom)
              = IF Empty(f) THEN Never ELSE Result("none", Negatable(ChainOf(f, backend), f.negated), ValuesOf(f))
         /\ ~Empty(f) => (TestOf(f, backend).err = "none")
         /\ Direct(f) /\ Final(f) = "range" => Len(Items(f.value)) = 2
<1> DEFINE col == FinalColumn(f, backend)
           key == FieldPath(f.field.segs).key
           r == FilterOn(f, col, key, backend, custom)
           name == f.lookup[1]
           items == Items(f.value)
<1>0. SingleFilter(f, backend, custom) = r
  BY DEF SingleFilter
<1>1. Direct(f) <=> Len(f.lookup) = 1
  BY DEF Direct
<1>2. Direct(f) => Final(f) = name
  BY DirectIs
<1>3. CASE Direct(f) /\ name = "isnull"
  <2>1. r = IsNull(f, col)
    BY <1>1, <1>3 DEF FilterOn
  <2>2. ~Empty(f) /\ ~TestsKeys(f) /\ ~PerKey(f, backend) /\ ValuesOf(f) = <<>> /\ Final(f) = "isnull" /\ Final(f) # "range"
    BY <1>2, <1>3 DEF Empty, PerKey, TestsKeys, ValuesOf, Own
  <2>3. TestOf(f, backend) = Fragment(col, IF f.value.type \in {"Bool", "Int"} => f.value.truth
                                           THEN "IS NULL" ELSE "IS NOT NULL", 0)
    BY <1>3, <2>2 DEF TestOf, Own
  <2>4. TestOf(f, backend).err = "none"
    <3>1. \A o : Fragment(col, o, 0).err = "none"
      BY FragmentFields
    <3> QED BY <2>3, <3>1
  <2>5. IsNull(f, col) = Result("none", Negatable(<<Term(TestOf(f, backend))>>, f.negated), <<>>)
    BY <2>3 DEF IsNull
  <2> QED BY <1>0, <2>1, <2>2, <2>4, <2>5 DEF ChainOf
<1>4. CASE Direct(f) /\ name = "in"
  <2>1. r = InList(f, col)
    BY <1>1, <1>4 DEF FilterOn
  <2>2. /\ Empty(f) <=> items = <<>>
        /\ ~TestsKeys(f) /\ ~PerKey(f, backend) /\ ValuesOf(f) = items /\ Final(f) = "in" /\ Final(f) # "range"
    BY <1>2, <1>4 DEF Empty, PerKey, TestsKeys, ValuesOf, Own
  <2>3. TestOf(f, backend) = Fragment(col, "IN", Len(items))
    BY <1>4, <2>2 DEF TestOf, Own
  <2>4. TestOf(f, backend).err = "none"
    BY <2>3 DEF Fragment
  <2>5. InList(f, col) = IF items = <<>> THEN Never
                         ELSE Result("none", Negatable(<<Term(TestOf(f, backend))>>, f.negated), items)
    BY <2>3 DEF InList
  <2> QED BY <1>0, <2>1, <2>2, <2>4, <2>5 DEF ChainOf
<1>5. CASE Direct(f) /\ name = "range"
  <2>1. r = InRange(f, col)
    BY <1>1, <1>5 DEF FilterOn
  <2>2. ~Empty(f) /\ ~TestsKeys(f) /\ ~PerKey(f, backend) /\ ValuesOf(f) = items /\ Final(f) = "range"
    BY <1>2, <1>5 DEF Empty, PerKey, TestsKeys, ValuesOf, Own
  <2>3. TestOf(f, backend) = Fragment(col, "BETWEEN", 2)
    BY <1>5, <2>2 DEF TestOf, Own
  <2>4. TestOf(f, backend).err = "none"
    BY <2>3 DEF Fragment
  <2>5. f.value.type = "List" /\ Len(f.value.items) = 2
    <3>1. SUFFICES ASSUME ~(f.value.type = "List" /\ Len(f.value.items) = 2) PROVE FALSE
      OBVIOUS
    <3>2. r = Fails("range")
      BY <2>1, <3>1 DEF InRange
    <3>3. r.err = "range"
      BY <3>2 DEF Fails, Result
    <3> QED BY <1>0, <3>3
  <2>6. items = f.value.items
    BY <2>5 DEF Items
  <2>7. InRange(f, col) = Result("none", Negatable(<<Term(TestOf(f, backend))>>, f.negated), f.value.items)
    BY <2>3, <2>5 DEF InRange
  <2> QED BY <1>0, <2>1, <2>2, <2>4, <2>5, <2>6, <2>7 DEF ChainOf
<1>6. CASE Direct(f) /\ name \in {"has_any", "has_all"}
  <2>1. r = HasKeys(f, col, backend)
    BY <1>1, <1>6 DEF FilterOn
  <2>2. /\ Empty(f) <=> items = <<>>
        /\ TestsKeys(f) /\ ValuesOf(f) = items /\ Final(f) = name /\ Final(f) # "range"
    BY <1>2, <1>6 DEF Empty, TestsKeys, ValuesOf, Own
  <2>3. TestOf(f, backend) = IF backend = "PostgreSQL" THEN Fragment(col, name, 2)
                             ELSE IF backend = "MySQL" THEN Fragment(col, name, Len(items))
                             ELSE Fragment(col, "json_extract IS NOT NULL", 1)
    BY <1>6, <2>2 DEF TestOf, Own
  <2>4. TestOf(f, backend).err = "none"
    <3>1. \A o, h : Fragment(col, o, h).err = "none"
      BY FragmentFields
    <3> QED BY <2>3, <3>1
  <2> DEFINE test == <<Term(Fragment(col, "json_extract IS NOT NULL", 1))>>
             ch == CASE backend = "PostgreSQL" -> <<Term(Fragment(col, name, 2))>>
                     [] backend = "MySQL"      -> <<Term(Fragment(col, name, Len(items)))>>
                     [] OTHER -> Separated([i \in DOMAIN items |-> test],
                                           IF name = "has_any" THEN "OR" ELSE "AND")
  <2>5. HasKeys(f, col, backend) = IF items = <<>> THEN Never ELSE Result("none", Negatable(ch, f.negated), items)
    BY DEF HasKeys
  <2>6. ch = ChainOf(f, backend)
    <3>1. CASE backend # "SQLite"
      <4>1. ch = <<Term(TestOf(f, backend))>>
        BY <2>3, <3>1 DEF Backends
      <4> QED BY <3>1, <4>1 DEF ChainOf, PerKey
    <3>2. CASE backend = "SQLite"
      <4> DEFINE fr == Fragment(col, "json_extract IS NOT NULL", 1)
      <4>1. TestOf(f, backend) = fr
        BY <2>3, <3>2
      <4>2. IsTerm(Term(fr))
        <5>1. fr.holes \in Nat
          BY DEF Fragment
        <5> HIDE DEF fr
        <5> QED BY <5>1, AtomIsTerm
      <4>3. IsList(items)
        BY ItemsAre DEF IsCondition
      <4>4. ch = Separated([i \in DOMAIN items |-> <<Term(fr)>>], LinkOf(f))
        BY <2>2, <3>2 DEF LinkOf
      <4> HIDE DEF fr, items, ch
      <4>5. ch = TestChain(Term(fr), Len(items), LinkOf(f))
        BY <4>2, <4>3, <4>4, KeysChain
      <4> QED BY <2>2, <3>2, <4>1, <4>5 DEF ChainOf, PerKey, items
    <3> QED BY <3>1, <3>2
  <2> HIDE DEF ch
  <2> QED BY <1>0, <2>1, <2>2, <2>4, <2>5, <2>6
<1>7. CASE ~(Direct(f) /\ name \in Own)
  <2> DEFINE plain == Len(f.lookup) = 1 /\ key = ""
             fr == IF plain /\ name \in KnownTransforms THEN Builtin(name, col, backend)
                   ELSE Resolve(f.lookup, f.field.name, col, backend, key, custom)
             value == IF plain THEN LikeWrapped(name, f.value) ELSE f.value
  <2>1. r = Fragmented(fr, f.negated, value)
    BY <1>1, <1>7, Zenon DEF FilterOn, Own
  <2>2. plain <=> Plain(f)
    BY <1>1, Zenon DEF Plain, KeyOfPath
  <2> HIDE DEF plain
  <2>3. fr = FragmentOf(f, backend)
    <3>1. plain => Final(f) = name
      BY <1>2, <2>2 DEF Plain
    <3> QED BY <2>2, <3>1 DEF FragmentOf, KeyOfPath
  <2>4. value = ValueOf(f)
    BY <2>2 DEF ValueOf
  <2> HIDE DEF fr, value
  <2>5. ~Empty(f) /\ ~PerKey(f, backend) /\ TestOf(f, backend) = FragmentOf(f, backend) /\ ValuesOf(f) = <<ValueOf(f)>>
    BY <1>2, <1>7 DEF Empty, PerKey, TestsKeys, TestOf, ValuesOf, Own
  <2>6. fr.err = "none"
    <3>1. SUFFICES ASSUME fr.err # "none" PROVE FALSE
      OBVIOUS
    <3>2. r = Fails(fr.err)
      BY <2>1, <3>1 DEF Fragmented
    <3>3. r.err = fr.err
      BY <3>2 DEF Fails, Result
    <3> QED BY <1>0, <3>1, <3>3
  <2>7. r = Result("none", Negatable(<<Term(fr)>>, f.negated), <<value>>)
    BY <2>1, <2>6 DEF Fragmented
  <2>8. ~(Direct(f) /\ Final(f) = "range")
    BY <1>2, <1>7 DEF Own
  <2> QED BY <1>0, <2>3, <2>4, <2>5, <2>6, <2>7, <2>8 DEF ChainOf
<1> QED BY <1>3, <1>4, <1>5, <1>6, <1>7 DEF Own

LEMMA NegatableIs ==
  ASSUME NEW c, Chain(c), NEW neg
  PROVE  Chain(Negatable(c, neg)) /\ Holes(Negatable(c, neg)) = Holes(c)
<1>1. CASE neg
  <2> DEFINE g == Group(c, TRUE)
  <2>1. IsTerm(g) /\ g.holes = Holes(c)
    BY GroupIsTerm
  <2> HIDE DEF g
  <2>2. Chain(<<g>>) /\ Holes(<<g>>) = Holes(c)
    BY <2>1, OneTerm
  <2>3. Negatable(c, neg) = <<g>>
    BY <1>1 DEF Negatable, g
  <2> QED BY <2>2, <2>3
<1>2. CASE ~neg
  BY <1>2 DEF Negatable
<1> QED BY <1>1, <1>2

LEMMA ResultFields ==
  ASSUME NEW err, NEW chain, NEW values
  PROVE  LET r == Result(err, chain, values) IN r.err = err /\ r.chain = chain /\ r.values = values
BY DEF Result

LEMMA NeverIs == Never.err = "none" /\ Never.chain = <<NeverTerm>> /\ Never.values = <<>>
                 /\ Chain(Never.chain) /\ Holes(Never.chain) = 0 /\ Bound(Never.values) = 0
<1>1. Never = Result("none", <<NeverTerm>>, <<>>)
  BY DEF Never, NeverTerm
<1>2. Never.err = "none" /\ Never.chain = <<NeverTerm>> /\ Never.values = <<>>
  BY <1>1, ResultFields
<1>3. Chain(<<NeverTerm>>) /\ Holes(<<NeverTerm>>) = 0
  <2> DEFINE t == NeverTerm
  <2>1. IsTerm(t) /\ t.holes = 0
    BY NeverIsTerm
  <2> HIDE DEF t
  <2>2. Chain(<<t>>) /\ Holes(<<t>>) = 0
    BY <2>1, OneTerm
  <2> QED BY <2>2 DEF t
<1> QED BY <1>2, <1>3, BoundEmpty

\* How many "?" one test has.
LEMMA TestHoles ==
  ASSUME NEW f, IsCondition(f), NEW backend \in Backends, RegistrySound, TestOf(f, backend).err = "none"
  PROVE  LET h == TestOf(f, backend).holes
         IN /\ h \in Nat
            /\ h = IF ~Direct(f) \/ Final(f) \notin Own
                   THEN IF Customized(f) THEN custom[Final(f)].holes ELSE Written(Final(f), backend)
                   ELSE IF Final(f) = "isnull" THEN 0
                   ELSE IF Final(f) = "in" THEN Len(Items(f.value))
                   ELSE IF Final(f) = "range" THEN 2
                   ELSE IF backend = "PostgreSQL" THEN 2
                   ELSE IF backend = "MySQL" THEN Len(Items(f.value)) ELSE 1
<1> DEFINE fr == TestOf(f, backend)
           col == FinalColumn(f, backend)
           items == Items(f.value)
<1>0. Len(items) \in Nat
  BY ItemsAre DEF IsCondition
<1>1. CASE ~Direct(f) \/ Final(f) \notin Own
  <2>1. fr = FragmentOf(f, backend)
    BY <1>1 DEF TestOf
  <2> HIDE DEF fr
  <2>2. fr.holes = (IF Customized(f) THEN custom[Final(f)].holes ELSE Written(Final(f), backend)) /\ fr.holes \in Nat
    BY <2>1, FragmentIs DEF fr
  <2> QED BY <1>1, <2>2 DEF fr
<1>2. CASE Direct(f) /\ Final(f) \in Own
  <2>1. \A o, h : Fragment(col, o, h).holes = h
    BY FragmentFields
  <2>2. CASE Final(f) = "isnull"
    <3>1. fr = Fragment(col, IF f.value.type \in {"Bool", "Int"} => f.value.truth
                             THEN "IS NULL" ELSE "IS NOT NULL", 0)
      BY <1>2, <2>2 DEF TestOf, Own, TestsKeys
    <3> HIDE DEF fr
    <3>2. fr.holes = 0
      BY <2>1, <3>1
    <3> QED BY <1>2, <2>2, <3>2 DEF fr
  <2>3. CASE Final(f) = "in"
    <3>1. fr = Fragment(col, "IN", Len(items))
      BY <1>2, <2>3 DEF TestOf, Own, TestsKeys
    <3> HIDE DEF fr
    <3> QED BY <1>0, <1>2, <2>1, <2>3, <3>1 DEF fr
  <2>4. CASE Final(f) = "range"
    <3>1. fr = Fragment(col, "BETWEEN", 2)
      BY <1>2, <2>4 DEF TestOf, Own, TestsKeys
    <3> HIDE DEF fr
    <3> QED BY <1>2, <2>1, <2>4, <3>1 DEF fr
  <2>5. CASE Final(f) \in {"has_any", "has_all"}
    <3>1. fr = IF backend = "PostgreSQL" THEN Fragment(col, Final(f), 2)
               ELSE IF backend = "MySQL" THEN Fragment(col, Final(f), Len(items))
               ELSE Fragment(col, "json_extract IS NOT NULL", 1)
      BY <1>2, <2>5 DEF TestOf, Own, TestsKeys
    <3> HIDE DEF fr
    <3>2. fr.holes = IF backend = "PostgreSQL" THEN 2 ELSE IF backend = "MySQL" THEN Len(items) ELSE 1
      BY <2>1, <3>1
    <3> QED BY <1>0, <1>2, <2>5, <3>2 DEF fr
  <2> QED BY <1>2, <2>2, <2>3, <2>4, <2>5 DEF Own
<1> QED BY <1>1, <1>2

LEMMA ChainOfIs ==
  ASSUME NEW f, IsCondition(f), NEW backend \in Backends, RegistrySound, TestOf(f, backend).err = "none"
  PROVE  LET c == ChainOf(f, backend)
         IN /\ Chain(c)
            /\ Len(c) = IF PerKey(f, backend) THEN Len(Items(f.value)) ELSE 1
            /\ \A i \in 1..Len(c) : c[i].kind = "atom" /\ c[i].frag = TestOf(f, backend) /\ c[i].kids = <<>>
            /\ Holes(c) = IF PerKey(f, backend) THEN Len(Items(f.value)) ELSE TestOf(f, backend).holes
<1> DEFINE fr == TestOf(f, backend)
           c == ChainOf(f, backend)
           n == Len(Items(f.value))
           t == Term(fr)
<1>0. n \in Nat
  BY ItemsAre DEF IsCondition
<1>1. fr.holes \in Nat
  BY TestHoles
<1>2. PerKey(f, backend) => fr.holes = 1
  <2> SUFFICES ASSUME PerKey(f, backend) PROVE fr.holes = 1
    OBVIOUS
  <2>1. Direct(f) /\ Final(f) \in {"has_any", "has_all"} /\ backend = "SQLite"
    BY DEF PerKey, TestsKeys
  <2>2. Direct(f) /\ Final(f) \in Own /\ Final(f) \notin {"isnull", "in", "range"}
    BY <2>1 DEF Own
  <2> QED BY <2>1, <2>2, TestHoles
<1>3. c = IF PerKey(f, backend) THEN TestChain(t, n, LinkOf(f)) ELSE <<t>>
  BY DEF ChainOf
<1>4. IsTerm(t) /\ t.kind = "atom" /\ t.frag = fr /\ t.holes = fr.holes /\ t.kids = <<>>
  <2> HIDE DEF fr
  <2> QED BY <1>1, AtomIsTerm
<1> HIDE DEF c, n, t, fr
<1>5. CASE PerKey(f, backend)
  <2> DEFINE d == TestChain(t, n, LinkOf(f))
  <2>1. Chain(d) /\ Len(d) = n /\ \A i \in 1..n : d[i].kind = t.kind /\ d[i].frag = t.frag /\ d[i].kids = t.kids
    BY <1>0, <1>4, TestChainIs
  <2>2. Holes(d) = n
    BY <1>0, <1>2, <1>4, <1>5, TestChainHoles
  <2> HIDE DEF d
  <2>3. c = d
    BY <1>3, <1>5 DEF d
  <2> QED BY <1>4, <1>5, <2>1, <2>2, <2>3 DEF c, n, fr
<1>6. CASE ~PerKey(f, backend)
  <2> DEFINE d == <<t>>
  <2>1. Chain(d) /\ Holes(d) = t.holes
    BY <1>4, OneTerm
  <2>2. Len(d) = 1 /\ \A i \in 1..1 : d[i] = t
    OBVIOUS
  <2> HIDE DEF d
  <2>3. c = d
    BY <1>3, <1>6 DEF d
  <2>4. Chain(c) /\ Len(c) = 1 /\ Holes(c) = fr.holes
    BY <1>4, <2>1, <2>2, <2>3
  <2>5. \A i \in 1..Len(c) : c[i].kind = "atom" /\ c[i].frag = fr /\ c[i].kids = <<>>
    BY <1>4, <2>2, <2>3
  <2> QED BY <1>6, <2>4, <2>5 DEF c, n, fr
<1> QED BY <1>5, <1>6

LEMMA ValueOfType ==
  ASSUME NEW f, IsCondition(f) PROVE ValueOf(f).type = f.value.type
<1> DEFINE v == f.value
<1>1. v \in [type : STRING, truth : BOOLEAN, wrap : STRING, items : {v.items}]
  BY DEF IsCondition, IsValue
<1>2. \A name : LikeWrapped(name, v).type = v.type
  <2> SUFFICES ASSUME NEW name PROVE LikeWrapped(name, v).type = v.type
    OBVIOUS
  <2>1. \A w : [v EXCEPT !.wrap = w].type = v.type
    BY <1>1
  <2>2. CASE v.type # "Text"
    BY <2>2 DEF LikeWrapped
  <2>3. CASE v.type = "Text"
    <3>1. \E w : LikeWrapped(name, v) = [v EXCEPT !.wrap = w]
      BY <1>1, <2>3 DEF LikeWrapped
    <3> QED BY <2>1, <3>1
  <2> QED BY <2>2, <2>3
<1> QED BY <1>2 DEF ValueOf

-----------------------------------------------------------------------------
(* How many values one condition binds.                                    *)

\* The shapes of Miscounted, written with the holes of a fragment.
LEMMA MiscountedIs ==
  ASSUME NEW f, NEW backend
  PROVE  LET items == Items(f.value)
         IN Miscounted(f, backend) <=>
              IF ~Direct(f) \/ Final(f) \notin Own
              THEN (IF Customized(f) THEN custom[Final(f)].holes ELSE Written(Final(f), backend)) # Bound(<<f.value>>)
              ELSE IF Final(f) = "isnull" THEN FALSE
              ELSE IF Final(f) \in {"in", "range"} \/ backend # "PostgreSQL" THEN Bound(items) # Len(items)
              ELSE items # <<>> /\ Bound(items) # 2
<1>1. CASE ~Direct(f) \/ Final(f) \notin Own
  BY <1>1 DEF Miscounted, Written, Own, ExpandsLists
<1>2. CASE Direct(f) /\ Final(f) = "isnull"
  BY <1>2 DEF Miscounted, Own, ExpandsLists
<1>3. CASE Direct(f) /\ Final(f) \in {"in", "range"}
  BY <1>3 DEF Miscounted, Own, ExpandsLists
<1>4. CASE Direct(f) /\ Final(f) \in {"has_any", "has_all"}
  BY <1>4 DEF Miscounted, Own, ExpandsLists
<1> QED BY <1>1, <1>2, <1>3, <1>4 DEF Own

LEMMA SingleBalance ==
  ASSUME NEW f, IsCondition(f), NEW backend \in Backends, RegistrySound,
         SingleFilter(f, backend, custom).err = "none"
  PROVE  LET r == SingleFilter(f, backend, custom)
         IN /\ Chain(r.chain) /\ IsList(r.values)
            /\ Holes(r.chain) = Bound(r.values) <=> ~Miscounted(f, backend)
<1> DEFINE r == SingleFilter(f, backend, custom)
           items == Items(f.value)
           h == TestOf(f, backend).holes
<1>0. IsValue(f.value) /\ IsList(items) /\ Len(items) \in Nat /\ Bound(items) \in Nat
  <2>1. IsValue(f.value)
    BY DEF IsCondition
  <2> QED BY <2>1, ItemsAre, WeightsAre
<1>1. CASE Empty(f)
  <2>1. r = Never
    BY <1>1, SingleIs
  <2>2. items = <<>> /\ Direct(f) /\ Final(f) \in {"in", "has_any", "has_all"}
    BY <1>1 DEF Empty
  <2>3. Bound(items) = 0 /\ Len(items) = 0
    BY <2>2, BoundEmpty
  <2>4. Final(f) \in Own /\ Final(f) # "isnull"
    BY <2>2 DEF Own
  <2>5. ~Miscounted(f, backend)
    BY <2>2, <2>3, <2>4, MiscountedIs
  <2>6. Chain(r.chain) /\ IsList(r.values) /\ Holes(r.chain) = Bound(r.values)
    BY <2>1, NeverIs, NoElements
  <2> QED BY <2>5, <2>6
<1>2. CASE ~Empty(f)
  <2> DEFINE c == ChainOf(f, backend)
  <2>1. r = Result("none", Negatable(c, f.negated), ValuesOf(f)) /\ TestOf(f, backend).err = "none"
        /\ (Direct(f) /\ Final(f) = "range" => Len(items) = 2)
    BY <1>2, SingleIs
  <2>2. Chain(c) /\ Holes(c) = IF PerKey(f, backend) THEN Len(items) ELSE h
    BY <2>1, ChainOfIs
  <2>3. h = IF ~Direct(f) \/ Final(f) \notin Own
            THEN IF Customized(f) THEN custom[Final(f)].holes ELSE Written(Final(f), backend)
            ELSE IF Final(f) = "isnull" THEN 0
            ELSE IF Final(f) = "in" THEN Len(items)
            ELSE IF Final(f) = "range" THEN 2
            ELSE IF backend = "PostgreSQL" THEN 2
            ELSE IF backend = "MySQL" THEN Len(items) ELSE 1
    BY <2>1, TestHoles
  <2> HIDE DEF c, h
  <2>4. r.chain = Negatable(c, f.negated) /\ r.values = ValuesOf(f)
    BY <2>1, ResultFields
  <2>5. Chain(r.chain) /\ Holes(r.chain) = Holes(c)
    BY <2>2, <2>4, NegatableIs
  <2> HIDE DEF r
  <2>6. CASE ~Direct(f) \/ Final(f) \notin Own
    <3>1. r.values = <<ValueOf(f)>> /\ ~PerKey(f, backend)
      BY <2>4, <2>6 DEF ValuesOf, PerKey, TestsKeys, Own
    <3>2. IsList(r.values) /\ Bound(r.values) = Bound(<<f.value>>)
      BY <3>1, TupleIsList, BoundOne, ValueOfType
    <3>3. Miscounted(f, backend) <=> h # Bound(<<f.value>>)
      BY <2>3, <2>6, MiscountedIs
    <3> QED BY <2>2, <2>5, <3>1, <3>2, <3>3 DEF r
  <2>7. CASE Direct(f) /\ Final(f) = "isnull"
    <3>1. Final(f) \in Own /\ r.values = <<>> /\ ~PerKey(f, backend) /\ h = 0
      BY <2>3, <2>4, <2>7 DEF ValuesOf, PerKey, TestsKeys, Own
    <3>2. IsList(r.values) /\ Bound(r.values) = 0
      BY <3>1, NoElements, BoundEmpty
    <3>3. ~Miscounted(f, backend)
      BY <2>7, <3>1, MiscountedIs
    <3> QED BY <2>2, <2>5, <3>1, <3>2, <3>3 DEF r
  <2>8. CASE Direct(f) /\ Final(f) \in {"in", "range"}
    <3>1. Final(f) \in Own /\ r.values = items /\ ~PerKey(f, backend) /\ h = Len(items)
      BY <2>1, <2>3, <2>4, <2>8 DEF ValuesOf, PerKey, TestsKeys, Own
    <3>2. Miscounted(f, backend) <=> Bound(items) # Len(items)
      BY <2>8, <3>1, MiscountedIs
    <3> QED BY <1>0, <2>2, <2>5, <3>1, <3>2 DEF r
  <2>9. CASE Direct(f) /\ Final(f) \in {"has_any", "has_all"}
    <3>1. Final(f) \in Own /\ Final(f) \notin {"isnull", "in", "range"} /\ r.values = items /\ TestsKeys(f)
      BY <2>4, <2>9 DEF ValuesOf, TestsKeys, Own
    <3>2. items # <<>>
      BY <1>2, <2>9 DEF Empty
    <3>3. CASE backend = "PostgreSQL"
      <4>1. ~PerKey(f, backend) /\ h = 2
        BY <2>3, <2>9, <3>1, <3>3 DEF PerKey
      <4>2. Miscounted(f, backend) <=> Bound(items) # 2
        BY <2>9, <3>1, <3>2, <3>3, MiscountedIs
      <4> QED BY <1>0, <2>2, <2>5, <3>1, <4>1, <4>2 DEF r
    <3>4. CASE backend # "PostgreSQL"
      <4>1. Holes(c) = Len(items)
        BY <2>2, <2>3, <2>9, <3>1, <3>4 DEF PerKey, Backends
      <4>2. Miscounted(f, backend) <=> Bound(items) # Len(items)
        BY <2>9, <3>1, <3>4, MiscountedIs
      <4> QED BY <1>0, <2>5, <3>1, <4>1, <4>2 DEF r
    <3> QED BY <3>3, <3>4
  <2> QED BY <2>6, <2>7, <2>8, <2>9 DEF Own
<1> QED BY <1>1, <1>2

-----------------------------------------------------------------------------
(* Trees.                                                                  *)

\* What holds of a tree whenever it holds of its children holds of all of them.
LEMMA TreeInduction ==
  ASSUME NEW S, Forest(S), NEW G,
         \A t \in S : (\A i \in 1..Len(t.kids) : t.kids[i] \in G) => t \in G
  PROVE  S \subseteq G
<1> DEFINE I == {n \in Nat : \A t \in S : t.size < n => t \in G}
<1>0. \A t \in S : Sized(t) /\ t.size \in Nat /\ \A i \in 1..Len(t.kids) : t.kids[i] \in S
  BY DEF Forest, Sized
<1>1. 0 \in I
  BY <1>0
<1>2. ASSUME NEW n \in I PROVE n + 1 \in I
  <2> SUFFICES ASSUME NEW t \in S, t.size < n + 1 PROVE t \in G
    OBVIOUS
  <2>1. ASSUME NEW i \in 1..Len(t.kids) PROVE t.kids[i] \in G
    <3>1. t.kids[i] \in S /\ t.kids[i].size \in Nat /\ t.kids[i].size < t.size
      BY <1>0 DEF Sized
    <3> QED BY <1>0, <3>1
  <2> QED BY <2>1
<1>3. I = Nat
  <2> HIDE DEF I
  <2>1. I \in SUBSET Nat
    BY DEF I
  <2> QED BY <1>1, <1>2, <2>1, Induction
<1>4. ASSUME NEW t \in S PROVE t \in G
  <2>1. t.size + 1 \in Nat /\ t.size < t.size + 1
    BY <1>0
  <2> QED BY <1>3, <2>1
<1> QED BY <1>4

\* The nodes of a tree are the tree and the nodes of its children.
LEMMA NodesSplit ==
  ASSUME NEW S, Forest(S), NEW q \in S
  PROVE  Nodes(q) = {q} \cup UNION {Nodes(q.kids[i]) : i \in 1..Len(q.kids)}
<1> DEFINE T == {q} \cup UNION {Nodes(q.kids[i]) : i \in 1..Len(q.kids)}
<1>1. Sized(q) /\ \A i \in 1..Len(q.kids) : q.kids[i] \in S
  BY DEF Forest
<1>2. \A i \in 1..Len(q.kids) : Forest(Nodes(q.kids[i])) /\ q.kids[i] \in Nodes(q.kids[i])
  BY <1>1, NodesIn
<1>3. Forest(T)
  <2> SUFFICES ASSUME NEW t \in T PROVE Sized(t) /\ \A j \in 1..Len(t.kids) : t.kids[j] \in T
    BY DEF Forest
  <2>1. CASE t = q
    BY <1>1, <1>2, <2>1
  <2>2. CASE t # q
    <3>1. PICK i \in 1..Len(q.kids) : t \in Nodes(q.kids[i])
      BY <2>2
    <3>2. Sized(t) /\ \A j \in 1..Len(t.kids) : t.kids[j] \in Nodes(q.kids[i])
      BY <1>2, <3>1 DEF Forest
    <3> QED BY <3>2
  <2> QED BY <2>1, <2>2
<1>4. Nodes(q) \subseteq T
  <2>1. q \in T
    OBVIOUS
  <2> HIDE DEF T
  <2> QED BY <1>3, <2>1, NodesIn
<1>5. Forest(Nodes(q)) /\ q \in Nodes(q)
  BY NodesIn
<1>6. ASSUME NEW i \in 1..Len(q.kids) PROVE Nodes(q.kids[i]) \subseteq Nodes(q)
  <2>1. q.kids[i] \in Nodes(q)
    BY <1>5 DEF Forest
  <2> QED BY <1>5, <2>1, NodesIn
<1> QED BY <1>4, <1>5, <1>6

\* The conditions of a tree: of a leaf its own, of a branch its children's.
LEMMA LeavesAre ==
  ASSUME NEW S, Forest(S), NEW q \in S, q # NoQ, IsQNode(q)
  PROVE  /\ q.kind = "leaf" => Leaves(q) = {q.test}
         /\ q.kind # "leaf" => \A f : f \in Leaves(q)
                 <=> \E i \in 1..Len(q.kids) : \E u \in Nodes(q.kids[i]) : u.kind = "leaf" /\ f = u.test
<1>1. Nodes(q) = {q} \cup UNION {Nodes(q.kids[i]) : i \in 1..Len(q.kids)}
  BY NodesSplit
<1>2. \A f : f \in Leaves(q) <=> \E u \in Nodes(q) : u.kind = "leaf" /\ f = u.test
  BY DEF Leaves
<1>3. CASE q.kind = "leaf"
  <2>1. q.kids = <<>>
    BY <1>3 DEF IsQNode, IsNode, QLeaf
  <2>2. Nodes(q) = {q}
    BY <1>1, <2>1
  <2> QED BY <1>2, <1>3, <2>2
<1>4. CASE q.kind # "leaf"
  BY <1>1, <1>2, <1>4
<1> QED BY <1>3, <1>4

\* if negated { "NOT (" } else { "(" } ... ")"
LEMMA GroupedIs ==
  ASSUME NEW r, Formed(r), NEW neg
  PROVE  LET g == Grouped(r, neg)
         IN /\ Formed(g) /\ g.err = r.err
            /\ r.err = "none" => g.chain = <<Group(r.chain, neg)>> /\ g.values = r.values
            /\ r.err = "none" /\ Holes(r.chain) = Bound(r.values) => Holes(g.chain) = Bound(g.values)
<1> DEFINE g == Grouped(r, neg)
<1>1. CASE r.err # "none"
  BY <1>1 DEF Grouped
<1>2. CASE r.err = "none"
  <2> DEFINE c == r.chain
             t == Group(c, neg)
  <2>1. Chain(c) /\ IsList(r.values) /\ r = Result("none", c, r.values)
    BY <1>2 DEF Formed
  <2> HIDE DEF c
  <2>2. IsTerm(t) /\ t.holes = Holes(c)
    BY <2>1, GroupIsTerm
  <2> HIDE DEF t
  <2>3. Chain(<<t>>) /\ Holes(<<t>>) = Holes(c)
    BY <2>2, OneTerm
  <2>4. g = Result("none", <<t>>, r.values)
    <3>1. g = [r EXCEPT !.chain = <<Group(@, neg)>>]
      BY <1>2 DEF Grouped
    <3>2. [Result("none", c, r.values) EXCEPT !.chain = <<Group(@, neg)>>] = Result("none", <<Group(c, neg)>>, r.values)
      BY DEF Result
    <3> QED BY <2>1, <3>1, <3>2 DEF t
  <2> HIDE DEF g
  <2>5. g.err = "none" /\ g.chain = <<t>> /\ g.values = r.values
    BY <2>4, ResultFields
  <2>6. Formed(g)
    BY <2>1, <2>3, <2>4, <2>5 DEF Formed
  <2> QED BY <1>2, <2>3, <2>5, <2>6 DEF t, c, g
<1> QED BY <1>1, <1>2

LEMMA SingleFormed ==
  ASSUME NEW f, IsCondition(f), NEW backend \in Backends, RegistrySound
  PROVE  /\ Formed(SingleFilter(f, backend, custom))
         /\ SingleFilter(f, backend, custom).err = "none" /\ ~Miscounted(f, backend)
              => Holes(SingleFilter(f, backend, custom).chain) = Bound(SingleFilter(f, backend, custom).values)
<1> DEFINE r == SingleFilter(f, backend, custom)
<1>1. CASE r.err # "none"
  BY <1>1 DEF Formed
<1>2. CASE r.err = "none"
  <2>1. Chain(r.chain) /\ IsList(r.values) /\ (Holes(r.chain) = Bound(r.values) <=> ~Miscounted(f, backend))
    BY <1>2, SingleBalance
  <2>2. \E c, v : r = Result("none", c, v)
    <3>1. r = Never \/ r = Result("none", Negatable(ChainOf(f, backend), f.negated), ValuesOf(f))
      BY <1>2, SingleIs
    <3>2. \E c, v : Never = Result("none", c, v)
      BY DEF Never
    <3> HIDE DEF r
    <3> QED BY <3>1, <3>2
  <2> HIDE DEF r
  <2>3. r = Result("none", r.chain, r.values)
    BY <2>2, ResultFields
  <2>4. Formed(r)
    BY <2>1, <2>3 DEF Formed
  <2> QED BY <2>1, <2>4 DEF r
<1> QED BY <1>1, <1>2

\* A tree that compiled: its conditions did, and it binds what they do.
TreeFits(q, backend) ==
  LET r == CompileQ(q, backend, custom)
  IN /\ Formed(r)
     /\ r.err = "none" => \A f \in Leaves(q) : SingleFilter(f, backend, custom).err = "none"
     /\ r.err = "none" /\ (\A f \in Leaves(q) : ~Miscounted(f, backend)) => Holes(r.chain) = Bound(r.values)

LEMMA KidsFit ==
  ASSUME NEW S, Forest(S), \A t \in S : IsQNode(t), NEW backend \in Backends, RegistrySound,
         NEW q \in S, \A i \in 1..Len(q.kids) : TreeFits(q.kids[i], backend)
  PROVE  TreeFits(q, backend)
<1> DEFINE rs == [i \in DOMAIN q.kids |-> CompileQ(q.kids[i], backend, custom)]
           r  == CompileQ(q, backend, custom)
           n  == Len(q.kids)
           single(f) == SingleFilter(f, backend, custom)
<1>1. r = CompileNode(q, rs, backend, custom)
  BY CompiledUnfolds
<1>2. IsQNode(q) /\ IsList(q.kids) /\ \A i \in 1..n : q.kids[i] \in S /\ IsQNode(q.kids[i])
  BY DEF Forest, Sized
<1>3. ASSUME NEW t, IsQNode(t) PROVE t # NoQ /\ t.kind \in {"leaf", "and", "or", "not"}
  BY <1>3 DEF IsQNode, IsNode, NoQ
<1>4. DOMAIN q.kids = 1..n /\ n \in Nat
  BY <1>2, ListIs
<1>5. IsList(rs) /\ Len(rs) = n /\ \A i \in 1..n : rs[i] = CompileQ(q.kids[i], backend, custom)
  <2>1. rs = [i \in 1..n |-> rs[i]] /\ \A i \in 1..n : rs[i] = CompileQ(q.kids[i], backend, custom)
    BY <1>4
  <2> HIDE DEF rs
  <2> QED BY <1>4, <2>1, FunctionIsList
<1> HIDE DEF rs
<1>6. \A i \in 1..n : Formed(rs[i])
  BY <1>5 DEF TreeFits
<1>7. q # NoQ /\ \A i \in 1..n : q.kids[i] # NoQ
  BY <1>2, <1>3
<1>8. q.kind = "leaf" => Leaves(q) = {q.test}
  BY <1>2, <1>7, LeavesAre
<1>9. ASSUME q.kind # "leaf" PROVE \A f : f \in Leaves(q) <=> \E i \in 1..n : f \in Leaves(q.kids[i])
  <2>1. \A f : f \in Leaves(q) <=> \E i \in 1..n : \E u \in Nodes(q.kids[i]) : u.kind = "leaf" /\ f = u.test
    BY <1>2, <1>7, <1>9, LeavesAre
  <2>2. \A i \in 1..n : \A f : f \in Leaves(q.kids[i]) <=> \E u \in Nodes(q.kids[i]) : u.kind = "leaf" /\ f = u.test
    BY <1>7 DEF Leaves
  <2>3. ASSUME NEW f PROVE f \in Leaves(q) <=> \E i \in 1..n : f \in Leaves(q.kids[i])
    <3>1. f \in Leaves(q) <=> \E i \in 1..n : \E u \in Nodes(q.kids[i]) : u.kind = "leaf" /\ f = u.test
      BY <2>1
    <3>2. \A i \in 1..n : f \in Leaves(q.kids[i]) <=> \E u \in Nodes(q.kids[i]) : u.kind = "leaf" /\ f = u.test
      BY <2>2
    <3> QED BY <3>1, <3>2, Zenon
  <2> QED BY <2>3
<1>10. \A i \in 1..n : rs[i].err = "none" => \A f \in Leaves(q.kids[i]) : single(f).err = "none"
  BY <1>5 DEF TreeFits
<1>11. \A i \in 1..n : rs[i].err = "none" /\ (\A f \in Leaves(q.kids[i]) : ~Miscounted(f, backend))
                         => Holes(rs[i].chain) = Bound(rs[i].values)
  BY <1>5 DEF TreeFits
<1> HIDE DEF r
<1>12. CASE q.kind = "leaf"
  <2>1. r = SingleFilter(q.test, backend, custom)
    BY <1>1, <1>12 DEF CompileNode
  <2>2. IsCondition(q.test)
    BY <1>2, <1>12 DEF IsQNode, IsNode
  <2> HIDE DEF single
  <2>3. Formed(r) /\ (r.err = "none" /\ ~Miscounted(q.test, backend) => Holes(r.chain) = Bound(r.values))
    BY <2>1, <2>2, SingleFormed
  <2>4. Leaves(q) = {q.test} /\ single(q.test) = r
    BY <1>8, <1>12, <2>1 DEF single
  <2>5. r.err = "none" => \A f \in Leaves(q) : single(f).err = "none"
    BY <2>4
  <2> QED BY <2>3, <2>4, <2>5 DEF TreeFits, r, single
<1>13. CASE q.kind = "not"
  <2> DEFINE s == rs[1]
  <2>1. r = Grouped(s, TRUE)
    BY <1>1, <1>13 DEF CompileNode
  <2>2. n = 1 /\ 1 \in 1..n
    BY <1>2, <1>13 DEF IsQNode
  <2>3. Formed(s)
    BY <1>6, <2>2
  <2>4. /\ s.err = "none" => \A f \in Leaves(q.kids[1]) : single(f).err = "none"
        /\ s.err = "none" /\ (\A f \in Leaves(q.kids[1]) : ~Miscounted(f, backend)) => Holes(s.chain) = Bound(s.values)
    BY <1>10, <1>11, <2>2
  <2> HIDE DEF s, single
  <2>5. Formed(r) /\ r.err = s.err
        /\ (r.err = "none" /\ Holes(s.chain) = Bound(s.values) => Holes(r.chain) = Bound(r.values))
    BY <2>1, <2>3, GroupedIs
  <2>6. \A f : f \in Leaves(q) <=> f \in Leaves(q.kids[1])
    BY <1>9, <1>13, <2>2
  <2>7. r.err = "none" => \A f \in Leaves(q) : single(f).err = "none"
    BY <2>4, <2>5, <2>6
  <2>8. r.err = "none" /\ (\A f \in Leaves(q) : ~Miscounted(f, backend)) => Holes(r.chain) = Bound(r.values)
    BY <2>4, <2>5, <2>6
  <2> QED BY <2>5, <2>7, <2>8 DEF TreeFits, r, single
<1>14. CASE q.kind \in {"and", "or"}
  <2> DEFINE link == IF q.kind = "and" THEN "AND" ELSE "OR"
             s == Combined(rs, link)
  <2>1. r = Grouped(s, FALSE)
    BY <1>1, <1>14 DEF CompileNode
  <2> HIDE DEF link
  <2>2. s.err = "none" => /\ \A i \in 1..n : rs[i].err = "none"
                          /\ Formed(s)
                          /\ (\A i \in 1..n : Balanced(rs[i])) => Balanced(s)
    BY <1>5, <1>6, CombinedIs
  <2> HIDE DEF s
  <2>3. Formed(s)
    BY <2>2 DEF Formed
  <2>4. Formed(r) /\ r.err = s.err
        /\ (r.err = "none" /\ Holes(s.chain) = Bound(s.values) => Holes(r.chain) = Bound(r.values))
    BY <2>1, <2>3, GroupedIs
  <2>5. \A f : f \in Leaves(q) <=> \E i \in 1..n : f \in Leaves(q.kids[i])
    BY <1>9, <1>14
  <2>6. r.err = "none" => \A f \in Leaves(q) : single(f).err = "none"
    BY <1>10, <2>2, <2>4, <2>5
  <2>7. ASSUME r.err = "none", \A f \in Leaves(q) : ~Miscounted(f, backend)
        PROVE  Holes(r.chain) = Bound(r.values)
    <3>1. \A i \in 1..n : Holes(rs[i].chain) = Bound(rs[i].values)
      BY <1>11, <2>2, <2>4, <2>5, <2>7
    <3>2. \A i \in 1..n : Balanced(rs[i])
      BY <1>6, <2>2, <2>4, <2>7, <3>1 DEF Balanced, Formed
    <3> QED BY <2>2, <2>4, <2>7, <3>2 DEF Balanced
  <2> QED BY <2>4, <2>6, <2>7 DEF TreeFits, r, single
<1> QED BY <1>2, <1>3, <1>12, <1>13, <1>14

LEMMA TreesFit ==
  ASSUME NEW q, Tree(q), NEW backend \in Backends, RegistrySound
  PROVE  TreeFits(q, backend)
<1>1. PICK S : q \in S /\ Forest(S) /\ \A t \in S : IsQNode(t)
  BY DEF Tree
<1> DEFINE G == {t \in S : TreeFits(t, backend)}
<1>2. \A t \in S : (\A i \in 1..Len(t.kids) : t.kids[i] \in G) => t \in G
  BY <1>1, KidsFit
<1> HIDE DEF G
<1>3. S \subseteq G
  BY <1>1, <1>2, TreeInduction
<1> QED BY <1>1, <1>3 DEF G

-----------------------------------------------------------------------------
(* The WHERE clause.                                                       *)

LEMMA FiltersFit ==
  ASSUME NEW fs, Conditions(fs), NEW backend \in Backends, RegistrySound
  PROVE  LET r == CompileFilters(fs, backend, custom)
         IN /\ Formed(r)
            /\ r.err = "none" => \A f \in ToSet(fs) : SingleFilter(f, backend, custom).err = "none"
            /\ r.err = "none" /\ (\A f \in ToSet(fs) : ~Miscounted(f, backend)) => Holes(r.chain) = Bound(r.values)
<1> DEFINE rs == [i \in DOMAIN fs |-> SingleFilter(fs[i], backend, custom)]
           r  == Combined(rs, "AND")
           single(f) == SingleFilter(f, backend, custom)
<1>1. DOMAIN fs = 1..Len(fs) /\ Len(fs) \in Nat /\ (\A f : f \in ToSet(fs) <=> \E i \in 1..Len(fs) : fs[i] = f)
  BY ListIs DEF Conditions
<1>2. IsList(rs) /\ Len(rs) = Len(fs) /\ \A i \in 1..Len(fs) : rs[i] = single(fs[i])
  <2>1. rs = [i \in 1..Len(fs) |-> rs[i]] /\ \A i \in 1..Len(fs) : rs[i] = single(fs[i])
    BY <1>1
  <2> HIDE DEF rs, single
  <2> QED BY <1>1, <2>1, FunctionIsList
<1>3. CompileFilters(fs, backend, custom) = r
  BY DEF CompileFilters
<1>4. \A i \in 1..Len(fs) : IsCondition(fs[i])
  BY DEF Conditions
<1>5. \A i \in 1..Len(fs) : Formed(single(fs[i])) /\
         (single(fs[i]).err = "none" /\ ~Miscounted(fs[i], backend)
            => Holes(single(fs[i]).chain) = Bound(single(fs[i]).values))
  BY <1>4, SingleFormed
<1> HIDE DEF rs, single
<1>6. r.err = "none" => /\ \A i \in 1..Len(rs) : rs[i].err = "none"
                        /\ Formed(r)
                        /\ (\A i \in 1..Len(rs) : Balanced(rs[i])) => Balanced(r)
  BY <1>2, <1>5, CombinedIs
<1> HIDE DEF r
<1>7. Formed(r)
  BY <1>6 DEF Formed
<1>8. r.err = "none" => \A f \in ToSet(fs) : single(f).err = "none"
  BY <1>1, <1>2, <1>6
<1>9. ASSUME r.err = "none", \A f \in ToSet(fs) : ~Miscounted(f, backend)
      PROVE  Holes(r.chain) = Bound(r.values)
  <2>1. \A i \in 1..Len(rs) : Balanced(rs[i])
    BY <1>1, <1>2, <1>5, <1>6, <1>9 DEF Balanced, Formed
  <2> QED BY <1>6, <1>9, <2>1 DEF Balanced
<1> QED BY <1>3, <1>7, <1>8, <1>9 DEF single

\* The parts of the clause, each in parentheses.
Parenthesised(rs) == [i \in DOMAIN rs |-> <<Group(rs[i].chain, FALSE)>>]

LEMMA ConjoinedIs ==
  ASSUME NEW rs, IsList(rs), \A i \in 1..Len(rs) : Formed(rs[i]), Conjoined(rs).err = "none"
  PROVE  LET r == Conjoined(rs)
         IN /\ \A i \in 1..Len(rs) : rs[i].err = "none"
            /\ Formed(r) /\ r.chain = Separated(Parenthesised(rs), "AND")
            /\ (\A i \in 1..Len(rs) : Holes(rs[i].chain) = Bound(rs[i].values)) => Holes(r.chain) = Bound(r.values)
<1> DEFINE r   == Conjoined(rs)
           I   == {i \in 1..Len(rs) : rs[i].err # "none"}
           bad == SelectInSeq(rs, LAMBDA x : x.err # "none")
           cs  == Parenthesised(rs)
           vs  == [i \in DOMAIN rs |-> rs[i].values]
<1>1. DOMAIN rs = 1..Len(rs) /\ Len(rs) \in Nat
  BY ListIs
<1>2. bad = IF I # {} THEN Min(I) ELSE 0
  BY DEF SelectInSeq
<1>3. r = IF bad # 0 THEN rs[bad]
          ELSE Result("none", Separated(cs, "AND"), FlattenSeq(vs))
  BY DEF Conjoined, Parenthesised
<1> HIDE DEF bad, r
<1>4. I = {}
  <2> SUFFICES ASSUME I # {} PROVE FALSE
    OBVIOUS
  <2>1. I \in SUBSET Nat
    BY <1>1
  <2>2. Min(I) \in I
    <3> HIDE DEF I
    <3> QED BY <2>1, Least
  <2>3. bad = Min(I) /\ bad # 0
    BY <1>1, <1>2, <2>2
  <2>4. r = rs[bad] /\ rs[bad].err # "none"
    BY <1>3, <2>2, <2>3
  <2> QED BY <2>4 DEF r
<1>5. \A i \in 1..Len(rs) : rs[i].err = "none"
  BY <1>4
<1>6. r = Result("none", Separated(cs, "AND"), FlattenSeq(vs))
  BY <1>2, <1>3, <1>4
<1>7. r.chain = Separated(cs, "AND") /\ r.values = FlattenSeq(vs) /\ r.err = "none"
  <2> HIDE DEF cs, vs
  <2> QED BY <1>6, ResultFields
<1>8. \A i \in 1..Len(rs) : cs[i] = <<Group(rs[i].chain, FALSE)>> /\ vs[i] = rs[i].values
  BY <1>1 DEF Parenthesised
<1>9. cs = [i \in 1..Len(rs) |-> cs[i]] /\ vs = [i \in 1..Len(rs) |-> vs[i]]
  BY <1>1 DEF Parenthesised
<1> HIDE DEF cs, vs
<1>10. IsList(cs) /\ Len(cs) = Len(rs) /\ IsList(vs) /\ Len(vs) = Len(rs)
  BY <1>1, <1>9, FunctionIsList
<1>11. ASSUME NEW i \in 1..Len(rs) PROVE Chain(cs[i]) /\ Holes(cs[i]) = Holes(rs[i].chain) /\ IsList(vs[i])
  <2> DEFINE c == rs[i].chain
             t == Group(c, FALSE)
  <2>1. Chain(c) /\ IsList(rs[i].values)
    BY <1>5 DEF Formed
  <2> HIDE DEF c
  <2>2. IsTerm(t) /\ t.holes = Holes(c)
    BY <2>1, GroupIsTerm
  <2> HIDE DEF t
  <2>3. Chain(<<t>>) /\ Holes(<<t>>) = Holes(c)
    BY <2>2, OneTerm
  <2>4. cs[i] = <<t>>
    BY <1>8 DEF t, c
  <2> QED BY <1>8, <2>1, <2>3, <2>4 DEF c
<1>12. Chain(Separated(cs, "AND")) /\ IsList(FlattenSeq(vs))
       /\ ((\A i \in 1..Len(cs) : Holes(cs[i]) = Bound(vs[i])) => Holes(Separated(cs, "AND")) = Bound(FlattenSeq(vs)))
  BY <1>10, <1>11, SeparatedBalance
<1>13. Formed(r)
  BY <1>6, <1>7, <1>12 DEF Formed
<1>14. (\A i \in 1..Len(rs) : Holes(rs[i].chain) = Bound(rs[i].values)) => Holes(r.chain) = Bound(r.values)
  BY <1>7, <1>8, <1>10, <1>11, <1>12
<1> QED BY <1>5, <1>7, <1>13, <1>14 DEF r, cs

WhereParts(n) ==
  (IF n.filters = <<>> THEN <<>> ELSE <<CompileFilters(n.filters, n.backend, custom)>>)
    \o (IF n.q = NoQ THEN <<>> ELSE <<CompileQ(n.q, n.backend, custom)>>)

\* The clause has no part, the filters, the tree, or the filters and the tree.
LEMMA WherePartsAre ==
  ASSUME NEW n
  PROVE  LET ws == WhereParts(n)
             fs == CompileFilters(n.filters, n.backend, custom)
             t  == CompileQ(n.q, n.backend, custom)
         IN /\ IsList(ws) /\ Len(ws) \in Nat
            /\ n.filters = <<>> /\ n.q = NoQ => ws = <<>> /\ Len(ws) = 0
            /\ n.filters # <<>> /\ n.q = NoQ => ws = <<fs>> /\ Len(ws) = 1 /\ ws[1] = fs
            /\ n.filters = <<>> /\ n.q # NoQ => ws = <<t>> /\ Len(ws) = 1 /\ ws[1] = t
            /\ n.filters # <<>> /\ n.q # NoQ => ws = <<fs, t>> /\ Len(ws) = 2 /\ ws[1] = fs /\ ws[2] = t
<1> DEFINE ws == WhereParts(n)
           fs == CompileFilters(n.filters, n.backend, custom)
           t  == CompileQ(n.q, n.backend, custom)
<1>1. ws = (IF n.filters = <<>> THEN <<>> ELSE <<fs>>) \o (IF n.q = NoQ THEN <<>> ELSE <<t>>)
  BY DEF WhereParts
<1> HIDE DEF ws, fs, t
<1>2. CASE n.filters = <<>> /\ n.q = NoQ
  <2>1. ws = <<>> \o <<>>
    BY <1>1, <1>2
  <2>2. ws = <<>>
    BY <2>1
  <2> QED BY <1>2, <2>2, NoElements DEF ws, fs, t
<1>3. CASE n.filters # <<>> /\ n.q = NoQ
  <2>1. ws = <<fs>> \o <<>>
    BY <1>1, <1>3
  <2>2. ws = <<fs>> /\ Len(ws) = 1 /\ ws[1] = fs
    BY <2>1
  <2>3. IsList(ws)
    BY <2>2, TupleIsList
  <2> QED BY <1>3, <2>2, <2>3 DEF ws, fs, t
<1>4. CASE n.filters = <<>> /\ n.q # NoQ
  <2>1. ws = <<>> \o <<t>>
    BY <1>1, <1>4
  <2>2. ws = <<t>> /\ Len(ws) = 1 /\ ws[1] = t
    BY <2>1
  <2>3. IsList(ws)
    BY <2>2, TupleIsList
  <2> QED BY <1>4, <2>2, <2>3 DEF ws, fs, t
<1>5. CASE n.filters # <<>> /\ n.q # NoQ
  <2>1. ws = <<fs>> \o <<t>>
    BY <1>1, <1>5
  <2> DEFINE p == <<fs>>
             q == <<t>>
             w == <<fs, t>>
  <2>4. IsList(p) /\ IsList(q) /\ IsList(w) /\ Len(p) = 1 /\ Len(q) = 1 /\ Len(w) = 2
    BY TupleIsList, PairIsList
  <2>5. p[1] = fs /\ q[1] = t /\ w[1] = fs /\ w[2] = t /\ 1 \in 1..1
    OBVIOUS
  <2> HIDE DEF p, q, w
  <2>14. IsList(p) /\ IsList(q)
    BY <2>4
  <2>6. /\ IsList(p \o q) /\ Len(p \o q) = Len(p) + Len(q)
        /\ ToSet(p \o q) = ToSet(p) \cup ToSet(q)
        /\ \A i \in 1..Len(p) : (p \o q)[i] = p[i]
        /\ \A i \in 1..Len(q) : (p \o q)[Len(p) + i] = q[i]
    BY <2>14, JoinLists
  <2> DEFINE r == p \o q
  <2> HIDE DEF r
  <2>10. IsList(r) /\ Len(r) = Len(p) + Len(q)
    BY <2>6 DEF r
  <2>11. Len(r) = 2
    BY <2>4, <2>10
  <2>7. r[1] = p[1]
    BY <2>4, <2>5, <2>6 DEF r
  <2>12. r[Len(p) + 1] = q[1]
    BY <2>4, <2>5, <2>6 DEF r
  <2>13. r[2] = q[1]
    BY <2>4, <2>12
  <2>8. \A i \in 1..Len(w) : w[i] = r[i]
    <3>1. 1..Len(w) = {1, 2}
      BY <2>4
    <3> QED BY <2>5, <2>7, <2>13, <3>1
  <2>9. w = p \o q
    BY <2>4, <2>10, <2>11, <2>8, SameList DEF r
  <2>2. ws = <<fs, t>> /\ Len(ws) = 2 /\ ws[1] = fs /\ ws[2] = t
    BY <2>1, <2>4, <2>5, <2>9 DEF p, q, w
  <2>3. IsList(ws)
    BY <2>2, PairIsList
  <2> QED BY <1>5, <2>2, <2>3 DEF ws, fs, t
<1> QED BY <1>2, <1>3, <1>4, <1>5

LEMMA WhereFits ==
  ASSUME NEW n, IsQuery(n), RegistrySound, CompileWhere(n, custom).err = "none"
  PROVE  LET r == CompileWhere(n, custom)
         IN /\ Chain(r.chain) /\ IsList(r.values)
            /\ \A i \in 1..Len(WhereParts(n)) : WhereParts(n)[i].err = "none" /\ Formed(WhereParts(n)[i])
            /\ r.chain = Separated(Parenthesised(WhereParts(n)), "AND")
            /\ \A f \in Tested(n) : SingleFilter(f, n.backend, custom).err = "none"
            /\ (\A f \in Tested(n) : ~Miscounted(f, n.backend)) => Holes(r.chain) = Bound(r.values)
<1> DEFINE r  == CompileWhere(n, custom)
           ws == WhereParts(n)
           fs == CompileFilters(n.filters, n.backend, custom)
           t  == CompileQ(n.q, n.backend, custom)
           single(f) == SingleFilter(f, n.backend, custom)
           fits == \A f \in Tested(n) : ~Miscounted(f, n.backend)
<1>1. r = Conjoined(ws)
  BY DEF CompileWhere, WhereParts
<1>2. Conditions(n.filters) /\ (n.q = NoQ \/ Tree(n.q)) /\ n.backend \in Backends
  BY DEF IsQuery
<1>3. /\ IsList(ws) /\ Len(ws) \in Nat
      /\ n.filters = <<>> /\ n.q = NoQ => ws = <<>> /\ Len(ws) = 0
      /\ n.filters # <<>> /\ n.q = NoQ => ws = <<fs>> /\ Len(ws) = 1 /\ ws[1] = fs
      /\ n.filters = <<>> /\ n.q # NoQ => ws = <<t>> /\ Len(ws) = 1 /\ ws[1] = t
      /\ n.filters # <<>> /\ n.q # NoQ => ws = <<fs, t>> /\ Len(ws) = 2 /\ ws[1] = fs /\ ws[2] = t
  BY WherePartsAre
<1>4. /\ Formed(fs)
      /\ fs.err = "none" => \A f \in ToSet(n.filters) : single(f).err = "none"
      /\ fs.err = "none" /\ (\A f \in ToSet(n.filters) : ~Miscounted(f, n.backend)) => Holes(fs.chain) = Bound(fs.values)
  BY <1>2, FiltersFit
<1>5. n.q # NoQ =>
         /\ Formed(t)
         /\ t.err = "none" => \A f \in Leaves(n.q) : single(f).err = "none"
         /\ t.err = "none" /\ (\A f \in Leaves(n.q) : ~Miscounted(f, n.backend)) => Holes(t.chain) = Bound(t.values)
  <2> SUFFICES ASSUME n.q # NoQ PROVE TreeFits(n.q, n.backend)
    BY DEF TreeFits
  <2> QED BY <1>2, TreesFit
<1>6. \A f : f \in Tested(n) <=> f \in ToSet(n.filters) \/ f \in Leaves(n.q)
  BY DEF Tested
<1>7. n.q = NoQ => Leaves(n.q) = {}
  BY DEF Leaves
<1>8. n.filters = <<>> => ToSet(n.filters) = {}
  BY NoElements
<1>9. r.err = "none"
  OBVIOUS
<1> HIDE DEF r, ws, fs, t, single
<1>10. \A i \in 1..Len(ws) : ws[i] = fs \/ (n.q # NoQ /\ ws[i] = t)
  <2>1. Len(ws) \in {0, 1, 2}
    BY <1>3
  <2>2. CASE Len(ws) = 0
    BY <2>2
  <2>3. CASE Len(ws) = 1
    <3>1. 1..Len(ws) = {1}
      BY <2>3
    <3>2. ws[1] = fs \/ (n.q # NoQ /\ ws[1] = t)
      BY <1>3, <2>3
    <3> QED BY <3>1, <3>2
  <2>4. CASE Len(ws) = 2
    <3>1. 1..Len(ws) = {1, 2}
      BY <2>4
    <3>2. n.filters # <<>> /\ n.q # NoQ
      BY <1>3, <2>4
    <3> QED BY <1>3, <3>1, <3>2
  <2> QED BY <2>1, <2>2, <2>3, <2>4
<1>11. \A i \in 1..Len(ws) : Formed(ws[i])
  BY <1>4, <1>5, <1>10
<1>12. /\ \A i \in 1..Len(ws) : ws[i].err = "none"
       /\ Formed(r) /\ r.chain = Separated(Parenthesised(ws), "AND")
       /\ (\A i \in 1..Len(ws) : Holes(ws[i].chain) = Bound(ws[i].values)) => Holes(r.chain) = Bound(r.values)
  BY <1>1, <1>3, <1>9, <1>11, ConjoinedIs
<1>13. (n.filters # <<>> => fs.err = "none") /\ (n.q # NoQ => t.err = "none")
  BY <1>3, <1>12
<1>14. ASSUME NEW f \in Tested(n) PROVE single(f).err = "none"
  <2>1. CASE f \in ToSet(n.filters)
    BY <1>4, <1>8, <1>13, <2>1
  <2>2. CASE f \in Leaves(n.q)
    BY <1>5, <1>7, <1>13, <2>2
  <2> QED BY <1>6, <2>1, <2>2
<1>15. ASSUME fits PROVE Holes(r.chain) = Bound(r.values)
  <2>1. n.filters # <<>> => Holes(fs.chain) = Bound(fs.values)
    BY <1>4, <1>6, <1>13, <1>15
  <2>2. n.q # NoQ => Holes(t.chain) = Bound(t.values)
    BY <1>5, <1>6, <1>13, <1>15
  <2>3. \A i \in 1..Len(ws) : Holes(ws[i].chain) = Bound(ws[i].values)
    BY <1>3, <2>1, <2>2
  <2> QED BY <1>12, <2>3
<1>16. Chain(r.chain) /\ IsList(r.values)
  BY <1>9, <1>12 DEF Formed
<1> QED BY <1>11, <1>12, <1>14, <1>15, <1>16 DEF r, ws, single

-----------------------------------------------------------------------------
(* The statement.                                                          *)

LEMMA StatementFields ==
  ASSUME NEW text, NEW holes, NEW values, NEW err
  PROVE  /\ Statement(text, holes, values).err = "none" /\ Statement(text, holes, values).holes = holes
         /\ Statement(text, holes, values).values = values
         /\ Refused(err).err = err
BY DEF Statement, Refused

\* The vector a nearest-neighbour query is ordered by, and its "?".
NearValues(n) == IF n.nearest # NoNeighbor THEN <<Scalar("Vector", TRUE)>> ELSE <<>>
NearHoles(n)  == IF n.nearest # NoNeighbor THEN 1 ELSE 0

\* The parts of a statement that bind values.
LEMMA SelectBinds ==
  ASSUME NEW n, NEW w, NEW h, CompileSelect(n, w, h).err = "none"
  PROVE  /\ w.err = "none" /\ h.err = "none"
         /\ CompileSelect(n, w, h).holes = Holes(w.chain) + Holes(h.chain) + NearHoles(n)
         /\ CompileSelect(n, w, h).values = w.values \o h.values \o NearValues(n)
<1> DEFINE near   == n.nearest # NoNeighbor
           limit  == IF n.nearest.limit # NoLimit THEN n.nearest.limit ELSE n.limit
           text   == <<"SELECT", n.distinct, CompileColumns(n), n.extra, TableRef(n.table, n),
                       CompileJoins(n), w.chain, n.groupBy, h.chain,
                       <<n.nearest.field, n.nearest.operator>>, n.orderBy, limit, n.offset>>
           holes  == Holes(w.chain) + Holes(h.chain) + NearHoles(n)
           values == w.values \o h.values \o NearValues(n)
           r      == CompileSelect(n, w, h)
           bad    == near /\ n.backend # "PostgreSQL"
<1>1. r = IF w.err # "none" THEN Refused(w.err)
          ELSE IF h.err # "none" THEN Refused(h.err)
          ELSE IF bad THEN Refused("UnsupportedBackend")
          ELSE Statement(text, holes, values)
  BY DEF CompileSelect, NearHoles, NearValues
<1>2. r.err = "none"
  OBVIOUS
<1> HIDE DEF r, text, holes, values, bad
<1>3. Refused("UnsupportedBackend").err = "UnsupportedBackend" /\ Refused(w.err).err = w.err /\ Refused(h.err).err = h.err
  BY StatementFields
<1>4. r # Refused("UnsupportedBackend") /\ (w.err # "none" => r # Refused(w.err)) /\ (h.err # "none" => r # Refused(h.err))
  BY <1>2, <1>3
<1>5. w.err = "none" /\ h.err = "none" /\ ~bad
  BY <1>1, <1>4
<1>6. r = Statement(text, holes, values)
  BY <1>1, <1>5
<1>7. r.holes = holes /\ r.values = values
  BY <1>6, StatementFields
<1> QED BY <1>5, <1>7 DEF r, holes, values

LEMMA ScanBinds ==
  ASSUME NEW n, NEW w, CompileScan(n, w).err = "none"
  PROVE  w.err = "none" /\ CompileScan(n, w).holes = Holes(w.chain) /\ CompileScan(n, w).values = w.values
<1> DEFINE joins == IF n.op.kind = "delete" THEN <<>> ELSE CompileJoins(n)
           what  == IF n.op.kind = "aggregate" THEN CompileAggregates(n.annotations) ELSE <<>>
           text  == <<n.op.kind, what, TableRef(n.table, n), joins, w.chain>>
           r     == CompileScan(n, w)
<1>1. r = IF n.op.kind = "aggregate" /\ n.annotations = <<>> THEN Refused("no aggregates")
          ELSE IF w.err # "none" THEN Refused(w.err)
          ELSE Statement(text, Holes(w.chain), w.values)
  BY DEF CompileScan
<1> HIDE DEF text, r
<1>2. Refused("no aggregates").err = "no aggregates" /\ Refused(w.err).err = w.err
  BY StatementFields
<1>3. w.err = "none" /\ r = Statement(text, Holes(w.chain), w.values)
  BY <1>1, <1>2 DEF r
<1>4. r.holes = Holes(w.chain) /\ r.values = w.values
  BY <1>3, StatementFields
<1> QED BY <1>3, <1>4 DEF r

LEMMA UpdateBinds ==
  ASSUME NEW n, NEW w, CompileUpdate(n, w).err = "none"
  PROVE  /\ w.err = "none"
         /\ CompileUpdate(n, w).holes = Len(n.op.cols) + Holes(w.chain)
         /\ CompileUpdate(n, w).values = AssignedValues(n) \o w.values
<1> DEFINE text   == <<"UPDATE", TableRef(n.table, n), AssignedColumns(n), w.chain>>
           holes  == Len(n.op.cols) + Holes(w.chain)
           values == AssignedValues(n) \o w.values
           r      == CompileUpdate(n, w)
<1>1. r = IF n.op.cols = <<>> THEN Refused("no assignments")
          ELSE IF w.err # "none" THEN Refused(w.err)
          ELSE Statement(text, holes, values)
  BY DEF CompileUpdate
<1> HIDE DEF text, r, holes, values
<1>2. Refused("no assignments").err = "no assignments" /\ Refused(w.err).err = w.err
  BY StatementFields
<1>3. w.err = "none" /\ r = Statement(text, holes, values)
  BY <1>1, <1>2 DEF r
<1>4. r.holes = holes /\ r.values = values
  BY <1>3, StatementFields
<1> QED BY <1>3, <1>4 DEF r, holes, values

LEMMA InsertBinds ==
  ASSUME NEW n, CompileInsert(n).err = "none"
  PROVE  CompileInsert(n).holes = Len(n.op.cols) /\ CompileInsert(n).values = AssignedValues(n)
<1> DEFINE text   == <<"INSERT", TableRef(n.table, n), AssignedColumns(n), n.op.returning>>
           holes  == Len(n.op.cols)
           values == AssignedValues(n)
           r      == CompileInsert(n)
<1>1. r = IF n.op.cols = <<>> THEN Refused("no values") ELSE Statement(text, holes, values)
  BY DEF CompileInsert
<1> HIDE DEF text, r, holes, values
<1>2. Refused("no values").err = "no values"
  BY StatementFields
<1>3. r = Statement(text, holes, values)
  BY <1>1, <1>2 DEF r
<1>4. r.holes = holes /\ r.values = values
  BY <1>3, StatementFields
<1> QED BY <1>4 DEF r, holes, values

LEMMA AssignedList ==
  ASSUME NEW n, IsList(n.op.cols)
  PROVE  IsList(AssignedValues(n)) /\ Len(AssignedValues(n)) = Len(n.op.cols) /\ Len(n.op.cols) \in Nat
<1> DEFINE s == AssignedValues(n)
<1>1. DOMAIN n.op.cols = 1..Len(n.op.cols) /\ Len(n.op.cols) \in Nat
  BY ListIs
<1>2. s = [i \in 1..Len(n.op.cols) |-> s[i]]
  BY <1>1 DEF AssignedValues
<1> HIDE DEF s
<1>3. IsList(s) /\ Len(s) = Len(n.op.cols)
  BY <1>1, <1>2, FunctionIsList
<1> QED BY <1>1, <1>3 DEF s

Used == CASE stmt.op.kind = "insert" -> {}
          [] stmt.op.kind = "select" -> Tested(stmt) \cup ToSet(stmt.having)
          [] OTHER -> Tested(stmt)
Assigned == IF stmt.op.kind \in {"insert", "update"} THEN AssignedValues(stmt) ELSE <<>>

\* The registry's custom lookups have a number of "?".
LEMMA Registered == SInv => RegistrySound
BY CustomsAssumption DEF SInv, RegistrySound

\* A HAVING, which nothing adds, is empty.
LEMMA NoHaving ==
  ASSUME NEW backend \in Backends, RegistrySound
  PROVE  LET h == CompileFilters(<<>>, backend, custom)
         IN h.err = "none" => IsList(h.values) /\ Chain(h.chain) /\ Holes(h.chain) = Bound(h.values)
<1>1. Conditions(<<>>) /\ ToSet(<<>>) = {}
  BY NoElements DEF Conditions
<1> DEFINE h == CompileFilters(<<>>, backend, custom)
<1>2. Formed(h) /\ (h.err = "none" /\ (\A f \in ToSet(<<>>) : ~Miscounted(f, backend)) => Holes(h.chain) = Bound(h.values))
  BY <1>1, FiltersFit
<1> HIDE DEF h
<1>3. h.err = "none" => IsList(h.values) /\ Chain(h.chain) /\ Holes(h.chain) = Bound(h.values)
  BY <1>1, <1>2 DEF Formed
<1> QED BY <1>3 DEF h

LEMMA NearBinds ==
  ASSUME NEW n
  PROVE  IsList(NearValues(n)) /\ NearHoles(n) = Bound(NearValues(n))
<1> DEFINE v == Scalar("Vector", TRUE)
<1>1. v.type # "List"
  BY DEF Scalar
<1> HIDE DEF v
<1>2. CASE n.nearest # NoNeighbor
  <2>1. IsList(<<v>>) /\ Bound(<<v>>) = 1
    BY <1>1, TupleIsList, BoundOne
  <2> QED BY <1>2, <2>1 DEF v, NearValues, NearHoles
<1>3. CASE n.nearest = NoNeighbor
  BY <1>3, NoElements, BoundEmpty DEF NearValues, NearHoles
<1> QED BY <1>2, <1>3

\* What a statement that compiled binds, from the conditions and the assignments it is written from.
LEMMA StatementBinds ==
  ASSUME SInv, Asked, Compiled.err = "none"
  PROVE  /\ \A f \in Used : IsCondition(f) /\ SingleFilter(f, stmt.backend, custom).err = "none"
         /\ (\A f \in Used : ~Miscounted(f, stmt.backend)) /\ Bound(Assigned) = Len(Assigned)
              => Compiled.holes = Bound(Compiled.values)
<1> DEFINE n == stmt
           w == CompileWhere(n, custom)
           h == CompileFilters(n.having, n.backend, custom)
           fits == \A f \in Tested(n) : ~Miscounted(f, n.backend)
           goal == /\ \A f \in Used : IsCondition(f) /\ SingleFilter(f, n.backend, custom).err = "none"
                   /\ (\A f \in Used : ~Miscounted(f, n.backend)) /\ Bound(Assigned) = Len(Assigned)
                        => Compiled.holes = Bound(Compiled.values)
<1>1. Sound(n) /\ RegistrySound
  BY Registered DEF SInv, Asked
<1>2. IsQuery(n) /\ IsOp(n.op) /\ n.backend \in Backends /\ n.having = <<>>
  BY <1>1 DEF Sound, IsQuery
<1>3. Compiled = CompileOp(n, w, h)
  BY DEF Compiled, Compile
<1>4. Compiled.err = "none"
  OBVIOUS
<1>5. h.err = "none" => IsList(h.values) /\ Chain(h.chain) /\ Holes(h.chain) = Bound(h.values)
  BY <1>1, <1>2, NoHaving
<1>6. w.err = "none" => /\ Chain(w.chain) /\ IsList(w.values)
                        /\ \A f \in Tested(n) : SingleFilter(f, n.backend, custom).err = "none"
                        /\ fits => Holes(w.chain) = Bound(w.values)
  BY <1>1, <1>2, WhereFits
<1>7. \A f \in Tested(n) : IsCondition(f)
  <2>1. \A f \in ToSet(n.filters) : IsCondition(f)
    <3>1. \A f : f \in ToSet(n.filters) => \E i \in 1..Len(n.filters) : n.filters[i] = f
      BY <1>2, ListIs DEF IsQuery, Conditions
    <3> QED BY <1>2, <3>1 DEF IsQuery, Conditions
  <2>2. \A f \in Leaves(n.q) : IsCondition(f)
    <3>1. CASE n.q = NoQ
      BY <3>1 DEF Leaves
    <3>2. CASE n.q # NoQ
      <4>1. PICK S : n.q \in S /\ Forest(S) /\ \A t \in S : IsQNode(t)
        BY <1>2, <3>2 DEF IsQuery, Tree
      <4>2. Nodes(n.q) \subseteq S
        BY <4>1, NodesIn
      <4>3. \A t \in S : t.kind = "leaf" => IsCondition(t.test)
        BY <4>1 DEF IsQNode, IsNode
      <4> QED BY <3>2, <4>2, <4>3 DEF Leaves
    <3> QED BY <3>1, <3>2
  <2> QED BY <2>1, <2>2 DEF Tested
<1>8. ToSet(n.having) = {}
  BY <1>2, NoElements
<1> HIDE DEF w, h, fits
<1>9. CASE n.op.kind = "select"
  <2> DEFINE x == NearValues(n)
  <2>1. Compiled = CompileSelect(n, w, h)
    BY <1>3, <1>9 DEF CompileOp
  <2>2. /\ w.err = "none" /\ h.err = "none"
        /\ Compiled.holes = Holes(w.chain) + Holes(h.chain) + NearHoles(n)
        /\ Compiled.values = w.values \o h.values \o x
    <3>1. CompileSelect(n, w, h).err = "none"
      BY <1>4, <2>1
    <3> HIDE DEF x
    <3>2. /\ w.err = "none" /\ h.err = "none"
          /\ CompileSelect(n, w, h).holes = Holes(w.chain) + Holes(h.chain) + NearHoles(n)
          /\ CompileSelect(n, w, h).values = w.values \o h.values \o x
      BY <3>1, SelectBinds, Zenon DEF x
    <3> QED BY <2>1, <3>2
  <2>3. IsList(x) /\ NearHoles(n) = Bound(x)
    BY NearBinds
  <2> HIDE DEF x
  <2>4. Used = Tested(n)
    BY <1>8, <1>9 DEF Used
  <2>5. IsList(w.values) /\ IsList(h.values)
    BY <1>5, <1>6, <2>2
  <2>6. IsList(w.values \o h.values) /\ Bound(w.values \o h.values) = Bound(w.values) + Bound(h.values)
    BY <2>5, JoinLists, BoundJoin
  <2> DEFINE y == w.values \o h.values
  <2> HIDE DEF y
  <2>7. Bound(y \o x) = Bound(y) + Bound(x)
    BY <2>3, <2>6, BoundJoin DEF y
  <2>8. fits => Compiled.holes = Bound(Compiled.values)
    BY <1>5, <1>6, <2>2, <2>3, <2>6, <2>7 DEF y
  <2> QED BY <1>6, <1>7, <2>2, <2>4, <2>8 DEF fits
<1>10. CASE n.op.kind = "update"
  <2>1. Compiled = CompileUpdate(n, w)
    BY <1>3, <1>10 DEF CompileOp
  <2> DEFINE a == AssignedValues(n)
  <2>2. w.err = "none" /\ Compiled.holes = Len(n.op.cols) + Holes(w.chain) /\ Compiled.values = a \o w.values
    BY <1>4, <2>1, UpdateBinds
  <2>3. IsList(a) /\ Len(a) = Len(n.op.cols)
    BY <1>2, <1>10, AssignedList DEF IsOp
  <2>4. Used = Tested(n) /\ Assigned = a
    BY <1>10 DEF Used, Assigned
  <2> HIDE DEF a
  <2>5. Bound(a \o w.values) = Bound(a) + Bound(w.values)
    BY <1>6, <2>2, <2>3, BoundJoin
  <2>6. fits /\ Bound(a) = Len(a) => Compiled.holes = Bound(Compiled.values)
    BY <1>6, <2>2, <2>3, <2>5
  <2> QED BY <1>6, <1>7, <2>2, <2>4, <2>6 DEF fits
<1>11. CASE n.op.kind = "insert"
  <2>1. Compiled = CompileInsert(n)
    BY <1>3, <1>11 DEF CompileOp
  <2> DEFINE a == AssignedValues(n)
  <2>2. Compiled.holes = Len(n.op.cols) /\ Compiled.values = a
    BY <1>4, <2>1, InsertBinds
  <2>3. IsList(a) /\ Len(a) = Len(n.op.cols)
    BY <1>2, <1>11, AssignedList DEF IsOp
  <2>4. Used = {} /\ Assigned = a
    BY <1>11 DEF Used, Assigned
  <2> QED BY <2>2, <2>3, <2>4
<1>12. CASE n.op.kind \notin {"select", "update", "insert"}
  <2>1. Compiled = CompileScan(n, w)
    BY <1>3, <1>12 DEF CompileOp
  <2>2. w.err = "none" /\ Compiled.holes = Holes(w.chain) /\ Compiled.values = w.values
    BY <1>4, <2>1, ScanBinds
  <2>3. Used = Tested(n)
    BY <1>12 DEF Used
  <2>4. fits => Compiled.holes = Bound(Compiled.values)
    BY <1>6, <2>2
  <2> QED BY <1>6, <1>7, <2>2, <2>3, <2>4 DEF fits
<1> QED BY <1>9, <1>10, <1>11, <1>12

\* A statement has exactly as many "?" as it binds values unless one of its conditions is of the
\* shapes of Miscounted or a list is assigned to a column, whatever the query and the lookups
\* registered; and each of those conditions is off by itself.
THEOREM ValuesFitPlaceholders == SessionSpec => []BoundExactly
<1>1. SInv => BoundExactly
  <2> SUFFICES ASSUME SInv, Asked, Compiled.err = "none"
               PROVE  /\ (\A f \in Used : ~Miscounted(f, stmt.backend)) /\ Bound(Assigned) = Len(Assigned)
                           => Compiled.holes = Bound(Compiled.values)
                      /\ \A f \in Used : LET r == SingleFilter(f, stmt.backend, custom)
                                         IN Holes(r.chain) # Bound(r.values) <=> Miscounted(f, stmt.backend)
    BY DEF BoundExactly, Used, Assigned
  <2>1. \A f \in Used : IsCondition(f) /\ SingleFilter(f, stmt.backend, custom).err = "none"
    BY StatementBinds
  <2>2. stmt.backend \in Backends /\ RegistrySound
    BY Registered DEF SInv, Asked, Sound, IsQuery
  <2>3. \A f \in Used : LET r == SingleFilter(f, stmt.backend, custom)
                        IN Holes(r.chain) # Bound(r.values) <=> Miscounted(f, stmt.backend)
    BY <2>1, <2>2, SingleBalance
  <2> QED BY <2>3, StatementBinds
<1> QED BY <1>1, SessionInvariant, PTL

-----------------------------------------------------------------------------
(* Readings.  What a chain or a tree is for a choice v of true atoms: from *)
(* the number of its first atom, whether it holds and the number after it. *)

Judged == [holds : BOOLEAN, next : Nat]
Reading == [Nat -> Judged]

\* AlongKids, step by step.
KidsStep(kind, a, r) ==
  [holds |-> CASE kind = "and" -> a.holds /\ r.holds
               [] kind = "or"  -> a.holds \/ r.holds
               [] kind = "not" -> ~r.holds,
   next |-> r.next]
KidsAt(kind, ms, i, f, n) ==
  IF n = 0 THEN [holds |-> kind = "and", next |-> i] ELSE KidsStep(kind, f[n - 1], ms[n][f[n - 1].next])
KidsOf(kind, ms, i, m, f) == f = [n \in 0..m |-> KidsAt(kind, ms, i, f, n)]

LEMMA KidsExist ==
  ASSUME NEW kind, NEW ms, NEW i
  PROVE  \A m \in Nat : \E f : KidsOf(kind, ms, i, m, f)
<1> DEFINE S == {m \in Nat : \E f : KidsOf(kind, ms, i, m, f)}
<1>1. 0 \in S
  <2> DEFINE f == [n \in 0..0 |-> [holds |-> kind = "and", next |-> i]]
  <2>1. \A n \in 0..0 : n = 0
    OBVIOUS
  <2>2. f = [n \in 0..0 |-> KidsAt(kind, ms, i, f, n)]
    BY <2>1 DEF KidsAt
  <2>3. KidsOf(kind, ms, i, 0, f)
    BY <2>2 DEF KidsOf
  <2> QED BY <2>3
<1>2. ASSUME NEW m \in S PROVE m + 1 \in S
  <2>1. PICK f : KidsOf(kind, ms, i, m, f)
    OBVIOUS
  <2> DEFINE g == [n \in 0..(m + 1) |-> KidsAt(kind, ms, i, f, n)]
  <2>2. m \in Nat
    OBVIOUS
  <2>3. \A n \in 0..m : g[n] = f[n]
    BY <2>1, <2>2 DEF KidsOf
  <2>4. ASSUME NEW n \in 0..(m + 1) PROVE KidsAt(kind, ms, i, f, n) = KidsAt(kind, ms, i, g, n)
    <3>1. CASE n = 0
      BY <3>1 DEF KidsAt
    <3>2. CASE n # 0
      <4>1. n - 1 \in 0..m
        BY <3>2, <2>2
      <4>2. g[n - 1] = f[n - 1]
        BY <4>1, <2>3
      <4> HIDE DEF g
      <4> QED BY <3>2, <4>2 DEF KidsAt
    <3> QED BY <3>1, <3>2
  <2>5. g = [n \in 0..(m + 1) |-> KidsAt(kind, ms, i, g, n)]
    BY <2>4
  <2>6. KidsOf(kind, ms, i, m + 1, g)
    BY <2>5 DEF KidsOf
  <2> QED BY <2>6, <2>2
<1> HIDE DEF S
<1>3. S = Nat
  BY <1>1, <1>2, Induction DEF S
<1> QED BY <1>3 DEF S

\* What a list of readings is after each of them.
KidsRun(kind, ms, i, f) ==
  /\ f[0] = [holds |-> kind = "and", next |-> i]
  /\ \A n \in 1..Len(ms) : f[n] = KidsStep(kind, f[n - 1], ms[n][f[n - 1].next])

LEMMA KidsAre ==
  ASSUME NEW kind, NEW ms, Len(ms) \in Nat, NEW i
  PROVE  \E f : KidsRun(kind, ms, i, f) /\ AlongKids(kind, ms, i) = f[Len(ms)]
<1> DEFINE f == CHOOSE g : KidsOf(kind, ms, i, Len(ms), g)
<1>1. KidsOf(kind, ms, i, Len(ms), f)
  BY KidsExist
<1>2. AlongKids(kind, ms, i) = f[Len(ms)]
  BY DEF AlongKids, KidsOf, KidsAt, KidsStep
<1> HIDE DEF f
<1>3. KidsRun(kind, ms, i, f)
  <2>1. \A n \in 0..Len(ms) : f[n] = KidsAt(kind, ms, i, f, n)
    BY <1>1, Zenon DEF KidsOf
  <2>2. 0 \in 0..Len(ms) /\ \A n \in 1..Len(ms) : n \in 0..Len(ms) /\ n # 0
    OBVIOUS
  <2>3. f[0] = [holds |-> kind = "and", next |-> i]
    BY <2>1, <2>2, Zenon DEF KidsAt
  <2>4. \A n \in 1..Len(ms) : f[n] = KidsStep(kind, f[n - 1], ms[n][f[n - 1].next])
    BY <2>1, <2>2, Zenon DEF KidsAt
  <2> QED BY <2>3, <2>4, Zenon DEF KidsRun
<1> QED BY <1>2, <1>3

LEMMA StepReads ==
  ASSUME NEW kind \in {"and", "or", "not"}, NEW a \in Judged, NEW r \in Judged
  PROVE  /\ KidsStep(kind, a, r) \in Judged
         /\ KidsStep(kind, a, r).next = r.next
         /\ kind = "and" => (KidsStep(kind, a, r).holds <=> a.holds /\ r.holds)
         /\ kind = "or"  => (KidsStep(kind, a, r).holds <=> a.holds \/ r.holds)
         /\ kind = "not" => (KidsStep(kind, a, r).holds <=> ~r.holds)
<1>1. CASE kind = "and"
  BY <1>1 DEF KidsStep, Judged
<1>2. CASE kind = "or"
  BY <1>2 DEF KidsStep, Judged
<1>3. CASE kind = "not"
  BY <1>3 DEF KidsStep, Judged
<1> QED BY <1>1, <1>2, <1>3

Readings(ms) == Len(ms) \in Nat /\ \A n \in 1..Len(ms) : ms[n] \in Reading

LEMMA KidsRead ==
  ASSUME NEW kind \in {"and", "or", "not"}, NEW ms, Readings(ms), NEW i \in Nat, NEW f, KidsRun(kind, ms, i, f)
  PROVE  \A n \in 0..Len(ms) : f[n] \in Judged
<1> DEFINE S == {n \in 0..Len(ms) : f[n] \in Judged}
<1>0. Len(ms) \in Nat
  BY DEF Readings
<1>1. 0 \in S
  <2>1. [holds |-> kind = "and", next |-> i] \in Judged
    BY DEF Judged
  <2> QED BY <1>0, <2>1 DEF KidsRun
<1>2. ASSUME NEW n \in 0..(Len(ms) - 1), n \in S PROVE n + 1 \in S
  <2>1. n + 1 \in 1..Len(ms) /\ (n + 1) - 1 = n /\ n + 1 \in 0..Len(ms)
    BY <1>0
  <2> DEFINE a == f[n]
             r == ms[n + 1][a.next]
  <2>2. a \in Judged
    BY <1>2
  <2>3. r \in Judged
    BY <2>1, <2>2 DEF Readings, Reading, Judged
  <2>4. f[n + 1] = KidsStep(kind, a, r)
    BY <2>1 DEF KidsRun
  <2> HIDE DEF a, r
  <2>5. f[n + 1] \in Judged
    BY <2>2, <2>3, <2>4, StepReads
  <2> QED BY <2>1, <2>5
<1> HIDE DEF S
<1>3. \A n \in 0..Len(ms) : n \in S
  BY <1>0, <1>1, <1>2, Upto
<1> QED BY <1>3 DEF S

LEMMA KidsReading ==
  ASSUME NEW kind \in {"and", "or", "not"}, NEW ms, Readings(ms), NEW i \in Nat
  PROVE  AlongKids(kind, ms, i) \in Judged
<1>1. Len(ms) \in Nat
  BY DEF Readings
<1>2. PICK f : KidsRun(kind, ms, i, f) /\ AlongKids(kind, ms, i) = f[Len(ms)]
  BY <1>1, KidsAre
<1>3. f[Len(ms)] \in Judged
  BY <1>1, <1>2, KidsRead
<1> QED BY <1>2, <1>3

\* Two lists that begin alike are alike so far.
LEMMA SameRuns ==
  ASSUME NEW kind, NEW i, NEW N \in Nat, NEW ms, NEW ns, N <= Len(ms), N <= Len(ns), Len(ms) \in Nat, Len(ns) \in Nat,
         \A n \in 1..N : ms[n] = ns[n],
         NEW f, KidsRun(kind, ms, i, f), NEW g, KidsRun(kind, ns, i, g)
  PROVE  \A n \in 0..N : f[n] = g[n]
<1> DEFINE S == {n \in 0..N : f[n] = g[n]}
<1>1. 0 \in S
  BY DEF KidsRun
<1>2. ASSUME NEW n \in 0..(N - 1), n \in S PROVE n + 1 \in S
  <2>1. n + 1 \in 1..N /\ (n + 1) - 1 = n /\ n + 1 \in 0..N /\ n + 1 \in 1..Len(ms) /\ n + 1 \in 1..Len(ns)
    OBVIOUS
  <2>2. f[n] = g[n] /\ ms[n + 1] = ns[n + 1]
    BY <1>2, <2>1
  <2>3. f[n + 1] = KidsStep(kind, f[n], ms[n + 1][f[n].next]) /\ g[n + 1] = KidsStep(kind, g[n], ns[n + 1][g[n].next])
    BY <2>1 DEF KidsRun
  <2> QED BY <2>1, <2>2, <2>3
<1> HIDE DEF S
<1>3. \A n \in 0..N : n \in S
  BY <1>1, <1>2, Upto
<1> QED BY <1>3 DEF S

\* A list and one reading after it.
LEMMA KidsAppend ==
  ASSUME NEW kind \in {"and", "or", "not"}, NEW ms, Readings(ms), NEW ns, Readings(ns), Len(ns) = Len(ms) + 1,
         \A n \in 1..Len(ms) : ns[n] = ms[n], NEW i \in Nat
  PROVE  LET a == AlongKids(kind, ms, i)
         IN AlongKids(kind, ns, i) = KidsStep(kind, a, ns[Len(ns)][a.next])
<1>0. Len(ms) \in Nat /\ Len(ns) \in Nat
  BY DEF Readings
<1>1. PICK f : KidsRun(kind, ms, i, f) /\ AlongKids(kind, ms, i) = f[Len(ms)]
  BY <1>0, KidsAre
<1>2. PICK g : KidsRun(kind, ns, i, g) /\ AlongKids(kind, ns, i) = g[Len(ns)]
  BY <1>0, KidsAre
<1>3. \A n \in 0..Len(ms) : f[n] = g[n]
  <2>1. Len(ms) <= Len(ms) /\ Len(ms) <= Len(ns) /\ \A n \in 1..Len(ms) : ms[n] = ns[n]
    BY <1>0
  <2>2. KidsRun(kind, ms, i, f) /\ KidsRun(kind, ns, i, g)
    BY <1>1, <1>2
  <2> QED BY <1>0, <2>1, <2>2, SameRuns
<1>4. g[Len(ns)] = KidsStep(kind, g[Len(ms)], ns[Len(ns)][g[Len(ms)].next])
  <2>1. Len(ns) \in 1..Len(ns) /\ Len(ns) - 1 = Len(ms)
    BY <1>0
  <2> QED BY <1>2, <2>1 DEF KidsRun
<1>5. f[Len(ms)] = g[Len(ms)]
  BY <1>0, <1>3
<1> QED BY <1>1, <1>2, <1>4, <1>5

\* No reading, and one.
LEMMA FewKids ==
  ASSUME NEW kind \in {"and", "or", "not"}, NEW i \in Nat, NEW m \in Reading
  PROVE  /\ AlongKids(kind, <<>>, i) = [holds |-> kind = "and", next |-> i]
         /\ kind \in {"and", "or"} => AlongKids(kind, <<m>>, i) = m[i]
         /\ kind = "not" => AlongKids(kind, <<m>>, i) = [holds |-> ~m[i].holds, next |-> m[i].next]
<1> DEFINE zero == [holds |-> kind = "and", next |-> i]
           one  == <<m>>
<1>1. Len(<<>>) = 0 /\ Len(one) = 1 /\ one[1] = m
  OBVIOUS
<1> HIDE DEF one
<1>2. AlongKids(kind, <<>>, i) = zero
  <2>0. Len(<<>>) \in Nat
    BY <1>1
  <2>1. PICK f : KidsRun(kind, <<>>, i, f) /\ AlongKids(kind, <<>>, i) = f[Len(<<>>)]
    BY <2>0, KidsAre
  <2> QED BY <1>1, <2>1 DEF KidsRun
<1>3. AlongKids(kind, one, i) = KidsStep(kind, zero, m[i])
  <2>0. Len(one) \in Nat
    BY <1>1
  <2>1. PICK f : KidsRun(kind, one, i, f) /\ AlongKids(kind, one, i) = f[Len(one)]
    BY <2>0, KidsAre
  <2>2. f[0] = zero /\ f[1] = KidsStep(kind, f[0], one[1][f[0].next])
    BY <1>1, <2>1 DEF KidsRun
  <2>3. zero.next = i
    OBVIOUS
  <2> QED BY <1>1, <2>1, <2>2, <2>3
<1>4. zero \in Judged /\ m[i] \in Judged
      /\ zero.holds = (kind = "and")
  BY DEF Reading, Judged
<1> DEFINE s == KidsStep(kind, zero, m[i])
<1>5. /\ s \in Judged /\ s.next = m[i].next
      /\ kind = "and" => (s.holds <=> zero.holds /\ m[i].holds)
      /\ kind = "or"  => (s.holds <=> zero.holds \/ m[i].holds)
      /\ kind = "not" => (s.holds <=> ~m[i].holds)
  <2> DEFINE r == m[i]
  <2>1. r \in Judged
    BY <1>4
  <2>2. zero \in Judged
    BY <1>4
  <2> HIDE DEF zero, r
  <2>3. /\ KidsStep(kind, zero, r) \in Judged
        /\ KidsStep(kind, zero, r).next = r.next
        /\ kind = "and" => (KidsStep(kind, zero, r).holds <=> zero.holds /\ r.holds)
        /\ kind = "or"  => (KidsStep(kind, zero, r).holds <=> zero.holds \/ r.holds)
        /\ kind = "not" => (KidsStep(kind, zero, r).holds <=> ~r.holds)
    <3>1. ASSUME NEW a \in Judged, NEW b \in Judged
          PROVE  /\ KidsStep(kind, a, b) \in Judged
                 /\ KidsStep(kind, a, b).next = b.next
                 /\ kind = "and" => (KidsStep(kind, a, b).holds <=> a.holds /\ b.holds)
                 /\ kind = "or"  => (KidsStep(kind, a, b).holds <=> a.holds \/ b.holds)
                 /\ kind = "not" => (KidsStep(kind, a, b).holds <=> ~b.holds)
      BY StepReads
    <3> QED BY <2>1, <2>2, <3>1
  <2>4. s = KidsStep(kind, zero, r)
    BY DEF r
  <2> HIDE DEF s
  <2> QED BY <2>3, <2>4 DEF r
<1> HIDE DEF s
<1>6. kind \in {"and", "or"} => s = m[i]
  BY <1>4, <1>5 DEF Judged
<1>7. kind = "not" => s = [holds |-> ~m[i].holds, next |-> m[i].next]
  BY <1>4, <1>5 DEF Judged
<1> QED BY <1>2, <1>3, <1>6, <1>7 DEF s, one

\* AlongChain, step by step.
ChainStep(t, a, r) ==
  IF t.link = "OR"
  THEN [before |-> a.before \/ a.run, run |-> r.holds, next |-> r.next]
  ELSE [before |-> a.before, run |-> a.run /\ r.holds, next |-> r.next]
ChainAt(c, ms, i, f, n) ==
  IF n = 0 THEN [before |-> FALSE, run |-> TRUE, next |-> i]
  ELSE ChainStep(c[n], f[n - 1], ms[n][f[n - 1].next])
AlongOf(c, ms, i, m, f) == f = [n \in 0..m |-> ChainAt(c, ms, i, f, n)]

LEMMA AlongExist ==
  ASSUME NEW c, NEW ms, NEW i
  PROVE  \A m \in Nat : \E f : AlongOf(c, ms, i, m, f)
<1> DEFINE S == {m \in Nat : \E f : AlongOf(c, ms, i, m, f)}
<1>1. 0 \in S
  <2> DEFINE f == [n \in 0..0 |-> [before |-> FALSE, run |-> TRUE, next |-> i]]
  <2>1. \A n \in 0..0 : n = 0
    OBVIOUS
  <2>2. f = [n \in 0..0 |-> ChainAt(c, ms, i, f, n)]
    BY <2>1 DEF ChainAt
  <2>3. AlongOf(c, ms, i, 0, f)
    BY <2>2 DEF AlongOf
  <2> QED BY <2>3
<1>2. ASSUME NEW m \in S PROVE m + 1 \in S
  <2>1. PICK f : AlongOf(c, ms, i, m, f)
    OBVIOUS
  <2> DEFINE g == [n \in 0..(m + 1) |-> ChainAt(c, ms, i, f, n)]
  <2>2. m \in Nat
    OBVIOUS
  <2>3. \A n \in 0..m : g[n] = f[n]
    BY <2>1, <2>2 DEF AlongOf
  <2>4. ASSUME NEW n \in 0..(m + 1) PROVE ChainAt(c, ms, i, f, n) = ChainAt(c, ms, i, g, n)
    <3>1. CASE n = 0
      BY <3>1 DEF ChainAt
    <3>2. CASE n # 0
      <4>1. n - 1 \in 0..m
        BY <3>2, <2>2
      <4>2. g[n - 1] = f[n - 1]
        BY <4>1, <2>3
      <4> HIDE DEF g
      <4> QED BY <3>2, <4>2 DEF ChainAt
    <3> QED BY <3>1, <3>2
  <2>5. g = [n \in 0..(m + 1) |-> ChainAt(c, ms, i, g, n)]
    BY <2>4
  <2>6. AlongOf(c, ms, i, m + 1, g)
    BY <2>5 DEF AlongOf
  <2> QED BY <2>6, <2>2
<1> HIDE DEF S
<1>3. S = Nat
  BY <1>1, <1>2, Induction DEF S
<1> QED BY <1>3 DEF S

AlongRun(c, ms, i, f) ==
  /\ f[0] = [before |-> FALSE, run |-> TRUE, next |-> i]
  /\ \A n \in 1..Len(c) : f[n] = ChainStep(c[n], f[n - 1], ms[n][f[n - 1].next])

LEMMA AlongIs ==
  ASSUME NEW c, Len(c) \in Nat, NEW ms, NEW i
  PROVE  \E f : AlongRun(c, ms, i, f) /\ AlongChain(c, ms, i) = f[Len(c)]
<1> DEFINE f == CHOOSE g : AlongOf(c, ms, i, Len(c), g)
<1>1. AlongOf(c, ms, i, Len(c), f)
  BY AlongExist
<1>2. AlongChain(c, ms, i) = f[Len(c)]
  BY DEF AlongChain, AlongOf, ChainAt, ChainStep
<1> HIDE DEF f
<1>3. AlongRun(c, ms, i, f)
  <2>1. \A n \in 0..Len(c) : f[n] = ChainAt(c, ms, i, f, n)
    BY <1>1 DEF AlongOf
  <2>2. f[0] = [before |-> FALSE, run |-> TRUE, next |-> i]
    <3>1. f[0] = ChainAt(c, ms, i, f, 0)
      BY <2>1
    <3>2. ChainAt(c, ms, i, f, 0) = [before |-> FALSE, run |-> TRUE, next |-> i]
      BY DEF ChainAt
    <3> QED BY <3>1, <3>2
  <2>3. ASSUME NEW n \in 1..Len(c) PROVE f[n] = ChainStep(c[n], f[n - 1], ms[n][f[n - 1].next])
    <3>1. n \in 0..Len(c) /\ n # 0
      OBVIOUS
    <3> QED BY <2>1, <3>1 DEF ChainAt
  <2> QED BY <2>2, <2>3 DEF AlongRun
<1> QED BY <1>2, <1>3

\* The links of a chain that is all AND, or all OR.
LinkedBy(kind, c) ==
  IF kind = "and" THEN \A n \in 1..Len(c) : c[n].link # "OR"
  ELSE Len(c) > 0 /\ c[1].link # "OR" /\ \A n \in 2..Len(c) : c[n].link = "OR"

\* Such a chain reads as the list of its terms does.
LEMMA ChainReads ==
  ASSUME NEW kind \in {"and", "or"}, NEW ms, Readings(ms), NEW c, Len(c) = Len(ms), LinkedBy(kind, c), NEW i \in Nat
  PROVE  LET a == AlongChain(c, ms, i)
             b == AlongKids(kind, ms, i)
         IN (a.before \/ a.run <=> b.holds) /\ a.next = b.next
<1>0. Len(ms) \in Nat /\ Len(c) \in Nat
  BY DEF Readings
<1>1. PICK f : AlongRun(c, ms, i, f) /\ AlongChain(c, ms, i) = f[Len(c)]
  BY <1>0, AlongIs
<1>2. PICK g : KidsRun(kind, ms, i, g) /\ AlongKids(kind, ms, i) = g[Len(ms)]
  BY <1>0, KidsAre
<1>3. kind \in {"and", "or", "not"}
  OBVIOUS
<1>4. \A n \in 0..Len(ms) : g[n] \in Judged
  BY <1>2, <1>3, KidsRead
<1> DEFINE N == Len(ms)
           Same(n) == f[n].next = g[n].next /\
                        IF kind = "and" THEN f[n].before = FALSE /\ (f[n].run <=> g[n].holds)
                        ELSE n > 0 => (f[n].before \/ f[n].run <=> g[n].holds)
           S == {n \in 0..N : Same(n)}
<1>5. f[0] = [before |-> FALSE, run |-> TRUE, next |-> i] /\ g[0] = [holds |-> kind = "and", next |-> i]
  BY <1>1, <1>2 DEF AlongRun, KidsRun
<1>6. 0 \in S
  <2>1. f[0].next = i /\ f[0].before = FALSE /\ f[0].run = TRUE /\ g[0].next = i /\ g[0].holds = (kind = "and")
    BY <1>5
  <2>2. kind = "and" => (f[0].run <=> g[0].holds)
    BY <2>1
  <2>3. Same(0)
    BY <2>1, <2>2
  <2> HIDE DEF Same
  <2> QED BY <1>0, <2>3
<1>7. ASSUME NEW n \in 0..(N - 1), n \in S PROVE n + 1 \in S
  <2>1. n + 1 \in 1..N /\ (n + 1) - 1 = n /\ n + 1 \in 0..N /\ n + 1 \in 1..Len(c) /\ n \in 0..N
    BY <1>0
  <2> DEFINE a == f[n]
             b == g[n]
             t == c[n + 1]
             r == ms[n + 1][b.next]
  <2>2. Same(n)
    BY <1>7
  <2>3. b \in Judged
    BY <1>4, <2>1
  <2>4. r \in Judged
    BY <2>1, <2>3 DEF Readings, Reading, Judged
  <2>5. f[n + 1] = ChainStep(t, a, r) /\ g[n + 1] = KidsStep(kind, b, r)
    BY <1>1, <1>2, <2>1, <2>2 DEF AlongRun, KidsRun
  <2>6. kind = "or" /\ n = 0 => a.before = FALSE /\ a.run = TRUE /\ ~b.holds
    <3> SUFFICES ASSUME kind = "or", n = 0 PROVE a.before = FALSE /\ a.run = TRUE /\ ~b.holds
      OBVIOUS
    <3>1. a = [before |-> FALSE, run |-> TRUE, next |-> i]
      BY <1>5
    <3>2. b = [holds |-> kind = "and", next |-> i]
      BY <1>5
    <3> HIDE DEF a, b
    <3>3. a.before = FALSE /\ a.run = TRUE
      BY <3>1
    <3>4. b.holds = (kind = "and")
      BY <3>2
    <3> QED BY <3>3, <3>4
  <2>7. /\ kind = "and" => t.link # "OR"
        /\ kind = "or" => (n = 0 => t.link # "OR") /\ (n > 0 => t.link = "OR")
    BY <2>1 DEF LinkedBy
  <2>8. a.next = b.next /\ IF kind = "and" THEN a.before = FALSE /\ (a.run <=> b.holds)
                           ELSE n > 0 => (a.before \/ a.run <=> b.holds)
    BY <2>2
  <2> DEFINE x == ChainStep(t, a, r)
             y == KidsStep(kind, b, r)
  <2> HIDE DEF a, b, t, r
  <2>9. /\ t.link = "OR" => x.before = (a.before \/ a.run) /\ x.run = r.holds
        /\ t.link # "OR" => x.before = a.before /\ x.run = (a.run /\ r.holds)
        /\ x.next = r.next
    BY DEF ChainStep
  <2>10. /\ y.next = r.next
         /\ kind = "and" => (y.holds <=> b.holds /\ r.holds)
         /\ kind = "or"  => (y.holds <=> b.holds \/ r.holds)
    BY <1>3, <2>3, <2>4, StepReads
  <2> HIDE DEF x, y
  <2>11. x.next = y.next
    BY <2>9, <2>10
  <2>12. CASE kind = "and"
    <3>1. x.before = FALSE /\ (x.run <=> y.holds)
      BY <2>7, <2>8, <2>9, <2>10, <2>12
    <3> QED BY <2>1, <2>5, <2>11, <2>12, <3>1 DEF x, y
  <2>13. CASE kind = "or"
    <3>1. CASE n = 0
      <4>1. x.before \/ x.run <=> y.holds
        BY <2>6, <2>7, <2>9, <2>10, <2>13, <3>1
      <4> QED BY <2>1, <2>5, <2>11, <2>13, <4>1 DEF x, y
    <3>2. CASE n # 0
      <4>1. n > 0
        BY <2>1, <3>2
      <4>2. x.before \/ x.run <=> y.holds
        BY <2>7, <2>8, <2>9, <2>10, <2>13, <4>1
      <4> QED BY <2>1, <2>5, <2>11, <2>13, <4>2 DEF x, y
    <3> QED BY <3>1, <3>2
  <2> QED BY <2>12, <2>13
<1> HIDE DEF S
<1>8. \A n \in 0..N : n \in S
  BY <1>0, <1>6, <1>7, Upto
<1>9. Same(N)
  BY <1>0, <1>8 DEF S
<1>10. kind = "or" => N > 0
  BY DEF LinkedBy
<1> DEFINE a == f[N]
           b == g[N]
<1>11. /\ a.next = b.next
       /\ kind = "and" => a.before = FALSE /\ (a.run <=> b.holds)
       /\ kind = "or"  => (a.before \/ a.run <=> b.holds)
  BY <1>9, <1>10
<1>12. AlongChain(c, ms, i) = a /\ AlongKids(kind, ms, i) = b
  BY <1>1, <1>2
<1> HIDE DEF a, b
<1>13. (a.before \/ a.run <=> b.holds) /\ a.next = b.next
  BY <1>11
<1> QED BY <1>12, <1>13

-----------------------------------------------------------------------------
(* The truth of terms.                                                     *)

LEMMA TruthOfTerm ==
  ASSUME NEW t, IsTerm(t), NEW v
  PROVE  LET truths == [n \in DOMAIN t.kids |-> Truth(t.kids[n], v)]
         IN /\ t.kind = "atom"  => Truth(t, v) = [i \in Nat |-> [holds |-> i \in v, next |-> i + 1]]
            /\ t.kind = "never" => Truth(t, v) = [i \in Nat |-> [holds |-> FALSE, next |-> i]]
            /\ t.kind = "group" =>
                 Truth(t, v) = [i \in Nat |-> LET all == AlongChain(t.kids, truths, i)
                                              IN [holds |-> (all.before \/ all.run) # t.not, next |-> all.next]]
<1> DEFINE truths == [n \in DOMAIN t.kids |-> Truth(t.kids[n], v)]
<1>1. PICK S : t \in S /\ Forest(S)
  BY DEF IsTerm, Grown
<1>2. Truth(t, v) = TermTruth(t, truths, v)
  BY <1>1, TruthUnfolds
<1> HIDE DEF truths
<1>3. CASE t.kind = "atom"
  BY <1>2, <1>3 DEF TermTruth
<1>4. CASE t.kind = "never"
  BY <1>2, <1>4 DEF TermTruth
<1>5. CASE t.kind = "group"
  <2>1. Truth(t, v) = [i \in Nat |-> LET all == AlongChain(t.kids, truths, i)
                                    IN [holds |-> (all.before \/ all.run) # t.not, next |-> all.next]]
    BY <1>2, <1>5 DEF TermTruth
  <2> QED BY <1>5, <2>1 DEF truths
<1>6. t.kind \in {"atom", "never", "group"}
  BY DEF IsTerm
<1> QED BY <1>3, <1>4, <1>5, <1>6

\* AND or OR before a term is no part of its truth.
LEMMA TruthRelinked ==
  ASSUME NEW t, IsTerm(t), NEW v, NEW l
  PROVE  Truth([t EXCEPT !.link = l], v) = Truth(t, v)
<1> DEFINE u == [t EXCEPT !.link = l]
<1> SUFFICES Truth(u, v) = Truth(t, v)
  OBVIOUS
<1>1. IsTerm(u) /\ u.kind = t.kind /\ u.not = t.not /\ u.kids = t.kids
  BY LinkIsTerm
<1> HIDE DEF u
<1>2. t.kind \in {"atom", "never", "group"}
  BY DEF IsTerm
<1>3. CASE t.kind = "atom"
  BY <1>1, <1>3, TruthOfTerm
<1>4. CASE t.kind = "never"
  BY <1>1, <1>4, TruthOfTerm
<1>5. CASE t.kind = "group"
  <2> DEFINE truths == [n \in DOMAIN t.kids |-> Truth(t.kids[n], v)]
             us == [n \in DOMAIN u.kids |-> Truth(u.kids[n], v)]
             G(c, ts, neg) == [i \in Nat |-> LET all == AlongChain(c, ts, i)
                                             IN [holds |-> (all.before \/ all.run) # neg, next |-> all.next]]
  <2>1. Truth(t, v) = G(t.kids, truths, t.not)
    BY <1>5, TruthOfTerm
  <2>2. Truth(u, v) = G(u.kids, us, u.not)
    BY <1>1, <1>5, TruthOfTerm
  <2>3. us = truths
    BY <1>1
  <2> HIDE DEF G, truths, us
  <2> QED BY <1>1, <2>1, <2>2, <2>3 DEF u
<1> QED BY <1>2, <1>3, <1>4, <1>5 DEF u

LEMMA AtomReading == ASSUME NEW v PROVE [i \in Nat |-> [holds |-> i \in v, next |-> i + 1]] \in Reading
BY DEF Reading, Judged
LEMMA NeverReading == [i \in Nat |-> [holds |-> FALSE, next |-> i]] \in Reading
BY DEF Reading, Judged

\* A reading turned round by a NOT, if there is one.
Turned(kind, ms, neg) ==
  [i \in Nat |-> [holds |-> AlongKids(kind, ms, i).holds # neg, next |-> AlongKids(kind, ms, i).next]]

LEMMA TurnedReading ==
  ASSUME NEW kind \in {"and", "or", "not"}, NEW ms, Readings(ms), NEW neg \in BOOLEAN
  PROVE  /\ Turned(kind, ms, neg) \in Reading
         /\ ~neg => \A i \in Nat : Turned(kind, ms, neg)[i] = AlongKids(kind, ms, i)
         /\ \A i \in Nat : /\ Turned(kind, ms, neg)[i].holds <=> (AlongKids(kind, ms, i).holds # neg)
                           /\ Turned(kind, ms, neg)[i].next = AlongKids(kind, ms, i).next
<1> DEFINE A(i) == AlongKids(kind, ms, i)
<1>1. \A i \in Nat : A(i) \in Judged
  BY KidsReading
<1>2. Turned(kind, ms, neg) = [i \in Nat |-> [holds |-> A(i).holds # neg, next |-> A(i).next]]
  BY DEF Turned
<1> HIDE DEF A
<1>3. \A i \in Nat : [holds |-> A(i).holds # neg, next |-> A(i).next] \in Judged
  BY <1>1 DEF Judged
<1>4. Turned(kind, ms, neg) \in Reading
  BY <1>2, <1>3 DEF Reading
<1>5. ~neg => \A i \in Nat : [holds |-> A(i).holds # neg, next |-> A(i).next] = A(i)
  BY <1>1 DEF Judged
<1>6. ~neg => \A i \in Nat : Turned(kind, ms, neg)[i] = A(i)
  BY <1>2, <1>5
<1>7. \A i \in Nat : /\ Turned(kind, ms, neg)[i].holds <=> (A(i).holds # neg)
                     /\ Turned(kind, ms, neg)[i].next = A(i).next
  <2> SUFFICES ASSUME NEW i \in Nat
               PROVE  /\ Turned(kind, ms, neg)[i].holds <=> (A(i).holds # neg)
                      /\ Turned(kind, ms, neg)[i].next = A(i).next
    OBVIOUS
  <2> DEFINE h == A(i).holds # neg
  <2>1. Turned(kind, ms, neg)[i] = [holds |-> h, next |-> A(i).next]
    BY <1>2
  <2> HIDE DEF h
  <2>2. Turned(kind, ms, neg)[i].holds = h /\ Turned(kind, ms, neg)[i].next = A(i).next
    BY <2>1
  <2> QED BY <2>2 DEF h
<1> QED BY <1>4, <1>6, <1>7 DEF A

\* Terms in parentheses, all joined by AND or all by OR.
\* The parts of a chain, each with its reading.
ReadAs(c, v, ms) ==
  IsList(ms) /\ Len(ms) = Len(c) /\ \A n \in 1..Len(c) : ms[n] \in Reading /\ Truth(c[n], v) = ms[n]

LEMMA GroupReads ==
  ASSUME NEW kind \in {"and", "or"}, NEW c, Chain(c), NEW v, NEW ms, ReadAs(c, v, ms),
         LinkedBy(kind, c), NEW neg \in BOOLEAN
  PROVE  Truth(Group(c, neg), v) = Turned(kind, ms, neg)
<1> DEFINE g == Group(c, neg)
           truths == [n \in DOMAIN c |-> Truth(c[n], v)]
<1>r. IsList(ms) /\ Len(ms) = Len(c) /\ \A n \in 1..Len(c) : ms[n] \in Reading /\ Truth(c[n], v) = ms[n]
  BY DEF ReadAs
<1>0. IsList(c) /\ Len(c) \in Nat /\ DOMAIN c = 1..Len(c) /\ ms = [n \in 1..Len(c) |-> ms[n]]
  BY <1>r, ListIs DEF Chain
<1>1. IsTerm(g) /\ g.kind = "group" /\ g.not = neg /\ g.kids = c
  BY GroupIsTerm
<1> HIDE DEF g
<1>2. truths = ms
  <2>1. truths = [n \in 1..Len(c) |-> Truth(c[n], v)]
    BY <1>0
  <2> QED BY <1>0, <1>r, <2>1
<1> DEFINE R(i) == [holds |-> (AlongChain(c, ms, i).before \/ AlongChain(c, ms, i).run) # neg,
                    next |-> AlongChain(c, ms, i).next]
           T(i) == [holds |-> AlongKids(kind, ms, i).holds # neg, next |-> AlongKids(kind, ms, i).next]
<1>3. Truth(g, v) = [i \in Nat |-> R(i)]
  <2>1. Truth(g, v) = [i \in Nat |-> LET all == AlongChain(g.kids, [n \in DOMAIN g.kids |-> Truth(g.kids[n], v)], i)
                                    IN [holds |-> (all.before \/ all.run) # g.not, next |-> all.next]]
    BY <1>1, TruthOfTerm
  <2>2. [n \in DOMAIN g.kids |-> Truth(g.kids[n], v)] = ms /\ g.kids = c /\ g.not = neg
    BY <1>1, <1>2
  <2> QED BY <2>1, <2>2
<1>4. Readings(ms)
  BY <1>0, <1>r DEF Readings
<1>5. ASSUME NEW i \in Nat PROVE R(i) = T(i)
  <2> DEFINE a == AlongChain(c, ms, i)
             b == AlongKids(kind, ms, i)
  <2>1. (a.before \/ a.run <=> b.holds) /\ a.next = b.next
    BY <1>4, <1>r, ChainReads
  <2>2. b \in Judged
    BY <1>4, KidsReading
  <2> HIDE DEF a, b
  <2>3. b.holds \in BOOLEAN
    BY <2>2 DEF Judged
  <2>4. (a.before \/ a.run) = b.holds
    BY <2>1, <2>3
  <2>5. R(i) = [holds |-> (a.before \/ a.run) # neg, next |-> a.next] /\ T(i) = [holds |-> b.holds # neg, next |-> b.next]
    BY DEF a, b
  <2> HIDE DEF R, T
  <2> QED BY <2>1, <2>4, <2>5
<1>6. Turned(kind, ms, neg) = [i \in Nat |-> T(i)]
  BY DEF Turned
<1> HIDE DEF R, T
<1>7. [i \in Nat |-> R(i)] = [i \in Nat |-> T(i)]
  BY <1>5
<1> QED BY <1>3, <1>6, <1>7 DEF g

\* The reading of an atom, and of some in a row.
AtomReads(v) == [i \in Nat |-> [holds |-> i \in v, next |-> i + 1]]

LEMMA AtomRuns ==
  ASSUME NEW kind \in {"and", "or"}, NEW v, NEW ms, Len(ms) \in Nat, \A n \in 1..Len(ms) : ms[n] = AtomReads(v), NEW i \in Nat
  PROVE  LET a == AlongKids(kind, ms, i)
         IN /\ a.next = i + Len(ms)
            /\ kind = "and" => (a.holds <=> \A j \in i .. i + Len(ms) - 1 : j \in v)
            /\ kind = "or"  => (a.holds <=> \E j \in i .. i + Len(ms) - 1 : j \in v)
<1> DEFINE N == Len(ms)
<1>0. Readings(ms) /\ N \in Nat /\ kind \in {"and", "or", "not"}
  <2>1. AtomReads(v) \in Reading
    BY AtomReading DEF AtomReads
  <2> QED BY <2>1 DEF Readings
<1>1. PICK f : KidsRun(kind, ms, i, f) /\ AlongKids(kind, ms, i) = f[N]
  BY <1>0, KidsAre
<1>2. \A n \in 0..N : f[n] \in Judged
  BY <1>0, <1>1, KidsRead
<1> DEFINE Right(n) == /\ f[n].next = i + n
                       /\ kind = "and" => (f[n].holds <=> \A j \in i .. i + n - 1 : j \in v)
                       /\ kind = "or"  => (f[n].holds <=> \E j \in i .. i + n - 1 : j \in v)
           S == {n \in 0..N : Right(n)}
<1>3. 0 \in S
  <2>1. f[0] = [holds |-> kind = "and", next |-> i]
    BY <1>1 DEF KidsRun
  <2>2. f[0].next = i /\ f[0].holds = (kind = "and")
    BY <2>1
  <2>3. i .. i + 0 - 1 = {}
    OBVIOUS
  <2>5. f[0].next = i + 0
    BY <2>2
  <2>6. kind = "and" => (f[0].holds <=> \A j \in i .. i + 0 - 1 : j \in v)
    BY <2>2, <2>3
  <2>7. kind = "or" => (f[0].holds <=> \E j \in i .. i + 0 - 1 : j \in v)
    BY <2>2, <2>3
  <2>4. Right(0)
    BY <2>5, <2>6, <2>7
  <2> HIDE DEF Right
  <2> QED BY <1>0, <2>4
<1>4. ASSUME NEW n \in 0..(N - 1), n \in S PROVE n + 1 \in S
  <2>1. n + 1 \in 1..N /\ (n + 1) - 1 = n /\ n + 1 \in 0..N /\ n \in 0..N /\ n \in Nat
    BY <1>0
  <2>2. Right(n)
    BY <1>4
  <2> DEFINE b == f[n]
             r == ms[n + 1][b.next]
             y == KidsStep(kind, b, r)
  <2>3. f[n + 1] = y
    BY <1>1, <2>1 DEF KidsRun
  <2>4. b \in Judged /\ b.next = i + n
    BY <1>2, <2>1, <2>2
  <2>5. ASSUME NEW k \in Nat PROVE AtomReads(v)[k] \in Judged /\ AtomReads(v)[k].next = k + 1 /\ (AtomReads(v)[k].holds <=> k \in v)
    <3> DEFINE h == k \in v
    <3>1. AtomReads(v)[k] = [holds |-> h, next |-> k + 1] /\ h \in BOOLEAN
      BY DEF AtomReads
    <3> HIDE DEF h
    <3>2. AtomReads(v)[k] \in Judged /\ AtomReads(v)[k].next = k + 1 /\ (AtomReads(v)[k].holds <=> h)
      BY <3>1 DEF Judged
    <3> QED BY <3>2 DEF h
  <2>12. r = AtomReads(v)[i + n] /\ i + n \in Nat
    BY <2>1, <2>4
  <2>6. r \in Judged /\ r.next = i + n + 1 /\ (r.holds <=> (i + n) \in v)
    <3> HIDE DEF r
    <3> QED BY <2>5, <2>12
  <2> HIDE DEF r
  <2>7. /\ y.next = r.next
        /\ kind = "and" => (y.holds <=> b.holds /\ r.holds)
        /\ kind = "or"  => (y.holds <=> b.holds \/ r.holds)
    <3>1. ASSUME NEW a \in Judged, NEW c \in Judged
          PROVE  /\ KidsStep(kind, a, c).next = c.next
                 /\ kind = "and" => (KidsStep(kind, a, c).holds <=> a.holds /\ c.holds)
                 /\ kind = "or"  => (KidsStep(kind, a, c).holds <=> a.holds \/ c.holds)
      BY <1>0, StepReads
    <3> HIDE DEF b
    <3> QED BY <2>4, <2>6, <3>1
  <2> HIDE DEF y
  <2>8. i .. i + (n + 1) - 1 = (i .. i + n - 1) \cup {i + n}
    BY <2>1
  <2>9. y.next = i + (n + 1)
    BY <2>1, <2>6, <2>7
  <2>10. kind = "and" => (y.holds <=> \A j \in i .. i + (n + 1) - 1 : j \in v)
    BY <2>2, <2>6, <2>7, <2>8
  <2>11. kind = "or" => (y.holds <=> \E j \in i .. i + (n + 1) - 1 : j \in v)
    BY <2>2, <2>6, <2>7, <2>8
  <2> QED BY <2>1, <2>3, <2>9, <2>10, <2>11
<1> HIDE DEF S
<1>5. \A n \in 0..N : n \in S
  BY <1>0, <1>3, <1>4, Upto
<1>6. Right(N)
  <2>1. N \in S
    BY <1>0, <1>5
  <2> HIDE DEF Right
  <2> QED BY <2>1 DEF S
<1> QED BY <1>1, <1>6

\* The links of the tests of one condition.
LEMMA ChainOfLinks ==
  ASSUME NEW f, IsCondition(f), NEW backend \in Backends, RegistrySound, TestOf(f, backend).err = "none"
  PROVE  LET c == ChainOf(f, backend)
         IN \A n \in 1..Len(c) : c[n].link = IF n = 1 THEN "" ELSE LinkOf(f)
<1> DEFINE fr == TestOf(f, backend)
           c == ChainOf(f, backend)
           k == Len(Items(f.value))
           t == Term(fr)
<1>1. t.link = "" /\ \A l : [t EXCEPT !.link = l].link = l
  BY DEF Term, TermOf
<1>2. c = IF PerKey(f, backend) THEN TestChain(t, k, LinkOf(f)) ELSE <<t>>
  BY DEF ChainOf
<1>3. Len(c) = IF PerKey(f, backend) THEN k ELSE 1
  BY ChainOfIs
<1> HIDE DEF c, t, k
<1>4. CASE PerKey(f, backend)
  <2>1. c = [i \in 1..k |-> IF i = 1 THEN t ELSE [t EXCEPT !.link = LinkOf(f)]]
    BY <1>2, <1>4 DEF TestChain
  <2> QED BY <1>1, <1>3, <1>4, <2>1 DEF c
<1>5. CASE ~PerKey(f, backend)
  <2>1. c = <<t>> /\ Len(c) = 1 /\ \A n \in 1..1 : c[n] = t /\ n = 1
    BY <1>2, <1>3, <1>5
  <2> QED BY <1>1, <2>1 DEF c
<1> QED BY <1>4, <1>5

\* A chain that is one term of the given reading.
Reads(chain, m, v) ==
  m \in Reading /\ \E t : chain = <<t>> /\ IsTerm(t) /\ t.link = "" /\ Truth(t, v) = m

LEMMA GroupLink == ASSUME NEW c, NEW neg PROVE Group(c, neg).link = ""
BY DEF Group, TermOf

\* Whether the tests of a condition hold, from the number i of the first of n.
TestsHold(f, n, v, i) ==
  IF Final(f) = "has_any" THEN \E j \in i .. i + n - 1 : j \in v ELSE \A j \in i .. i + n - 1 : j \in v

LEMMA MeansLeafIs ==
  ASSUME NEW f, ~Empty(f), NEW n, n = IF PerKey(f, stmt.backend) THEN Len(Items(f.value)) ELSE 1, NEW v, NEW i
  PROVE  MeansLeaf(f, v, i) = [holds |-> TestsHold(f, n, v, i) # f.negated, next |-> i + n]
BY DEF MeansLeaf, TestsHold, PerKey

LEMMA EmptyReads ==
  ASSUME NEW f, IsCondition(f), Empty(f), ~NegatedEmpty(f), NEW v
  PROVE  Reads(Never.chain, [i \in Nat |-> MeansLeaf(f, v, i)], v)
<1> DEFINE t == NeverTerm
           m == [i \in Nat |-> [holds |-> FALSE, next |-> i]]
<1>1. Never.chain = <<t>> /\ IsTerm(t) /\ t.kind = "never" /\ t.link = ""
  BY NeverIs, NeverIsTerm DEF NeverTerm, TermOf
<1> HIDE DEF t
<1>2. Truth(t, v) = m
  BY <1>1, TruthOfTerm
<1>3. m \in Reading
  BY NeverReading
<1>4. f.negated = FALSE
  BY DEF NegatedEmpty, IsCondition
<1>5. ASSUME NEW i \in Nat PROVE MeansLeaf(f, v, i) = [holds |-> FALSE, next |-> i]
  <2>1. MeansLeaf(f, v, i) = [holds |-> FALSE # f.negated, next |-> i + 0]
    BY DEF MeansLeaf
  <2>2. MeansLeaf(f, v, i) = [holds |-> FALSE # FALSE, next |-> i + 0]
    BY <1>4, <2>1
  <2>3. (FALSE # FALSE) = FALSE /\ i + 0 = i
    OBVIOUS
  <2> QED BY <2>2, <2>3
<1>6. [i \in Nat |-> MeansLeaf(f, v, i)] = m
  BY <1>5
<1> HIDE DEF m
<1> QED BY <1>1, <1>2, <1>3, <1>6 DEF Reads

LEMMA LeafReads ==
  ASSUME NEW f, IsCondition(f), stmt.backend \in Backends, RegistrySound,
         SingleFilter(f, stmt.backend, custom).err = "none", ~NegatedEmpty(f), ~Loose(f), NEW v
  PROVE  Reads(SingleFilter(f, stmt.backend, custom).chain, [i \in Nat |-> MeansLeaf(f, v, i)], v)
<1> DEFINE b == stmt.backend
           r == SingleFilter(f, b, custom)
           m == [i \in Nat |-> MeansLeaf(f, v, i)]
<1>1. CASE Empty(f)
  <2>1. r = Never
    BY <1>1, SingleIs
  <2> QED BY <1>1, <2>1, EmptyReads
<1>2. CASE ~Empty(f)
  <2> DEFINE c == ChainOf(f, b)
             n == IF PerKey(f, b) THEN Len(Items(f.value)) ELSE 1
             kind == IF Final(f) = "has_any" THEN "or" ELSE "and"
             ms == [k \in 1..n |-> AtomReads(v)]
  <2>1. r = Result("none", Negatable(c, f.negated), ValuesOf(f)) /\ TestOf(f, b).err = "none"
    BY <1>2, SingleIs
  <2>2. r.chain = Negatable(c, f.negated)
    BY <2>1, ResultFields
  <2>3. Chain(c) /\ Len(c) = n /\ \A k \in 1..Len(c) : c[k].kind = "atom" /\ c[k].link = IF k = 1 THEN "" ELSE LinkOf(f)
    BY <2>1, ChainOfIs, ChainOfLinks
  <2>4. n \in Nat /\ n > 0 /\ (~f.negated => n = 1)
    <3>1. Len(Items(f.value)) \in Nat /\ IsList(Items(f.value))
      BY ItemsAre DEF IsCondition
    <3>2. PerKey(f, b) => Len(Items(f.value)) > 0
      <4> SUFFICES ASSUME PerKey(f, b) PROVE Len(Items(f.value)) > 0
        OBVIOUS
      <4>1. Items(f.value) # <<>>
        BY <1>2 DEF Empty, PerKey, TestsKeys
      <4>2. Len(Items(f.value)) # 0
        BY <3>1, <4>1, NoLength
      <4> QED BY <3>1, <4>2
    <3>3. PerKey(f, b) /\ ~f.negated => Len(Items(f.value)) <= 1
      BY <3>1 DEF Loose, PerKey
    <3>4. CASE PerKey(f, b)
      <4> DEFINE l == Len(Items(f.value))
      <4>1. n = l /\ l \in Nat /\ l > 0 /\ (~f.negated => l <= 1)
        BY <3>1, <3>2, <3>3, <3>4
      <4> HIDE DEF l, n
      <4> QED BY <4>1
    <3>5. CASE ~PerKey(f, b)
      <4>1. n = 1
        BY <3>5
      <4> HIDE DEF n
      <4> QED BY <4>1
    <3> QED BY <3>4, <3>5
  <2>5. \A i \in Nat : MeansLeaf(f, v, i) = [holds |-> TestsHold(f, n, v, i) # f.negated, next |-> i + n]
    BY <1>2, MeansLeafIs
  <2>6. \A k \in 1..n : IsTerm(c[k]) /\ Truth(c[k], v) = AtomReads(v)
    <3> SUFFICES ASSUME NEW k \in 1..n PROVE IsTerm(c[k]) /\ Truth(c[k], v) = AtomReads(v)
      OBVIOUS
    <3>1. IsTerm(c[k]) /\ c[k].kind = "atom"
      BY <2>3 DEF Chain
    <3> DEFINE t == c[k]
    <3>2. IsTerm(t) /\ t.kind = "atom"
      BY <3>1
    <3> HIDE DEF t
    <3>3. Truth(t, v) = AtomReads(v)
      BY <3>2, TruthOfTerm DEF AtomReads
    <3> QED BY <3>2, <3>3 DEF t
  <2>7. AtomReads(v) \in Reading
    BY AtomReading DEF AtomReads
  <2> HIDE DEF c, n
  <2>8. IsList(ms) /\ Len(ms) = n /\ \A k \in 1..n : ms[k] = AtomReads(v)
    <3>1. ms = [k \in 1..n |-> ms[k]] /\ \A k \in 1..n : ms[k] = AtomReads(v)
      OBVIOUS
    <3> HIDE DEF ms
    <3> QED BY <2>4, <3>1, FunctionIsList
  <2> HIDE DEF ms
  <2>9. kind \in {"and", "or"}
    OBVIOUS
  <2>10. \A i \in Nat : LET a == AlongKids(kind, ms, i)
                        IN a.next = i + n /\ (a.holds <=> TestsHold(f, n, v, i)) /\ a \in Judged
    <3> SUFFICES ASSUME NEW i \in Nat PROVE LET a == AlongKids(kind, ms, i)
                                            IN a.next = i + n /\ (a.holds <=> TestsHold(f, n, v, i)) /\ a \in Judged
      OBVIOUS
    <3> DEFINE a == AlongKids(kind, ms, i)
    <3> HIDE DEF kind
    <3>1. /\ a.next = i + n
          /\ kind = "and" => (a.holds <=> \A j \in i .. i + n - 1 : j \in v)
          /\ kind = "or"  => (a.holds <=> \E j \in i .. i + n - 1 : j \in v)
      <4>1. Len(ms) \in Nat /\ Len(ms) = n /\ (\A k \in 1..Len(ms) : ms[k] = AtomReads(v))
        BY <2>4, <2>8
      <4>2. LET z == AlongKids(kind, ms, i)
            IN /\ z.next = i + Len(ms)
               /\ kind = "and" => (z.holds <=> \A j \in i .. i + Len(ms) - 1 : j \in v)
               /\ kind = "or"  => (z.holds <=> \E j \in i .. i + Len(ms) - 1 : j \in v)
        BY <2>9, <4>1, AtomRuns
      <4> QED BY <4>1, <4>2
    <3>2. a \in Judged
      <4>1. Readings(ms) /\ kind \in {"and", "or", "not"}
        BY <2>4, <2>7, <2>8, <2>9 DEF Readings
      <4> QED BY <4>1, KidsReading
    <3> HIDE DEF a
    <3>3. CASE Final(f) = "has_any"
      <4>1. kind = "or"
        BY <3>3 DEF kind
      <4> QED BY <3>1, <3>2, <3>3, <4>1 DEF TestsHold, a
    <3>4. CASE Final(f) # "has_any"
      <4>1. kind = "and"
        BY <3>4 DEF kind
      <4> QED BY <3>1, <3>2, <3>4, <4>1 DEF TestsHold, a
    <3> QED BY <3>3, <3>4
  <2>11. CASE f.negated
    <3> DEFINE g == Group(c, TRUE)
    <3>1. r.chain = <<g>>
      BY <2>2, <2>11 DEF Negatable
    <3>7. Chain(c) /\ Len(c) = n /\ \A k \in 1..Len(c) : c[k].link = IF k = 1 THEN "" ELSE LinkOf(f)
      BY <2>3
    <3>8. IsTerm(g) /\ g.link = ""
      <4>1. Chain(c)
        BY <3>7
      <4>2. IsTerm(g)
        BY <4>1, GroupIsTerm
      <4> QED BY <4>2, GroupLink
    <3>2. IsTerm(g) /\ g.link = ""
      BY <3>8
    <3>3. LinkedBy(kind, c)
      <4>1. CASE Final(f) = "has_any"
        <5>1. kind = "or" /\ LinkOf(f) = "OR" /\ Len(c) > 0
          BY <2>4, <3>7, <4>1 DEF LinkOf
        <5>2. 1 \in 1..Len(c) /\ c[1].link = ""
          <6>1. Len(c) \in Nat /\ Len(c) > 0
            BY <2>4, <3>7
          <6>2. 1 \in 1..Len(c)
            BY <6>1
          <6> QED BY <3>7, <6>2
        <5>3. \A k \in 2..Len(c) : c[k].link = "OR"
          <6> SUFFICES ASSUME NEW k \in 2..Len(c) PROVE c[k].link = "OR"
            OBVIOUS
          <6>1. k \in 1..Len(c) /\ k # 1
            <7>1. Len(c) \in Nat
              BY <2>4, <3>7
            <7> HIDE DEF kind
            <7> QED BY <7>1
          <6> HIDE DEF kind
          <6> QED BY <3>7, <5>1, <6>1
        <5> HIDE DEF kind
        <5> QED BY <5>1, <5>2, <5>3 DEF LinkedBy
      <4>2. CASE Final(f) # "has_any"
        <5>1. kind = "and" /\ LinkOf(f) = "AND"
          BY <4>2 DEF LinkOf
        <5>2. \A k \in 1..Len(c) : c[k].link # "OR"
          BY <3>7, <5>1
        <5> HIDE DEF kind
        <5> QED BY <5>1, <5>2 DEF LinkedBy
      <4> QED BY <4>1, <4>2
    <3> HIDE DEF kind
    <3>4. Truth(g, v) = Turned(kind, ms, TRUE)
      <4>1. Chain(c) /\ IsList(ms) /\ Len(ms) = Len(c)
        BY <2>8, <3>7
      <4>2. \A k \in 1..Len(c) : ms[k] \in Reading /\ Truth(c[k], v) = ms[k]
        BY <2>6, <2>7, <2>8, <3>7
      <4>3. TRUE \in BOOLEAN
        OBVIOUS
      <4> HIDE DEF c, ms
      <4>4. ReadAs(c, v, ms)
        BY <4>1, <4>2 DEF ReadAs
      <4> QED BY <2>9, <3>3, <4>1, <4>3, <4>4, GroupReads, Zenon
    <3>5. Turned(kind, ms, TRUE) \in Reading
      <4>1. Readings(ms) /\ kind \in {"and", "or", "not"}
        BY <2>4, <2>7, <2>8, <2>9 DEF Readings
      <4> QED BY <4>1, TurnedReading
    <3>6. Turned(kind, ms, TRUE) = m
      <4> DEFINE A(i) == AlongKids(kind, ms, i)
      <4>1. ASSUME NEW i \in Nat PROVE [holds |-> A(i).holds # TRUE, next |-> A(i).next] = MeansLeaf(f, v, i)
        <5> DEFINE x == TestsHold(f, n, v, i)
        <5>1. x \in BOOLEAN
          BY DEF TestsHold
        <5>2. A(i).next = i + n /\ (A(i).holds <=> x) /\ A(i).holds \in BOOLEAN
          BY <2>10 DEF Judged
        <5>3. f.negated = TRUE
          BY <2>11 DEF IsCondition
        <5>4. MeansLeaf(f, v, i) = [holds |-> x # TRUE, next |-> i + n]
          BY <2>5, <5>3
        <5> HIDE DEF A, x
        <5> QED BY <5>1, <5>2, <5>4
      <4>2. Turned(kind, ms, TRUE) = [i \in Nat |-> [holds |-> A(i).holds # TRUE, next |-> A(i).next]]
        BY DEF Turned
      <4> HIDE DEF A
      <4> QED BY <4>1, <4>2
    <3> HIDE DEF m, g, r
    <3> QED BY <3>1, <3>2, <3>4, <3>5, <3>6 DEF Reads, m, r
  <2>12. CASE ~f.negated
    <3>1. r.chain = c
      BY <2>2, <2>12 DEF Negatable
    <3> DEFINE t == c[1]
    <3>2. n = 1 /\ 1 \in 1..n
      BY <2>4, <2>12
    <3>3. c = <<t>>
      <4>1. IsList(c) /\ Len(c) = 1
        BY <2>3, <3>2 DEF Chain
      <4>2. IsList(<<t>>) /\ Len(<<t>>) = 1 /\ <<t>>[1] = t
        BY TupleIsList
      <4>3. \A k \in 1..1 : c[k] = <<t>>[k]
        BY <4>2
      <4> HIDE DEF t
      <4> QED BY <4>1, <4>2, <4>3, SameList
    <3>4. IsTerm(t) /\ Truth(t, v) = AtomReads(v) /\ t.link = ""
      BY <2>3, <2>6, <3>2
    <3>5. AtomReads(v) = m
      <4>1. ASSUME NEW i \in Nat PROVE [holds |-> i \in v, next |-> i + 1] = MeansLeaf(f, v, i)
        <5> DEFINE x == TestsHold(f, n, v, i)
        <5>1. i .. i + n - 1 = {i}
          BY <3>2
        <5>2. x \in BOOLEAN /\ (x <=> i \in v)
          BY <5>1 DEF TestsHold
        <5>3. f.negated = FALSE
          BY <2>12 DEF IsCondition
        <5>4. MeansLeaf(f, v, i) = [holds |-> x # FALSE, next |-> i + 1]
          BY <2>5, <3>2, <5>3
        <5> HIDE DEF x
        <5> DEFINE h == i \in v
        <5>6. h \in BOOLEAN /\ (x <=> h)
          BY <5>2
        <5> HIDE DEF h
        <5>7. (x # FALSE) = h
          BY <5>2, <5>6
        <5>5. (x # FALSE) = (i \in v)
          BY <5>7 DEF h
        <5> QED BY <5>4, <5>5
      <4> QED BY <4>1 DEF AtomReads
    <3> HIDE DEF m, t, r
    <3>6. Reads(r.chain, m, v)
      BY <2>7, <3>1, <3>3, <3>4, <3>5 DEF Reads
    <3> QED BY <3>6 DEF m, r
  <2> QED BY <2>11, <2>12
<1> QED BY <1>1, <1>2

-----------------------------------------------------------------------------
(* Trees and what they mean.                                               *)

LinkedTerm(ts, link, i) == IF i = 1 THEN ts[i] ELSE [ts[i] EXCEPT !.link = link]

\* Single terms written one after another.
LEMMA SeparatedTerms ==
  ASSUME NEW cs, IsList(cs), NEW ts, \A i \in 1..Len(cs) : cs[i] = <<ts[i]>> /\ IsTerm(ts[i]), NEW link
  PROVE  LET c == Separated(cs, link)
         IN /\ Chain(c) /\ Len(c) = Len(cs)
            /\ \A i \in 1..Len(cs) : c[i] = LinkedTerm(ts, link, i)
<1>1. \A i \in 1..Len(cs) : Chain(cs[i]) /\ cs[i] # <<>>
  <2> SUFFICES ASSUME NEW i \in 1..Len(cs) PROVE Chain(cs[i]) /\ cs[i] # <<>>
    OBVIOUS
  <2> DEFINE t == ts[i]
  <2>1. cs[i] = <<t>> /\ IsTerm(t)
    OBVIOUS
  <2> HIDE DEF t
  <2>2. Chain(<<t>>) /\ <<t>> # <<>>
    BY <2>1, OneTerm
  <2> QED BY <2>1, <2>2
<1> DEFINE ls == LinkedAll(cs, link)
           to(i) == IF i = 1 THEN ts[i] ELSE [ts[i] EXCEPT !.link = link]
<1>2. Separated(cs, link) = FlattenSeq(ls) /\ IsList(ls) /\ Len(ls) = Len(cs)
      /\ \A i \in 1..Len(cs) : ls[i] = Linked(cs, link, i) /\ Chain(ls[i])
  BY <1>1, SeparatedIs
<1> HIDE DEF ls
<1>3. ASSUME NEW i \in 1..Len(cs)
      PROVE  IsList(ls[i]) /\ Len(ls[i]) = 1 /\ ls[i][1] = to(i) /\ IsTerm(to(i))
  <2> DEFINE t == ts[i]
             u == [t EXCEPT !.link = link]
  <2>1. cs[i] = <<t>> /\ IsTerm(t) /\ cs[i] # <<>>
    BY <1>1
  <2>2. ls[i] = Linked(cs, link, i)
    BY <1>2
  <2>3. to(i) = IF i = 1 THEN t ELSE u
    OBVIOUS
  <2> HIDE DEF t, to
  <2>4. IsTerm(u)
    BY <2>1, LinkIsTerm
  <2>5. CASE i = 1
    <3>1. ls[i] = <<t>>
      BY <2>1, <2>2, <2>5 DEF Linked
    <3> QED BY <2>1, <2>3, <2>5, <3>1, TupleIsList
  <2>6. CASE i # 1
    <3>1. ls[i] = [<<t>> EXCEPT ![1].link = link]
      BY <2>1, <2>2, <2>6 DEF Linked
    <3>2. [<<t>> EXCEPT ![1].link = link] = <<u>>
      OBVIOUS
    <3> HIDE DEF u
    <3>3. IsList(ls[i]) /\ Len(ls[i]) = 1 /\ ls[i][1] = u
      BY <3>1, <3>2, TupleIsList
    <3> QED BY <2>3, <2>4, <2>6, <3>3
  <2> QED BY <2>5, <2>6
<1> HIDE DEF to
<1> DEFINE c == FlattenSeq(ls)
<1>4. c = [i \in 1..Len(ls) |-> ls[i][1]]
  BY <1>2, <1>3, FlatSingles
<1> HIDE DEF c
<1>5. Len(cs) \in Nat
  BY ListIs
<1>6. c = [i \in 1..Len(cs) |-> c[i]] /\ \A i \in 1..Len(cs) : c[i] = to(i)
  BY <1>2, <1>3, <1>4
<1>7. IsList(c) /\ Len(c) = Len(cs)
  BY <1>5, <1>6, FunctionIsList
<1>8. Chain(c)
  BY <1>3, <1>6, <1>7 DEF Chain
<1>9. Separated(cs, link) = c
  BY <1>2 DEF c
<1> QED BY <1>6, <1>7, <1>8, <1>9 DEF to, LinkedTerm

LinkFor(kind) == IF kind = "and" THEN "AND" ELSE "OR"

\* Parts that are single terms, all joined by AND or all by OR, in parentheses.
LEMMA PartsRead ==
  ASSUME NEW kind \in {"and", "or"}, NEW cs, IsList(cs), NEW v, NEW ms, IsList(ms), Len(ms) = Len(cs),
         \A i \in 1..Len(cs) : Reads(cs[i], ms[i], v), kind = "or" => Len(cs) > 0, NEW neg \in BOOLEAN
  PROVE  /\ Truth(Group(Separated(cs, LinkFor(kind)), neg), v) = Turned(kind, ms, neg)
         /\ Readings(ms)
         /\ Chain(Separated(cs, LinkFor(kind)))
<1> DEFINE link == LinkFor(kind)
           ts == [i \in 1..Len(cs) |-> CHOOSE t : cs[i] = <<t>> /\ IsTerm(t) /\ t.link = "" /\ Truth(t, v) = ms[i]]
           c  == Separated(cs, link)
<1>1. ASSUME NEW i \in 1..Len(cs)
      PROVE  cs[i] = <<ts[i]>> /\ IsTerm(ts[i]) /\ ts[i].link = "" /\ Truth(ts[i], v) = ms[i] /\ ms[i] \in Reading
  <2>1. ms[i] \in Reading /\ \E t : cs[i] = <<t>> /\ IsTerm(t) /\ t.link = "" /\ Truth(t, v) = ms[i]
    BY DEF Reads
  <2> QED BY <2>1
<1>0. (kind = "and" => link = "AND") /\ (kind = "or" => link = "OR")
  BY DEF LinkFor
<1> HIDE DEF ts, link
<1>2. Chain(c) /\ Len(c) = Len(cs)
      /\ \A i \in 1..Len(cs) : c[i] = LinkedTerm(ts, link, i)
  <2>1. \A i \in 1..Len(cs) : cs[i] = <<ts[i]>> /\ IsTerm(ts[i])
    BY <1>1
  <2> QED BY <2>1, SeparatedTerms
<1> HIDE DEF c
<1>3. ASSUME NEW i \in 1..Len(c)
      PROVE  ms[i] \in Reading /\ Truth(c[i], v) = ms[i] /\ c[i].link = IF i = 1 THEN "" ELSE link
  <2> DEFINE t == ts[i]
             u == [t EXCEPT !.link = link]
  <2>1. IsTerm(t) /\ t.link = "" /\ Truth(t, v) = ms[i] /\ ms[i] \in Reading
    BY <1>1, <1>2
  <2>2. c[i] = IF i = 1 THEN t ELSE u
    BY <1>2 DEF LinkedTerm
  <2> HIDE DEF t
  <2>3. Truth(u, v) = Truth(t, v) /\ u.link = link
    <3>1. u.link = link
      BY <2>1, LinkIsTerm
    <3>2. Truth(u, v) = Truth(t, v)
      BY <2>1, TruthRelinked
    <3> QED BY <3>1, <3>2
  <2> HIDE DEF u
  <2> QED BY <2>1, <2>2, <2>3
<1>4. Len(c) \in Nat /\ Len(ms) \in Nat
  BY <1>2, ListIs
<1>5. LinkedBy(kind, c)
  <2>1. CASE kind = "and"
    <3>1. \A i \in 1..Len(c) : c[i].link # "OR"
      BY <1>0, <1>3, <2>1
    <3> QED BY <2>1, <3>1 DEF LinkedBy
  <2>2. CASE kind = "or"
    <3>1. Len(c) > 0 /\ 1 \in 1..Len(c) /\ link = "OR"
      BY <1>0, <1>2, <1>4, <2>2
    <3>2. c[1].link = ""
      BY <1>3, <3>1
    <3>3. \A i \in 2..Len(c) : c[i].link = "OR"
      <4> SUFFICES ASSUME NEW i \in 2..Len(c) PROVE c[i].link = "OR"
        OBVIOUS
      <4>1. i \in 1..Len(c) /\ i # 1
        BY <1>4
      <4> QED BY <1>3, <3>1, <4>1
    <3> QED BY <2>2, <3>1, <3>2, <3>3 DEF LinkedBy
  <2> QED BY <2>1, <2>2
<1>6. Chain(c) /\ Len(ms) = Len(c)
  BY <1>2
<1>7. \A i \in 1..Len(c) : ms[i] \in Reading /\ Truth(c[i], v) = ms[i]
  BY <1>3
<1>8. Truth(Group(c, neg), v) = Turned(kind, ms, neg)
  <2>1. ReadAs(c, v, ms)
    BY <1>2, <1>6, <1>7 DEF ReadAs
  <2> QED BY <1>5, <1>6, <2>1, GroupReads
<1>9. Readings(ms)
  BY <1>4, <1>6, <1>7 DEF Readings
<1> QED BY <1>2, <1>8, <1>9 DEF c, link

Pieces(kind, cs, ms, v) ==
  /\ kind \in {"and", "or"} /\ IsList(cs) /\ IsList(ms) /\ Len(ms) = Len(cs)
  /\ \A i \in 1..Len(cs) : Reads(cs[i], ms[i], v)
  /\ kind = "or" => Len(cs) > 0

LEMMA PiecesRead ==
  ASSUME NEW kind, NEW cs, NEW ms, NEW v, Pieces(kind, cs, ms, v), NEW neg \in BOOLEAN
  PROVE  Truth(Group(Separated(cs, LinkFor(kind)), neg), v) = Turned(kind, ms, neg)
BY PartsRead DEF Pieces

LEMMA PiecesAre ==
  ASSUME NEW kind, NEW cs, NEW ms, NEW v, Pieces(kind, cs, ms, v)
  PROVE  Readings(ms) /\ Chain(Separated(cs, LinkFor(kind)))
BY PartsRead DEF Pieces

LEMMA GroupedReads ==
  ASSUME NEW c, Chain(c), NEW neg, NEW v, NEW m, m \in Reading, Truth(Group(c, neg), v) = m
  PROVE  Reads(<<Group(c, neg)>>, m, v)
<1> DEFINE g == Group(c, neg)
<1>1. IsTerm(g)
  BY GroupIsTerm
<1>2. g.link = ""
  BY GroupLink
<1>3. Truth(g, v) = m
  OBVIOUS
<1> HIDE DEF g
<1>4. Reads(<<g>>, m, v)
  BY <1>1, <1>2, <1>3 DEF Reads
<1> QED BY <1>4 DEF g

\* The NOT, and the parentheses, around one term.
LEMMA WrappedReads ==
  ASSUME NEW c, NEW m, NEW v, Reads(c, m, v), NEW neg \in BOOLEAN
  PROVE  /\ Truth(Group(c, neg), v) = Turned("and", <<m>>, neg)
         /\ Chain(c) /\ Readings(<<m>>) /\ m \in Reading
<1>1. PICK t : c = <<t>> /\ IsTerm(t) /\ t.link = "" /\ Truth(t, v) = m
  BY DEF Reads
<1>2. m \in Reading
  BY DEF Reads
<1>3. Chain(c)
  BY <1>1, OneTerm
<1> DEFINE ms == <<m>>
<1>4. IsList(ms) /\ Len(ms) = 1 /\ ms[1] = m
  BY TupleIsList
<1>5. Len(c) = 1 /\ c[1] = t
  BY <1>1, TupleIsList
<1>6. \A i \in 1..1 : i = 1
  OBVIOUS
<1> HIDE DEF ms
<1>7. \A i \in 1..Len(c) : ms[i] \in Reading /\ Truth(c[i], v) = ms[i]
  BY <1>1, <1>2, <1>4, <1>5, <1>6
<1>8. LinkedBy("and", c)
  BY <1>1, <1>5, <1>6 DEF LinkedBy
<1>9. Truth(Group(c, neg), v) = Turned("and", ms, neg)
  <2>1. "and" \in {"and", "or"} /\ Len(ms) = Len(c)
    BY <1>4, <1>5
  <2>2. ReadAs(c, v, ms)
    BY <1>4, <1>7, <2>1 DEF ReadAs
  <2> QED BY <1>3, <1>8, <2>1, <2>2, GroupReads
<1>10. Readings(ms)
  BY <1>2, <1>4, <1>6 DEF Readings
<1> QED BY <1>2, <1>3, <1>9, <1>10 DEF ms

Along(kind, ms) == [i \in Nat |-> AlongKids(kind, ms, i)]

LEMMA TurnedNot ==
  ASSUME NEW kind \in {"and", "or"}, NEW ms, Readings(ms)
  PROVE  Turned(kind, ms, FALSE) = Along(kind, ms) /\ Along(kind, ms) \in Reading
<1> DEFINE u == Turned(kind, ms, FALSE)
<1>1. u \in Reading /\ \A i \in Nat : u[i] = AlongKids(kind, ms, i)
  <2>1. kind \in {"and", "or", "not"} /\ FALSE \in BOOLEAN
    OBVIOUS
  <2> QED BY <2>1, TurnedReading
<1> HIDE DEF u
<1>2. u = [i \in Nat |-> u[i]]
  BY <1>1 DEF Reading
<1>3. u = Along(kind, ms)
  BY <1>1, <1>2 DEF Along
<1> QED BY <1>1, <1>3 DEF u

LEMMA TurnedOnce ==
  ASSUME NEW m \in Reading
  PROVE  Turned("and", <<m>>, TRUE) = Along("not", <<m>>) /\ Along("not", <<m>>) \in Reading
<1> DEFINE one == <<m>>
           u == Turned("and", one, TRUE)
<1>0. IsList(one) /\ Len(one) = 1 /\ one[1] = m
  BY TupleIsList
<1>1. Readings(one)
  <2>1. \A i \in 1..1 : i = 1
    OBVIOUS
  <2> HIDE DEF one
  <2> QED BY <1>0, <2>1 DEF Readings
<1>2. ASSUME NEW i \in Nat
      PROVE  AlongKids("and", one, i) = m[i] /\ AlongKids("not", one, i) = [holds |-> ~m[i].holds, next |-> m[i].next]
  <2>1. "and" \in {"and", "or", "not"} /\ "not" \in {"and", "or", "not"}
    OBVIOUS
  <2> QED BY <2>1, FewKids
<1> HIDE DEF one
<1>3. u \in Reading /\ \A i \in Nat : /\ u[i].holds <=> (AlongKids("and", one, i).holds # TRUE)
                                      /\ u[i].next = AlongKids("and", one, i).next
  <2>1. "and" \in {"and", "or", "not"} /\ TRUE \in BOOLEAN
    OBVIOUS
  <2>2. u \in Reading
    BY <1>1, <2>1, TurnedReading, Zenon
  <2>3. \A i \in Nat : /\ u[i].holds <=> (AlongKids("and", one, i).holds # TRUE)
                       /\ u[i].next = AlongKids("and", one, i).next
    <3>1. \A neg \in BOOLEAN : \A i \in Nat :
            /\ Turned("and", one, neg)[i].holds <=> (AlongKids("and", one, i).holds # neg)
            /\ Turned("and", one, neg)[i].next = AlongKids("and", one, i).next
      BY <1>1, <2>1, TurnedReading
    <3> QED BY <2>1, <3>1
  <2> QED BY <2>2, <2>3
<1> HIDE DEF u
<1>4. ASSUME NEW i \in Nat PROVE u[i] = AlongKids("not", one, i)
  <2> DEFINE a == u[i]
             b == m[i]
  <2>1. a \in Judged /\ b \in Judged
    BY <1>3 DEF Reading
  <2>2. (a.holds <=> b.holds # TRUE) /\ a.next = b.next
    BY <1>2, <1>3
  <2> HIDE DEF a, b
  <2>3. a = [holds |-> ~b.holds, next |-> b.next]
    <3>1. a = [holds |-> a.holds, next |-> a.next] /\ a.holds \in BOOLEAN /\ b.holds \in BOOLEAN
      BY <2>1 DEF Judged
    <3>2. a.holds = ~b.holds
      BY <2>2, <3>1
    <3> QED BY <2>2, <3>1, <3>2
  <2> QED BY <1>2, <2>3 DEF a, b
<1>5. u = [i \in Nat |-> u[i]]
  BY <1>3 DEF Reading
<1>6. u = Along("not", one)
  BY <1>4, <1>5 DEF Along
<1> QED BY <1>3, <1>6 DEF one, u

\* A tree that compiled, none of its conditions of the shapes that are misread,
\* is one term and means what its text says.
Sane(q) == (\A f \in Leaves(q) : ~NegatedEmpty(f) /\ ~Loose(f)) /\ \A t \in Nodes(q) : ~Blank(t)
TreeReads(q, v) ==
  LET r == CompileQ(q, stmt.backend, custom)
  IN r.err = "none" /\ Sane(q) => Reads(r.chain, MeansQ(q, v), v)

LEMMA SaneKids ==
  ASSUME NEW S, Forest(S), \A t \in S : IsQNode(t), NEW q \in S, Sane(q)
  PROVE  /\ ~Blank(q) /\ \A i \in 1..Len(q.kids) : Sane(q.kids[i])
         /\ q.kind = "leaf" => ~NegatedEmpty(q.test) /\ ~Loose(q.test)
<1> DEFINE n == Len(q.kids)
<1>1. IsQNode(q) /\ \A i \in 1..n : q.kids[i] \in S /\ IsQNode(q.kids[i])
  BY DEF Forest, Sized
<1>2. ASSUME NEW t, IsQNode(t) PROVE t # NoQ
  BY <1>2 DEF IsQNode, IsNode, NoQ
<1>3. q # NoQ /\ \A i \in 1..n : q.kids[i] # NoQ
  BY <1>1, <1>2
<1>4. Nodes(q) = {q} \cup UNION {Nodes(q.kids[i]) : i \in 1..n}
  BY NodesSplit
<1>5. ~Blank(q)
  BY <1>4 DEF Sane
<1>6. ASSUME NEW i \in 1..n PROVE Sane(q.kids[i])
  <2>1. \A t \in Nodes(q.kids[i]) : t \in Nodes(q)
    BY <1>4
  <2>2. ASSUME NEW f \in Leaves(q.kids[i]) PROVE f \in Leaves(q)
    <3>1. PICK u \in Nodes(q.kids[i]) : u.kind = "leaf" /\ f = u.test
      BY <1>3 DEF Leaves
    <3>2. u \in Nodes(q)
      BY <2>1
    <3> QED BY <1>3, <3>1, <3>2 DEF Leaves
  <2> QED BY <2>1, <2>2 DEF Sane
<1>7. q.kind = "leaf" => q.test \in Leaves(q)
  BY <1>1, <1>3, LeavesAre
<1> QED BY <1>5, <1>6, <1>7 DEF Sane

LEMMA KidsMean ==
  ASSUME NEW S, Forest(S), \A t \in S : IsQNode(t), stmt.backend \in Backends, RegistrySound, NEW v,
         NEW q \in S, \A i \in 1..Len(q.kids) : TreeReads(q.kids[i], v)
  PROVE  TreeReads(q, v)
<1> DEFINE b  == stmt.backend
           rs == [i \in DOMAIN q.kids |-> CompileQ(q.kids[i], b, custom)]
           ms == [i \in DOMAIN q.kids |-> MeansQ(q.kids[i], v)]
           r  == CompileQ(q, b, custom)
           n  == Len(q.kids)
<1>0. b \in Backends
  OBVIOUS
<1>1. r = CompileNode(q, rs, b, custom)
  BY CompiledUnfolds
<1>2. MeansQ(q, v) = NodeMeans(q, ms, v)
  BY MeaningUnfolds
<1> SUFFICES ASSUME r.err = "none", Sane(q) PROVE Reads(r.chain, MeansQ(q, v), v)
  BY DEF TreeReads
<1>3. IsQNode(q) /\ IsList(q.kids) /\ \A i \in 1..n : q.kids[i] \in S
  BY DEF Forest, Sized
<1>4. DOMAIN q.kids = 1..n /\ n \in Nat
  BY <1>3, ListIs
<1>5. IsList(rs) /\ Len(rs) = n /\ \A i \in 1..n : rs[i] = CompileQ(q.kids[i], b, custom)
  <2>1. rs = [i \in 1..n |-> rs[i]] /\ \A i \in 1..n : rs[i] = CompileQ(q.kids[i], b, custom)
    BY <1>4
  <2> HIDE DEF rs
  <2> QED BY <1>4, <2>1, FunctionIsList
<1>6. IsList(ms) /\ Len(ms) = n /\ \A i \in 1..n : ms[i] = MeansQ(q.kids[i], v)
  <2>1. ms = [i \in 1..n |-> ms[i]] /\ \A i \in 1..n : ms[i] = MeansQ(q.kids[i], v)
    BY <1>4
  <2> HIDE DEF ms
  <2> QED BY <1>4, <2>1, FunctionIsList
<1> HIDE DEF rs, ms
<1>7. ASSUME NEW i \in 1..n PROVE Formed(rs[i]) /\ (rs[i].err = "none" => Reads(rs[i].chain, ms[i], v))
  <2>1. Tree(q.kids[i])
    BY <1>3 DEF Tree
  <2>2. Formed(CompileQ(q.kids[i], b, custom))
    BY <1>0, <2>1, TreesFit DEF TreeFits
  <2>3. Sane(q.kids[i])
    BY SaneKids
  <2> QED BY <1>5, <1>6, <2>2, <2>3 DEF TreeReads
<1>8. ~Blank(q) /\ (q.kind = "leaf" => ~NegatedEmpty(q.test) /\ ~Loose(q.test))
  BY SaneKids
<1> HIDE DEF r
<1>9. CASE q.kind = "leaf"
  <2> DEFINE f == q.test
  <2>1. r = SingleFilter(f, b, custom)
    BY <1>1, <1>9 DEF CompileNode
  <2>2. IsCondition(f) /\ ~NegatedEmpty(f) /\ ~Loose(f)
    BY <1>3, <1>8, <1>9 DEF IsQNode, IsNode
  <2>3. MeansQ(q, v) = [i \in Nat |-> MeansLeaf(f, v, i)]
    BY <1>2, <1>9 DEF NodeMeans
  <2> HIDE DEF f
  <2>4. Reads(SingleFilter(f, b, custom).chain, [i \in Nat |-> MeansLeaf(f, v, i)], v)
    BY <1>0, <2>1, <2>2, LeafReads
  <2> QED BY <2>1, <2>3, <2>4
<1>10. CASE q.kind = "not"
  <2> DEFINE s == rs[1]
             m == ms[1]
             d == s.chain
  <2>1. r = Grouped(s, TRUE)
    BY <1>1, <1>10 DEF CompileNode
  <2>2. n = 1 /\ 1 \in 1..n
    BY <1>3, <1>10 DEF IsQNode
  <2>3. Formed(s) /\ (s.err = "none" => Reads(d, m, v))
    BY <1>7, <2>2
  <2>4. ms = <<m>>
    <3>1. IsList(<<m>>) /\ Len(<<m>>) = 1 /\ <<m>>[1] = m
      BY TupleIsList
    <3>2. \A i \in 1..1 : ms[i] = <<m>>[i]
      <4>1. \A i \in 1..1 : i = 1
        OBVIOUS
      <4> HIDE DEF m
      <4> QED BY <3>1, <4>1 DEF m
    <3> HIDE DEF m
    <3> QED BY <1>6, <2>2, <3>1, <3>2, SameList
  <2>5. MeansQ(q, v) = Along("not", ms)
    BY <1>2, <1>10 DEF NodeMeans, Along
  <2> HIDE DEF s, m, d
  <2>6. s.err = "none" /\ r.chain = <<Group(d, TRUE)>>
    BY <2>1, <2>3, GroupedIs DEF d
  <2>7. Truth(Group(d, TRUE), v) = Turned("and", <<m>>, TRUE) /\ Chain(d) /\ m \in Reading
    <3>1. TRUE \in BOOLEAN /\ Reads(d, m, v)
      BY <2>3, <2>6
    <3> QED BY <3>1, WrappedReads
  <2>8. Turned("and", <<m>>, TRUE) = Along("not", <<m>>) /\ Along("not", <<m>>) \in Reading
    BY <2>7, TurnedOnce
  <2>9. Reads(<<Group(d, TRUE)>>, Along("not", <<m>>), v)
    BY <2>7, <2>8, GroupedReads
  <2> QED BY <2>4, <2>5, <2>6, <2>9
<1>11. CASE q.kind \in {"and", "or"}
  <2> DEFINE link == LinkFor(q.kind)
             kind == q.kind
             s    == Combined(rs, link)
             cs   == [i \in DOMAIN rs |-> rs[i].chain]
             d    == Separated(cs, link)
  <2>1. r = Grouped(s, FALSE)
    BY <1>1, <1>11 DEF CompileNode, LinkFor
  <2>2. link = LinkFor(kind)
    OBVIOUS
  <2>3. MeansQ(q, v) = Along(kind, ms)
    BY <1>2, <1>11 DEF NodeMeans, Along
  <2>4. kind = "or" => Len(q.kids) > 0
    <3>1. kind = "or" => q.kids # <<>>
      BY <1>8 DEF Blank
    <3> QED BY <1>3, <1>4, <3>1, NoLength
  <2>5. kind \in {"and", "or"}
    BY <1>11
  <2> HIDE DEF link, kind
  <2>6. s.err = "none" => (\A i \in 1..n : rs[i].err = "none") /\ Formed(s) /\ s.chain = d
    BY <1>5, <1>7, CombinedIs
  <2>7. IsList(cs) /\ Len(cs) = n /\ \A i \in 1..n : cs[i] = rs[i].chain
    <3>1. DOMAIN rs = 1..n
      BY <1>5, ListIs
    <3>2. cs = [i \in 1..n |-> cs[i]] /\ \A i \in 1..n : cs[i] = rs[i].chain
      BY <3>1
    <3> HIDE DEF cs
    <3> QED BY <1>4, <3>2, FunctionIsList
  <2> HIDE DEF s, cs, d
  <2>8. Formed(s)
    BY <2>6 DEF Formed
  <2>9. s.err = "none" /\ r.chain = <<Group(s.chain, FALSE)>>
    BY <2>1, <2>8, GroupedIs
  <2>10. \A i \in 1..n : Reads(cs[i], ms[i], v)
    BY <1>7, <2>6, <2>7, <2>9
  <2>11. Truth(Group(d, FALSE), v) = Turned(kind, ms, FALSE) /\ Readings(ms) /\ Chain(d)
    <3>1. Len(ms) = Len(cs) /\ (\A i \in 1..Len(cs) : Reads(cs[i], ms[i], v)) /\ (kind = "or" => Len(cs) > 0)
          /\ FALSE \in BOOLEAN
      BY <1>6, <2>4, <2>7, <2>10
    <3>2. IsList(cs) /\ IsList(ms)
      BY <1>6, <2>7
    <3>3. /\ Truth(Group(Separated(cs, LinkFor(kind)), FALSE), v) = Turned(kind, ms, FALSE)
          /\ Readings(ms) /\ Chain(Separated(cs, LinkFor(kind)))
      <4>1. Pieces(kind, cs, ms, v)
        BY <2>5, <3>1, <3>2 DEF Pieces
      <4>2. Truth(Group(Separated(cs, LinkFor(kind)), FALSE), v) = Turned(kind, ms, FALSE)
        BY <3>1, <4>1, PiecesRead
      <4>3. Readings(ms) /\ Chain(Separated(cs, LinkFor(kind)))
        BY <4>1, PiecesAre
      <4> QED BY <4>2, <4>3
    <3> QED BY <2>2, <3>3 DEF d
  <2>12. Turned(kind, ms, FALSE) = Along(kind, ms) /\ Along(kind, ms) \in Reading
    BY <2>5, <2>11, TurnedNot
  <2>13. Reads(<<Group(d, FALSE)>>, Along(kind, ms), v)
    BY <2>11, <2>12, GroupedReads
  <2>14. r.chain = <<Group(d, FALSE)>>
    BY <2>6, <2>9
  <2> QED BY <2>3, <2>13, <2>14
<1> QED
  <2>1. q.kind \in {"leaf", "and", "or", "not"}
    BY <1>3 DEF IsQNode, IsNode
  <2> QED BY <1>9, <1>10, <1>11, <2>1

LEMMA TreesMean ==
  ASSUME NEW q, Tree(q), stmt.backend \in Backends, RegistrySound, NEW v
  PROVE  TreeReads(q, v)
<1>1. PICK S : q \in S /\ Forest(S) /\ \A t \in S : IsQNode(t)
  BY DEF Tree
<1> DEFINE G == {t \in S : TreeReads(t, v)}
<1>2. \A t \in S : (\A i \in 1..Len(t.kids) : t.kids[i] \in G) => t \in G
  BY <1>1, KidsMean
<1> HIDE DEF G
<1>3. S \subseteq G
  BY <1>1, <1>2, TreeInduction
<1> QED BY <1>1, <1>3 DEF G

\* What the filters of a query mean, one by one.
LeafReading(f, v) == [i \in Nat |-> MeansLeaf(f, v, i)]
FilterReadings(fs, v) == [k \in 1..Len(fs) |-> LeafReading(fs[k], v)]

LEMMA FilterReadingsAre ==
  ASSUME NEW fs, IsList(fs), NEW v
  PROVE  LET ls == FilterReadings(fs, v)
         IN IsList(ls) /\ Len(ls) = Len(fs) /\ \A k \in 1..Len(fs) : ls[k] = LeafReading(fs[k], v)
<1> DEFINE ls == FilterReadings(fs, v)
<1>1. ls = [k \in 1..Len(fs) |-> ls[k]] /\ \A k \in 1..Len(fs) : ls[k] = LeafReading(fs[k], v)
  BY DEF FilterReadings
<1>2. Len(fs) \in Nat
  BY ListIs
<1> HIDE DEF ls
<1>3. IsList(ls) /\ Len(ls) = Len(fs)
  BY <1>1, <1>2, FunctionIsList
<1> QED BY <1>1, <1>3 DEF ls

LEMMA FiltersMean ==
  ASSUME NEW fs, Conditions(fs), stmt.backend \in Backends, RegistrySound, NEW v,
         CompileFilters(fs, stmt.backend, custom).err = "none",
         \A f \in ToSet(fs) : ~NegatedEmpty(f) /\ ~Loose(f)
  PROVE  LET c  == CompileFilters(fs, stmt.backend, custom).chain
             ls == FilterReadings(fs, v)
         IN Readings(ls) /\ Reads(<<Group(c, FALSE)>>, Along("and", ls), v)
<1> DEFINE b  == stmt.backend
           rs == [i \in DOMAIN fs |-> SingleFilter(fs[i], b, custom)]
           r  == Combined(rs, "AND")
           cs == [i \in DOMAIN rs |-> rs[i].chain]
           d  == Separated(cs, "AND")
           ls == FilterReadings(fs, v)
           n  == Len(fs)
<1>1. IsList(fs) /\ n \in Nat /\ DOMAIN fs = 1..n /\ \A i \in 1..n : IsCondition(fs[i]) /\ fs[i] \in ToSet(fs)
  BY ListIs DEF Conditions
<1>2. CompileFilters(fs, b, custom) = r
  BY DEF CompileFilters
<1>3. IsList(rs) /\ Len(rs) = n /\ \A i \in 1..n : rs[i] = SingleFilter(fs[i], b, custom)
  <2>1. rs = [i \in 1..n |-> rs[i]] /\ \A i \in 1..n : rs[i] = SingleFilter(fs[i], b, custom)
    BY <1>1
  <2> HIDE DEF rs
  <2> QED BY <1>1, <2>1, FunctionIsList
<1>4. IsList(ls) /\ Len(ls) = n /\ \A i \in 1..n : ls[i] = LeafReading(fs[i], v)
  BY <1>1, FilterReadingsAre
<1>5. b \in Backends
  OBVIOUS
<1>6. \A i \in 1..n : Formed(rs[i])
  BY <1>1, <1>3, <1>5, SingleFormed
<1> HIDE DEF rs, ls
<1>7. r.err = "none"
  BY <1>2
<1>8. (\A i \in 1..n : rs[i].err = "none") /\ r.chain = d
  BY <1>3, <1>6, <1>7, CombinedIs
<1>9. IsList(cs) /\ Len(cs) = n /\ \A i \in 1..n : cs[i] = rs[i].chain
  <2>1. DOMAIN rs = 1..n
    BY <1>3, ListIs
  <2>2. cs = [i \in 1..n |-> cs[i]] /\ \A i \in 1..n : cs[i] = rs[i].chain
    BY <2>1
  <2> HIDE DEF cs
  <2> QED BY <1>1, <2>2, FunctionIsList
<1> HIDE DEF cs
<1>10. ASSUME NEW i \in 1..n PROVE Reads(cs[i], ls[i], v)
  <2> DEFINE f == fs[i]
  <2>1. IsCondition(f) /\ ~NegatedEmpty(f) /\ ~Loose(f)
    BY <1>1
  <2>2. SingleFilter(f, b, custom).err = "none" /\ cs[i] = SingleFilter(f, b, custom).chain
    BY <1>3, <1>8, <1>9
  <2>3. ls[i] = [k \in Nat |-> MeansLeaf(f, v, k)]
    BY <1>4 DEF LeafReading
  <2> HIDE DEF f
  <2>4. Reads(SingleFilter(f, b, custom).chain, [k \in Nat |-> MeansLeaf(f, v, k)], v)
    BY <1>5, <2>1, <2>2, LeafReads
  <2> QED BY <2>2, <2>3, <2>4
<1>11. Pieces("and", cs, ls, v)
  BY <1>4, <1>9, <1>10 DEF Pieces
<1>12. LinkFor("and") = "AND" /\ FALSE \in BOOLEAN
  BY DEF LinkFor
<1>13. Readings(ls) /\ Chain(d)
  BY <1>11, <1>12, PiecesAre
<1>14. Truth(Group(d, FALSE), v) = Turned("and", ls, FALSE)
  <2>1. Truth(Group(Separated(cs, LinkFor("and")), FALSE), v) = Turned("and", ls, FALSE)
    BY <1>11, <1>12, PiecesRead, Zenon
  <2> QED BY <1>12, <2>1, Zenon
<1>15. Turned("and", ls, FALSE) = Along("and", ls) /\ Along("and", ls) \in Reading
  BY <1>13, TurnedNot
<1> HIDE DEF d, r
<1>16. Reads(<<Group(d, FALSE)>>, Along("and", ls), v)
  BY <1>13, <1>14, <1>15, GroupedReads
<1> QED BY <1>2, <1>8, <1>13, <1>16 DEF ls

\* The filters as a tree, and the tree of the query after them.
LEMMA WhereMeans ==
  ASSUME NEW n, IsQuery(n), NEW v, Readings(FilterReadings(n.filters, v)), n.q # NoQ => MeansQ(n.q, v) \in Reading
  PROVE  LET a == AlongKids("and", FilterReadings(n.filters, v), 1)
         IN /\ n.q = NoQ => MeansQ(WhereTree(n), v)[1] = a
            /\ n.q # NoQ => MeansQ(WhereTree(n), v)[1] = KidsStep("and", a, MeansQ(n.q, v)[a.next])
<1> DEFINE fs == n.filters
           ls == FilterReadings(fs, v)
           us == [i \in DOMAIN fs |-> QLeaf(fs[i])]
           ws == IF n.q = NoQ THEN <<>> ELSE <<n.q>>
           ks == us \o ws
           t  == QTree("and", ks)
           ms == [i \in DOMAIN t.kids |-> MeansQ(t.kids[i], v)]
           N  == Len(fs)
<1>1. IsList(fs) /\ N \in Nat /\ DOMAIN fs = 1..N /\ \A i \in 1..N : IsCondition(fs[i])
  BY ListIs DEF IsQuery, Conditions
<1>2. IsList(us) /\ Len(us) = N /\ \A i \in 1..N : us[i] = QLeaf(fs[i])
  <2>1. us = [i \in 1..N |-> us[i]] /\ \A i \in 1..N : us[i] = QLeaf(fs[i])
    BY <1>1
  <2> HIDE DEF us
  <2> QED BY <1>1, <2>1, FunctionIsList
<1>3. IsList(ws) /\ Len(ws) \in Nat /\ (n.q = NoQ => Len(ws) = 0) /\ (n.q # NoQ => Len(ws) = 1 /\ ws[1] = n.q)
  <2>1. CASE n.q = NoQ
    BY <2>1, NoElements
  <2>2. CASE n.q # NoQ
    BY <2>2, TupleIsList
  <2> QED BY <2>1, <2>2
<1>4. WhereTree(n) = t
  BY DEF WhereTree
<1> HIDE DEF us, ws
<1>5. IsList(ks) /\ Len(ks) = N + Len(ws)
  <2>1. IsList(us \o ws) /\ Len(us \o ws) = Len(us) + Len(ws)
    BY <1>2, <1>3, JoinLists
  <2> QED BY <1>2, <2>1
<1>6. (\A i \in 1..N : ks[i] = us[i]) /\ (\A i \in 1..Len(ws) : ks[N + i] = ws[i])
  BY <1>2, <1>3, JoinLists
<1> HIDE DEF ks
<1>7. \A i \in 1..N : Tree(ks[i])
  BY <1>1, <1>2, <1>6, LeafTree
<1>8. n.q # NoQ => Len(ks) = N + 1 /\ ks[N + 1] = n.q
  BY <1>1, <1>3, <1>5, <1>6
<1>9. \A i \in 1..Len(ks) : Tree(ks[i])
  <2>1. n.q # NoQ => Tree(n.q)
    BY DEF IsQuery
  <2>2. n.q = NoQ => Len(ks) = N
    BY <1>1, <1>3, <1>5
  <2> QED BY <1>1, <1>7, <1>8, <2>1, <2>2
<1>10. Tree(t) /\ t.kids = ks /\ t.kind = "and"
  <2>1. t.kids = ks /\ t.kind = "and"
    BY DEF QTree
  <2>2. Tree(t)
    BY <1>5, <1>9, BranchTree
  <2> QED BY <2>1, <2>2
<1> HIDE DEF t
<1>11. PICK S : t \in S /\ Forest(S)
  BY <1>10 DEF Tree
<1>12. MeansQ(t, v) = NodeMeans(t, ms, v)
  BY <1>11, MeaningUnfolds
<1>13. MeansQ(t, v)[1] = AlongKids("and", ms, 1)
  BY <1>10, <1>12 DEF NodeMeans
<1>14. IsList(ms) /\ Len(ms) = Len(ks) /\ \A i \in 1..Len(ks) : ms[i] = MeansQ(ks[i], v)
  <2>1. DOMAIN t.kids = 1..Len(ks) /\ Len(ks) \in Nat
    BY <1>5, <1>10, ListIs
  <2>2. ms = [i \in 1..Len(ks) |-> ms[i]] /\ \A i \in 1..Len(ks) : ms[i] = MeansQ(ks[i], v)
    BY <1>10, <2>1
  <2> HIDE DEF ms
  <2> QED BY <2>1, <2>2, FunctionIsList
<1>15. IsList(ls) /\ Len(ls) = N /\ \A i \in 1..N : ls[i] = LeafReading(fs[i], v)
  BY <1>1, FilterReadingsAre
<1> HIDE DEF ms, ls
<1>16. ASSUME NEW i \in 1..N PROVE ms[i] = ls[i]
  <2> DEFINE f == fs[i]
             u == QLeaf(f)
             no == [k \in DOMAIN u.kids |-> MeansQ(u.kids[k], v)]
  <2>1. IsCondition(f) /\ ks[i] = u /\ i \in 1..Len(ks)
    BY <1>1, <1>2, <1>3, <1>5, <1>6
  <2>2. u.kind = "leaf" /\ u.test = f
    BY DEF QLeaf
  <2> HIDE DEF f, u
  <2>3. Tree(u)
    BY <2>1, LeafTree DEF u
  <2>4. PICK R : u \in R /\ Forest(R)
    BY <2>3 DEF Tree
  <2>5. MeansQ(u, v) = NodeMeans(u, no, v)
    BY <2>4, MeaningUnfolds
  <2>6. MeansQ(u, v) = LeafReading(f, v)
    BY <2>2, <2>5 DEF NodeMeans, LeafReading
  <2> QED BY <1>14, <1>15, <2>1, <2>6 DEF f
<1>17. CASE n.q = NoQ
  <2>1. Len(ms) = Len(ls)
    BY <1>1, <1>3, <1>5, <1>14, <1>15, <1>17
  <2>2. ms = ls
    BY <1>14, <1>15, <1>16, <2>1, SameList
  <2> QED BY <1>4, <1>13, <1>17, <2>2 DEF ls
<1>18. CASE n.q # NoQ
  <2> DEFINE a == AlongKids("and", ls, 1)
             m == MeansQ(n.q, v)
  <2>1. Len(ms) = Len(ls) + 1 /\ Len(ms) \in Nat /\ Len(ls) \in Nat /\ Len(ms) \in 1..Len(ks) /\ ks[Len(ms)] = n.q
    BY <1>1, <1>8, <1>14, <1>15, <1>18
  <2>2. ms[Len(ms)] = m /\ m \in Reading
    BY <1>14, <1>18, <2>1
  <2> HIDE DEF m
  <2>3. Readings(ls)
    BY DEF ls
  <2>4. Readings(ms)
    <3>1. ASSUME NEW i \in 1..Len(ms) PROVE ms[i] \in Reading
      <4>1. i \in 1..N \/ i = Len(ms)
        BY <1>15, <2>1
      <4>2. i \in 1..N => ls[i] \in Reading
        BY <1>15, <2>3 DEF Readings
      <4> QED BY <1>16, <2>2, <4>1, <4>2
    <3> QED BY <2>1, <3>1 DEF Readings
  <2>5. \A i \in 1..Len(ls) : ms[i] = ls[i]
    BY <1>15, <1>16
  <2>6. AlongKids("and", ms, 1) = KidsStep("and", a, ms[Len(ms)][a.next])
    <3>1. "and" \in {"and", "or", "not"} /\ 1 \in Nat
      OBVIOUS
    <3> QED BY <2>1, <2>3, <2>4, <2>5, <3>1, KidsAppend
  <2>7. AlongKids("and", ms, 1) = KidsStep("and", a, m[a.next])
    BY <2>2, <2>6
  <2> HIDE DEF a
  <2>8. MeansQ(WhereTree(n), v)[1] = KidsStep("and", a, m[a.next])
    BY <1>4, <1>13, <2>7
  <2> QED BY <1>18, <2>8 DEF a, m, ls
<1> QED BY <1>17, <1>18

\* Parentheses around one term change nothing.
LEMMA AlongOne ==
  ASSUME NEW m \in Reading
  PROVE  Along("and", <<m>>) = m
<1>1. \A i \in Nat : AlongKids("and", <<m>>, i) = m[i]
  <2>1. "and" \in {"and", "or", "not"}
    OBVIOUS
  <2> QED BY <2>1, FewKids
<1>2. m = [i \in Nat |-> m[i]]
  BY DEF Reading
<1> QED BY <1>1, <1>2 DEF Along

LEMMA ParenthesesRead ==
  ASSUME NEW c, NEW m, NEW v, Reads(c, m, v)
  PROVE  Reads(<<Group(c, FALSE)>>, m, v)
<1>1. FALSE \in BOOLEAN /\ "and" \in {"and", "or"}
  OBVIOUS
<1>2. Truth(Group(c, FALSE), v) = Turned("and", <<m>>, FALSE) /\ Chain(c) /\ Readings(<<m>>) /\ m \in Reading
  BY <1>1, WrappedReads
<1>3. Turned("and", <<m>>, FALSE) = Along("and", <<m>>)
  BY <1>1, <1>2, TurnedNot
<1>4. Along("and", <<m>>) = m
  BY <1>2, AlongOne
<1>5. Truth(Group(c, FALSE), v) = m
  BY <1>2, <1>3, <1>4
<1> QED BY <1>2, <1>5, GroupedReads

\* A clause whose parts are single terms holds where all of them do.
LEMMA PiecesEval ==
  ASSUME NEW cs, NEW ms, NEW v, Pieces("and", cs, ms, v)
  PROVE  EvalChain(Separated(cs, "AND"), v, 1) = AlongKids("and", ms, 1) /\ Readings(ms)
<1>1. LinkFor("and") = "AND" /\ FALSE \in BOOLEAN /\ "and" \in {"and", "or"} /\ 1 \in Nat
  BY DEF LinkFor
<1>2. Truth(Group(Separated(cs, "AND"), FALSE), v) = Turned("and", ms, FALSE)
  BY <1>1, PiecesRead
<1>3. Readings(ms)
  BY PiecesAre
<1>4. Turned("and", ms, FALSE) = Along("and", ms)
  BY <1>1, <1>3, TurnedNot
<1>5. Along("and", ms)[1] = AlongKids("and", ms, 1)
  BY <1>1 DEF Along
<1> QED BY <1>2, <1>3, <1>4, <1>5 DEF EvalChain

\* The readings of the parts of the clause: none, of the filters, of the tree, of both.
PartReadings(n, F, m) ==
  IF n.q = NoQ THEN IF n.filters = <<>> THEN <<>> ELSE <<F>>
  ELSE IF n.filters = <<>> THEN <<m>> ELSE <<F, m>>

LEMMA PartReadingsAre ==
  ASSUME NEW n, NEW F, NEW m
  PROVE  LET ps == PartReadings(n, F, m)
         IN /\ n.filters = <<>> /\ n.q = NoQ => ps = <<>>
            /\ n.filters # <<>> /\ n.q = NoQ => ps = <<F>>
            /\ n.filters = <<>> /\ n.q # NoQ => ps = <<m>>
            /\ n.filters # <<>> /\ n.q # NoQ => ps = <<F, m>>
BY DEF PartReadings

\* What they come to, one after the other.
LEMMA PartsAlong ==
  ASSUME NEW n, NEW F \in Reading, NEW m, n.q # NoQ => m \in Reading,
         n.filters = <<>> => F[1] = [holds |-> TRUE, next |-> 1]
  PROVE  LET ps == PartReadings(n, F, m)
         IN /\ n.q = NoQ => AlongKids("and", ps, 1) = F[1]
            /\ n.q # NoQ => AlongKids("and", ps, 1).holds = KidsStep("and", F[1], m[F[1].next]).holds
<1> DEFINE ps == PartReadings(n, F, m)
<1>0. 1 \in Nat /\ "and" \in {"and", "or", "not"}
  OBVIOUS
<1>1. F[1] \in Judged /\ F[1].next \in Nat
  BY DEF Reading, Judged
<1>2. CASE n.q = NoQ
  <2>1. CASE n.filters = <<>>
    <3>1. ps = <<>>
      BY <1>2, <2>1, PartReadingsAre
    <3>2. AlongKids("and", <<>>, 1) = [holds |-> "and" = "and", next |-> 1]
      BY <1>0, FewKids
    <3>3. ("and" = "and") = TRUE
      OBVIOUS
    <3>4. AlongKids("and", <<>>, 1) = F[1]
      BY <2>1, <3>2, <3>3
    <3> QED BY <1>2, <3>1, <3>4
  <2>2. CASE n.filters # <<>>
    <3>1. ps = <<F>>
      BY <1>2, <2>2, PartReadingsAre
    <3>2. AlongKids("and", <<F>>, 1) = F[1]
      BY <1>0, FewKids
    <3> QED BY <1>2, <3>1, <3>2
  <2> QED BY <2>1, <2>2
<1>3. CASE n.q # NoQ
  <2>1. m \in Reading
    BY <1>3
  <2>2. CASE n.filters = <<>>
    <3>1. ps = <<m>>
      BY <1>3, <2>2, PartReadingsAre
    <3>2. AlongKids("and", <<m>>, 1) = m[1]
      BY <1>0, <2>1, FewKids
    <3>3. F[1].next = 1 /\ F[1].holds = TRUE /\ m[1] \in Judged
      BY <2>1, <2>2 DEF Reading
    <3>4. KidsStep("and", F[1], m[1]).holds <=> F[1].holds /\ m[1].holds
      BY <1>0, <1>1, <3>3, StepReads
    <3>5. KidsStep("and", F[1], m[1]) \in Judged
      BY <1>0, <1>1, <3>3, StepReads
    <3>6. m[1].holds \in BOOLEAN /\ KidsStep("and", F[1], m[1]).holds \in BOOLEAN
      BY <3>3, <3>5 DEF Judged
    <3> DEFINE x == KidsStep("and", F[1], m[1]).holds
               y == m[1].holds
    <3>7. x \in BOOLEAN /\ y \in BOOLEAN /\ (x <=> y)
      BY <3>3, <3>4, <3>6
    <3> HIDE DEF x, y
    <3>8. x = y
      BY <3>7
    <3> QED BY <1>3, <3>1, <3>2, <3>3, <3>8 DEF x, y
  <2>3. CASE n.filters # <<>>
    <3> DEFINE a == <<F>>
               c == <<F, m>>
    <3>1. ps = c
      BY <1>3, <2>3, PartReadingsAre
    <3>2. Len(a) = 1 /\ a[1] = F /\ Len(c) = 2 /\ c[1] = F /\ c[2] = m
      OBVIOUS
    <3>3. AlongKids("and", a, 1) = F[1]
      BY <1>0, FewKids
    <3>4. 1..1 = {1} /\ 1..2 = {1, 2}
      OBVIOUS
    <3> HIDE DEF a, c
    <3>5. Readings(a) /\ Readings(c)
      BY <2>1, <3>2, <3>4 DEF Readings
    <3>6. Len(c) = Len(a) + 1 /\ \A i \in 1..Len(a) : c[i] = a[i]
      BY <3>2, <3>4
    <3>7. AlongKids("and", c, 1) = KidsStep("and", AlongKids("and", a, 1), c[Len(c)][AlongKids("and", a, 1).next])
      BY <1>0, <3>5, <3>6, KidsAppend
    <3>8. AlongKids("and", c, 1) = KidsStep("and", F[1], m[F[1].next])
      BY <3>2, <3>3, <3>7
    <3> QED BY <1>3, <3>1, <3>8
  <2> QED BY <2>2, <2>3
<1> QED BY <1>2, <1>3

\* The parts in parentheses, each a term of the reading above.
LEMMA PartsPieces ==
  ASSUME NEW n, NEW F, NEW m, NEW v, \A i \in 1..Len(WhereParts(n)) : Formed(WhereParts(n)[i]),
         LET fs == CompileFilters(n.filters, n.backend, custom)
             t  == CompileQ(n.q, n.backend, custom)
         IN /\ n.filters # <<>> => Reads(<<Group(fs.chain, FALSE)>>, F, v)
            /\ n.q # NoQ => Reads(<<Group(t.chain, FALSE)>>, m, v)
  PROVE  Pieces("and", Parenthesised(WhereParts(n)), PartReadings(n, F, m), v)
<1> DEFINE ws == WhereParts(n)
           cs == Parenthesised(ws)
           ps == PartReadings(n, F, m)
           fs == CompileFilters(n.filters, n.backend, custom)
           t  == CompileQ(n.q, n.backend, custom)
<1>1. /\ IsList(ws) /\ Len(ws) \in Nat
      /\ n.filters = <<>> /\ n.q = NoQ => Len(ws) = 0
      /\ n.filters # <<>> /\ n.q = NoQ => Len(ws) = 1 /\ ws[1] = fs
      /\ n.filters = <<>> /\ n.q # NoQ => Len(ws) = 1 /\ ws[1] = t
      /\ n.filters # <<>> /\ n.q # NoQ => Len(ws) = 2 /\ ws[1] = fs /\ ws[2] = t
  BY WherePartsAre
<1>2. /\ n.filters = <<>> /\ n.q = NoQ => ps = <<>>
      /\ n.filters # <<>> /\ n.q = NoQ => ps = <<F>>
      /\ n.filters = <<>> /\ n.q # NoQ => ps = <<m>>
      /\ n.filters # <<>> /\ n.q # NoQ => ps = <<F, m>>
  BY PartReadingsAre
<1>3. /\ n.filters # <<>> => Reads(<<Group(fs.chain, FALSE)>>, F, v)
      /\ n.q # NoQ => Reads(<<Group(t.chain, FALSE)>>, m, v)
  OBVIOUS
<1> HIDE DEF ws, fs, t
<1>4. IsList(cs) /\ Len(cs) = Len(ws) /\ \A i \in 1..Len(ws) : cs[i] = <<Group(ws[i].chain, FALSE)>>
  <2>1. DOMAIN ws = 1..Len(ws)
    BY <1>1, ListIs
  <2>2. cs = [i \in 1..Len(ws) |-> cs[i]] /\ \A i \in 1..Len(ws) : cs[i] = <<Group(ws[i].chain, FALSE)>>
    BY <2>1 DEF Parenthesised
  <2> HIDE DEF cs
  <2> QED BY <1>1, <2>2, FunctionIsList
<1> HIDE DEF cs, ps
<1> SUFFICES Pieces("and", cs, ps, v)
  BY DEF cs, ps, ws
<1>5. "and" \in {"and", "or"} /\ "and" # "or"
  OBVIOUS
<1>6. 1..0 = {} /\ 1..1 = {1} /\ 1..2 = {1, 2} /\ 1 \in 1..1 /\ 1 \in 1..2 /\ 2 \in 1..2
  OBVIOUS
<1>7. CASE n.filters = <<>> /\ n.q = NoQ
  <2>1. Len(cs) = 0 /\ IsList(ps) /\ Len(ps) = 0
    BY <1>1, <1>2, <1>4, <1>7, NoElements
  <2> QED BY <1>4, <1>5, <1>6, <2>1 DEF Pieces
<1>8. CASE n.filters # <<>> /\ n.q = NoQ
  <2>1. Len(cs) = 1 /\ cs[1] = <<Group(fs.chain, FALSE)>>
    BY <1>1, <1>4, <1>6, <1>8
  <2>2. IsList(ps) /\ Len(ps) = 1 /\ ps[1] = F
    BY <1>2, <1>8, TupleIsList
  <2>3. \A i \in 1..Len(cs) : Reads(cs[i], ps[i], v)
    BY <1>3, <1>6, <1>8, <2>1, <2>2
  <2> QED BY <1>4, <1>5, <2>1, <2>2, <2>3 DEF Pieces
<1>9. CASE n.filters = <<>> /\ n.q # NoQ
  <2>1. Len(cs) = 1 /\ cs[1] = <<Group(t.chain, FALSE)>>
    BY <1>1, <1>4, <1>6, <1>9
  <2>2. IsList(ps) /\ Len(ps) = 1 /\ ps[1] = m
    BY <1>2, <1>9, TupleIsList
  <2>3. \A i \in 1..Len(cs) : Reads(cs[i], ps[i], v)
    BY <1>3, <1>6, <1>9, <2>1, <2>2
  <2> QED BY <1>4, <1>5, <2>1, <2>2, <2>3 DEF Pieces
<1>10. CASE n.filters # <<>> /\ n.q # NoQ
  <2>1. Len(cs) = 2 /\ cs[1] = <<Group(fs.chain, FALSE)>> /\ cs[2] = <<Group(t.chain, FALSE)>>
    BY <1>1, <1>4, <1>6, <1>10
  <2>2. ps = <<F, m>>
    BY <1>2, <1>10
  <2>3. IsList(ps) /\ Len(ps) = 2
    BY <2>2, PairIsList
  <2>4. ps[1] = F /\ ps[2] = m
    BY <2>2
  <2>5. \A i \in 1..Len(cs) : Reads(cs[i], ps[i], v)
    BY <1>3, <1>6, <1>10, <2>1, <2>4
  <2> QED BY <1>4, <1>5, <2>1, <2>3, <2>5 DEF Pieces
<1> QED BY <1>7, <1>8, <1>9, <1>10

LEMMA WhereReads ==
  ASSUME IsQuery(stmt), RegistrySound, CompileWhere(stmt, custom).err = "none",
         \A f \in Tested(stmt) : ~NegatedEmpty(f) /\ ~Loose(f), stmt.q # NoQ => \A t \in Nodes(stmt.q) : ~Blank(t),
         NEW v
  PROVE  EvalChain(CompileWhere(stmt, custom).chain, v, 1).holds = MeansQ(WhereTree(stmt), v)[1].holds
<1> DEFINE fs == stmt.filters
           q  == stmt.q
           r  == CompileWhere(stmt, custom)
           ls == FilterReadings(fs, v)
           F  == Along("and", ls)
           m  == MeansQ(q, v)
           ws == WhereParts(stmt)
           ps == PartReadings(stmt, F, m)
           cf == CompileFilters(fs, stmt.backend, custom)
           ct == CompileQ(q, stmt.backend, custom)
<1>1. /\ \A i \in 1..Len(ws) : ws[i].err = "none" /\ Formed(ws[i])
      /\ r.chain = Separated(Parenthesised(ws), "AND")
  BY WhereFits
<1>2. /\ Len(ws) \in Nat
      /\ fs = <<>> /\ q = NoQ => Len(ws) = 0
      /\ fs # <<>> /\ q = NoQ => Len(ws) = 1 /\ ws[1] = cf
      /\ fs = <<>> /\ q # NoQ => Len(ws) = 1 /\ ws[1] = ct
      /\ fs # <<>> /\ q # NoQ => Len(ws) = 2 /\ ws[1] = cf /\ ws[2] = ct
  BY WherePartsAre
<1>3. stmt.backend \in Backends /\ Conditions(fs) /\ (q = NoQ \/ Tree(q))
  BY DEF IsQuery
<1>4. IsList(fs)
  BY <1>3 DEF Conditions
<1>5. (\A f \in ToSet(fs) : ~NegatedEmpty(f) /\ ~Loose(f)) /\ (q # NoQ => Sane(q))
  BY DEF Tested, Sane
<1>6. (fs # <<>> => cf.err = "none") /\ (q # NoQ => ct.err = "none")
  <2>1. 1 \in 1..1 /\ 1 \in 1..2 /\ 2 \in 1..2
    OBVIOUS
  <2> HIDE DEF ws, cf, ct, fs, q
  <2> QED BY <1>1, <1>2, <2>1
<1>7. Readings(ls) /\ F \in Reading /\ (fs # <<>> => Reads(<<Group(cf.chain, FALSE)>>, F, v))
  <2>1. CASE fs = <<>>
    <3>1. IsList(ls) /\ Len(ls) = 0
      BY <1>4, <2>1, FilterReadingsAre, NoElements
    <3> HIDE DEF ls
    <3>2. Readings(ls)
      BY <3>1 DEF Readings
    <3>3. F \in Reading
      BY <3>2, TurnedNot
    <3> QED BY <2>1, <3>2, <3>3
  <2>2. CASE fs # <<>>
    <3>1. Readings(ls) /\ Reads(<<Group(cf.chain, FALSE)>>, F, v)
      BY <1>3, <1>5, <1>6, <2>2, FiltersMean
    <3> HIDE DEF ls, F, cf
    <3>2. F \in Reading
      BY <3>1 DEF Reads
    <3> QED BY <3>1, <3>2
  <2> QED BY <2>1, <2>2
<1>8. q # NoQ => m \in Reading /\ Reads(<<Group(ct.chain, FALSE)>>, m, v)
  <2> SUFFICES ASSUME q # NoQ PROVE m \in Reading /\ Reads(<<Group(ct.chain, FALSE)>>, m, v)
    OBVIOUS
  <2>1. Tree(q)
    BY <1>3
  <2>2. Reads(ct.chain, m, v)
    BY <1>3, <1>5, <1>6, <2>1, TreesMean DEF TreeReads
  <2> HIDE DEF m, ct, q
  <2>3. Reads(<<Group(ct.chain, FALSE)>>, m, v)
    BY <2>2, ParenthesesRead
  <2> QED BY <2>3 DEF Reads
<1>9. F[1] = AlongKids("and", ls, 1)
  BY DEF Along
<1>10. fs = <<>> => F[1] = [holds |-> TRUE, next |-> 1]
  <2> SUFFICES ASSUME fs = <<>> PROVE F[1] = [holds |-> TRUE, next |-> 1]
    OBVIOUS
  <2>1. IsList(ls) /\ Len(ls) = 0
    BY <1>4, FilterReadingsAre, NoElements
  <2>2. ls = <<>>
    BY <2>1, NoLength
  <2>3. \A x \in Reading : AlongKids("and", <<>>, 1) = [holds |-> "and" = "and", next |-> 1]
    <3>1. "and" \in {"and", "or", "not"} /\ 1 \in Nat
      OBVIOUS
    <3> QED BY <3>1, FewKids
  <2>4. ("and" = "and") = TRUE
    OBVIOUS
  <2> HIDE DEF ls, F
  <2> QED BY <1>7, <1>9, <2>2, <2>3, <2>4
<1>11. /\ q = NoQ => MeansQ(WhereTree(stmt), v)[1] = F[1]
       /\ q # NoQ => MeansQ(WhereTree(stmt), v)[1] = KidsStep("and", F[1], m[F[1].next])
  BY <1>7, <1>8, <1>9, WhereMeans
<1>12. Pieces("and", Parenthesised(ws), ps, v)
  <2>1. \A i \in 1..Len(ws) : Formed(ws[i])
    BY <1>1
  <2> HIDE DEF F, m
  <2> QED BY <1>7, <1>8, <2>1, PartsPieces
<1>13. EvalChain(r.chain, v, 1) = AlongKids("and", ps, 1)
  BY <1>1, <1>12, PiecesEval
<1> HIDE DEF F, m, r
<1>14. /\ q = NoQ => AlongKids("and", ps, 1) = F[1]
       /\ q # NoQ => AlongKids("and", ps, 1).holds = KidsStep("and", F[1], m[F[1].next]).holds
  BY <1>7, <1>8, <1>10, PartsAlong
<1> QED BY <1>11, <1>13, <1>14 DEF r

\* A statement with a WHERE clause that compiled has one that did.
LEMMA WhereCompiled ==
  ASSUME SInv, Asked, Compiled.err = "none", stmt.op.kind # "insert"
  PROVE  /\ IsQuery(stmt) /\ stmt.backend \in Backends /\ RegistrySound
         /\ CompileWhere(stmt, custom).err = "none"
         /\ \A f \in Tested(stmt) : IsCondition(f) /\ SingleFilter(f, stmt.backend, custom).err = "none"
<1> DEFINE n == stmt
           w == CompileWhere(n, custom)
           h == CompileFilters(n.having, n.backend, custom)
<1>1. IsQuery(n) /\ n.backend \in Backends /\ RegistrySound
  BY Registered DEF SInv, Asked, Sound, IsQuery
<1>2. Compiled = CompileOp(n, w, h)
  BY DEF Compiled, Compile
<1>3. Compiled.err = "none" /\ n.op.kind # "insert"
  OBVIOUS
<1> HIDE DEF w, h
<1>4. w.err = "none"
  <2>1. CASE n.op.kind = "select"
    <3>1. Compiled = CompileSelect(n, w, h)
      BY <1>2, <2>1 DEF CompileOp
    <3> QED BY <1>3, <3>1, SelectBinds
  <2>2. CASE n.op.kind = "update"
    <3>1. Compiled = CompileUpdate(n, w)
      BY <1>2, <2>2 DEF CompileOp
    <3> QED BY <1>3, <3>1, UpdateBinds
  <2>3. CASE n.op.kind \notin {"select", "update", "insert"}
    <3>1. Compiled = CompileScan(n, w)
      BY <1>2, <2>3 DEF CompileOp
    <3> QED BY <1>3, <3>1, ScanBinds
  <2> QED BY <1>3, <2>1, <2>2, <2>3
<1>5. \A f \in Used : IsCondition(f) /\ SingleFilter(f, stmt.backend, custom).err = "none"
  BY StatementBinds
<1>6. \A f \in Tested(stmt) : f \in Used
  BY <1>3 DEF Used
<1> QED BY <1>1, <1>4, <1>5, <1>6 DEF w

\* The WHERE clause holds for exactly the rows the filters, exclusions and Q trees describe,
\* however they are nested, but for the three shapes that ConditionMeans names.
THEOREM ConditionsKeepTheirMeaning == SessionSpec => []ConditionMeans
<1>1. SInv => ConditionMeans
  <2> SUFFICES ASSUME SInv, Asked, stmt.op.kind # "insert", Compiled.err = "none",
                      \A f \in Tested(stmt) : ~NegatedEmpty(f) /\ ~Loose(f),
                      stmt.q # NoQ => \A t \in Nodes(stmt.q) : ~Blank(t)
               PROVE  \A v : EvalChain(CompileWhere(stmt, custom).chain, v, 1).holds = MeansQ(WhereTree(stmt), v)[1].holds
    BY DEF ConditionMeans
  <2>1. IsQuery(stmt) /\ RegistrySound /\ CompileWhere(stmt, custom).err = "none"
    BY WhereCompiled
  <2> QED BY <2>1, WhereReads
<1> QED BY <1>1, SessionInvariant, PTL

-----------------------------------------------------------------------------
(* The fragments of a condition.                                           *)

\* A condition tests one fragment, however often and under whatever NOT.
LEMMA AtomsAre ==
  ASSUME NEW f, IsCondition(f), NEW backend \in Backends, RegistrySound,
         SingleFilter(f, backend, custom).err = "none", NEW a \in AtomsIn(SingleFilter(f, backend, custom).chain)
  PROVE  ~Empty(f) /\ a = TestOf(f, backend) /\ a.err = "none"
<1> DEFINE r == SingleFilter(f, backend, custom)
           d == r.chain
           c == ChainOf(f, backend)
           t == TestOf(f, backend)
<1>1. PICK u \in ToSet(d) \cup UNION {ToSet(x.kids) : x \in ToSet(d)} : u.kind = "atom" /\ a = u.frag
  BY DEF AtomsIn
<1>2. CASE Empty(f)
  <2>1. r = Never
    BY <1>2, SingleIs
  <2>2. d = <<NeverTerm>>
    BY <2>1, NeverIs
  <2> DEFINE y == NeverTerm
  <2>3. y.kind = "never" /\ y.kids = <<>>
    BY NeverIsTerm
  <2> HIDE DEF y
  <2>4. ToSet(<<y>>) = {y} /\ ToSet(<<>>) = {}
    BY TupleIsList, NoElements
  <2>5. ToSet(d) = {y}
    BY <2>2, <2>4 DEF y
  <2> HIDE DEF d
  <2>6. u = y
    BY <1>1, <2>3, <2>4, <2>5
  <2> QED BY <1>1, <2>3, <2>6
<1>3. CASE ~Empty(f)
  <2>1. r = Result("none", Negatable(c, f.negated), ValuesOf(f)) /\ t.err = "none"
    BY <1>3, SingleIs
  <2>2. d = Negatable(c, f.negated)
    BY <2>1, ResultFields
  <2>3. Chain(c) /\ \A i \in 1..Len(c) : c[i].kind = "atom" /\ c[i].frag = t /\ c[i].kids = <<>>
    BY <2>1, ChainOfIs
  <2>4. ASSUME NEW x \in ToSet(c) PROVE x.frag = t /\ x.kids = <<>>
    <3>1. IsList(c)
      BY <2>3 DEF Chain
    <3>2. \E i \in 1..Len(c) : c[i] = x
      BY <3>1, ListIs
    <3> HIDE DEF c, t
    <3> QED BY <2>3, <3>2
  <2>5. ToSet(<<>>) = {}
    BY NoElements
  <2>6. CASE f.negated
    <3> DEFINE g == Group(c, TRUE)
    <3>1. d = <<g>>
      BY <2>2, <2>6 DEF Negatable
    <3>2. g.kind = "group" /\ g.kids = c
      BY DEF Group, TermOf
    <3> HIDE DEF g, c
    <3>3. ToSet(<<g>>) = {g}
      BY TupleIsList
    <3>4. ToSet(d) = {g}
      BY <3>1, <3>3
    <3> HIDE DEF d, t
    <3>5. u \in ToSet(c)
      BY <1>1, <3>2, <3>4
    <3>6. a = t
      BY <1>1, <2>4, <3>5
    <3> QED BY <1>3, <2>1, <3>6 DEF t
  <2>7. CASE ~f.negated
    <3>1. d = c
      BY <2>2, <2>7 DEF Negatable
    <3> HIDE DEF c, d, t
    <3>2. u \in ToSet(c)
      BY <1>1, <2>4, <2>5, <3>1
    <3>3. a = t
      BY <1>1, <2>4, <3>2
    <3> QED BY <1>3, <2>1, <3>3 DEF t
  <2> QED BY <2>6, <2>7
<1> QED BY <1>2, <1>3

-----------------------------------------------------------------------------
(* The steps wrapped around a column.                                      *)

StepNames(steps) == {s.part : s \in ToSet(steps)}
KeysRead(steps)  == {s.key : s \in {u \in ToSet(steps) : u.part = "key"}}

LEMMA StepsJoin ==
  ASSUME NEW s, IsList(s), NEW t, IsList(t)
  PROVE  /\ IsList(s \o t) /\ Len(s \o t) = Len(s) + Len(t)
         /\ StepNames(s \o t) = StepNames(s) \cup StepNames(t)
         /\ KeysRead(s \o t) = KeysRead(s) \cup KeysRead(t)
<1>1. IsList(s \o t) /\ Len(s \o t) = Len(s) + Len(t) /\ ToSet(s \o t) = ToSet(s) \cup ToSet(t)
  BY JoinLists
<1> DEFINE u == s \o t
<1>2. IsList(u) /\ Len(u) = Len(s) + Len(t) /\ ToSet(u) = ToSet(s) \cup ToSet(t)
  BY <1>1
<1> HIDE DEF u
<1>3. StepNames(u) = StepNames(s) \cup StepNames(t)
  BY <1>2 DEF StepNames
<1>4. KeysRead(u) = KeysRead(s) \cup KeysRead(t)
  BY <1>2 DEF KeysRead
<1> QED BY <1>2, <1>3, <1>4 DEF u

LEMMA NoSteps == StepNames(<<>>) = {} /\ KeysRead(<<>>) = {}
<1>1. ToSet(<<>>) = {}
  BY NoElements
<1> QED BY <1>1 DEF StepNames, KeysRead

LEMMA OneStep ==
  ASSUME NEW s
  PROVE  /\ IsList(<<s>>) /\ Len(<<s>>) = 1 /\ StepNames(<<s>>) = {s.part}
         /\ KeysRead(<<s>>) = IF s.part = "key" THEN {s.key} ELSE {}
<1> DEFINE l == <<s>>
<1>1. IsList(l) /\ ToSet(l) = {s} /\ Len(l) = 1
  BY TupleIsList
<1> HIDE DEF l
<1>2. StepNames(l) = {s.part}
  BY <1>1 DEF StepNames
<1>3. KeysRead(l) = IF s.part = "key" THEN {s.key} ELSE {}
  BY <1>1 DEF KeysRead
<1> QED BY <1>1, <1>2, <1>3 DEF l

\* What one transform adds: itself, and the key it reads if it is "key".
Adds(steps, part, key) ==
  /\ IsList(steps)
  /\ \A p \in DateParts : p \in StepNames(steps) <=> part = p
  /\ \A k : k # "" /\ k # "key" => (k \in KeysRead(steps) <=> part = "key" /\ key = k)

LEMMA StepsOfAre ==
  ASSUME NEW part, NEW backend, NEW key
  PROVE  Adds(StepsOf(part, backend, key), part, key)
<1> DEFINE s == StepsOf(part, backend, key)
<1>1. CASE part \in DateParts
  <2> DEFINE d == DateStep(part)
  <2>1. s = <<d>>
    BY <1>1 DEF StepsOf, DateParts
  <2>2. d.part = part
    BY DEF DateStep
  <2>3. part # "key"
    BY <1>1 DEF DateParts
  <2> HIDE DEF d
  <2>4. IsList(s) /\ StepNames(s) = {d.part} /\ KeysRead(s) = IF d.part = "key" THEN {d.key} ELSE {}
    BY <2>1, OneStep
  <2> HIDE DEF s
  <2> QED BY <2>2, <2>3, <2>4 DEF Adds, s
<1>2. CASE part \notin DateParts /\ part = "json" /\ backend # "PostgreSQL"
  <2>1. s = <<>>
    BY <1>2 DEF StepsOf
  <2>2. IsList(s) /\ StepNames(s) = {} /\ KeysRead(s) = {}
    BY <2>1, NoSteps, NoElements
  <2>3. part # "key" /\ \A p \in DateParts : part # p
    BY <1>2
  <2> HIDE DEF s
  <2> QED BY <2>2, <2>3 DEF Adds, s
<1>3. CASE part \notin DateParts /\ ~(part = "json" /\ backend # "PostgreSQL")
  <2> DEFINE d == JsonStep(part, key, backend)
  <2>1. s = <<d>>
    BY <1>3 DEF StepsOf
  <2>2. d.part = part /\ d.key = IF part = "json" THEN "" ELSE IF key = "" THEN "key" ELSE key
    BY DEF JsonStep
  <2>3. \A p \in DateParts : part # p
    BY <1>3
  <2> HIDE DEF d
  <2>4. IsList(s) /\ StepNames(s) = {d.part} /\ KeysRead(s) = IF d.part = "key" THEN {d.key} ELSE {}
    BY <2>1, OneStep
  <2> HIDE DEF s
  <2>5. ASSUME NEW k, k # "", k # "key" PROVE k \in KeysRead(s) <=> part = "key" /\ key = k
    <3>1. CASE part = "key"
      <4>1. d.key = IF key = "" THEN "key" ELSE key
        BY <2>2, <3>1
      <4>2. KeysRead(s) = {d.key}
        BY <2>2, <2>4, <3>1
      <4> QED BY <2>5, <3>1, <4>1, <4>2
    <3>2. CASE part # "key"
      BY <2>2, <2>4, <3>2
    <3> QED BY <3>1, <3>2
  <2> QED BY <2>2, <2>3, <2>4, <2>5 DEF Adds, s
<1> QED BY <1>1, <1>2, <1>3

IsColumn(c) == c = [name |-> c.name, split |-> c.split, steps |-> c.steps, int |-> c.int] /\ IsList(c.steps)
Bare(c) == IsColumn(c) /\ c.steps = <<>> /\ c.int = FALSE

LEMMA BareColumns == ASSUME NEW name PROVE Bare(QualifiedCol(name)) /\ Bare(QuotedWhole(name))
<1>1. IsList(<<>>)
  BY NoElements
<1> QED BY <1>1 DEF Bare, IsColumn, QualifiedCol, QuotedWhole

\* Transforms one after the other: each part is there, and each key "key" was given.
Applied(c, ps, keys) ==
  /\ IsColumn(c) /\ c.int = FALSE
  /\ \A p \in DateParts : p \in StepNames(c.steps) <=> p \in ToSet(ps)
  /\ \A k : k # "" /\ k # "key" =>
       (k \in KeysRead(c.steps) <=> \E i \in 1..Len(ps) : ps[i] = "key" /\ keys[i] = k)
  /\ ps = <<>> => c.steps = <<>>

LEMMA ApplyAllIs ==
  ASSUME NEW col, Bare(col), NEW ps, IsList(ps), NEW keys, NEW backend
  PROVE  Applied(ApplyAll(ps, keys, col, backend), ps, keys)
<1> DEFINE ss == [i \in DOMAIN ps |-> StepsOf(ps[i], backend, keys[i])]
           u  == FlattenSeq(ss)
           c  == ApplyAll(ps, keys, col, backend)
           n  == Len(ps)
<1>1. DOMAIN ps = 1..n /\ n \in Nat /\ \A x : x \in ToSet(ps) <=> \E i \in 1..n : ps[i] = x
  BY ListIs
<1>2. IsList(ss) /\ Len(ss) = n /\ \A i \in 1..n : ss[i] = StepsOf(ps[i], backend, keys[i])
  <2>1. ss = [i \in 1..n |-> ss[i]] /\ \A i \in 1..n : ss[i] = StepsOf(ps[i], backend, keys[i])
    BY <1>1
  <2> HIDE DEF ss
  <2> QED BY <1>1, <2>1, FunctionIsList
<1>3. c = [col EXCEPT !.steps = col.steps \o u]
  BY DEF ApplyAll
<1> HIDE DEF ss
<1>4. \A i \in 1..n : Adds(ss[i], ps[i], keys[i])
  BY <1>2, StepsOfAre
<1>5. IsList(u) /\ ToSet(u) = UNION {ToSet(ss[i]) : i \in 1..n}
  <2>1. \A i \in 1..Len(ss) : IsList(ss[i])
    BY <1>2, <1>4 DEF Adds
  <2>2. IsList(FlattenSeq(ss)) /\ ToSet(FlattenSeq(ss)) = UNION {ToSet(ss[i]) : i \in 1..Len(ss)}
    BY <1>2, <2>1, FlatIsList
  <2> QED BY <1>2, <2>2
<1> HIDE DEF u, c
<1>6. <<>> \o u = u
  BY <1>5, NothingJoined
<1>7. IsColumn(c) /\ c.int = FALSE /\ c.steps = u
  BY <1>3, <1>5, <1>6 DEF Bare, IsColumn
<1>8. \A x : x \in StepNames(u) <=> \E i \in 1..n : x \in StepNames(ss[i])
  BY <1>5 DEF StepNames
<1>9. \A x : x \in KeysRead(u) <=> \E i \in 1..n : x \in KeysRead(ss[i])
  BY <1>5 DEF KeysRead
<1>10. \A p \in DateParts : p \in StepNames(u) <=> p \in ToSet(ps)
  <2> SUFFICES ASSUME NEW p \in DateParts PROVE p \in StepNames(u) <=> p \in ToSet(ps)
    OBVIOUS
  <2>1. p \in StepNames(u) <=> \E i \in 1..n : p \in StepNames(ss[i])
    BY <1>8
  <2>2. p \in ToSet(ps) <=> \E i \in 1..n : ps[i] = p
    BY <1>1
  <2>3. \A i \in 1..n : p \in StepNames(ss[i]) <=> ps[i] = p
    BY <1>4 DEF Adds
  <2> QED BY <2>1, <2>2, <2>3
<1>11. \A k : k # "" /\ k # "key" => (k \in KeysRead(u) <=> \E i \in 1..n : ps[i] = "key" /\ keys[i] = k)
  <2> SUFFICES ASSUME NEW k, k # "" /\ k # "key"
               PROVE  k \in KeysRead(u) <=> \E i \in 1..n : ps[i] = "key" /\ keys[i] = k
    OBVIOUS
  <2>1. k \in KeysRead(u) <=> \E i \in 1..n : k \in KeysRead(ss[i])
    BY <1>9
  <2>2. \A i \in 1..n : k \in KeysRead(ss[i]) <=> ps[i] = "key" /\ keys[i] = k
    BY <1>4, Zenon DEF Adds
  <2> QED BY <2>1, <2>2
<1>12. ps = <<>> => u = <<>>
  <2> SUFFICES ASSUME ps = <<>> PROVE u = <<>>
    OBVIOUS
  <2>1. n = 0
    OBVIOUS
  <2>2. \A x : x \notin ToSet(u)
    BY <1>5, <2>1
  <2>3. \A x : x \in ToSet(u) <=> \E i \in 1..Len(u) : u[i] = x
    BY <1>5, ListIs
  <2>4. Len(u) \in Nat
    BY <1>5, ListIs
  <2>5. Len(u) = 0
    <3> SUFFICES ASSUME Len(u) # 0 PROVE FALSE
      OBVIOUS
    <3>1. 1 \in 1..Len(u)
      BY <2>4
    <3>2. u[1] \in ToSet(u)
      BY <2>3, <3>1
    <3> QED BY <2>2, <3>2
  <2> QED BY <1>5, <2>5, NoLength
<1> QED BY <1>7, <1>10, <1>11, <1>12 DEF c, Applied

\* The transforms a list of names begins with, and what stops them.
LEMMA LeadingAre ==
  ASSUME NEW names, IsList(names)
  PROVE  LET l == LeadingTransforms(names)
         IN /\ IsList(l) /\ Len(l) \in Nat
            /\ \A i \in 1..Len(l) : l[i] \in KnownTransforms
            /\ l # names => Len(l) + 1 \in 1..Len(names) /\ names[Len(l) + 1] \notin KnownTransforms
<1> DEFINE I == {i \in 1..Len(names) : names[i] \notin KnownTransforms}
           stop == SelectInSeq(names, LAMBDA p : p \notin KnownTransforms)
           l == LeadingTransforms(names)
<1>1. stop = IF I # {} THEN Min(I) ELSE 0
  BY DEF SelectInSeq
<1>2. l = IF stop = 0 THEN names ELSE SubSeq(names, 1, stop - 1)
  BY DEF LeadingTransforms
<1>3. Len(names) \in Nat
  BY ListIs
<1> HIDE DEF stop, l
<1>4. CASE I = {}
  <2>1. l = names
    BY <1>1, <1>2, <1>4
  <2>2. \A i \in 1..Len(names) : names[i] \in KnownTransforms
    BY <1>4
  <2> QED BY <1>3, <2>1, <2>2 DEF l
<1>5. CASE I # {}
  <2>0. I \in SUBSET Nat
    OBVIOUS
  <2>1. Min(I) \in I /\ \A i \in I : Min(I) <= i
    BY <1>5, <2>0, Least
  <2> DEFINE m == Min(I)
  <2>2. stop = m /\ m \in I /\ (\A i \in I : m <= i)
    BY <1>1, <1>5, <2>1
  <2> HIDE DEF m
  <2>3. m \in 1..Len(names) /\ names[m] \notin KnownTransforms
    BY <2>2
  <2>4. l = SubSeq(names, 1, m - 1)
    BY <1>2, <2>2, <2>3
  <2>5. m - 1 \in 0..Len(names) /\ 1 <= (m - 1) + 1 /\ 1 \in Nat \ {0}
    BY <1>3, <2>3
  <2>6. IsList(SubSeq(names, 1, m - 1)) /\ Len(SubSeq(names, 1, m - 1)) = (m - 1) - 1 + 1
        /\ \A i \in 1..((m - 1) - 1 + 1) : SubSeq(names, 1, m - 1)[i] = names[1 + i - 1]
    BY <2>5, SubList
  <2>7. Len(l) = m - 1 /\ IsList(l) /\ m - 1 \in Nat
    BY <1>3, <2>3, <2>4, <2>6
  <2>8. ASSUME NEW i \in 1..Len(l) PROVE l[i] \in KnownTransforms
    <3>1. i \in 1..Len(names) /\ ~(m <= i) /\ i \in 1..((m - 1) - 1 + 1) /\ 1 + i - 1 = i
      BY <1>3, <2>3, <2>7
    <3>2. l[i] = names[i]
      BY <2>4, <2>6, <3>1
    <3>3. i \notin I
      BY <2>2, <3>1
    <3> QED BY <3>1, <3>2, <3>3
  <2>9. Len(l) + 1 = m
    BY <2>3, <2>7
  <2> QED BY <2>3, <2>7, <2>8, <2>9 DEF l
<1> QED BY <1>4, <1>5

\* The path of a field.
LEMMA PathIs ==
  ASSUME NEW segs, IsList(segs)
  PROVE  LET path == FieldPath(segs)
         IN /\ IsList(path.transforms) /\ (\A p \in ToSet(path.transforms) : p \in KnownTransforms)
            /\ path.key = "" \/ path.key \notin KnownTransforms
<1> DEFINE l == LeadingTransforms(segs)
           path == FieldPath(segs)
<1>1. path.transforms = l /\ path.key = IF l = segs THEN "" ELSE segs[Len(l) + 1]
  BY DEF FieldPath
<1>2. IsList(l) /\ (\A i \in 1..Len(l) : l[i] \in KnownTransforms) /\ (l # segs => segs[Len(l) + 1] \notin KnownTransforms)
  BY LeadingAre
<1> HIDE DEF l, path
<1>3. \A p \in ToSet(l) : p \in KnownTransforms
  BY <1>2, ListIs
<1> QED BY <1>1, <1>2, <1>3 DEF path

LEMMA FrontIs == ASSUME NEW s, IsList(s), s # <<>> PROVE IsList(Front(s))
<1>1. Len(s) \in Nat /\ Len(s) # 0
  BY ListIs, NoLength
<1>2. Len(s) - 1 \in 0..Len(s) /\ 1 <= (Len(s) - 1) + 1 /\ 1 \in Nat \ {0}
  BY <1>1
<1>3. IsList(SubSeq(s, 1, Len(s) - 1))
  BY <1>2, SubList
<1> QED BY <1>3 DEF Front

\* The column a plain condition tests: the bare one, the transforms of the path around it.
LEMMA FinalColumnIs ==
  ASSUME NEW f, IsCondition(f), NEW backend
  PROVE  LET c == FinalColumn(f, backend)
             ts == FieldPath(f.field.segs).transforms
         IN /\ IsColumn(c) /\ c.int = FALSE
            /\ \A k : k # "" /\ k # "key" => k \notin KeysRead(c.steps)
            /\ \A p \in DateParts : p \in StepNames(c.steps) <=> Direct(f) /\ p \in ToSet(ts)
            /\ ~Direct(f) \/ ts = <<>> => c.steps = <<>>
<1> DEFINE c  == FinalColumn(f, backend)
           ts == FieldPath(f.field.segs).transforms
           q  == QualifiedCol(f.field.name)
<1>1. IsList(ts)
  <2>1. IsList(f.field.segs)
    BY DEF IsCondition
  <2> QED BY <2>1, PathIs
<1>2. Bare(q)
  BY BareColumns
<1>3. Len(f.lookup) \in Nat \ {0} /\ (Direct(f) <=> Len(f.lookup) = 1)
  BY DirectIs DEF Direct
<1> DEFINE n == Len(f.lookup)
<1>6. n \in Nat /\ (Direct(f) => ~(n > 1)) /\ (~Direct(f) => n > 1)
  <2>1. n \in Nat /\ n # 0 /\ (Direct(f) <=> n = 1)
    BY <1>3
  <2> HIDE DEF n
  <2> QED BY <2>1
<1>4. CASE Direct(f)
  <2> DEFINE ks == [i \in DOMAIN ts |-> ""]
  <2>1. c = ApplyAll(ts, ks, q, backend)
    <3>1. ~(Len(f.lookup) > 1)
      BY <1>4, <1>6
    <3> QED BY <3>1 DEF FinalColumn
  <2>2. \A i \in 1..Len(ts) : ks[i] = ""
    BY <1>1, ListIs
  <2> HIDE DEF ks, q, ts
  <2> DEFINE x == ApplyAll(ts, ks, q, backend)
  <2>3. IsColumn(x) /\ x.int = FALSE
        /\ (\A p \in DateParts : p \in StepNames(x.steps) <=> p \in ToSet(ts))
        /\ (\A k : k # "" /\ k # "key" => (k \in KeysRead(x.steps) <=> \E i \in 1..Len(ts) : ts[i] = "key" /\ ks[i] = k))
        /\ (ts = <<>> => x.steps = <<>>)
    <3>1. Applied(x, ts, ks)
      BY <1>1, <1>2, ApplyAllIs
    <3> HIDE DEF x
    <3> QED BY <3>1 DEF Applied
  <2> HIDE DEF x
  <2>4. c = x
    BY <2>1 DEF x
  <2> HIDE DEF c
  <2> QED BY <1>4, <2>2, <2>3, <2>4 DEF c, ts
<1>5. CASE ~Direct(f)
  <2>1. c = q
    <3>1. Len(f.lookup) > 1
      BY <1>5, <1>6
    <3> QED BY <3>1 DEF FinalColumn
  <2> HIDE DEF c, q
  <2>2. IsColumn(c) /\ c.int = FALSE /\ c.steps = <<>>
    BY <1>2, <2>1 DEF Bare
  <2> QED BY <1>5, <2>2, NoSteps DEF c
<1> QED BY <1>4, <1>5

\* A column wrapped, or not, in one more part.
Wrapped(d, c, wraps, name) ==
  /\ IsColumn(d)
  /\ \A p \in DateParts : p \in StepNames(d.steps) <=> p \in StepNames(c.steps) \/ (wraps /\ name = p)
  /\ \A k : k # "" /\ k # "key" => (k \in KeysRead(d.steps) <=> k \in KeysRead(c.steps))

LEMMA SameColumn ==
  ASSUME NEW c, IsColumn(c), NEW wraps, NEW name, wraps => name \notin DateParts
  PROVE  Wrapped(c, c, wraps, name)
BY DEF Wrapped

\* What changes a column leaves one.
LEMMA Rewritten ==
  ASSUME NEW n, NEW q, NEW s, NEW i, NEW u, NEW c, NEW d, NEW e,
         c = [name |-> n, split |-> q, steps |-> s, int |-> i],
         d = [c EXCEPT !.steps = u], e = [c EXCEPT !.int = TRUE]
  PROVE  /\ d = [name |-> n, split |-> q, steps |-> u, int |-> i]
         /\ e = [name |-> n, split |-> q, steps |-> s, int |-> TRUE]
<1>1. d = [name |-> n, split |-> q, steps |-> u, int |-> i]
  OBVIOUS
<1>2. e = [name |-> n, split |-> q, steps |-> s, int |-> TRUE]
  OBVIOUS
<1> QED BY <1>1, <1>2

LEMMA ColumnFields ==
  ASSUME NEW n, NEW q, NEW s, NEW i, NEW c, c = [name |-> n, split |-> q, steps |-> s, int |-> i]
  PROVE  /\ c = [name |-> c.name, split |-> c.split, steps |-> c.steps, int |-> c.int]
         /\ c.name = n /\ c.split = q /\ c.steps = s /\ c.int = i
OBVIOUS

LEMMA ColumnChanges ==
  ASSUME NEW c, IsColumn(c), NEW u, IsList(u)
  PROVE  /\ IsColumn([c EXCEPT !.steps = u]) /\ [c EXCEPT !.steps = u].steps = u /\ [c EXCEPT !.steps = u].int = c.int
         /\ IsColumn(ReplaceCast(c)) /\ ReplaceCast(c).steps = c.steps /\ ReplaceCast(c).int = TRUE
<1> DEFINE n == c.name
           q == c.split
           s == c.steps
           i == c.int
           d == [c EXCEPT !.steps = u]
           e == [c EXCEPT !.int = TRUE]
<1>1. c = [name |-> n, split |-> q, steps |-> s, int |-> i] /\ IsList(s)
  BY DEF IsColumn
<1>2. ReplaceCast(c) = e
  BY DEF ReplaceCast
<1> HIDE DEF n, q, s, i
<1>3. d = [c EXCEPT !.steps = u] /\ e = [c EXCEPT !.int = TRUE]
  OBVIOUS
<1> HIDE DEF d, e
<1>5. d = [name |-> n, split |-> q, steps |-> u, int |-> i] /\ e = [name |-> n, split |-> q, steps |-> s, int |-> TRUE]
  BY <1>1, <1>3, Rewritten
<1>6. IsColumn(d) /\ d.steps = u /\ d.int = i
  BY <1>5, ColumnFields DEF IsColumn
<1>7. IsColumn(e) /\ e.steps = s /\ e.int = TRUE
  BY <1>1, <1>5, ColumnFields DEF IsColumn
<1> QED BY <1>2, <1>6, <1>7 DEF d, s, i

LEMMA MoreSteps ==
  ASSUME NEW c, IsColumn(c), NEW name, NEW s, NEW key, key \in {"", "key"}, Adds(s, name, key)
  PROVE  /\ Wrapped([c EXCEPT !.steps = c.steps \o s], c, TRUE, name)
         /\ [c EXCEPT !.steps = c.steps \o s].steps = c.steps \o s
         /\ [c EXCEPT !.steps = c.steps \o s].int = c.int
<1> DEFINE u == c.steps \o s
           d == [c EXCEPT !.steps = u]
<1>1. IsList(c.steps) /\ IsList(s)
  BY DEF IsColumn, Adds
<1>2. IsList(u) /\ StepNames(u) = StepNames(c.steps) \cup StepNames(s) /\ KeysRead(u) = KeysRead(c.steps) \cup KeysRead(s)
  BY <1>1, StepsJoin
<1> HIDE DEF u
<1>3. IsColumn(d) /\ d.steps = u /\ d.int = c.int
  BY <1>2, ColumnChanges
<1> HIDE DEF d
<1>4. \A p \in DateParts : p \in StepNames(d.steps) <=> p \in StepNames(c.steps) \/ (TRUE /\ name = p)
  BY <1>2, <1>3 DEF Adds
<1>5. \A k : k # "" /\ k # "key" => (k \in KeysRead(d.steps) <=> k \in KeysRead(c.steps))
  BY <1>2, <1>3 DEF Adds
<1> QED BY <1>3, <1>4, <1>5 DEF Wrapped, d, u

\* A date part in the place of a lookup.
LEMMA ImplicitPartIs ==
  ASSUME NEW part \in DateParts, NEW c, IsColumn(c), NEW backend
  PROVE  LET a == ImplicitPart(part, c, backend)
         IN /\ Wrapped(a.col, c, TRUE, part) /\ a.op = "="
            /\ a.col.steps = c.steps \o <<DateStep(part)>>
            /\ backend = "SQLite" /\ part \in DOMAIN Strftime => a.col.int = TRUE
<1> DEFINE s == <<DateStep(part)>>
           w == [c EXCEPT !.steps = Append(c.steps, DateStep(part))]
           x == [c EXCEPT !.steps = c.steps \o s]
           number == backend = "SQLite" /\ part \in DOMAIN Strftime
           e == IF number THEN ReplaceCast(w) ELSE w
           a == ImplicitPart(part, c, backend)
<1>1. a.col = e /\ a.op = "="
  BY DEF ImplicitPart, Fragment
<1>2. Append(c.steps, DateStep(part)) = c.steps \o s
  <2>1. IsList(c.steps)
    BY DEF IsColumn
  <2> DEFINE y == c.steps
             z == DateStep(part)
  <2> HIDE DEF z
  <2>2. y \in Seq(ToSet(y))
    BY <2>1 DEF IsList
  <2> HIDE DEF y
  <2>3. Append(y, z) = y \o <<z>>
    BY <2>2
  <2> QED BY <2>3 DEF y, z
<1>3. w = x
  BY <1>2
<1>4. Adds(s, part, "")
  <2>1. StepsOf(part, backend, "") = s
    BY DEF StepsOf, DateParts
  <2> QED BY <2>1, StepsOfAre
<1> HIDE DEF s
<1>5. Wrapped(x, c, TRUE, part) /\ x.steps = c.steps \o s
  <2>1. "" \in {"", "key"}
    OBVIOUS
  <2> QED BY <1>4, <2>1, MoreSteps
<1> HIDE DEF x, w
<1>6. CASE number
  <2>1. e = ReplaceCast(x)
    BY <1>3, <1>6
  <2>2. IsColumn(x)
    BY <1>5 DEF Wrapped
  <2> DEFINE y == ReplaceCast(x)
  <2>3. IsColumn(y) /\ y.steps = x.steps /\ y.int = TRUE
    BY <2>2, NoElements, ColumnChanges
  <2> HIDE DEF y
  <2>4. Wrapped(y, c, TRUE, part)
    BY <1>5, <2>3 DEF Wrapped
  <2>5. a.col = y
    BY <1>1, <2>1 DEF y
  <2> HIDE DEF a
  <2> QED BY <1>1, <1>5, <2>3, <2>4, <2>5 DEF a, s
<1>7. CASE ~number
  <2>1. a.col = x
    BY <1>1, <1>3, <1>7
  <2> HIDE DEF a
  <2> QED BY <1>1, <1>5, <1>7, <2>1 DEF a, s
<1> QED BY <1>6, <1>7

LEMMA JsonLookupIs ==
  ASSUME NEW name, name \notin DateParts, NEW c, IsColumn(c), NEW backend
  PROVE  LET a == JsonLookup(name, c, backend)
         IN /\ Wrapped(a.col, c, TRUE, name)
            /\ name \in JsonParts => a.op = "bare"
            /\ name \notin JsonParts => a.col = c /\ a.op \in {"bare", name}
<1> DEFINE a == JsonLookup(name, c, backend)
           key == IF name = "json" THEN "" ELSE "key"
<1>1. CASE name \in JsonParts
  <2> DEFINE d == ApplyTransform(name, c, backend, key)
  <2>1. a = Fragment(d, "bare", 0)
    BY <1>1 DEF JsonLookup, JsonParts
  <2>2. d = [c EXCEPT !.steps = c.steps \o StepsOf(name, backend, key)]
    BY DEF ApplyTransform
  <2> DEFINE s == StepsOf(name, backend, key)
  <2>3. Adds(s, name, key) /\ key \in {"", "key"}
    BY StepsOfAre
  <2> HIDE DEF d, key, s
  <2>4. Wrapped([c EXCEPT !.steps = c.steps \o s], c, TRUE, name)
    BY <2>3, MoreSteps
  <2>5. a.col = d /\ a.op = "bare"
    BY <2>1, FragmentFields
  <2> HIDE DEF a
  <2> QED BY <1>1, <2>2, <2>4, <2>5 DEF a, s
<1>2. CASE name \notin JsonParts
  <2>1. \E o, h : a = Fragment(c, o, h) /\ o \in {"bare", name}
    <3>1. CASE name = "has_key"
      BY <1>2, <3>1 DEF JsonLookup, JsonParts
    <3>2. CASE name \in {"has_any", "has_all"}
      BY <1>2, <3>2 DEF JsonLookup, JsonParts
    <3>3. CASE name \notin {"has_key", "has_any", "has_all"}
      <4>1. a = IF backend = "SQLite" THEN Fragment(c, "bare", 0) ELSE Fragment(c, name, 1)
        BY <1>2, <3>3 DEF JsonLookup
      <4> HIDE DEF a
      <4>2. CASE backend = "SQLite"
        BY <4>1, <4>2
      <4>3. CASE backend # "SQLite"
        BY <4>1, <4>3
      <4> QED BY <4>2, <4>3
    <3> QED BY <3>1, <3>2, <3>3
  <2>2. a.col = c /\ a.op \in {"bare", name}
    BY <2>1, FragmentFields
  <2>3. Wrapped(c, c, TRUE, name)
    BY SameColumn
  <2> HIDE DEF a
  <2> QED BY <1>2, <2>2, <2>3 DEF a
<1> QED BY <1>1, <1>2

LEMMA BuiltinIs ==
  ASSUME NEW name \in BuiltinNames, NEW c, IsColumn(c), NEW backend
  PROVE  LET a == Builtin(name, c, backend)
         IN /\ Wrapped(a.col, c, TRUE, name)
            /\ name \in DOMAIN CommonOp => a.col = c /\ a.op = CommonOp[name] /\ name \notin DateParts
            /\ name \in DateParts => a = ImplicitPart(name, c, backend)
            /\ name \notin DOMAIN CommonOp /\ name \notin DateParts => a = JsonLookup(name, c, backend)
<1> DEFINE a == Builtin(name, c, backend)
<1>1. CASE name \in DOMAIN CommonOp
  <2>1. name \notin DateParts
    BY <1>1, CommonNames DEF DateParts
  <2>2. a = CommonLookup(name, c)
    BY <1>1, <2>1 DEF Builtin
  <2>3. a.col = c /\ a.op = CommonOp[name]
    BY <2>2, FragmentFields DEF CommonLookup
  <2>4. Wrapped(c, c, TRUE, name)
    BY <2>1, SameColumn
  <2> HIDE DEF a
  <2> QED BY <1>1, <2>1, <2>3, <2>4 DEF a
<1>2. CASE name \in DateParts
  <2>1. name \notin DOMAIN CommonOp
    BY <1>2, CommonNames DEF DateParts
  <2>2. a = ImplicitPart(name, c, backend)
    BY <1>2, <2>1 DEF Builtin
  <2> HIDE DEF a
  <2>3. Wrapped(a.col, c, TRUE, name)
    BY <1>2, <2>2, ImplicitPartIs
  <2> QED BY <1>2, <2>1, <2>2, <2>3 DEF a
<1>3. CASE name \notin DateParts /\ name \notin DOMAIN CommonOp
  <2>1. a = JsonLookup(name, c, backend)
    BY <1>3 DEF Builtin
  <2> HIDE DEF a
  <2>2. Wrapped(a.col, c, TRUE, name)
    BY <1>3, <2>1, JsonLookupIs
  <2> QED BY <1>3, <2>1, <2>2 DEF a
<1> QED BY <1>1, <1>2, <1>3

LEMMA ResolveSimpleIs ==
  ASSUME NEW name, NEW c, IsColumn(c), NEW backend, ResolveSimple(name, c, backend, custom).err = "none"
  PROVE  LET a == ResolveSimple(name, c, backend, custom)
         IN /\ Wrapped(a.col, c, name \notin DOMAIN custom, name)
            /\ name \notin DOMAIN custom => name \in BuiltinNames /\ a = Builtin(name, c, backend)
<1> DEFINE a == ResolveSimple(name, c, backend, custom)
<1>1. CASE name \in DOMAIN custom
  <2>1. a = Fragment(c, custom[name].op, custom[name].holes)
    BY <1>1 DEF ResolveSimple
  <2>2. a.col = c
    BY <2>1, FragmentFields
  <2>3. Wrapped(c, c, FALSE, name)
    BY SameColumn
  <2> HIDE DEF a
  <2>4. Wrapped(c, c, name \notin DOMAIN custom, name)
    BY <1>1, <2>3 DEF Wrapped
  <2> QED BY <1>1, <2>2, <2>4 DEF a
<1>2. CASE name \notin DOMAIN custom
  <2>1. name \in BuiltinNames
    <3>1. SUFFICES ASSUME name \notin BuiltinNames PROVE FALSE
      OBVIOUS
    <3>2. a = Failure("UnknownLookup")
      BY <1>2, <3>1 DEF ResolveSimple
    <3>3. Failure("UnknownLookup").err = "UnknownLookup"
      BY DEF Failure
    <3> DEFINE z == Failure("UnknownLookup")
    <3>4. a = z /\ a.err = "none" /\ z.err = "UnknownLookup"
      BY <3>2, <3>3
    <3> HIDE DEF a, z
    <3> QED BY <3>4
  <2>2. a = Builtin(name, c, backend)
    BY <1>2, <2>1 DEF ResolveSimple
  <2> HIDE DEF a
  <2>3. Wrapped(a.col, c, TRUE, name)
    BY <2>1, <2>2, BuiltinIs
  <2>4. Wrapped(a.col, c, name \notin DOMAIN custom, name)
    BY <1>2, <2>3 DEF Wrapped
  <2> QED BY <1>2, <2>1, <2>2, <2>4 DEF a
<1> QED BY <1>1, <1>2

\* The column the registry's lookup is put on.
LookedUp(f, backend) ==
  IF Direct(f) THEN SingleColumn(Final(f), f.field.name, FinalColumn(f, backend), backend, KeyOfPath(f))
  ELSE Recast(Final(f), ChainColumn(f.lookup, f.field.name, backend, KeyOfPath(f)), backend)

LEMMA ResolvedFrom ==
  ASSUME NEW f, IsCondition(f), NEW backend
  PROVE  FragmentOf(f, backend)
           = IF Plain(f) /\ Final(f) \in KnownTransforms THEN Builtin(Final(f), FinalColumn(f, backend), backend)
             ELSE ResolveSimple(Final(f), LookedUp(f, backend), backend, custom)
<1> DEFINE col == FinalColumn(f, backend)
           key == KeyOfPath(f)
           c   == LookedUp(f, backend)
<1>1. Final(f) = Last(f.lookup) /\ (Direct(f) <=> Len(f.lookup) = 1)
  BY DEF Final, Last, Direct
<1>2. Direct(f) => Final(f) = f.lookup[1]
  BY DirectIs
<1>3. Resolve(f.lookup, f.field.name, col, backend, key, custom) = ResolveSimple(Final(f), c, backend, custom)
  <2> DEFINE lk == f.lookup
             nm == f.field.name
             cs == SingleColumn(lk[1], nm, col, backend, key)
             cc == Recast(Last(lk), ChainColumn(lk, nm, backend, key), backend)
  <2>1. Resolve(lk, nm, col, backend, key, custom) = ResolveSimple(Last(lk), IF Len(lk) = 1 THEN cs ELSE cc, backend, custom)
    BY DEF Resolve
  <2>2. c = IF Direct(f) THEN SingleColumn(Final(f), nm, col, backend, key) ELSE Recast(Final(f), ChainColumn(lk, nm, backend, key), backend)
    BY DEF LookedUp
  <2>3. (IF Len(lk) = 1 THEN cs ELSE cc) = c
    <3>1. CASE Direct(f)
      <4>1. Len(lk) = 1 /\ lk[1] = Final(f)
        BY <1>1, <1>2, <3>1
      <4> HIDE DEF lk, nm, col, key
      <4>2. cs = SingleColumn(Final(f), nm, col, backend, key)
        BY <4>1
      <4> HIDE DEF cs, cc, c
      <4> QED BY <2>2, <3>1, <4>1, <4>2
    <3>2. CASE ~Direct(f)
      <4>1. ~(Len(lk) = 1) /\ Last(lk) = Final(f)
        BY <1>1, <3>2
      <4> HIDE DEF lk, nm, col, key
      <4>2. cc = Recast(Final(f), ChainColumn(lk, nm, backend, key), backend)
        BY <4>1
      <4> HIDE DEF cs, cc, c
      <4> QED BY <2>2, <3>2, <4>1, <4>2
    <3> QED BY <3>1, <3>2
  <2>4. Last(lk) = Final(f)
    BY <1>1
  <2> HIDE DEF cs, cc, c
  <2> QED BY <2>1, <2>3, <2>4
<1> HIDE DEF col, key, c
<1>4. FragmentOf(f, backend) = IF Plain(f) /\ Final(f) \in KnownTransforms THEN Builtin(Final(f), col, backend)
                               ELSE Resolve(f.lookup, f.field.name, col, backend, key, custom)
  BY DEF FragmentOf, col, key
<1> QED BY <1>3, <1>4 DEF col, c

\* One key read from the bare column.
LEMMA KeyedColumnIs ==
  ASSUME NEW name, NEW backend, NEW key, key # "", key # "key"
  PROVE  LET c == ApplyTransform("key", QuotedWhole(name), backend, key)
         IN /\ IsColumn(c) /\ c.int = FALSE
            /\ \A p \in DateParts : p \notin StepNames(c.steps)
            /\ key \in KeysRead(c.steps)
            /\ c.steps = <<JsonStep("key", key, backend)>>
<1> DEFINE q == QuotedWhole(name)
           d == JsonStep("key", key, backend)
           u == q.steps \o <<d>>
           c == ApplyTransform("key", q, backend, key)
<1>1. IsColumn(q) /\ q.steps = <<>> /\ q.int = FALSE
  BY BareColumns DEF Bare
<1>2. StepsOf("key", backend, key) = <<d>>
  BY DEF StepsOf, DateParts
<1>3. Adds(<<d>>, "key", key)
  BY <1>2, StepsOfAre
<1>4. c = [q EXCEPT !.steps = u]
  BY <1>2 DEF ApplyTransform
<1> HIDE DEF c, q
<1>5. IsList(<<d>>) /\ "key" \notin DateParts
  BY <1>3 DEF Adds, DateParts
<1> HIDE DEF d
<1>6. u = <<d>>
  BY <1>1, <1>5, NothingJoined
<1> HIDE DEF u
<1>7. IsColumn(c) /\ c.int = FALSE /\ c.steps = u
  <2>1. IsList(u)
    BY <1>5, <1>6
  <2> DEFINE e == [q EXCEPT !.steps = u]
  <2>2. IsColumn(e) /\ e.steps = u /\ e.int = q.int
    <3>1. IsColumn(q)
      BY <1>1
    <3> QED BY <2>1, <3>1, ColumnChanges
  <2>3. c = e
    BY <1>4
  <2> HIDE DEF e
  <2> QED BY <1>1, <2>2, <2>3
<1>8. (\A p \in DateParts : p \notin StepNames(u)) /\ key \in KeysRead(u)
  BY <1>3, <1>5, <1>6 DEF Adds
<1> QED BY <1>6, <1>7, <1>8 DEF c, d, q

\* A column with its cast rewritten, or as it was.
Retyped(d, c, when) ==
  IsColumn(d) /\ d.steps = c.steps /\ (when => d.int = TRUE) /\ (~when => d.int = c.int)

LEMMA RetypedOrNot ==
  ASSUME NEW c, IsColumn(c), NEW when, NEW d, d = IF when THEN ReplaceCast(c) ELSE c
  PROVE  Retyped(d, c, when)
<1> DEFINE e == ReplaceCast(c)
<1>1. IsColumn(e) /\ e.steps = c.steps /\ e.int = TRUE
  BY NoElements, ColumnChanges
<1>2. d = IF when THEN e ELSE c
  OBVIOUS
<1> HIDE DEF e
<1> QED BY <1>1, <1>2 DEF Retyped

\* The column of a plain lookup.
CastInPath(lk, col, backend) == HasFormat(col, backend, {"%Y", "%m", "%d", "%H"}) /\ ComparesAsText(lk, col, backend)

LEMMA SingleColumnIs ==
  ASSUME NEW lk, NEW name, NEW col, IsColumn(col), NEW backend
  PROVE  Retyped(SingleColumn(lk, name, col, backend, ""), col, CastInPath(lk, col, backend))
<1> DEFINE c == SingleColumn(lk, name, col, backend, "")
<1>1. c = IF CastInPath(lk, col, backend) THEN ReplaceCast(col) ELSE col
  BY DEF SingleColumn, CastInPath
<1> HIDE DEF c
<1>2. Retyped(c, col, CastInPath(lk, col, backend))
  BY <1>1, RetypedOrNot
<1> QED BY <1>2 DEF c

\* The column of a chain: the transforms it begins with around the bare column.
LEMMA ChainColumnIs ==
  ASSUME NEW lk, IsList(lk), lk # <<>>, NEW name, NEW backend, NEW key
  PROVE  LET ps == LeadingTransforms(Front(lk))
             c  == ChainColumn(lk, name, backend, key)
         IN /\ IsColumn(c) /\ c.int = FALSE
            /\ \A p \in DateParts : p \in StepNames(c.steps) <=> p \in ToSet(ps)
            /\ key # "" /\ key # "key" => (key \in KeysRead(c.steps) <=> "key" \in ToSet(ps))
<1> DEFINE ps == LeadingTransforms(Front(lk))
           keys == [i \in DOMAIN ps |-> IF ps[i] \notin {"key", "key_text"} THEN ""
                                        ELSE IF key # "" THEN key ELSE name[Len(name)]]
           q == QuotedWhole(name)
           c == ChainColumn(lk, name, backend, key)
<1>1. c = ApplyAll(ps, keys, q, backend)
  BY DEF ChainColumn
<1>2. IsList(ps)
  <2>1. IsList(Front(lk))
    BY FrontIs
  <2> QED BY <2>1, LeadingAre
<1>3. Bare(q)
  BY BareColumns
<1>4. \A i \in 1..Len(ps) : ps[i] = "key" /\ key # "" => keys[i] = key
  BY <1>2, ListIs
<1>5. \A x : x \in ToSet(ps) <=> \E i \in 1..Len(ps) : ps[i] = x
  BY <1>2, ListIs
<1> HIDE DEF c, q, keys, ps
<1>6. Applied(c, ps, keys)
  BY <1>1, <1>2, <1>3, ApplyAllIs
<1>7. IsColumn(c) /\ c.int = FALSE /\ (\A p \in DateParts : p \in StepNames(c.steps) <=> p \in ToSet(ps))
  BY <1>6 DEF Applied
<1>8. ASSUME key # "", key # "key" PROVE key \in KeysRead(c.steps) <=> "key" \in ToSet(ps)
  <2>1. key \in KeysRead(c.steps) <=> \E i \in 1..Len(ps) : ps[i] = "key" /\ keys[i] = key
    BY <1>6, <1>8 DEF Applied
  <2> QED BY <1>4, <1>5, <1>8, <2>1
<1> QED BY <1>7, <1>8 DEF c, ps

CastInChain(lk, c, backend) == lk \in Comparisons /\ HasStrftime(c, backend) /\ ~AsIntegerCast(c, backend)

LEMMA RecastIs ==
  ASSUME NEW lk, NEW c, IsColumn(c), NEW backend
  PROVE  Retyped(Recast(lk, c, backend), c, CastInChain(lk, c, backend))
<1> DEFINE d == Recast(lk, c, backend)
<1>1. d = IF CastInChain(lk, c, backend) THEN ReplaceCast(c) ELSE c
  BY DEF Recast, CastInChain
<1> HIDE DEF d
<1>2. Retyped(d, c, CastInChain(lk, c, backend))
  BY <1>1, RetypedOrNot
<1> QED BY <1>2 DEF d

\* A test goes through the parts that Reaching names, and through the key as PathHonoured says.
Reached(f, a) ==
  LET path == FieldPath(f.field.segs)
  IN /\ IsColumn(a.col)
     /\ \A p \in DateParts : p \in StepNames(a.col.steps) <=> p \in Reaching(f)
     /\ path.key # "" =>
          (path.key \in KeysRead(a.col.steps)
             <=> IF Direct(f) THEN Final(f) \notin ExpandsLists
                 ELSE "key" \in ToSet(LeadingTransforms(Front(f.lookup))))

\* A key of a path is no transform.
LEMMA KeyIs ==
  ASSUME NEW f, IsCondition(f)
  PROVE  KeyOfPath(f) = FieldPath(f.field.segs).key /\ KeyOfPath(f) # "key"
<1>1. IsList(f.field.segs)
  BY DEF IsCondition
<1> DEFINE path == FieldPath(f.field.segs)
<1>2. path.key = "" \/ path.key \notin KnownTransforms
  BY <1>1, PathIs
<1>3. KeyOfPath(f) = path.key
  BY DEF KeyOfPath
<1> HIDE DEF path
<1>4. "key" \in KnownTransforms
  BY DEF KnownTransforms, JsonParts
<1>5. KeyOfPath(f) # "key"
  <2> DEFINE empty == ""
  <2>1. path.key = empty \/ path.key \notin KnownTransforms
    BY <1>2
  <2>2. empty # "key"
    OBVIOUS
  <2> HIDE DEF empty
  <2> QED BY <1>3, <1>4, <2>1, <2>2
<1> QED BY <1>3, <1>5 DEF path

\* The parts on the way to the column of the lookup, before the lookup's own name.
OnTheWay(f) ==
  IF Direct(f) /\ (KeyOfPath(f) = "" \/ Final(f) \in ExpandsLists) THEN ToSet(FieldPath(f.field.segs).transforms)
  ELSE IF Direct(f) THEN {} ELSE ToSet(LeadingTransforms(Front(f.lookup)))

LEMMA LookedUpReaches ==
  ASSUME NEW f, IsCondition(f), NEW backend, Direct(f) => Final(f) \notin ExpandsLists
  PROVE  LET c == LookedUp(f, backend)
         IN /\ IsColumn(c)
            /\ \A p \in DateParts : p \in StepNames(c.steps) <=> p \in OnTheWay(f)
            /\ KeyOfPath(f) # "" =>
                 (KeyOfPath(f) \in KeysRead(c.steps) <=> Direct(f) \/ "key" \in ToSet(LeadingTransforms(Front(f.lookup))))
<1> DEFINE c == LookedUp(f, backend)
           col == FinalColumn(f, backend)
           key == KeyOfPath(f)
           nm == f.field.name
           fin == Final(f)
           lk == f.lookup
           ts == FieldPath(f.field.segs).transforms
<1>1. key # "key"
  BY KeyIs
<1>2. CASE Direct(f) /\ key = ""
  <2>1. c = SingleColumn(fin, nm, col, backend, "")
    BY <1>2 DEF LookedUp
  <2>2. IsColumn(col) /\ \A p \in DateParts : p \in StepNames(col.steps) <=> Direct(f) /\ p \in ToSet(ts)
    BY FinalColumnIs
  <2>3. OnTheWay(f) = ToSet(ts)
    BY <1>2 DEF OnTheWay
  <2> HIDE DEF col, fin, nm, ts
  <2> DEFINE d == SingleColumn(fin, nm, col, backend, "")
  <2>4. IsColumn(d) /\ d.steps = col.steps
    <3>1. IsColumn(col)
      BY <2>2
    <3>2. Retyped(d, col, CastInPath(fin, col, backend))
      BY <3>1, SingleColumnIs
    <3> HIDE DEF d
    <3> QED BY <3>2 DEF Retyped
  <2> HIDE DEF d
  <2>5. c = d
    BY <2>1 DEF d
  <2> HIDE DEF c, key
  <2> QED BY <1>2, <2>2, <2>3, <2>4, <2>5 DEF c, key
<1>3. CASE Direct(f) /\ key # ""
  <2>1. c = SingleColumn(fin, nm, col, backend, key)
    BY <1>3 DEF LookedUp
  <2>2. OnTheWay(f) = {}
    BY <1>3 DEF OnTheWay
  <2> HIDE DEF col, key, fin, nm
  <2> DEFINE d == ApplyTransform("key", QuotedWhole(nm), backend, key)
  <2>3. SingleColumn(fin, nm, col, backend, key) = d
    BY <1>3 DEF SingleColumn
  <2>4. IsColumn(d) /\ (\A p \in DateParts : p \notin StepNames(d.steps)) /\ key \in KeysRead(d.steps)
    BY <1>1, <1>3, KeyedColumnIs
  <2> HIDE DEF d, c
  <2>5. c = d
    BY <2>1, <2>3
  <2> QED BY <1>3, <2>2, <2>4, <2>5 DEF c, key
<1>4. CASE ~Direct(f)
  <2> DEFINE ps == LeadingTransforms(Front(lk))
             e  == ChainColumn(lk, nm, backend, key)
  <2>1. c = Recast(fin, e, backend)
    BY <1>4 DEF LookedUp
  <2>2. OnTheWay(f) = ToSet(ps)
    BY <1>4 DEF OnTheWay
  <2>3. IsList(lk) /\ lk # <<>>
    BY DEF IsCondition
  <2> HIDE DEF c, fin, nm, key, lk
  <2>4. IsColumn(e) /\ (\A p \in DateParts : p \in StepNames(e.steps) <=> p \in ToSet(ps))
        /\ (key # "" /\ key # "key" => (key \in KeysRead(e.steps) <=> "key" \in ToSet(ps)))
    BY <2>3, ChainColumnIs
  <2> HIDE DEF e, ps
  <2> DEFINE d == Recast(fin, e, backend)
  <2>5. IsColumn(d) /\ d.steps = e.steps
    <3>1. IsColumn(e)
      BY <2>4
    <3>2. Retyped(d, e, CastInChain(fin, e, backend))
      BY <3>1, RecastIs, Zenon
    <3> HIDE DEF d
    <3> QED BY <3>2, Zenon DEF Retyped
  <2> HIDE DEF d
  <2>6. c = d
    BY <2>1 DEF d
  <2> QED BY <1>1, <1>4, <2>2, <2>4, <2>5, <2>6 DEF c, key, ps, lk
<1> QED BY <1>2, <1>3, <1>4

LEMMA TestReaches ==
  ASSUME NEW f, IsCondition(f), NEW backend, TestOf(f, backend).err = "none", ~Empty(f)
  PROVE  Reached(f, TestOf(f, backend))
<1> DEFINE a == TestOf(f, backend)
           col == FinalColumn(f, backend)
           key == KeyOfPath(f)
           fin == Final(f)
           ts == FieldPath(f.field.segs).transforms
           ks == LeadingTransforms(Front(f.lookup))
<1>0. Reached(f, a) <=>
        /\ IsColumn(a.col)
        /\ \A p \in DateParts : p \in StepNames(a.col.steps) <=> p \in Reaching(f)
        /\ key # "" => (key \in KeysRead(a.col.steps) <=> IF Direct(f) THEN fin \notin ExpandsLists ELSE "key" \in ToSet(ks))
  BY KeyIs DEF Reached
<1>1. Reaching(f) = OnTheWay(f) \cup IF Customized(f) THEN {} ELSE {fin}
  BY DEF Reaching, OnTheWay, KeyOfPath
<1>2. key # "key"
  BY KeyIs
<1>3. IsColumn(col) /\ (\A p \in DateParts : p \in StepNames(col.steps) <=> Direct(f) /\ p \in ToSet(ts))
      /\ (\A k : k # "" /\ k # "key" => k \notin KeysRead(col.steps))
  BY FinalColumnIs
<1>4. CASE Direct(f) /\ fin \in Own
  <2>1. a.col = col
    <3>1. \E o, h : a = Fragment(col, o, h)
      <4>1. fin \in {"isnull", "in", "range"} \/ TestsKeys(f)
        BY <1>4 DEF Own, TestsKeys
      <4>2. fin = "isnull" => fin # "in" /\ fin # "range" /\ ~TestsKeys(f)
        BY DEF TestsKeys
      <4>3. CASE fin = "isnull"
        <5>1. a = Fragment(col, IF f.value.type \in {"Bool", "Int"} => f.value.truth THEN "IS NULL" ELSE "IS NOT NULL", 0)
          BY <1>4, <4>3 DEF TestOf, TestsKeys
        <5> HIDE DEF a, col
        <5> QED BY <5>1
      <4>4. CASE fin = "in"
        <5>1. a = Fragment(col, "IN", Len(Items(f.value)))
          BY <1>4, <4>4 DEF TestOf, TestsKeys
        <5> HIDE DEF a, col
        <5> QED BY <5>1
      <4>5. CASE fin = "range"
        <5>1. a = Fragment(col, "BETWEEN", 2)
          BY <1>4, <4>5 DEF TestOf, TestsKeys
        <5> HIDE DEF a, col
        <5> QED BY <5>1
      <4>6. CASE TestsKeys(f)
        <5>1. fin # "isnull" /\ fin # "in" /\ fin # "range"
          BY <4>6 DEF TestsKeys
        <5>2. a = IF backend = "PostgreSQL" THEN Fragment(col, fin, 2)
                  ELSE IF backend = "MySQL" THEN Fragment(col, fin, Len(Items(f.value)))
                  ELSE Fragment(col, "json_extract IS NOT NULL", 1)
          BY <1>4, <4>6, <5>1 DEF TestOf
        <5> HIDE DEF a, col
        <5> QED BY <5>2
      <4> QED BY <4>1, <4>3, <4>4, <4>5, <4>6
    <3> QED BY <3>1, FragmentFields
  <2>2. fin \in ExpandsLists /\ fin \notin DateParts
    BY <1>4 DEF Own, ExpandsLists, DateParts
  <2>3. OnTheWay(f) = ToSet(ts)
    BY <1>4, <2>2 DEF OnTheWay
  <2> HIDE DEF a, col, key, fin, ts, ks
  <2>4. \A p \in DateParts : p # fin
    BY <2>2
  <2> QED BY <1>0, <1>1, <1>2, <1>3, <1>4, <2>1, <2>2, <2>3, <2>4 DEF a
<1>5. CASE ~(Direct(f) /\ fin \in Own) /\ Plain(f) /\ fin \in KnownTransforms
  <2>1. a = Builtin(fin, col, backend)
    <3>1. a = FragmentOf(f, backend)
      BY <1>5 DEF TestOf
    <3> QED BY <1>5, <3>1, ResolvedFrom
  <2>2. fin \in BuiltinNames
    BY <1>5 DEF BuiltinNames
  <2>3. ~Customized(f) /\ key = "" /\ Direct(f)
    BY <1>5 DEF Customized, Plain
  <2>4. OnTheWay(f) = ToSet(ts)
    BY <2>3 DEF OnTheWay
  <2> HIDE DEF a, col, key, fin, ts, ks
  <2> DEFINE b == Builtin(fin, col, backend)
  <2>5. Wrapped(b.col, col, TRUE, fin)
    BY <1>3, <2>2, BuiltinIs
  <2> HIDE DEF b
  <2>6. Wrapped(a.col, col, TRUE, fin)
    BY <2>1, <2>5 DEF b
  <2> QED BY <1>0, <1>1, <1>3, <2>3, <2>4, <2>6 DEF Wrapped, a
<1>6. CASE ~(Direct(f) /\ fin \in Own) /\ ~(Plain(f) /\ fin \in KnownTransforms)
  <2> DEFINE c == LookedUp(f, backend)
  <2>1. a = ResolveSimple(fin, c, backend, custom)
    <3>1. a = FragmentOf(f, backend)
      BY <1>6 DEF TestOf
    <3> QED BY <1>6, <3>1, ResolvedFrom
  <2>2. Customized(f) <=> fin \in DOMAIN custom
    BY <1>6 DEF Customized
  <2>3. Direct(f) => fin \notin ExpandsLists
    BY <1>6 DEF Own, ExpandsLists
  <2>4. IsColumn(c) /\ (\A p \in DateParts : p \in StepNames(c.steps) <=> p \in OnTheWay(f))
        /\ (key # "" => (key \in KeysRead(c.steps) <=> Direct(f) \/ "key" \in ToSet(ks)))
    BY <2>3, LookedUpReaches
  <2>5. a.err = "none"
    OBVIOUS
  <2> HIDE DEF a, col, key, fin, ts, ks, c
  <2> DEFINE b == ResolveSimple(fin, c, backend, custom)
  <2>6. b.err = "none"
    BY <2>1, <2>5
  <2>7. Wrapped(b.col, c, fin \notin DOMAIN custom, fin)
    BY <2>4, <2>6, ResolveSimpleIs
  <2> HIDE DEF b
  <2>8. Wrapped(a.col, c, fin \notin DOMAIN custom, fin)
    BY <2>1, <2>7 DEF b
  <2> QED BY <1>0, <1>1, <1>2, <2>2, <2>3, <2>4, <2>8 DEF Wrapped, a
<1> QED BY <1>4, <1>5, <1>6

\* Every segment of a field reaches the column it tests, but for what PathHonoured excepts.
THEOREM PathsReachColumns == SessionSpec => []PathHonoured
<1>1. SInv => PathHonoured
  <2> SUFFICES ASSUME SInv, Asked, Compiled.err = "none", stmt.op.kind # "insert",
                      NEW f \in Tested(stmt), ~Empty(f),
                      NEW a \in AtomsIn(SingleFilter(f, stmt.backend, custom).chain)
               PROVE  LET path == FieldPath(f.field.segs)
                      IN /\ path.key # "" =>
                              ((\E s \in ToSet(a.col.steps) : s.part = "key" /\ s.key = path.key)
                                 <=> IF Direct(f) THEN Final(f) \notin ExpandsLists
                                     ELSE "key" \in ToSet(LeadingTransforms(Front(f.lookup))))
                         /\ \A p \in ToSet(path.transforms) \ JsonParts :
                              (\E s \in ToSet(a.col.steps) : s.part = p) <=> p \in Reaching(f)
    BY DEF PathHonoured
  <2> DEFINE path == FieldPath(f.field.segs)
             b == stmt.backend
  <2>1. b \in Backends /\ RegistrySound /\ IsCondition(f) /\ SingleFilter(f, b, custom).err = "none"
    BY WhereCompiled
  <2>2. a = TestOf(f, b) /\ a.err = "none"
    <3> HIDE DEF b
    <3>1. a \in AtomsIn(SingleFilter(f, b, custom).chain)
      BY DEF b
    <3> QED BY <2>1, <3>1, AtomsAre
  <2>3. Reached(f, a)
    <3> HIDE DEF b
    <3>1. TestOf(f, b).err = "none"
      BY <2>2
    <3>2. Reached(f, TestOf(f, b))
      BY <2>1, <3>1, TestReaches
    <3> QED BY <2>2, <3>2
  <2>4. IsColumn(a.col) /\ (\A p \in DateParts : p \in StepNames(a.col.steps) <=> p \in Reaching(f))
        /\ (path.key # "" => (path.key \in KeysRead(a.col.steps)
              <=> IF Direct(f) THEN Final(f) \notin ExpandsLists ELSE "key" \in ToSet(LeadingTransforms(Front(f.lookup)))))
    BY <2>3 DEF Reached
  <2>5. \A p : p \in StepNames(a.col.steps) <=> \E s \in ToSet(a.col.steps) : s.part = p
    BY DEF StepNames
  <2>6. \A k : k \in KeysRead(a.col.steps) <=> \E s \in ToSet(a.col.steps) : s.part = "key" /\ s.key = k
    BY DEF KeysRead
  <2>7. \A p \in ToSet(path.transforms) : p \in KnownTransforms
    <3>1. IsList(f.field.segs)
      BY <2>1 DEF IsCondition
    <3> QED BY <3>1, PathIs
  <2>8. \A p \in ToSet(path.transforms) \ JsonParts : p \in DateParts
    BY <2>7 DEF KnownTransforms
  <2> HIDE DEF path
  <2> QED BY <2>4, <2>5, <2>6, <2>8 DEF path
<1> QED BY <1>1, SessionInvariant, PTL

Operators == {"=", ">", ">=", "<", "<="}

LEMMA TextsOf ==
  /\ Padded(5) = <<0, 5>> /\ Padded(3) = <<0, 3>> /\ Digits(3) = <<3>>
  /\ <<0, 5>> # <<3>> /\ <<0, 3>> # <<3>>
  /\ TextLess(<<0, 5>>, <<3>>)
<1>1. Padded(5) = <<0, 5>> /\ Padded(3) = <<0, 3>> /\ Digits(3) = <<3>>
  BY DEF Padded, Digits
<1>2. Len(<<0, 5>>) = 2 /\ Len(<<0, 3>>) = 2 /\ Len(<<3>>) = 1
  OBVIOUS
<1>3. <<0, 5>> # <<3>> /\ <<0, 3>> # <<3>>
  BY <1>2
<1> DEFINE s == <<0, 5>>
           t == <<3>>
<1>4. s[1] = 0 /\ t[1] = 3 /\ Len(t) = 1
  OBVIOUS
<1> HIDE DEF s, t
<1>5. 1 \in 1..Len(t) /\ s[1] < t[1] /\ \A j \in 1..1 - 1 : j <= Len(s) /\ s[j] = t[j]
  BY <1>4
<1>6. TextLess(s, t)
  BY <1>5 DEF TextLess
<1> QED BY <1>1, <1>3, <1>6 DEF s, t

\* As texts, 5 is less than 3 and 3 is not 3.
LEMMA TextsMiscompare ==
  ASSUME NEW op \in Operators
  PROVE  \E stored, bound \in {3, 5, 12, 31} :
           Compares(op, TextLess(Padded(stored), Digits(bound)), Padded(stored) = Digits(bound))
             # Compares(op, stored < bound, stored = bound)
<1>1. CASE op = "="
  <2>1. Compares(op, TextLess(Padded(3), Digits(3)), Padded(3) = Digits(3)) = FALSE
    BY <1>1, TextsOf DEF Compares
  <2>2. Compares(op, 3 < 3, 3 = 3) = TRUE
    BY <1>1 DEF Compares
  <2>3. Compares(op, TextLess(Padded(3), Digits(3)), Padded(3) = Digits(3)) # Compares(op, 3 < 3, 3 = 3)
    BY <2>1, <2>2
  <2> QED BY <2>3
<1>2. CASE op # "="
  <2> DEFINE less == TextLess(Padded(5), Digits(3))
             equal == Padded(5) = Digits(3)
  <2>1. less /\ ~equal /\ ~(5 < 3) /\ ~(5 = 3)
    BY TextsOf
  <2> HIDE DEF less, equal
  <2>2. Compares(op, less, equal) # Compares(op, 5 < 3, 5 = 3)
    <3>1. CASE op = ">"
      BY <2>1, <3>1 DEF Compares
    <3>2. CASE op = ">="
      BY <2>1, <3>2 DEF Compares
    <3>3. CASE op = "<"
      BY <2>1, <3>3 DEF Compares
    <3>4. CASE op = "<="
      BY <2>1, <3>4 DEF Compares
    <3> QED BY <1>2, <3>1, <3>2, <3>3, <3>4 DEF Operators
  <2> QED BY <2>2 DEF less, equal
<1> QED BY <1>1, <1>2

Right(op, asText) ==
  \A stored, bound \in {3, 5, 12, 31} :
    LET less  == IF asText THEN TextLess(Padded(stored), Digits(bound)) ELSE stored < bound
        equal == IF asText THEN Padded(stored) = Digits(bound) ELSE stored = bound
    IN Compares(op, less, equal) = Compares(op, stored < bound, stored = bound)

LEMMA RightIs ==
  ASSUME NEW op \in Operators, NEW asText \in BOOLEAN
  PROVE  Right(op, asText) <=> ~asText
<1>1. CASE asText
  <2>1. Right(op, asText) <=> \A stored, bound \in {3, 5, 12, 31} :
          Compares(op, TextLess(Padded(stored), Digits(bound)), Padded(stored) = Digits(bound))
            = Compares(op, stored < bound, stored = bound)
    BY <1>1 DEF Right
  <2> QED BY <1>1, <2>1, TextsMiscompare
<1>2. CASE ~asText
  BY <1>2 DEF Right
<1> QED BY <1>1, <1>2

\* The part nearest to the comparison.
LastPart(col) == col.steps[Len(col.steps)].part

LEMMA LastPartIs ==
  ASSUME NEW col, IsColumn(col)
  PROVE  /\ StepParts(col) = StepNames(col.steps)
         /\ col.steps # <<>> => LastPart(col) \in StepNames(col.steps)
<1> DEFINE s == col.steps
           n == Len(s)
<1>1. IsList(s)
  BY DEF IsColumn
<1>2. n \in Nat /\ DOMAIN s = 1..n /\ \A x : x \in ToSet(s) <=> \E i \in 1..n : s[i] = x
  BY <1>1, ListIs
<1>3. s # <<>> => n # 0
  BY <1>1, NoLength
<1> HIDE DEF n
<1>4. StepParts(col) = {s[i].part : i \in DOMAIN s}
  BY DEF StepParts
<1>5. LastPart(col) = s[n].part
  BY DEF LastPart, n
<1> HIDE DEF s
<1>6. StepParts(col) = StepNames(s)
  BY <1>2, <1>4 DEF StepNames
<1>7. ASSUME s # <<>> PROVE LastPart(col) \in StepNames(s)
  <2>1. n \in 1..n
    BY <1>2, <1>3, <1>7
  <2>2. s[n] \in ToSet(s)
    BY <1>2, <2>1
  <2> QED BY <1>5, <2>2 DEF StepNames
<1> QED BY <1>6, <1>7 DEF s

\* On SQLite a two-digit part that a comparison tests is cast to a number, or is not:
AsNumber(f) ==
  \/ ~Direct(f)
  \/ FieldPath(f.field.segs).transforms = <<>>
  \/ ToSet(FieldPath(f.field.segs).transforms) \cap CastParts # {}
  \/ Final(f) \notin Comparisons

TwoDigitTest(a) == a.col.steps # <<>> /\ LastPart(a.col) \in TwoDigits /\ a.op \in Operators

LEMMA StrftimeNames ==
  /\ DOMAIN Strftime = {"year", "month", "day", "hour", "minute", "second", "week", "dow", "quarter", "iso_week", "iso_dow"}
  /\ TwoDigits \subseteq DOMAIN Strftime /\ DOMAIN Strftime \subseteq DateParts /\ CastParts \subseteq DateParts
  /\ \A p \in DOMAIN Strftime : Strftime[p] \in {"%Y", "%m", "%d", "%H"} <=> p \in CastParts
<1>1. DOMAIN Strftime = {"year", "month", "day", "hour", "minute", "second", "week", "dow", "quarter", "iso_week", "iso_dow"}
  BY DEF Strftime
<1>2. TwoDigits \subseteq DOMAIN Strftime /\ DOMAIN Strftime \subseteq DateParts /\ CastParts \subseteq DateParts
  BY <1>1 DEF TwoDigits, CastParts, DateParts
<1>3. ASSUME NEW p \in DOMAIN Strftime PROVE Strftime[p] \in {"%Y", "%m", "%d", "%H"} <=> p \in CastParts
  BY <1>1 DEF Strftime, CastParts
<1> QED BY <1>1, <1>2, <1>3

\* A date part in the place of a lookup is a number.
LEMMA PartIsNumber ==
  ASSUME NEW part \in DateParts, NEW c, IsColumn(c), NEW a, a = ImplicitPart(part, c, "SQLite"), TwoDigitTest(a)
  PROVE  AsIntegerCast(a.col, "SQLite") /\ part \notin Comparisons
<1> DEFINE s == c.steps
           d == DateStep(part)
           u == a.col.steps
<1>1. u = s \o <<d>> /\ (part \in DOMAIN Strftime => a.col.int = TRUE)
  BY ImplicitPartIs
<1>2. IsList(s)
  BY DEF IsColumn
<1>3. d.part = part
  BY DEF DateStep
<1>4. LastPart(a.col) = u[Len(u)].part /\ LastPart(a.col) \in TwoDigits
  BY DEF LastPart, TwoDigitTest
<1> HIDE DEF s, d, u
<1>5. u[Len(u)] = d
  <2>1. s \in Seq(ToSet(s)) /\ Len(s) \in Nat
    BY <1>2, ListIs DEF IsList
  <2>2. Len(s \o <<d>>) = Len(s) + 1 /\ (s \o <<d>>)[Len(s) + 1] = d
    BY <2>1
  <2> QED BY <1>1, <2>2
<1>6. part \in TwoDigits
  BY <1>3, <1>4, <1>5
<1>7. a.col.int = TRUE
  BY <1>1, <1>6, StrftimeNames
<1> QED BY <1>6, <1>7 DEF AsIntegerCast, TwoDigits, Comparisons

LEMMA CommonOps ==
  \A name \in DOMAIN CommonOp : CommonOp[name] \in Operators => name \in Comparisons
<1>1. /\ CommonOp["icontains"] = "ILIKE" /\ CommonOp["istartswith"] = "ILIKE" /\ CommonOp["iendswith"] = "ILIKE"
      /\ CommonOp["startswith"] = "LIKE" /\ CommonOp["endswith"] = "LIKE"
      /\ CommonOp["isnull"] = "IS NULL" /\ CommonOp["in"] = "IN" /\ CommonOp["range"] = "BETWEEN"
  BY DEF CommonOp
<1>2. {"ILIKE", "LIKE", "IS NULL", "IN", "BETWEEN"} \cap Operators = {}
  BY DEF Operators
<1> SUFFICES ASSUME NEW name \in DOMAIN CommonOp, name \notin Comparisons PROVE CommonOp[name] \notin Operators
  OBVIOUS
<1>3. name \in {"icontains", "startswith", "istartswith", "endswith", "iendswith", "isnull", "in", "range"}
  BY CommonNames DEF Comparisons
<1>4. CommonOp[name] \in {"ILIKE", "LIKE", "IS NULL", "IN", "BETWEEN"}
  BY <1>1, <1>3
<1> QED BY <1>2, <1>4

\* What a built-in lookup makes of a column, if it compares a two-digit part: a
\* comparison of that column, or a date part that is a number.
ComparedOn(a, name, c) ==
  \/ name \in Comparisons /\ a.col = c
  \/ name \notin Comparisons /\ AsIntegerCast(a.col, "SQLite")

LEMMA BuiltinCompares ==
  ASSUME NEW name \in BuiltinNames, NEW c, IsColumn(c), NEW a, a = Builtin(name, c, "SQLite"), TwoDigitTest(a)
  PROVE  ComparedOn(a, name, c)
<1> DEFINE b == Builtin(name, c, "SQLite")
<1>1. (name \in DOMAIN CommonOp => b.col = c /\ b.op = CommonOp[name])
      /\ (name \in DateParts => b = ImplicitPart(name, c, "SQLite"))
      /\ (name \notin DOMAIN CommonOp /\ name \notin DateParts => b = JsonLookup(name, c, "SQLite"))
  <2>1. name \in DOMAIN CommonOp => b.col = c /\ b.op = CommonOp[name]
    <3> SUFFICES ASSUME name \in DOMAIN CommonOp PROVE b.col = c /\ b.op = CommonOp[name]
      OBVIOUS
    <3>1. name \notin DateParts
      BY CommonNames DEF DateParts
    <3>2. b = CommonLookup(name, c)
      BY <3>1 DEF Builtin
    <3> HIDE DEF b
    <3> QED BY <3>2, FragmentFields DEF CommonLookup
  <2>2. name \in DateParts => b = ImplicitPart(name, c, "SQLite")
    BY BuiltinIs
  <2>3. name \notin DOMAIN CommonOp /\ name \notin DateParts => b = JsonLookup(name, c, "SQLite")
    BY BuiltinIs
  <2> HIDE DEF b
  <2> QED BY <2>1, <2>2, <2>3
<1> HIDE DEF b
<1>2. a = b
  BY DEF b
<1>3. CASE name \in DOMAIN CommonOp
  <2>1. a.col = c /\ a.op = CommonOp[name] /\ a.op \in Operators
    BY <1>1, <1>2, <1>3 DEF TwoDigitTest
  <2> QED BY <1>3, <2>1, CommonOps DEF ComparedOn
<1>4. CASE name \in DateParts
  <2>1. a = ImplicitPart(name, c, "SQLite")
    BY <1>1, <1>2, <1>4
  <2> QED BY <1>4, <2>1, PartIsNumber DEF ComparedOn
<1>5. CASE name \notin DOMAIN CommonOp /\ name \notin DateParts
  <2> DEFINE j == JsonLookup(name, c, "SQLite")
  <2>1. (name \in JsonParts => j.op = "bare") /\ (name \notin JsonParts => j.op \in {"bare", name})
    <3>1. name \in JsonParts => j.op = "bare"
      <4> SUFFICES ASSUME name \in JsonParts PROVE j.op = "bare"
        OBVIOUS
      <4> DEFINE u == ApplyTransform(name, c, "SQLite", IF name = "json" THEN "" ELSE "key")
                 bare == "bare"
      <4>1. j = Fragment(u, bare, 0)
        BY DEF JsonLookup, JsonParts
      <4> HIDE DEF j, u, bare
      <4>2. j.op = bare
        BY <4>1 DEF Fragment
      <4> QED BY <4>2 DEF bare
    <3>2. name \notin JsonParts => j.op \in {"bare", name}
      BY <1>5, JsonLookupIs
    <3> HIDE DEF j
    <3> QED BY <3>1, <3>2
  <2>2. a = j
    BY <1>1, <1>2, <1>5
  <2> HIDE DEF j
  <2>3. a.op \in {"bare", name} /\ a.op \in Operators
    BY <2>1, <2>2 DEF TwoDigitTest
  <2>4. name \notin Operators /\ "bare" \notin Operators
    <3>1. name \in KnownTransforms \cup {"contains", "has_key", "has_any", "has_all", "contained_by"}
      BY <1>5, CommonNames DEF BuiltinNames, Comparisons
    <3> QED BY <3>1 DEF KnownTransforms, DateParts, JsonParts, Operators
  <2> QED BY <2>3, <2>4
<1> QED BY <1>3, <1>4, <1>5

\* The column a comparison is put on, if a two-digit part is nearest to it.
LEMMA ComparedColumn ==
  ASSUME NEW f, IsCondition(f), Final(f) \in Comparisons, LookedUp(f, "SQLite").steps # <<>>,
         LastPart(LookedUp(f, "SQLite")) \in TwoDigits
  PROVE  AsIntegerCast(LookedUp(f, "SQLite"), "SQLite") <=> AsNumber(f)
<1> DEFINE c   == LookedUp(f, "SQLite")
           col == FinalColumn(f, "SQLite")
           key == KeyOfPath(f)
           nm  == f.field.name
           fin == Final(f)
           lk  == f.lookup
           ts  == FieldPath(f.field.segs).transforms
<1>1. key # "key"
  BY KeyIs
<1>2. CASE Direct(f) /\ key = ""
  <2>1. c = SingleColumn(fin, nm, col, "SQLite", "")
    BY <1>2 DEF LookedUp
  <2>2. IsColumn(col) /\ col.int = FALSE /\ (\A p \in DateParts : p \in StepNames(col.steps) <=> Direct(f) /\ p \in ToSet(ts))
        /\ (~Direct(f) \/ ts = <<>> => col.steps = <<>>)
    BY FinalColumnIs
  <2>3. AsNumber(f) <=> ts = <<>> \/ ToSet(ts) \cap CastParts # {}
    BY <1>2 DEF AsNumber
  <2>4. c.steps # <<>>
    OBVIOUS
  <2> HIDE DEF c, col, fin, nm, ts, key
  <2> DEFINE d == SingleColumn(fin, nm, col, "SQLite", "")
             cast == CastInPath(fin, col, "SQLite")
  <2>5. Retyped(d, col, cast)
    <3>1. IsColumn(col)
      BY <2>2
    <3> QED BY <3>1, SingleColumnIs
  <2> HIDE DEF d, cast
  <2>6. IsColumn(c) /\ c.steps = col.steps /\ (cast => c.int = TRUE) /\ (~cast => c.int = FALSE)
    BY <2>1, <2>2, <2>5 DEF Retyped, d
  <2>7. ts # <<>>
    BY <2>2, <2>4, <2>6
  <2> DEFINE names == StepNames(col.steps)
  <2>8. StepParts(col) = names /\ StepParts(c) = names
    BY <2>2, <2>6, LastPartIs
  <2> HIDE DEF names
  <2>9. \A p \in DateParts : p \in names <=> p \in ToSet(ts)
    BY <1>2, <2>2 DEF names
  <2>10. HasFormat(col, "SQLite", {"%Y", "%m", "%d", "%H"}) <=> ToSet(ts) \cap CastParts # {}
    <3>1. HasFormat(col, "SQLite", {"%Y", "%m", "%d", "%H"})
            <=> \E p \in names \cap DOMAIN Strftime : Strftime[p] \in {"%Y", "%m", "%d", "%H"}
      BY <2>8 DEF HasFormat
    <3>2. (\E p \in names \cap DOMAIN Strftime : Strftime[p] \in {"%Y", "%m", "%d", "%H"})
            <=> \E p \in names \cap DOMAIN Strftime : p \in CastParts
      BY StrftimeNames
    <3>3. CastParts \subseteq DOMAIN Strftime
      BY StrftimeNames DEF CastParts
    <3>4. CastParts \subseteq DateParts
      BY StrftimeNames
    <3>5. (\E p \in names \cap DOMAIN Strftime : p \in CastParts) <=> ToSet(ts) \cap CastParts # {}
      BY <2>9, <3>3, <3>4
    <3> QED BY <3>1, <3>2, <3>5
  <2>11. cast <=> ToSet(ts) \cap CastParts # {}
    <3>1. cast <=> HasFormat(col, "SQLite", {"%Y", "%m", "%d", "%H"}) /\ AsTextCast(col, "SQLite")
      BY DEF cast, CastInPath, ComparesAsText, fin
    <3>2. HasFormat(col, "SQLite", {"%Y", "%m", "%d", "%H"}) => AsTextCast(col, "SQLite")
      <4> DEFINE formats == {"%Y", "%m", "%d", "%H"}
      <4> HIDE DEF formats
      <4>1. HasFormat(col, "SQLite", formats) => StepParts(col) \cap DOMAIN Strftime # {}
        BY DEF HasFormat
      <4>2. StepParts(col) \cap DOMAIN Strftime # {} => HasStrftime(col, "SQLite")
        BY DEF HasStrftime
      <4> QED BY <2>2, <4>1, <4>2 DEF AsTextCast, formats
    <3> QED BY <2>10, <3>1, <3>2
  <2>12. AsIntegerCast(c, "SQLite") <=> cast \/ "quarter" \in names
    BY <2>6, <2>8 DEF AsIntegerCast
  <2>13. "quarter" \in names => ToSet(ts) \cap CastParts # {}
    BY <2>9 DEF CastParts, DateParts
  <2>14. AsIntegerCast(c, "SQLite") <=> AsNumber(f)
    BY <2>3, <2>7, <2>11, <2>12, <2>13
  <2> QED BY <2>14 DEF c
<1>3. CASE Direct(f) /\ key # ""
  <2> DEFINE d == ApplyTransform("key", QuotedWhole(nm), "SQLite", key)
             s == JsonStep("key", key, "SQLite")
  <2>1. c = SingleColumn(fin, nm, col, "SQLite", key)
    BY <1>3 DEF LookedUp
  <2> HIDE DEF col, key, fin, nm, c
  <2>2. SingleColumn(fin, nm, col, "SQLite", key) = d
    BY <1>3 DEF SingleColumn
  <2>3. d.steps = <<s>>
    BY <1>1, <1>3, KeyedColumnIs
  <2>4. s.part = "key"
    BY DEF JsonStep
  <2> HIDE DEF d, s
  <2>5. c.steps = <<s>> /\ <<s>>[Len(<<s>>)] = s
    BY <2>1, <2>2, <2>3
  <2>6. LastPart(c) = "key" /\ "key" \notin TwoDigits
    BY <2>4, <2>5 DEF LastPart, TwoDigits
  <2> QED BY <2>6 DEF c
<1>4. CASE ~Direct(f)
  <2> DEFINE e  == ChainColumn(lk, nm, "SQLite", key)
             cast == CastInChain(fin, e, "SQLite")
             d == Recast(fin, e, "SQLite")
  <2>1. c = d
    BY <1>4 DEF LookedUp
  <2>2. IsList(lk) /\ lk # <<>>
    BY DEF IsCondition
  <2>3. c.steps # <<>> /\ LastPart(c) \in TwoDigits
    OBVIOUS
  <2> HIDE DEF c, nm, key, lk
  <2>4. IsColumn(e)
    BY <2>2, ChainColumnIs
  <2> HIDE DEF e
  <2>5. Retyped(d, e, cast)
    BY <2>4, RecastIs
  <2> HIDE DEF d
  <2>6. IsColumn(c) /\ c.steps = e.steps /\ (cast => c.int = TRUE) /\ (~cast => c.int = e.int)
    BY <2>1, <2>5 DEF Retyped
  <2>7. StepParts(e) = StepParts(c) /\ LastPart(c) \in StepParts(c)
    BY <2>3, <2>4, <2>6, LastPartIs
  <2>8. HasStrftime(e, "SQLite")
    BY <2>3, <2>7, StrftimeNames DEF HasStrftime
  <2>9. AsIntegerCast(c, "SQLite")
    <3>1. CASE cast
      BY <2>6, <3>1 DEF AsIntegerCast
    <3>2. CASE ~cast
      <4>1. AsIntegerCast(e, "SQLite")
        BY <2>8, <3>2 DEF CastInChain
      <4> QED BY <2>6, <2>7, <3>2, <4>1 DEF AsIntegerCast
    <3> QED BY <3>1, <3>2
  <2> QED BY <1>4, <2>9 DEF AsNumber, c
<1> QED BY <1>2, <1>3, <1>4

\* The test of a condition on SQLite: a two-digit part is compared as a number when AsNumber says so.
LEMMA ComparedAsNumber ==
  ASSUME NEW f, IsCondition(f), ~Empty(f), ~Customized(f), NEW a, a = TestOf(f, "SQLite"), a.err = "none", TwoDigitTest(a)
  PROVE  AsIntegerCast(a.col, "SQLite") <=> AsNumber(f)
<1> DEFINE col == FinalColumn(f, "SQLite")
           c == LookedUp(f, "SQLite")
           fin == Final(f)
<1>1. a.op \in Operators /\ a.col.steps # <<>> /\ LastPart(a.col) \in TwoDigits
  BY DEF TwoDigitTest
<1>2. IsColumn(col)
  BY FinalColumnIs
<1>3. CASE Direct(f) /\ fin \in Own
  <2> DEFINE null == f.value.type \in {"Bool", "Int"} => f.value.truth
             n == Len(Items(f.value))
  <2>1. a.op \in {"IS NULL", "IS NOT NULL", "IN", "BETWEEN", "has_any", "has_all", "json_extract IS NOT NULL"}
    <3>1. fin \in {"isnull", "in", "range"} \/ TestsKeys(f)
      BY <1>3 DEF Own, TestsKeys
    <3>2. CASE fin = "isnull"
      <4> DEFINE o == IF null THEN "IS NULL" ELSE "IS NOT NULL"
      <4>1. a = Fragment(col, o, 0)
        BY <1>3, <3>2 DEF TestOf, TestsKeys
      <4> HIDE DEF o, col, null
      <4>5. a.op = o
        BY <4>1 DEF Fragment
      <4> QED BY <4>5 DEF o, null
    <3>3. CASE fin = "in"
      <4>1. a = Fragment(col, "IN", n)
        BY <1>3, <3>3 DEF TestOf, TestsKeys
      <4> HIDE DEF col, n
      <4>5. a.op = "IN"
        BY <4>1 DEF Fragment
      <4> QED BY <4>5
    <3>4. CASE fin = "range"
      <4>1. a = Fragment(col, "BETWEEN", 2)
        BY <1>3, <3>4 DEF TestOf, TestsKeys
      <4> HIDE DEF col
      <4>5. a.op = "BETWEEN"
        BY <4>1 DEF Fragment
      <4> QED BY <4>5
    <3>5. CASE TestsKeys(f)
      <4>1. fin # "isnull" /\ fin # "in" /\ fin # "range"
        BY <3>5 DEF TestsKeys
      <4> DEFINE o == "json_extract IS NOT NULL"
      <4>2. a = Fragment(col, o, 1)
        BY <1>3, <3>5, <4>1 DEF TestOf
      <4> HIDE DEF o, col
      <4>5. a.op = o
        BY <4>2 DEF Fragment
      <4> QED BY <4>5 DEF o
    <3> QED BY <3>1, <3>2, <3>3, <3>4, <3>5
  <2> QED BY <1>1, <2>1 DEF Operators
<1>4. CASE ~(Direct(f) /\ fin \in Own) /\ Plain(f) /\ fin \in KnownTransforms
  <2>1. a = Builtin(fin, col, "SQLite")
    <3>1. a = FragmentOf(f, "SQLite")
      BY <1>4 DEF TestOf
    <3> QED BY <1>4, <3>1, ResolvedFrom
  <2>2. fin \in BuiltinNames /\ fin \notin Comparisons
    BY <1>4 DEF BuiltinNames, KnownTransforms, DateParts, JsonParts, Comparisons
  <2>3. AsNumber(f)
    BY <2>2 DEF AsNumber
  <2> HIDE DEF col, fin
  <2>4. AsIntegerCast(a.col, "SQLite")
    BY <1>2, <2>1, <2>2, BuiltinCompares DEF ComparedOn
  <2> QED BY <2>3, <2>4
<1>5. CASE ~(Direct(f) /\ fin \in Own) /\ ~(Plain(f) /\ fin \in KnownTransforms)
  <2>1. a = ResolveSimple(fin, c, "SQLite", custom)
    <3>1. a = FragmentOf(f, "SQLite")
      BY <1>5 DEF TestOf
    <3> QED BY <1>5, <3>1, ResolvedFrom
  <2>2. fin \notin DOMAIN custom
    BY <1>5 DEF Customized
  <2>3. IsColumn(c)
    <3>1. Direct(f) => fin \notin ExpandsLists
      BY <1>5 DEF Own, ExpandsLists
    <3> QED BY <3>1, LookedUpReaches
  <2>4. fin \in Comparisons /\ c.steps # <<>> /\ LastPart(c) \in TwoDigits => (AsIntegerCast(c, "SQLite") <=> AsNumber(f))
    BY ComparedColumn
  <2>5. fin \notin Comparisons => AsNumber(f)
    BY DEF AsNumber
  <2> HIDE DEF col, fin, c
  <2> DEFINE b == ResolveSimple(fin, c, "SQLite", custom)
  <2>6. b.err = "none"
    BY <2>1
  <2>7. fin \in BuiltinNames /\ b = Builtin(fin, c, "SQLite")
    BY <2>2, <2>3, <2>6, ResolveSimpleIs
  <2>8. a = Builtin(fin, c, "SQLite")
    BY <2>1, <2>7
  <2> HIDE DEF b
  <2>9. ComparedOn(a, fin, c)
    <3>1. fin \in BuiltinNames
      BY <2>7
    <3> QED BY <2>3, <2>8, <3>1, BuiltinCompares
  <2> QED BY <1>1, <2>4, <2>5, <2>9 DEF ComparedOn
<1> QED BY <1>3, <1>4, <1>5

\* A two-digit date part is compared with a number as one, but for what PartsCompareAsNumbers excepts.
THEOREM NumbersCompareAsNumbers == SessionSpec => []PartsCompareAsNumbers
<1>1. SInv => PartsCompareAsNumbers
  <2> SUFFICES ASSUME SInv, Asked, Compiled.err = "none", stmt.op.kind # "insert",
                      NEW f \in Tested(stmt), ~Customized(f),
                      NEW a \in AtomsIn(SingleFilter(f, stmt.backend, custom).chain), TwoDigitTest(a)
               PROVE  Right(a.op, stmt.backend = "SQLite" /\ ~AsIntegerCast(a.col, "SQLite"))
                        <=> stmt.backend # "SQLite" \/ AsNumber(f)
    BY DEF PartsCompareAsNumbers, Right, AsNumber, TwoDigitTest, LastPart, Operators
  <2> DEFINE b == stmt.backend
             asText == b = "SQLite" /\ ~AsIntegerCast(a.col, "SQLite")
  <2>1. b \in Backends /\ RegistrySound /\ IsCondition(f) /\ SingleFilter(f, b, custom).err = "none"
    BY WhereCompiled
  <2>2. ~Empty(f) /\ a = TestOf(f, b) /\ a.err = "none"
    <3> HIDE DEF b
    <3>1. a \in AtomsIn(SingleFilter(f, b, custom).chain)
      BY DEF b
    <3> QED BY <2>1, <3>1, AtomsAre
  <2>3. a.op \in Operators
    BY DEF TwoDigitTest
  <2>4. asText \in BOOLEAN
    OBVIOUS
  <2>5. Right(a.op, asText) <=> ~asText
    <3> HIDE DEF asText
    <3> QED BY <2>3, <2>4, RightIs
  <2>6. b = "SQLite" => (AsIntegerCast(a.col, "SQLite") <=> AsNumber(f))
    <3> HIDE DEF b
    <3> SUFFICES ASSUME b = "SQLite" PROVE AsIntegerCast(a.col, "SQLite") <=> AsNumber(f)
      OBVIOUS
    <3>1. a = TestOf(f, "SQLite")
      BY <2>2
    <3> QED BY <2>1, <2>2, <3>1, ComparedAsNumber
  <2> QED BY <2>5, <2>6
<1> QED BY <1>1, SessionInvariant, PTL
=============================================================================
