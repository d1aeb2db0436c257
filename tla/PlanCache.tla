----------------------------- MODULE PlanCache -----------------------------
(***************************************************************************)
(* compile() and its plan cache (compilr.rs 135-196): the text of a         *)
(* statement is kept for ever under a hash of the query, the values to bind *)
(* are made anew by every call.                                             *)
(*                                                                         *)
(* A call looks the hash up (contains_key), walks the query writing text    *)
(* only if the hash was absent, looks again (get), and stores its text if    *)
(* the hash is still absent (insert).  The four steps of two threads         *)
(* interleave, and register_custom may change the lookups at any point.      *)
(* What a query, its hash and its text are is left to the constants.         *)
(***************************************************************************)
EXTENDS Naturals

CONSTANTS Callers,       \* threads that compile
          Query,         \* the queries they may compile
          Registries,    \* states of the custom lookups
          KeyOf(_),      \* compute_plan_hash
          SqlOf(_, _)    \* the statement a query compiles to under a registry

VARIABLES plans,     \* PLAN_CACHE: hash -> plan
          registry,  \* the custom lookups now registered
          calls,     \* what each thread is doing
          emitted    \* history: the texts written, with the query and registry of each

cacheVars == <<plans, registry, calls, emitted>>

Idle == [stage |-> "idle"]

\* The part of a statement the cache keeps; a call that saw its hash writes nothing
PlanOf(q, r) == [text |-> SqlOf(q, r).text, holes |-> SqlOf(q, r).holes]
Unwritten    == [text |-> "", holes |-> 0]

CacheInit ==
  /\ plans = [k \in {} |-> Unwritten]
  /\ registry \in Registries
  /\ calls = [c \in Callers |-> Idle]
  /\ emitted = {}

\* compute_plan_hash and contains_key
Check(c, q) ==
  /\ calls[c].stage \in {"idle", "done", "failed"}
  /\ calls' = [calls EXCEPT ![c] = [stage |-> "checked", query |-> q,
                                    hit |-> KeyOf(q) \in DOMAIN plans]]
  /\ UNCHANGED <<plans, registry, emitted>>

\* The walk over the query, with the lookups registered at that moment: it may
\* fail on a hit as on a miss
Write(c) ==
  LET q == calls[c].query IN
  /\ calls[c].stage = "checked"
  /\ IF SqlOf(q, registry).err # "none"
     THEN /\ calls' = [calls EXCEPT ![c] = [stage |-> "failed", query |-> q]]
          /\ UNCHANGED emitted
     ELSE /\ calls' = [calls EXCEPT ![c] =
                         [stage |-> "written", query |-> q, hit |-> calls[c].hit, under |-> registry,
                          plan |-> IF calls[c].hit THEN Unwritten ELSE PlanOf(q, registry)]]
          /\ emitted' = IF calls[c].hit THEN emitted
                        ELSE emitted \cup {[query |-> q, under |-> registry]}
  /\ UNCHANGED <<plans, registry>>

Answer(c, plan) ==
  [stage |-> "done", query |-> calls[c].query, under |-> calls[c].under, plan |-> plan]

\* PLAN_CACHE.get finds a plan: the text of this call is dropped
Reuse(c) ==
  LET k == KeyOf(calls[c].query) IN
  /\ calls[c].stage = "written"
  /\ k \in DOMAIN plans
  /\ calls' = [calls EXCEPT ![c] = Answer(c, plans[k])]
  /\ UNCHANGED <<plans, registry, emitted>>

Miss(c) ==
  /\ calls[c].stage = "written"
  /\ KeyOf(calls[c].query) \notin DOMAIN plans
  /\ calls' = [calls EXCEPT ![c].stage = "storing"]
  /\ UNCHANGED <<plans, registry, emitted>>

\* mutant: a cache of one plan
StoreBounded(c) ==
  /\ calls[c].stage = "storing"
  /\ plans' = [x \in {KeyOf(calls[c].query)} |-> calls[c].plan]
  /\ calls' = [calls EXCEPT ![c] = Answer(c, calls[c].plan)]
  /\ UNCHANGED <<registry, emitted>>

\* PLAN_CACHE.insert, over whatever another thread stored since
Store(c) ==
  LET k == KeyOf(calls[c].query) IN
  /\ calls[c].stage = "storing"
  /\ plans' = [x \in DOMAIN plans \cup {k} |-> IF x = k THEN calls[c].plan ELSE plans[x]]
  /\ calls' = [calls EXCEPT ![c] = Answer(c, calls[c].plan)]
  /\ UNCHANGED <<registry, emitted>>

\* register_custom: the plans already cached stay
Register(r) ==
  /\ r # registry
  /\ registry' = r
  /\ UNCHANGED <<plans, calls, emitted>>

CacheNext ==
  \/ \E c \in Callers :
       (\E q \in Query : Check(c, q)) \/ Write(c) \/ Reuse(c) \/ Miss(c) \/ Store(c)
  \/ \E r \in Registries : Register(r)

CacheSpec == CacheInit /\ [][CacheNext]_cacheVars

-----------------------------------------------------------------------------
Done(c) == calls[c].stage = "done"

\* Every plan in the cache was written for a query of that hash.
PlanOrigin ==
  \A k \in DOMAIN plans :
    \E e \in emitted : KeyOf(e.query) = k /\ plans[k] = PlanOf(e.query, e.under)

\* A call that wrote no text because it saw its hash always finds a plan: the
\* second look cannot miss, so an empty text is neither stored nor returned.
SeenStays ==
  \A c \in Callers :
    /\ calls[c].stage \in {"checked", "written"} /\ calls[c].hit
         => KeyOf(calls[c].query) \in DOMAIN plans
    /\ calls[c].stage = "storing" => ~calls[c].hit

\* Every answer was written for a query of the same hash, perhaps another one
\* and perhaps under other lookups.
AnswerOrigin ==
  \A c \in Callers : Done(c) =>
    \E e \in emitted : /\ KeyOf(e.query) = KeyOf(calls[c].query)
                       /\ calls[c].plan = PlanOf(e.query, e.under)

\* What compile() promises: the answer is the text of the query asked, under
\* the lookups it was walked with.
Fresh == \A c \in Callers : Done(c) => calls[c].plan = PlanOf(calls[c].query, calls[c].under)
=============================================================================
