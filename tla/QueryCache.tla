----------------------------- MODULE QueryCache -----------------------------
(***************************************************************************)
(* The Python query cache (ryx-python/ryx/cache.py): MemoryCache, the      *)
(* read-through of CachedQueryMixin._execute, and the invalidation that    *)
(* signals run after a write.                                              *)
(*                                                                         *)
(* A cached read is three steps with awaits between them: look the key up, *)
(* read the database, store the result.  An invalidation is two: list the  *)
(* keys of the model, delete them.  MemoryCache never suspends in between, *)
(* another AbstractCache may: the model lets every await suspend.  A       *)
(* result is the set of writes it reflects; all queries are about one      *)
(* model, and every write matters to all of them.                          *)
(***************************************************************************)
EXTENDS Naturals, Sequences, FiniteSets

CONSTANTS
  Template,  \* SQL texts with placeholders
  Named,     \* those of them cached under a key the caller chose
  Param,     \* bound values
  Reader,    \* calls of a cached query
  Writer,    \* writes that fire a signal when they are done, in autocommit
  TxWriter,  \* ... of them, those in a transaction that commits later
  Silent,    \* ... those that fire none (bulk_create, bulk_update, raw SQL)
  Ttls,      \* lifetimes a caller may ask for; 0: none
  MaxSize,   \* capacity of the cache
  MaxTime,   \* bound on the clock
  Absent

ASSUME NamedAssumption == Named \subseteq Template
ASSUME WriterAssumption == TxWriter \cup Silent \subseteq Writer /\ TxWriter \cap Silent = {}
ASSUME TtlsAssumption == Ttls \subseteq Nat
ASSUME MaxAssumption == MaxSize \in Nat /\ MaxTime \in Nat

VARIABLES
  store,   \* the OrderedDict, least recently used entry first
  now,     \* time.monotonic()
  db,      \* the writes other connections see
  since,   \* history: when they came to
  rpc,     \* "new", "read", "fill" or "done"
  ask,     \* the query and the lifetime a call asks for
  result,  \* what it read or was given
  wpc,     \* "new", "list", "delete", "commit" or "done"
  listed   \* the keys an invalidation found

cacheVars == <<store, now, db, since, rpc, ask, result, wpc, listed>>

Query == [template : Template, param : Param]

(* make_cache_key(model_name, sql, []): the values are not part of the key. *)
Key(q) == q.template

(* An entry has the query it answers, the writes it shows, when it was      *)
(* stored and for how long; and, as history, when it was read and which     *)
(* writes it missed though they were visible when it was stored.            *)
CacheEntry ==
  [key : Template, query : Query, shows : SUBSET Writer, stored : 0..MaxTime,
   ttl : Ttls, read : 0..MaxTime, missed : SUBSET Writer]

NoResult == [query |-> Absent, shows |-> {}, read |-> 0]
Result == [query : Query \cup {Absent}, shows : SUBSET Writer, read : 0..MaxTime]
Request == [query : Query, ttl : Ttls]

CacheTypeOK ==
  /\ store \in Seq(CacheEntry)
  /\ Len(store) <= MaxSize
  /\ \A i, j \in DOMAIN store : store[i].key = store[j].key => i = j
  /\ now \in 0..MaxTime
  /\ db \subseteq Writer
  /\ since \in [Writer -> 0..MaxTime]
  /\ rpc \in [Reader -> {"new", "read", "fill", "done"}]
  /\ ask \in [Reader -> Request \cup {Absent}]
  /\ \A r \in Reader : rpc[r] # "new" => ask[r] \in Request
  /\ result \in [Reader -> Result]
  /\ \A r \in Reader : rpc[r] = "fill" => result[r].query = ask[r].query
  /\ wpc \in [Writer -> {"new", "list", "delete", "commit", "done"}]
  /\ listed \in [Writer -> SUBSET Template]

CacheInit ==
  /\ store = << >>
  /\ now = 0
  /\ db = {}
  /\ since = [w \in Writer |-> 0]
  /\ rpc = [r \in Reader |-> "new"]
  /\ ask = [r \in Reader |-> Absent]
  /\ result = [r \in Reader |-> NoResult]
  /\ wpc = [w \in Writer |-> "new"]
  /\ listed = [w \in Writer |-> {}]

-----------------------------------------------------------------------------
(* MemoryCache.  get drops an entry past its time; keys leaves out one that *)
(* has reached it.                                                          *)
Without(keys) ==
  LET kept[n \in 0..Len(store)] ==
        IF n = 0 THEN << >>
        ELSE IF store[n].key \in keys THEN kept[n - 1] ELSE Append(kept[n - 1], store[n])
  IN kept[Len(store)]
Entries(k) == {i \in DOMAIN store : store[i].key = k}
(* Mutation: an entry outlives its lifetime by one tick.                    *)
PastLate(e) == e.ttl # 0 /\ now > e.stored + e.ttl + 1
Past(e) == e.ttl # 0 /\ now > e.stored + e.ttl
Listable(e) == e.ttl = 0 \/ now < e.stored + e.ttl

Newest(s) == IF Len(s) > MaxSize THEN SubSeq(s, Len(s) - MaxSize + 1, Len(s)) ELSE s

StoreEntry(e) == store' = Newest(Append(Without({e.key}), e))

DeleteKeys(keys) == store' = Without(keys)

(* A cached read begins: compute the key and look it up.                    *)
Hit(r, q, ttl) ==
  /\ rpc[r] = "new"
  /\ \E i \in Entries(Key(q)) :
       /\ ~Past(store[i])
       /\ store' = Append(Without({Key(q)}), store[i])
       /\ result' = [result EXCEPT ![r] =
            [query |-> store[i].query, shows |-> store[i].shows, read |-> store[i].read]]
  /\ rpc' = [rpc EXCEPT ![r] = "done"]
  /\ ask' = [ask EXCEPT ![r] = [query |-> q, ttl |-> ttl]]
  /\ UNCHANGED <<now, db, since, wpc, listed>>

Miss(r, q, ttl) ==
  /\ rpc[r] = "new"
  /\ \A i \in Entries(Key(q)) : Past(store[i])
  /\ DeleteKeys({Key(q)})
  /\ rpc' = [rpc EXCEPT ![r] = "read"]
  /\ ask' = [ask EXCEPT ![r] = [query |-> q, ttl |-> ttl]]
  /\ UNCHANGED <<now, db, since, result, wpc, listed>>

(* super()._execute(): the database answers, or raises.                     *)
ReadDb(r) ==
  /\ rpc[r] = "read"
  /\ \/ /\ rpc' = [rpc EXCEPT ![r] = "fill"]
        /\ result' = [result EXCEPT ![r] =
             [query |-> ask[r].query, shows |-> db, read |-> now]]
     \/ /\ rpc' = [rpc EXCEPT ![r] = "done"]
        /\ UNCHANGED result
  /\ UNCHANGED <<store, now, db, since, ask, wpc, listed>>

(* backend.set, and the call returns what it read.                          *)
Fill(r) ==
  /\ rpc[r] = "fill"
  /\ StoreEntry([key |-> Key(ask[r].query), query |-> ask[r].query,
                 shows |-> result[r].shows, stored |-> now, ttl |-> ask[r].ttl,
                 read |-> result[r].read, missed |-> db \ result[r].shows])
  /\ rpc' = [rpc EXCEPT ![r] = "done"]
  /\ UNCHANGED <<now, db, since, ask, result, wpc, listed>>

-----------------------------------------------------------------------------
Visible(w) ==
  /\ db' = db \cup {w}
  /\ since' = [since EXCEPT ![w] = now]

(* A write is executed.  It is visible at once, except in a transaction.    *)
Write(w) ==
  /\ wpc[w] = "new"
  /\ IF w \in TxWriter THEN UNCHANGED <<db, since>> ELSE Visible(w)
  /\ wpc' = [wpc EXCEPT ![w] = IF w \in Silent THEN "done" ELSE "list"]
  /\ UNCHANGED <<store, now, rpc, ask, result, listed>>

(* Mutation: the pattern is "Ryx:<Model>:*", as the docstring has it.       *)
ListKeysWrongPrefix(w) ==
  /\ wpc[w] = "list"
  /\ listed' = [listed EXCEPT ![w] = {}]
  /\ wpc' = [wpc EXCEPT ![w] = "delete"]
  /\ UNCHANGED <<store, now, db, since, rpc, ask, result>>

(* _on_mutate -> invalidate_model: keys(prefix), whose pattern no key a     *)
(* caller chose matches ...                                                 *)
ListKeys(w) ==
  /\ wpc[w] = "list"
  /\ listed' = [listed EXCEPT ![w] =
       {store[i].key : i \in {j \in DOMAIN store : Listable(store[j])}} \ Named]
  /\ wpc' = [wpc EXCEPT ![w] = "delete"]
  /\ UNCHANGED <<store, now, db, since, rpc, ask, result>>

(* ... then delete_many(keys), and the write returns to its caller.         *)
Invalidate(w) ==
  /\ wpc[w] = "delete"
  /\ DeleteKeys(listed[w])
  /\ listed' = [listed EXCEPT ![w] = {}]
  /\ wpc' = [wpc EXCEPT ![w] = IF w \in TxWriter THEN "commit" ELSE "done"]
  /\ UNCHANGED <<now, db, since, rpc, ask, result>>

(* The transaction ends, one way or the other.                              *)
EndTransaction(w) ==
  /\ wpc[w] = "commit"
  /\ Visible(w) \/ UNCHANGED <<db, since>>
  /\ wpc' = [wpc EXCEPT ![w] = "done"]
  /\ UNCHANGED <<store, now, rpc, ask, result, listed>>

(* ryx.cache.invalidate(key) and invalidate_all().                          *)
Forget(keys) ==
  /\ DeleteKeys(keys)
  /\ UNCHANGED <<now, db, since, rpc, ask, result, wpc, listed>>

Tick ==
  /\ now < MaxTime
  /\ now' = now + 1
  /\ UNCHANGED <<store, db, since, rpc, ask, result, wpc, listed>>

CacheNext ==
  \/ \E r \in Reader, q \in Query, ttl \in Ttls : Hit(r, q, ttl) \/ Miss(r, q, ttl)
  \/ \E r \in Reader : ReadDb(r) \/ Fill(r)
  \/ \E w \in Writer : Write(w) \/ ListKeys(w) \/ Invalidate(w) \/ EndTransaction(w)
  \/ \E k \in Template : Forget({k})
  \/ Forget(Template)
  \/ Tick

CacheSpec == CacheInit /\ [][CacheNext]_cacheVars

-----------------------------------------------------------------------------
(* Will w's invalidation still remove entry e?                              *)
Doomed(e, w) == wpc[w] = "list" \/ (wpc[w] = "delete" /\ e.key \in listed[w])

(* A live entry under a generated key lacks an autocommitted write that     *)
(* fires a signal only if the write's invalidation is still to remove it,   *)
(* or if the entry was stored late, from a read the write overtook: two     *)
(* steps of an invalidation miss nothing else.                              *)
StaleOnlyByRace ==
  \A i \in DOMAIN store :
    store[i].key \notin Named /\ Listable(store[i]) =>
      \A w \in db \ (store[i].shows \cup TxWriter \cup Silent) :
        w \in store[i].missed \/ Doomed(store[i], w)

(* What no invalidation removes, the entries outdated by a write in a       *)
(* transaction or a silent one and those under a caller's own key, is given *)
(* to callers no longer than its lifetime and the time its read took to be  *)
(* stored.                                                                  *)
StaleForLifetimeOnly ==
  [][\A r \in Reader : rpc[r] = "new" /\ rpc'[r] = "done" =>
       \E i \in Entries(Key(ask'[r].query)) :
         store[i].ttl # 0 =>
           \A w \in db \ result'[r].shows :
             now - since[w] <= store[i].ttl + (store[i].stored - store[i].read)]_cacheVars

(* A call is answered with the result of its own query ("Cache keys are     *)
(* generated as a SHA-256 hash of: Model name, SQL query string, Bound      *)
(* parameter values").                                                      *)
OwnAnswer ==
  \A r \in Reader : result[r].query # Absent => result[r].query = ask[r].query
=============================================================================
