------------------------------ MODULE Backends ------------------------------
(***************************************************************************)
(* The registry of pools (ryx-rs/src/config.rs, ryx-backend/src/pool.rs) and *)
(* the calls of a backend (ryx-backend/src/backends/*.rs): where a statement *)
(* runs, what it does there and what the caller is told; InsertBuilder::save *)
(* (ryx-rs/src/objects.rs) and bulk_create (ryx-python/ryx/bulk.py) on top.   *)
(*                                                                         *)
(* A database has one table; a row is its key, and `born` keeps who inserted *)
(* which key.  One slot and one transaction are enough to tell where a       *)
(* statement runs: TransactionHandle and PyTransaction have the rest.        *)
(* The databases themselves are external; a statement that would wait for a  *)
(* row the transaction holds is not enabled.                                 *)
(***************************************************************************)
EXTENDS Integers, Sequences, FiniteSets, SequencesExt

CONSTANTS
  Sources,   \* what may be configured: records [files, env, narrow]
  Calls,     \* the calls of the application: records [op, alias, marked, keys]
  Task,      \* tasks that call bulk_create
  Sizes,     \* the lengths of their batches
  Conn,      \* the connections of a pool
  MaxRows    \* bound on the rows ever inserted in a database

VARIABLES
  registry,  \* the pools and the default alias, or Unset
  rows,      \* alias -> the keys committed
  born,      \* alias -> the instance inserted under each key
  slot,      \* the active transaction: its alias, and whether it is open
  pending,      \* what it added and touched
  lastRow,   \* alias -> connection -> the last key inserted through it
  task,      \* Task -> where its bulk_create stands
  last       \* the last call, what it was told and what it did

backendVars == <<registry, rows, born, slot, pending, lastRow, task, last>>

Unset == [pools |-> [a \in {} |-> ""], default |-> ""]
NoSlot == [at |-> "none"]
NoPending == [added |-> {}, gone |-> {}, touched |-> {}]
NoTask == [at |-> "idle"]
NoCall == [op |-> "none"]
Stranger == <<"other", 0>>

ASSUME TaskAssumption == Stranger[1] \notin Task /\ Sizes \subseteq Nat

-----------------------------------------------------------------------------
(* Configuration.                                                           *)

\* load_file: the first file of ryx.yaml, .yml, .toml, .json that parses
FileUrls(files) ==
  LET parsed == SelectSeq(files, LAMBDA f : f.parses)
  IN IF parsed = <<>> THEN [a \in {} |-> ""] ELSE parsed[1].urls

\* apply_env_overrides: the environment fills the gaps
Urls(source) ==
  LET set == FileUrls(source.files)
  IN [a \in DOMAIN set \cup DOMAIN source.env |->
        IF a \in DOMAIN set THEN set[a] ELSE source.env[a]]

\* init, init_pool and initialize: the first setup is the one that counts; the
\* default alias is "default", or whichever the map yields first
Setup(source) ==
  /\ registry = Unset /\ Urls(source) # Unset.pools
  /\ \E first \in DOMAIN Urls(source) :
       registry' = [pools |-> Urls(source), narrow |-> source.narrow,
                    default |-> IF "default" \in DOMAIN Urls(source) THEN "default" ELSE first]
  /\ rows' = [a \in DOMAIN Urls(source) |-> {}]
  /\ born' = [a \in DOMAIN Urls(source) |-> <<>>]
  /\ lastRow' = [a \in DOMAIN Urls(source) |-> [c \in Conn |-> 0]]
  /\ UNCHANGED <<slot, pending, task, last>>

-----------------------------------------------------------------------------
(* Dispatch.                                                                *)

\* Mutation: None and the name of any pool are the default pool
ResolveDefault(alias) == registry.default

\* get: None is the default alias
Resolve(alias) == IF alias = "" THEN registry.default ELSE alias

Bulk == {"bulkDelete", "bulkUpdate"}

\* A backend is looked up first; then its calls ask for the active transaction,
\* whatever its alias, except for the bulk ones.
Route(op, alias) ==
  IF Resolve(alias) \notin DOMAIN registry.pools THEN [at |-> "unknown", alias |-> alias]
  ELSE IF op \in Bulk \/ slot.at = "none" THEN [at |-> "pool", alias |-> Resolve(alias)]
  ELSE slot

\* What a statement sees there, and the keys it may not wait for.
Visible(route) ==
  IF route.at = "open" THEN (rows[route.alias] \ pending.gone) \cup pending.added ELSE rows[route.alias]
Held(route) == IF route.at = "pool" /\ slot.at = "open" /\ slot.alias = route.alias
               THEN pending.touched ELSE {}
\* SQLite has one writer.
Locked(route) == registry.pools[route.alias] = "SQLite" /\ Held(route) # {}
\* The connections it may run on: the block keeps its own.
Through(route) ==
  CASE route.at = "open" -> {route.conn}
    [] route.at = "pool" -> {c \in Conn : slot # [at |-> "open", alias |-> route.alias, conn |-> c]}

\* Each connection of SQLite remembers its own last key.
Inserted(alias, c, key) ==
  IF registry.pools[alias] = "SQLite" THEN [lastRow EXCEPT ![alias][c] = key] ELSE lastRow

-----------------------------------------------------------------------------
(* What the caller is told.                                                 *)

Fails   == [ok |-> FALSE, value |-> 0]
Says(v) == [ok |-> TRUE, value |-> v]

\* fetch_all, fetch_count, fetch_one
Read(op, seen) ==
  CASE op = "all" -> Says(seen)
    [] op = "count" -> Says(Cardinality(seen))
    [] op = "one" -> IF Cardinality(seen) = 1 THEN Says(seen) ELSE Fails

\* execute: a statement whose text has RETURNING in it, be it in a name, is
\* fetched, and the rows that come back are counted, or taken to be one
Affected(marked, route, n) ==
  IF ~marked THEN n ELSE IF route.at = "open" THEN 1 ELSE 0

\* The two ways a statement changes a database.
Change(route, added, gone, touched) ==
  IF route.at = "open"
  THEN /\ pending' = [added |-> (pending.added \ gone) \cup added, gone |-> pending.gone \cup gone,
                   touched |-> pending.touched \cup touched]
       /\ UNCHANGED rows
  ELSE /\ rows' = [rows EXCEPT ![route.alias] = (@ \ gone) \cup added]
       /\ UNCHANGED pending

Told(op, alias, marked, keys, route, told, did) ==
  last' = [op |-> op, alias |-> alias, marked |-> marked, keys |-> keys, route |-> route,
           told |-> told, did |-> did]

Failed(call, route) ==
  /\ Told(call.op, call.alias, call.marked, call.keys, route, Fails, {})
  /\ UNCHANGED <<registry, rows, born, slot, pending, lastRow, task>>

-----------------------------------------------------------------------------
(* The calls.                                                               *)

Refusal(call) ==
  LET route == Route(call.op, call.alias)
  IN /\ registry # Unset /\ call.op # "bulkCreate"
     /\ \/ route.at \in {"unknown", "ended"}
        \/ /\ call.op \notin {"all", "count", "one"}
           /\ route.at = "pool" /\ Locked(route)
        \/ /\ call.op \in {"insert", "save"} /\ route.at \in {"pool", "open"}
           /\ registry.pools[route.alias] = "MySQL"      \* has no RETURNING
     /\ Failed(call, route)

Runs(call, route) ==
  /\ registry # Unset /\ route.at \in {"pool", "open"}
  /\ route = Route(call.op, call.alias)

Reading(call) ==
  LET route == Route(call.op, call.alias)
  IN /\ call.op \in {"all", "count", "one"} /\ Runs(call, route)
     /\ LET seen == Visible(route) \cap call.keys
        IN Told(call.op, call.alias, FALSE, call.keys, route, Read(call.op, seen), seen)
     /\ UNCHANGED <<registry, rows, born, slot, pending, lastRow, task>>

\* INSERT .. RETURNING id; save reads the whole model out of the one column
\* that comes back
Insert(call) ==
  LET route == Route(call.op, call.alias)
      key == Len(born[route.alias]) + 1
  IN /\ call.op \in {"insert", "save"} /\ Runs(call, route)
     /\ ~Locked(route) /\ registry.pools[route.alias] # "MySQL"
     /\ key <= MaxRows
     /\ born' = [born EXCEPT ![route.alias] = Append(@, Stranger)]
     /\ Change(route, {key}, {}, {key})
     /\ \E c \in Through(route) : lastRow' = Inserted(route.alias, c, key)
     /\ Told(call.op, call.alias, FALSE, {key}, route,
                 IF call.op = "save" THEN Fails ELSE Says(key), {key})
     /\ UNCHANGED <<registry, slot, task>>

\* UPDATE and DELETE, also in bulk by keys
Modify(call) ==
  LET route == Route(call.op, call.alias)
  IN /\ call.op \in {"update", "delete"} \cup Bulk /\ Runs(call, route)
     /\ ~Locked(route)
     /\ LET hit == Visible(route) \cap call.keys
        IN /\ (hit \cup (rows[route.alias] \cap call.keys)) \cap Held(route) = {}
           /\ Change(route, {}, IF call.op \in {"delete", "bulkDelete"} THEN hit ELSE {}, hit)
           /\ Told(call.op, call.alias, call.marked, call.keys, route,
                       Says(Affected(call.marked /\ call.op \notin Bulk, route, Cardinality(hit))), hit)
     /\ UNCHANGED <<registry, born, slot, lastRow, task>>

-----------------------------------------------------------------------------
(* bulk_create.                                                             *)

\* zip, as far as the shorter one goes
Paired(size, keys) == [i \in 1 .. size |-> IF i <= Len(keys) THEN keys[i] ELSE 0]

\* Mutation: the batch is taken to begin at the last key
FromLastOn(size, key) == [i \in 1 .. size |-> key + i - 1]

\* the keys that end in the last one
FromLast(size, key) == [i \in 1 .. size |-> key - size + i]

\* A set of places in a batch, in order.
Nth(places, n) == CHOOSE i \in places : Cardinality({j \in places : j <= i}) = n
InOrder(places) == [n \in 1 .. Cardinality(places) |-> Nth(places, n)]

\* One batch on a pool: the rows that conflict are left out, or fail it.  On
\* PostgreSQL the keys come back, those that are eight bytes wide.
BulkCreate(t, alias, size, skipped, ignore) ==
  LET route == [at |-> "pool", alias |-> Resolve(alias)]
      kind  == registry.pools[route.alias]
      kept  == InOrder(1 .. size \ skipped)
      first == Len(born[route.alias])
      new   == [i \in DOMAIN kept |-> first + i]
      fails == Locked(route) \/ (skipped # {} /\ ~ignore)
  IN /\ registry # Unset /\ task[t] = NoTask
     /\ Resolve(alias) \in DOMAIN registry.pools
     /\ first + size <= MaxRows
     /\ IF fails
        THEN /\ task' = [task EXCEPT ![t] = [at |-> "failed"]]
             /\ UNCHANGED <<rows, born, lastRow>>
        ELSE /\ rows' = [rows EXCEPT ![route.alias] = @ \cup ToSet(new)]
             /\ born' = [born EXCEPT ![route.alias] = @ \o [i \in DOMAIN kept |-> <<t, kept[i]>>]]
             /\ \E c \in Through(route) :
                  /\ lastRow' = IF kept = <<>> THEN lastRow
                                ELSE Inserted(route.alias, c, first + Len(kept))
                  /\ task' = [task EXCEPT ![t] =
                       [at |-> IF kind = "SQLite" THEN "asks" ELSE "done", alias |-> route.alias,
                        conn |-> c, skipped |-> skipped, size |-> size, straight |-> TRUE,
                        keys |-> Paired(size, IF kind = "PostgreSQL" /\ ~registry.narrow THEN new ELSE <<>>)]]
     /\ UNCHANGED <<registry, slot, pending, last>>

\* SELECT last_insert_rowid() on a connection of the pool, or of the block
AskRowid(t) ==
  /\ task[t].at = "asks"
  /\ LET batch == task[t]
     IN IF slot.at = "ended" THEN task' = [task EXCEPT ![t] = [at |-> "failed"]]
        ELSE \E route \in {IF slot.at = "open" THEN slot ELSE [at |-> "pool", alias |-> batch.alias]} :
               \E c \in Through(route) :
                 LET key == lastRow[route.alias][c]
                 IN /\ registry.pools[route.alias] = "SQLite"
                    /\ task' = [task EXCEPT ![t] =
                         [batch EXCEPT !.at = "done", !.keys = FromLast(batch.size, key),
                            !.straight = /\ c = batch.conn /\ route.alias = batch.alias
                                         /\ key # 0 /\ born[route.alias][key][1] = t]]
  /\ UNCHANGED <<registry, rows, born, slot, pending, lastRow, last>>

-----------------------------------------------------------------------------
(* The block around the calls.                                              *)

BeginBlock(alias) ==
  /\ slot = NoSlot /\ alias \in DOMAIN registry.pools
  /\ \E c \in Conn : slot' = [at |-> "open", alias |-> alias, conn |-> c]
  /\ pending' = NoPending
  /\ UNCHANGED <<registry, rows, born, lastRow, task, last>>

\* commit and rollback end the transaction; the slot is given up afterwards
EndBlock ==
  /\ slot.at = "open"
  /\ slot' = [slot EXCEPT !.at = "ended"]
  /\ rows' \in {rows, [rows EXCEPT ![slot.alias] = (@ \ pending.gone) \cup pending.added]}
  /\ pending' = NoPending
  /\ UNCHANGED <<registry, born, lastRow, task, last>>

ReleaseSlot ==
  /\ slot.at = "ended"
  /\ slot' = NoSlot
  /\ UNCHANGED <<registry, rows, born, pending, lastRow, task, last>>

BackendsInit ==
  /\ registry = Unset
  /\ rows = [a \in {} |-> {}] /\ born = [a \in {} |-> <<>>] /\ lastRow = [a \in {} |-> 0]
  /\ slot = NoSlot /\ pending = NoPending
  /\ task = [t \in Task |-> NoTask]
  /\ last = NoCall

BackendsNext ==
  \/ \E source \in Sources : Setup(source)
  \/ \E call \in Calls : Refusal(call) \/ Reading(call) \/ Insert(call) \/ Modify(call)
  \/ \E t \in Task, alias \in {""} \cup DOMAIN registry.pools, size \in Sizes, ignore \in BOOLEAN :
       \E skipped \in SUBSET (1 .. size) : BulkCreate(t, alias, size, skipped, ignore)
  \/ \E t \in Task : AskRowid(t)
  \/ \E alias \in DOMAIN registry.pools : BeginBlock(alias)
  \/ EndBlock \/ ReleaseSlot

BackendsSpec == BackendsInit /\ [][BackendsNext]_backendVars

-----------------------------------------------------------------------------
\* A call acts on the database it names, unless a block on another one catches
\* it; it is told what it did there, except that a statement with RETURNING in
\* a name is miscounted; and a call that fails has done nothing, except
\* InsertBuilder::save, which fails once its row is in.  (sqlite.rs 367-457,
\* postgres.rs and mysql.rs alike, pool.rs 167-185, objects.rs 88-117)
Addressed == IF last.alias = "" THEN registry.default ELSE last.alias
Caught == last.route.at = "open" /\ last.route.alias # Addressed
Truth ==
  CASE last.op = "all" -> last.did
    [] last.op = "one" -> last.did
    [] last.op = "insert" -> CHOOSE key \in last.did : TRUE
    [] OTHER -> Cardinality(last.did)

AnswersTrue ==
  last # NoCall =>
    /\ last.told.ok =>
         /\ ~Caught => last.route.alias = Addressed
         /\ ~(last.marked /\ last.op \in {"update", "delete"}) => last.told.value = Truth
    /\ ~last.told.ok /\ last.did # {} => last.op \in {"save", "one"}

\* The keys bulk_create gives the instances are those of their own rows, or
\* none.  On SQLite this takes a second statement on the connection of the
\* insert with no other insert in between; and a conflict that is ignored
\* shifts the keys.  (bulk.py 145-177, postgres.rs 640-652)
KeysAreOwn ==
  \A t \in Task : task[t].at = "done" /\ task[t].straight /\ task[t].skipped = {} =>
    \A i \in 1 .. task[t].size :
      LET key == task[t].keys[i]
      IN key # 0 => key <= Len(born[task[t].alias]) /\ born[task[t].alias][key] = <<t, i>>
=============================================================================
