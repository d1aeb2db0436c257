# Ryx: a TLA+ verification project

Ryx is a Django-style ORM with a Rust engine. Its users write Python
(`ryx-python/ryx`, over the binding `ryx-python/src/lib.rs`) or Rust
(`ryx-rs`); both build query plans that `ryx-query` compiles and that the
backends of `ryx-backend` run through sqlx pools. This directory holds TLA+
models of the parts of Ryx whose correctness depends on the order in which
things happen (transactions, caches, migrations, files), and of the
translations everything rests on (queries to SQL, models to DDL, rows to
values); TLC configurations that check them on small instances; and proofs
checked by TLAPS. Paths below are relative to the repository's root.

Contents: 1 inventory, 2 modules and how they correspond to the code,
3 runs and bounds, 4 fairness and deadlock, 5 mutations, 6 proofs,
7 what the models leave out, 8 plan.

## 1. Inventory

For each component: its state, its operations, who it interacts with, what is
hard about it, and what makes it correct. "(modelled)" names the module.

**Transaction handle and active slot** (`ryx-backend/src/transaction.rs`,
modelled in `TransactionHandle`). State: `Option<RyxTransaction>` behind a
tokio mutex, and the process-wide `ACTIVE_TX`, a `OnceCell` of a
std mutex around `Option<Arc<Mutex<..>>>`.
Operations: begin, commit, rollback, savepoint, rollback_to, release_savepoint,
and the four statement entry points. The backends read the slot at the start of
`execute`, `fetch_all`, `fetch_one`, `fetch_count` and the raw entry points, and
run on the handle they read, or on the pool. Hard: the slot is global while its
users are concurrent tasks; a statement reads the slot, waits for the mutex, and
may arrive at a handle that ended meanwhile. Correct: a statement takes effect
with the transaction it enlisted in and only with it; an ended handle runs
nothing more.

**Python transaction blocks** (`ryx-python/ryx/transaction.py`, modelled in
`PyTransaction`). State: the ContextVar `_active_tx` of each task, the token,
`_previous_tx`, `_savepoint` and `_outer_token` of each block. Operations:
`__aenter__` (BEGIN, or SAVEPOINT inside a block on the same alias) and
`__aexit__`. Writes the slot of the handle. Hard: two notions of "the current
transaction", per task and per process; `__aexit__` gives up both before the
await that ends the transaction; child tasks inherit a copy of the context.
Correct: a write in a block is permanent if and only if the block commits;
blocks of concurrent tasks do not mix; a block that is left ends.

**Rust transaction closures** (`ryx-rs/src/transaction.rs`, modelled in
`RsTransaction`). Operation: `transaction(|tx| ..)` begins a handle, puts it
into the slot, runs the closure, puts `None` into the slot. Hard: rollback is
only the drop of the last `Arc`; dropped futures skip line 39; nested and
concurrent closures share the slot. Correct: what a closure did not commit is
rolled back; nothing enlists in a handle whose closure is gone.

**Python binding** (`ryx-python/src/lib.rs`, `plan.rs`; `GilLock`). State: the
GIL, tokio's worker threads, the mutex of a handle. Hard: `get_alias` blocks the
event loop thread on the mutex while holding the GIL; handle methods ask for the
GIL while holding the mutex. Correct: everything awaited is answered, and no
thread is kept from the GIL for ever.

**Backends** (`ryx-backend/src/backends/{sqlite,mysql,postgres}.rs`, `utils.rs`;
modelled in `TransactionHandle`, `Backends` and `RowValues`). Near copies of one
another: choose handle or pool, cast and bind values, run, decode rows, map
errors. Bulk entry points always use the pool. Correct: a statement acts on the
database it names, within the transaction that is open, and its caller is told
what it did; a value that was written is read back.

**Connection pools** (`ryx-backend/src/pool.rs`, partly in `Backends`). State: a
`OnceLock` of pools per alias, a default alias. Hard: which alias is the default;
bounded connections with a transaction holding one while a bulk operation asks
for a second.

**Python query cache** (`ryx-python/ryx/cache.py`, modelled in `QueryCache`).
State: an `OrderedDict` of key to (value, expiry), capacity, the global cache
object. Operations: get, set, delete, delete_many, keys, clear; the read-through
of `CachedQueryMixin._execute`; invalidation by `post_save`, `post_delete`,
`post_update`, `post_bulk_delete` receivers. Hard: a read overtaken by a write
fills the cache with what is outdated; invalidation precedes the commit of the
transaction that wrote. Correct: an outdated entry can only come from known
races and is served no longer than its lifetime; a call gets its own answer.

**Rust query cache** (`ryx-rs/src/cache.rs`, modelled in `CachedReads`). A map
with insertion times; `set` drops the lifetime, `get` applies the cache's own;
eviction of the oldest. Correct: an answer is what the database held within the
lifetime.

**Python query sets** (`queryset.py`), **models** (`models.py`), **fields and
validators**. Lazy builders, then one await. `save()` runs hooks, validation,
staged files, SQL and signals in sequence; `get_or_create` reads, then writes.
Correct: one row per key; hooks and signals see the state they are named for.

**Relations and descriptors** (`relations.py`, `descriptors.py`). State: the
cached related object beside the key column of an instance. Correct: the two
agree. `ManyToManyManager.set` is clear, then add.

**Signals** (`signals.py`). Receivers, weak or strong, called in order.

**Bulk operations and streaming** (`bulk.py`, the paging of `queryset.py`,
`ryx-rs/src/stream.rs`; keys in `Backends`, the Rust stream in `CachedReads`).
Batches, keys assigned to instances afterwards, pages by LIMIT/OFFSET or by key.
Correct: every instance gets its own row's key; a page loop yields each row once.

**File storage** (`storage.py`, `files.py`, `ryx-rs/src/storage.rs`; the Rust
storages in `FileStore`). Chooses a free name, then writes. Correct: an existing
file is not overwritten.

**Database router** (`router.py`). Pure choice of an alias for a read, a write
or a migration.

**Migrations, Python and Rust** (`migrations/*.py`, modelled in `MigrationStore`
and `MigrationRunner`; `ryx-rs/src/migration*`, modelled in `SchemaDiff`,
`DdlGenerator` and `FileRunner`). State: the tracking table, migration files, the
live schema. Hard: DDL in autocommit, the record written last, failures to read
or write the record swallowed (Python) or final (Rust), two runners at once,
several aliases, three databases that take different DDL. Correct: each file
applied once per alias, in order, and recorded if and only if applied; the
detector's operations lead from the old schema to the new one.

**Query AST, compiler, lookups** (`ryx-query`; modelled in `Lookups`,
`QueryTree`, `QueryCompiler`, `QuerySession` and `PlanCache`). Translation of a
query into SQL with placeholders and values, and a process-wide cache of the
texts. Correct: the statement means what the query says, has as many
placeholders as values, and is not another query's.

**Rust query sets** (`ryx-rs/src/queryset.rs`, `q.rs`, `objects.rs`; the front
ends of `QueryTree` and `QuerySession`). Builders over the AST. **Derive macros**
(`ryx-macro`): the columns of a model (`SchemaDiff`) and the readers of a row
(`RowValues`). **Model registry** (`ryx-core/src/model_registry.rs`): which model
decodes a table (`RowValues`). **Configuration** (`ryx-rs/src/config.rs`): which
databases there are (`Backends`).

**Symbol interner** (`symbols.rs`): a table behind read-write locks with double
checked insertion. `ryx-core/src/executor.rs` is a predecessor of the backends
that its crate does not declare as a module. **Command lines, common types**:
terminal programs, data types.

How they interact: a Python coroutine awaits a Rust future (binding), which
reads the slot (handle), which was set by a block (`transaction.py`) or by a
closure (`ryx-rs`); writes fire signals whose receivers invalidate the cache;
pools are shared by everything; the migration runners use raw entry points,
which enlist in whatever block is open, too.

The hazards of this code, each at its line with the properties that watch it,
are in `PROJECT.json` under `hazards`; those without a property say why.

## 2. Modules

| module | models | uses |
|---|---|---|
| `TransactionHandle` | the handle, the slot, dispatch of a statement | |
| `AtomicBlocks` | abstract: what a transaction block promises | |
| `PyTransaction` | `async with transaction()` in asyncio tasks | `TransactionHandle`; refines `AtomicBlocks` |
| `RsTransaction` | `ryx_rs::transaction` in tokio tasks | `TransactionHandle`; refines `AtomicBlocks` |
| `GilLock` | GIL, handle mutex and tokio workers | |
| `QueryCache` | `MemoryCache`, cached reads, invalidation | |
| `MigrationLedger` | abstract: what applying migration files promises | |
| `MigrationStore` | migration files, and databases as DDL finds them | |
| `MigrationRunner` | `MigrationRunner.migrate` (Python) in any number of processes | `MigrationStore`; refines `MigrationLedger` |
| `Lookups` | the suffix of a filter key, as SQL, on three databases | |
| `QueryTree` | query nodes and the Rust and Python builders of them | `Lookups` |
| `QueryCompiler` | the statement and the values of a node; the plan hash | `QueryTree` |
| `QuerySession` | a caller building a query call by call | `QueryCompiler` |
| `QueryMeaning` | properties: what a statement has to do with its query | `QuerySession` |
| `PlanCache` | `compile()` and its cache with concurrent callers | |
| `SchemaDiff` | derived columns, schema comparison, operations, replay | |
| `DdlGenerator` | DDL, and databases that run it and are introspected | `SchemaDiff` |
| `FileRunner` | Rust migrations in any number of programs | `DdlGenerator` |
| `Backends` | pools, the calls of a backend, bulk keys | |
| `RowValues` | a value into a database and back | |
| `CachedReads` | the Rust query cache and streams | |
| `FileStore` | saving files | |
| `TransactionHandleProofs` | lemmas on the handle | `TransactionHandle` |
| `PyTransactionProofs`, `RsTransactionProofs` | proofs | `TransactionHandleProofs` |
| `BindingProofs` | proofs | `GilLock`, `PlanCache`, `QueryMeaning` and what it uses |
| `QueryCacheProofs`, `MigrationRunnerProofs`, `FileRunnerProofs` | proofs | the module they name |
| `ServicesProofs` | proofs | `Backends`, `CachedReads`, `FileStore`, `RowValues` |
| `MC...` | instances for TLC (symmetry, small projects, menus of queries, calls, values) | |

`MCHandles`, `MCPySolo` and `MCServices` each hold parts that share no state, so that
one run has them all: a behaviour of the first two shows one of its parts, one of
`MCServices` interleaves them.

In the protocol modules an action is the code between two awaits, or between two
lock operations where threads are involved; that is the granularity at which tasks
interleave. The translating modules (`Lookups` to `QueryCompiler`, `SchemaDiff`,
`DdlGenerator`, most of `RowValues`) are operators that map data to data as the
functions do, with small modules of actions around them.

**TransactionHandle.** `state[h]` is the handle's `Option`: `live` or `aborted`
while it is `Some`, `committed` or `rolledback` after `take()`. `log[h]` is the
connection's list of statements and savepoints that are not undone: ROLLBACK TO
cuts it after the newest savepoint of that name. `durable` is the databases'
contents. `aborted` is PostgreSQL's behaviour after an error in a transaction
(`AbortAlias`); other databases go on. `Dispatch(kind)` is what an entry point
reads from the slot; bulk entry points read nothing. `HandleCommit` of an
aborted transaction is a rollback; a COMMIT that fails, or whose await is
cancelled, drops the sqlx transaction and is modelled as `HandleRollback`.

**PyTransaction.** `ctx` is the ContextVar per task, `owner[h]` the task whose open
block began `h`, `prev[h]` its `_previous_tx`, `nest[t][h]` the open nested blocks.
`Begin`/`Nest` are the two branches of `__aenter__`; a failed BEGIN changes nothing
and has no action. `ExitBlock` is `__aexit__` up to its first await (restore
ContextVar and slot), `FinishExit` the COMMIT or ROLLBACK after it. `AbandonExit` is
that await cancelled while the call still queues for the handle's mutex: nothing is
taken, and the transaction stays open until `Collect`, the drop of the last
reference to its handle (`Referred`). `ExitNested` does what the code does:
`_active_tx.reset(None)` raises `TypeError`, neither slot nor savepoint is touched.
`UserOp` are the methods of `as tx`, `OpFails` a savepoint call that raises, in
`__aenter__` or there. `Issue` reads the slot, `Execute` or `Refuse` happens later.
`Raise` and `Catch` stand for user code, including a cancellation that arrives
there; a statement cancelled before it has the handle is a `Refuse` that changes
nothing. `Spawn` is `create_task`: the child copies the context. In the binding the
alias `None` and the name of the default database are different aliases, so two
members of `Alias` may be one database: the model, like the code, then opens a
second transaction.

**AtomicBlocks** has no handles, slots, logs or tasks: a block holds the writes
issued in it and makes them durable together, or not at all. `PyTransaction`
maps `phase` from `state`, `pending` from `log`, `answer` and `home` from `stmt`
(`Blocks`, `BlocksSpec`). `RsTransaction` maps the same way (`HandlesSpec`) and needs no
assumption on the number of tasks: there a statement's home is the handle it
read from the slot. That the slot may be another task's is what `AtomicBlocks`
cannot say of it, and what `ReturnLeavesSlot` and `LoneClosureEnlists` are about.

**RsTransaction.** `owner`, `below`, `cur` are the closures on each task's
stack; `Return` clears the slot whatever it held; `Cancel` is a dropped future.
Rollback on drop is not an action: `Outcome(h)` says what became of a handle
that nothing references any more (`Referenced` counts the closure, the slot and
statements under way), because nothing can observe the moment of the drop.

**GilLock.** `running` is the coroutine that runs on the event loop thread, which
then holds the GIL; `queue` is the mutex, first element its holder (tokio's mutex is
fair); `phase` is the progress of what a coroutine awaits: queued for the mutex, at
the database, or waiting in `Python::attach`, which blocks its worker. A query
releases the mutex in `Answered`, a handle method only in `Attach`. `GetAlias`,
`AliasRead` and `AliasDiffers` are `get_alias` and the two branches of `__aenter__`
after it. `bystander` is any other Python thread.

**QueryCache.** One model class, so every write matters to every entry. `Key` of
a query is its template: the values are not part of the key. `Named` keys are
those callers choose with `cache(key=..)`. A `Reader` is a cached call: `Hit`, or
`Miss`, `ReadDb`, `Fill`; a `Writer` is a write: `Write`, then `ListKeys` and
`Invalidate` as the receivers of its signal, and for a write in a transaction
`EndTransaction`, which makes it visible or not. `Silent` writes (bulk insert,
bulk update, raw SQL) fire no signal. `MemoryCache` itself does not suspend
between `keys` and `delete_many`; other `AbstractCache` backends may, so the two
are separate steps. `since`, `read` and `missed` are history for the properties.
The comparison in `get` is `now > exp`, in `keys` `now < exp`: the model keeps
both (`Past`, `Listable`). `Without`, the store after `delete_many`, is a
recursive function, so that it can be proved about.

**MigrationStore.** What any runner works on: `Script` is the project's files in the
order of their stems, each a sequence of operations; `effect[a]` the operations in
effect on a database, with the schema each went to; `tracked[a]` the schemas that
have a `ryx_migrations`, `rows[a]` the stems in the one an unqualified name means.
`Accepts` is what a database makes of a statement, by its backend (`site.dialect`):
CREATE TABLE is IF NOT EXISTS and so is CREATE INDEX, which MySQL does not parse;
ADD COLUMN fails when the column is there; `alter_column` raises for SQLite
(`ddl.py:132-145`, whose column has no table); a raw SQL step in `Once` fails when
it is run again; and a pair in `site.unfit` is a column that the rows of a table do
not allow. `site` is one of `Sites`, chosen at the start and for good. `again` and
`disturbed` are history: an operation that changed something a second time, and
whether anything crashed, failed or overlapped so far. Files and operations do not
change while runs go on, and no table is dropped.

**MigrationRunner.** `pc[r]` is the call to a database that process `r` awaits
next. `Migrate` starts a run, `Visit` is the loop over aliases, `EnsureTable`,
`ReadApplied`, `OpenFile`, `RunOp` and `Record` are `_ensure_migrations_table`,
`_get_applied_migrations`, the import of a file with the filter of its
operations, one DDL statement, and `_record_migration`. A swallowed failure is a
second disjunct of the action; `Fail` is the error that ends a run, `Crash` the
end of the process between any two statements. `Visits` decides by the router
(`Route`), `Relevant` by `Meta.database` (`home`), as the code does. `LeaveAlias`
stands for the indexes, constraints and join tables that follow the files: all
are IF NOT EXISTS, their errors are swallowed, and no property reads them.

**MigrationLedger** has no runs, tables or failures: an operation meant for a
database takes effect after all before it, and a file is recorded when all of it
is in effect.

**Lookups.** A column expression is an identifier, how it was quoted, the
transforms wrapped around it and whether its outermost cast is to INTEGER; a
fragment is a column, an operator and its number of `?` characters. That is what
the resolver's text searches (`AS TEXT)`, `strftime`) and the compiler's
placeholders depend on. `ResolveSimple`, `SingleColumn` and `ChainColumn` are
the branches of `resolve`; `custom` is what `register_custom` registered.
`contains` is registered twice, so JSON containment replaces the text lookup.

**QueryTree.** A node is a record with the fields of `QueryNode`; every builder
maps a node to a node. `ParseKey` is the split of a key at `__`, from the right.
`NewQuerySet` gives a node the backend of the default pool, `RsUsing` changes the
alias only. `PlanOp` is one entry of the plan Python sends, `Keyed` its filters,
`RsStatement` and `PyStatement` the calls that end a query. Values are a type,
the items of a list and the truth `isnull` reads. A node of a Q tree carries its
`size`, one more than its children's together: what walks a tree (`Nodes`,
`CompileQ`, `Truth`, `MeansQ`) is a recursive function over the nodes below it, by
size, which the provers can follow to any depth.

**QueryCompiler.** The text of a condition is a chain of terms with the AND or OR
written before each, a term a fragment or a parenthesised chain: exactly what the
writer does with parentheses is kept, the rest of the text is not. `SingleFilter`
is `compile_single_filter` with its early returns for `isnull`, `in`, `has_any`,
`has_all` and `range`; `Compile` assembles the statement of every operation with
the values in the order they are pushed. `PlanHash` is the tuple of what
`compute_plan_hash` feeds the hasher; a collision of the hash itself is left out.

**QuerySession** is one caller: it filters by keys and trees, routes, joins,
shapes and asks. **QueryMeaning** holds the properties of the result. Where the
code departs from what a caller would expect, the property names the shape of
query for which it does, and, where that can be said exactly, claims the departure
for all of them (`<=>`): a change of the code in either direction shows.

**PlanCache.** The four steps of `compile()` on the shared map (`Check`, `Write`,
`Reuse` or `Miss`, `Store`) with `Register` at any time. A thread that saw its
hash writes no text. Queries, hash and text are parameters; `MCQueries` gives
them `QueryCompiler`'s.

**SchemaDiff.** `FieldMeta` is what the macro declares for a field, `DiffStates`
is `diff_states`, `ChangesToOperations` writes operations, `ApplyOperation` replays
one, `BuildCurrent` all files; `Detect` is `makemigrations`. A file's stem is its
number and slug.

**DdlGenerator.** A statement is its kind, the qualified table and what it says of
columns; `Accepts` and `Execute` are what the three databases make of it, and
`Introspect` is what `introspect_schema` reports: external, as far as the code's own
statements need it. `Recasts` is the types PostgreSQL changes into one another
without a USING clause, `Permits` what it says to an ALTER of a column it keeps.
`OperationToSql` is an operation's statements in the schema the generator has. A
database keeps for each table who made it (`by`), a history for the properties.

**FileRunner.** `Start` is `FileRunner::run` up to its first statement: it reads
files, records and schema at once, the window in which nothing of the run is
visible; `Step`, `RecordMigration`, `Stop` and `Finish` are the statements, one
by one. `Evolve` rebuilds the programs, `MakeMigrations` writes a file, `Arrive`
adds one of another branch. The choices of `handle_no_files` are part of a call.
`FileSql` is a file's statements: `apply_files` takes the relevant operations, each
in its own schema, the branch [A] of the menu takes all, in none (`SchemaFor`).
The tracking table is created with double quotes, which MySQL refuses, and
recorded with `INSERT OR REPLACE`, which only SQLite has.

**Backends.** `Setup` is configuration and `initialize`; `Route` picks unknown, pool
or active transaction in the order the code does; the calls are grouped by what they
do (`Reading`, `Insert`, `Modify`, `BulkCreate`, and `Refusal` for the errors).
`last` keeps the last call, what it was told and what it did. `AskRowid` is the
second statement of `bulk_create` on SQLite. `BeginBlock`, `EndBlock` and
`ReleaseSlot` are any transaction around the calls; its protocol is in the modules
above. One action stands for the same entry point of three backends; where they
differ (RETURNING, returned keys, locks) the backend of the alias decides. In this
module MySQL is taken to run with ANSI_QUOTES, for without it no statement works.

**RowValues.** A journey is a backend, a path (`execute` or `bulk_insert`), a
front end, a field's type, its column, the models registered and the values.
`WriteCell` chooses casts and stores, `DecodeRow` is `decode_row` with the registry
or by guess, `ReadField` the derived reader. What a column keeps and which Rust
types sqlx reads from it is external (`Stores` and the tables beside it).
`JourneyAssumption` says what a journey is: a column is the one made for the type of
its field (`RustColumn`, `PythonColumn`), the values suit it (`Suits`), and a struct
is written by `execute`, without a registered model. A NULL on SQLite is left
out: what that driver reads it as is not in this repository.

**CachedReads.** A cached `all()` is `Ask`, `Fetch`, `Fill`; the `ttl` of a query is
asked for and then dropped, as `set` does; writers, a
transaction closure and the clock run beside it. A stream is `Open` and
`NextChunk`. Rows come in an order the content alone determines. `past` is a
history of contents for the property. `MCServices` extends this module,
`Backends`, `RowValues` and `FileStore` and lets their parts run side by side.

**FileStore.** `Begin`, one `AskFree` for each question whether a name is free,
`Write`; `Delete` at any time. `since` is history: who wrote after a save had
chosen its name.

## 3. Runs

Each run is one question. States are distinct states found.

| run | bounds | properties | shows |
|---|---|---|---|
| `PySolo` | 1 task, 2 handles, 2 writes, 2 databases (b aborts on error), 1 user savepoint, nesting 1; or 2 cached reads, 3 writes (autocommitted, transactional, silent), 1 generated and 1 chosen key, capacity 1, lifetimes none and 1, clock to 2 | `TypeOK`, `Enlisted`, `BlocksSpec`, `StaleOnlyByRace`, `StaleForLifetimeOnly` | one task alone: statements enlist in the innermost block of their database, and the whole model implements `AtomicBlocks`; which outdated cache entries are possible, and for how long (3.0 million states) |
| `PyTasks` | 2 tasks, 2 handles, 1 write for either database, 2 databases, nesting 1 | `SlotOpen`, `LeftBlocksEnd` | concurrent blocks: the slot never names a block that was left; every block that is left ends, also when the await of its COMMIT is cancelled (861 thousand) |
| `PyChild` | a task and a child it spawns, 2 handles, 2 writes, 2 databases, 1 user savepoint | `NoLateLeak`, `AllOrNothing`, `EndedForever` | statements that arrive late: nothing leaks, nothing acknowledged is lost, nothing revives (3.6 million) |
| `Handles` | 2 tokio tasks, 2 handles, 2 writes, nesting and dropped futures; or 4 coroutines, 1 nester, 3 workers | `NoLateLeak`, `ReturnLeavesSlot`, `HandlesSpec`, `AutoRollback`, `WaitsOnlyForSql`, `ThreadsRun`, `AllAnswered` | the Rust closures: nothing leaks, a closure that returned leaves no slot behind, and the model implements `AtomicBlocks`; and with one coroutine that nests, `get_alias` keeps the interpreter for no more than one statement (47 thousand) |
| `Migrate` | 2 processes, 2 databases of 4 pairs of backends, 3 files of 8 operations (one of them SQL that cannot be run twice), 1 fault, runs whole or dry for one database | `TypeOK`, `DoneMeansApplied`, `RunsOnce`, `LedgerSpec`, `AppliedOrWedged` | overlapping and failing migration runs: success means applied, records are true, nothing runs twice without cause, and where repeating comes to rest: with everything applied, or at the first operation a database does not take (371 thousand) |
| `Queries` | mode build: Rust and Python front ends, 3 backends, 2 parts of a query out of 24 keys, 5 trees, 13 shapes, 3 aliases, 2 joins, with and without a custom lookup, 12 requests; mode cache: 2 threads, 10 queries, 3 plans written, custom lookups that change | `BoundExactly`, `ConditionMeans`, `PathHonoured`, `PartsCompareAsNumbers`, `CompiledForPool`, `AnswerExplained`, `SeenStays` | when a statement means its query, counts its values, addresses its database and is its own (756 thousand) |
| `Pipeline` | 5 projects of 2 or 3 versions, 3 databases (SQLite, PostgreSQL, MySQL), 2 programs, 2 runs of 9 kinds, 1 file of 4 from another branch, 3 files | `AppliedMeansPresent`, `KeysStayGenerated`, `LiveReachesModels`, `DetectSettles` | what Rust migrations leave behind (843 thousand) |
| `Services` | six parts side by side: calls (2 aliases of 3 configurations, 2 rows), bulk keys (2 tasks, 2 connections, 3 rows), 1 journey of a value, cached reads (1 reader, 3 queries, 2 aliases, clock to 2, capacity 1), streams (chunks of 1 to 3), files (2 savers, 2 tries, 4 saves) | `AnswersTrue`, `KeysAreOwn`, `WrittenIsRead`, `CachedAsAsked`, `StreamsWhole`, `FilesKept` | what callers of the services are told and given (995 thousand) |
| `PyTasksEnlisted` | 2 tasks, 1 database | `Enlisted` | violated: a statement of one task runs in the other's transaction |
| `PlanHash` | as `Queries` | `Fresh` | violated: a query is answered with the statement of another one |
| `PgTracking` | as `Pipeline`, 1 program | `AppliedIsTracked` | violated: off SQLite a file that was applied is not recorded, and the run ends |
| `CacheTtl` | as `Services` | `TtlHonoured` | violated: an answer comes from an entry older than the lifetime given to `.cache()` |

Why these bounds are enough for the question asked. Two handles are what a wrong
slot needs: one it should name and one it does. Two tasks are what an interleaving
needs, and the proofs of section 6 cover any number. A second write tells "all" from
"some" in atomicity; one suffices where only the slot matters. Two databases
distinguish nesting (same alias) from a second BEGIN (another). One user savepoint
gives cuts of the log before and after a write; `MaxMark` bounds the savepoints on a
log. In `Handles` the workers equal the coroutines that do not nest: with fewer the
blocked `attach` calls of the others fill every worker while `get_alias` waits, the
second half of the hazard listed for `lib.rs:722`; tokio's default is one worker per
processor. Its other half, two coroutines that nest, is left out of the run because
the code fails there (section 7). In `PySolo` a clock of 2 and a lifetime of 1 give
every order of store, expiry and read; capacity 1 with two keys makes every store
evict. The project of `MCMigrationRunner` has every kind of operation, a file for
one database only, one for both, raw SQL that can be run again and raw SQL that
cannot, and an operation the runner passes over. Of its four pairs of databases one
takes every operation, each of the others refuses one of them for ever: MySQL the
index, SQLite the changed column, a table's rows a column. One fault already divides
a run at every statement, and two processes are what an overlap needs. The proofs
cover any number of faults, processes and files.

In `Queries` a second part is what a first one can disturb (its parentheses, its
values, its alias), and the trees nest to two levels, which is where parentheses
matter; the keys are one for each early return of the compiler and each branch of
the resolver. The ten queries of the cache hold one pair for each way two queries
share a hash, the last of them two trees whose lists of children end elsewhere
(`hash_q` writes no length, `compilr.rs:286-295`). Three plans written are what a
wrong answer needs: one kept, one asked, one stored late. In `Pipeline` the second
version has each kind of change, the third moves a key; two projects change a column
in a way PostgreSQL takes, then in one it refuses (a type it has no cast for, a key
that may be NULL); two runs of two programs are one overlap; the branch files are
one for each clash (same table, same stem, a column removed, a file that cannot be
read). In `Services` the parts share no state, so side by side costs their sum. Two
rows tell a count from a flag; two connections are what `last_insert_rowid` can go
wrong between; a lifetime of 2 with a clock of 2 has an entry young, at its end and,
by a late fill, older than its answer; two tries and two suffixes exhaust the tries.

The four violated properties quote comments and documents of the
repository; `PROJECT.json` (`findings`) has each quotation and the trace in
words.

## 4. Fairness, deadlock

Only what a runtime does is fair; user code never is.

- `PyTransaction` (`FairSpec`): an await that was started is polled to its end
  (`FinishExit`, `Execute` or `Refuse`), and a handle that nothing refers to is
  dropped (`Collect`): both languages count references. User code that keeps the
  `tx` of `as tx` delays that for as long as it does; the model lets go of it with
  the block. No fairness for opening or leaving
  blocks, issuing statements, raising or catching.
- `RsTransaction` (`Fairness`): the same for statements. Rollback on drop needs none.
- `GilLock` (`GilFairness`): a coroutine returns to the loop or awaits (no endless
  Python code); tokio grants the mutex and the database answers; a thread that wants
  the GIL gets it if it is free again and again (strong fairness of `Attach` and
  `BystanderRuns`), because CPython makes the holder give way after its switch
  interval. No fairness for `Resume`.
- `MigrationRunner` (`RetrySpec`): a run that began makes its next call, and
  somebody runs `migrate` in full again and again. The second is no promise of
  the code but the operator's part in `AppliedOrWedged`; it is strong fairness
  because processes are now and then busy with a partial run.

The other modules state safety only; their specifications have no fairness.

`CHECK_DEADLOCK FALSE` stands in `Handles`, `PySolo`, `Queries`, `PlanHash`,
`Pipeline`, `PgTracking`, `Services` and `CacheTtl`: there the statements, calls,
reads, runs or saves are finite, and a behaviour ends when all are done. The
coroutines of `Handles` never are; a standstill there shows in `AllAnswered`. In
`PyTransaction` a task can always raise and catch, in `MigrationRunner` start
another run: there deadlock is checked.

## 5. Mutations

Beside a definition that models code stands, where a property relies on it, a
variant with a plausible bug (marked "Mutation" or "mutant" in its comment): a
dropped check, a slot not restored, a savepoint or guard kept too long, an
off-by-one. No specification uses them. Each property of each passing run fails when
its variant replaces the definition; `PROJECT.json` (`mutants`) pairs them.

## 6. Proofs

`PyTransactionProofs` (for any finite or infinite sets of tasks, handles,
writes, databases, marks and any bounds, under the named assumptions of the
constants, which TLC evaluates in every run):

1. `TypeCorrect`. `TypeOK` is not inductive: `Execute` appends `current[t]` to a
   log, which is an entry only because a task awaiting a statement has one.
   `TypeInv` adds `Awaiting`: a task in `stmt` has a statement, one in `commit`
   or `rollback` has a handle it leaves.
2. `SlotNeverDangles` (`SlotOpen`): the slot names `None` or a block that is
   open, whatever the interleaving, as long as no task was spawned. Needs
   `BlockStack`: each task's open handles form a stack linked by `prev`, so
   what `ExitBlock` restores is again open and its own. Handle identities are
   fresh (`UsedForGood`).
3. `NoWriteLeaks` and `Atomicity`, by one invariant, `WriteInv`: where each
   write is. A write that is durable ran on the pool or is on the log of a
   committed handle; a write on a log read that handle from the slot; the log of
   a committed handle is durable in whole. These hold with children, too.
4. `NoRevival` (`EndedForever`), an action property: no operation of an ended
   handle changes it.
5. `LoneTaskEnlists`: with one task, `ctx` and slot agree between steps (`Alone`),
   so a statement is enlisted where it was issued. This is where the code is
   right; `PyTasksEnlisted` is where two tasks part the two notions.
6. `LoneTaskRefines`: with one task, no bulk and no cross-database statements,
   `PyTransaction` implements `AtomicBlocks`: initial states map to initial
   states, and each action to one of the abstract actions or a stutter
   (`StepBlocks`). `LoneInv` supplies that the handle a statement read is its
   home.

`BindingProofs`, on `GilLock`: `OneNesterNoStandoff` (`WaitsOnlyForSql`), for any
coroutines and workers and at most one nester. `QueueInv` says the mutex queue holds
no waiter twice and exactly the coroutines that are queued, at the database, or
attaching with the mutex; `RunInv` ties the loop's place in the queue to `inAlias`,
and the running coroutine to an idle phase. With one nester the loop thread in
`get_alias` is that nester, so no handle method can hold the mutex.

`MigrationRunnerProofs`, for any files, databases, processes and faults.
`TypeCorrect` needs no more than the constants' assumptions. The others assume
`OneSchema` (there is no schema but the public one; section 7 says what
happens otherwise) and `DistinctStems` (no two files have one stem, which is
their only identity in the tracking table):

1. `DoneRunsApplied` (`DoneMeansApplied`) and `RunnerRefines` (`LedgerSpec`), by
   one invariant, `LedgerInv`. That recorded files are in effect is not
   inductive: a run skips what it read as recorded, so one must know for each
   run that what it passed over is in effect, be it a file it no longer has to
   do (`PassedInv`), an operation of the current file (`OpsInv`), the file it is
   about to record (`RecordInv`) or a database it has been to (`VisitedInv`).
   Nothing is ever taken out of effect, so other runs cannot break any of it.
   `RunnerRefines` then maps `RunOp` and `Record` to the two abstract actions
   and every other step to a stutter.
2. `AppliedInOrder`: the ledger's own invariants (`LedgerPromises`), carried over
   to the runner by the refinement.
3. `OperationsRunOnce` (`RunsOnce`), by `CalmInv`: while nothing was disturbed
   there is one run at a time, and an operation in effect is recorded or was run
   by that run in the file it is at. This is where a record that goes missing,
   or a read that sees too little, would show.

`BindingProofs`, on `PlanCache`, for any threads, queries, lookups, hash and text
(the operators `KeyOf` and `SqlOf` are parameters). `IInv`: every plan was written
for a query of its hash (`PlanOrigin`); a thread past its walk carries the text it
wrote, or saw its hash (`Carried`); `SeenStays`; `AnswerOrigin`.

1. `HitsAreKept` (`SeenStays`): the walk of a thread that saw its hash writes
   nothing, so it must find a plan. It does because nothing ever leaves the
   cache; with eviction an empty statement would be stored, as the mutation shows.
2. `AnswersAreOwn`: an answer was written for a query of the same hash.
3. `SoundHashIsFresh`: if queries of one hash have one text under all lookups
   (`SoundHash`), every answer is right (`Fresh`). The run `PlanHash` violates
   `Fresh` because the hash is not sound; nothing else is wrong with the cache.

`BindingProofs`, on queries (`QuerySession`, `QueryCompiler`, `QueryMeaning`), for any
keys, values, lookups registered, pools, requests and trees of any depth. The
assumptions on the constants say what the front ends give: keys and values are
lists where the code has vectors, custom lookups have a number of `?`, trees are
those that Q's constructors build (`IsNode`, closed under children), pools are on
one of the three backends, and "" names none.

1. `SessionInvariant` (`SInv`): what is in the making and what was asked for are
   well-formed (`Sound`): every part of a node is there, its conditions are
   conditions that were parsed from a key, its tree is a finite tree of them with
   one child under each NOT, nothing ever adds a HAVING, and its backend is its
   pool's. Every builder keeps this (`PlanOp` by an induction along a plan), and
   the conditions are what all that follows is about.
2. `StatementsFitPools` (`CompiledForPool`), by `OnPool`.
3. `ValuesFitPlaceholders` (`BoundExactly`). For one condition, each early return of
   `compile_single_filter` and each branch of the registry is compared with
   `Miscounted` (`SingleBalance`): it is off exactly there. Balanced chains stay
   balanced under parentheses, NOT and joining (`Balanced`), which gives a list
   of conditions, a tree by induction on its size (`TreeFits`), and the WHERE
   clause; to that come assignments, vectors and the clauses without values.
4. `ConditionsKeepTheirMeaning` (`ConditionMeans`). What a chain is worth for a choice
   of true atoms depends on where its atoms are counted from, so the invariant
   is about readings (`Reading`: from the number of the first atom, the truth and
   the next number). A tree's chain has the tree's reading (`TreeReads`) if no
   node of it is of the excepted shapes (`Sane`). The heart is `PartsRead`: what
   one word joins reads as that Boolean operation because every part is a single
   term; this is what the parentheses of `compile_q` are for, and where an empty
   "or" and the loose alternatives of SQLite have to be excepted.
5. `PathsReachColumns` (`PathHonoured`) and `NumbersCompareAsNumbers`
   (`PartsCompareAsNumbers`): every atom of the clause is the test of one condition
   (`AtomsAre`), whose column is the column of the key with steps wrapped around
   it (`Applied`, `Wrapped`): those of the path, of the chained lookup, or of the
   last name, each written once. Two numbers compare as texts exactly when the
   column was not cast, which the proofs decide by the shape of the key.

The recursive functions (`Total`, `FlattenSeq`, `Nodes`, `CompileQ`, `Truth`,
`MeansQ`, the walks along a chain) are CHOOSE expressions to the provers: for each,
the function is shown to exist, by `Induction` on lengths or sizes, and then
obeys its definition.

Three of these properties say more than the menu of `MCQueries` can show, because
only the proof met the case: `BoundExactly` counts a list inside a list (which binds
nothing) and excepts a list assigned to a column; `PathHonoured` says of a chained
lookup that it keeps the key of the path only behind a step `key` of its own;
`PartsCompareAsNumbers` excepts custom lookups and chained ones, and lets any part
that is cast, not only the last, make the compare one of numbers.

`RsTransactionProofs`, for any tasks, handles, writes and databases, with or
without nested closures and dropped futures; it shares the lemmas on the handle
in `TransactionHandleProofs` with the Python blocks.

1. `TypeCorrect` (`RsTypeOK`), strengthened by `Awaiting` as above.
2. `ReturnClearsSlot` (`ReturnLeavesSlot`), by `SlotNamed`: a handle in the slot
   was begun, and its closure has not returned unless a future was dropped. It
   holds because `Return` clears the slot whatever it held; that this may be
   another closure's handle is the hazard at `transaction.rs:39`.
3. `NoWriteLeaks` (`NoLateLeak`), by `WritePlaces`: a write on a log was
   acknowledged and read that handle; a durable one ran on the pool or on a
   handle that committed. Both survive a `Cancel` between any two steps.
4. `HandlesRefine` (`HandlesSpec`): the closures implement `AtomicBlocks`, with no
   assumption on how many tasks there are. `SlotNamed` gives that a statement
   enlists in a block that was begun.
5. `LoneClosureEnlists`: one task that neither nests nor is dropped runs its
   statements where its closure is.

`QueryCacheProofs`, for any readers, writers, keys, lifetimes, capacity and clock.
What `delete_many` leaves is a recursive function of the store, so its facts
(`WithoutKeys`: what is left is part of the store, one entry per key, none of the
deleted ones) need an induction; `Induction` obtains one for sets of naturals
from the library's theorem that `<` on them is well founded.

1. `TypeCorrect`: the store is never longer than its capacity and holds no key
   twice (`Stock`), whichever entries a call touches, replaces or evicts.
2. `StaleOnlyRaces` (`StaleOnlyByRace`). Every entry is explained: a write it
   lacks is silent, in a transaction, came to while the entry's read was under
   way (`missed`), or is about to invalidate it (`Doomed`). Inductive with
   `CommitsLater`: only writes in transactions wait for a commit.
3. `StaleForAWhile` (`StaleForLifetimeOnly`), an action property, by `ReadInv`: what
   was read at a time lacks only writes that came to since then.
4. `OwnWithoutValues`: with one parameter a call gets its own query's answer. This
   is the exact side of the hazard at `cache.py:277`: nothing but the missing
   values mixes answers up.

`ServicesProofs` covers `FileStore`, `CachedReads`, `Backends` and `RowValues`, each
with its own specification (`MCServices` only lets them run side by side), for
any users, names, keys, aliases, connections, journeys and bounds.

1. `FilesAreKept` (`FilesKept`). The invariant `StoreInv` says of a save about to
   write that its name is free, or was written by a save it has heard of since
   it chose, or that it is out of tries; contents are numbered, so a writer is
   never taken for another.
2. `CachedIsAsAsked` (`CachedAsAsked`), by `ReadsInv`: an entry, and an answer not
   stored yet, is what the alias it names held at its time or later. Entries
   filled inside an open closure, or through an alias that is not its name, are
   the ones left out, as in the property.
3. `StreamsAreWhole` (`StreamsWhole`), by `StreamInv`: as long as its table did not
   move, an open stream has seen exactly the rows before its place.
4. `CallsAreTrue` (`AnswersTrue`), by `PoolsOK`: before the setup there is nothing to
   be told, and an open block is on a pool there is.
5. `KeysAreTheirOwn` (`KeysAreOwn`), by `KeysInv`. A batch that asks for
   `last_insert_rowid` gets it from the pool, so from any connection. What saves
   it is `Remembers`: what a connection remembers is the end of a batch or a row
   inserted alone, so a batch that asks a connection that ran a row of its own
   finds its own last row. `Own` and `Fresh` say which rows are a batch's,
   `RowsOK` that ids are positions.
6. `ValuesAreRead` (`WrittenIsRead`). `ToldIs` restates the exceptions as what is left
   of a journey (`Faithful`): it has no cast, or one guessed from a text that goes
   into a text column (`CastIs`). So each database keeps the text it was given,
   in a class the column and the value decide (`KeptIs`); `TypesIs` says which Rust
   types read that class, `DecodePython` and `DecodeRust` that the first type the
   decoder tries is one of the field's kind, and that the struct's reader takes
   it. `TripInv` carries this along the journey, of which only the last value of
   a batch matters, once none of the others is refused (`StoredIs`).

`FileRunnerProofs`, for any projects, versions, files, databases, calls, programs
and bounds. The assumptions on the constants (in `FileRunner`) say what any
project and any file that parses is: lists of entries with lists of columns, the
operations of `operations.rs`, one column in an `AddField` and two in an
`AlterField` (the old and the new one), no file whose stem is
the mark of a live run, calls for configured databases. The work of a run is
put together by `FlattenSeq` and `FoldLeft`, recursive functions on sequences that
the library defines and says nothing about: `FlatIs`, `FlatList`, `Selected` and
`WithIs` obtain from `Induction` what the proofs need of them (the elements of a
joined list are those of its parts, in order), and `DiffIsList`, `OpsAre`,
`GenerateIs` and `LiveWorkIs` carry it through detection and generation.
`NextTypes` (`FileTypes`) is the type invariant: files parse, tables have columns,
the work of a run is a list of statements and records.

1. `FirstFileAlone` (`OnlyFirstFileReaches`), the extent of what `PgTracking` shows:
   off SQLite nothing but one file ever reaches a database. What holds of every
   step is that there
   is a finite set of stems, no larger than the arrivals and one, with the first
   file's stem in it, that every table off SQLite and every statement a run there
   can still reach comes from (`Reach`). A record ends a run there, so what stands
   behind the first record (`InFront`) is never reached; a file written by
   `makemigrations` goes behind those there are, and is first only when there
   was none.
2. `AppliedStays` (`AppliedMeansPresent`). Two programs may take turns on one file,
   so how far a run got says nothing. `Lite` says instead, for every database that
   is SQLite: what a recorded file wants is in effect; in the work of every run, a
   record comes after a statement for whatever of its file is not in effect yet
   (`Promised`); and a table has all the columns that the file that made it
   creates it with (`Owned`). Nothing on SQLite takes a column away: `RemoveField`
   is left out there. The theorem assumes `OneShape`: a file does not create one
   table twice, for one database, with different columns. The second creation
   would be skipped by `IF NOT EXISTS` and the file recorded all the same, so
   without it the property fails; `makemigrations` writes only such files
   (`WrittenIs`), so it is an assumption on the files that arrive from elsewhere.
   Off SQLite nothing is ever recorded, so nothing is promised.
3. `KeysStay` (`KeysStayGenerated`), by `Keys`. On PostgreSQL a table, and a statement
   that makes one, has a default other than `nextval` on a key column only with
   an excuse: a live difference was taken of the schema (`diffed`), or a readable
   file changes that default. A new table generates its key, an added column is
   no key, and `ALTER COLUMN` comes from a file's `AlterField`, which is the excuse,
   or from a live difference, which recorded its schema when it was taken. The
   branch [A] of the menu applies the first file of all in no schema, but that file
   only creates tables (`FirstAltersNothing`). The
   property speaks of the tables, the invariant also of all the work still to be
   done, for a statement runs long after the file or the difference it came from.
4. `DetectionSettles` (`DetectSettles`): what `MakeMigrations` writes, replayed behind
   whatever files are there, gives the models, so the next detection writes
   nothing. The proof looks at one column `c` of one table `t` of the models at a time.
   `DiffIs` and `OperationsAre` say which operations are written and in what order;
   `OpFits`, that none of them makes anything of that column but `c`. The replay
   is a recursive function over operations inside one over files; `OpsSteps` and
   `FilesSteps` (by `Induction`) reduce it to single operations. One of them
   (`OneStep`) loses no column, keeps `c` where it is already as declared, adds
   nothing else under its name (`Steps`), and does what it is written for (`Done`)
   because what it is about is there (`Grounded`): a table known before, or one
   created by an earlier operation of the same file (`OpsThere`). `OpsSettle` puts
   this together, `BuildMore` says that the written file is replayed last, and
   `NothingLeft` that a state which shows every column as declared differs in
   nothing. The invariant is `FileTypes` with `AreShaped`: the operations of
   every file parse. The three exceptions are used where they bite: a key flag
   that moves is not carried by `AlterField` (`Altering`); a table name new in one
   schema keeps the columns of its namesake in another from being added
   (`PlainAdds` goes by the name alone, `NewNames`); and of a column declared twice
   with two definitions no state shows both. The last one was found by the proof:
   no project of `MCPipeline` declares a column in two ways.

Only model-checked:

- liveness (`LeftBlocksEnd`, `AutoRollback`, `ThreadsRun`, `AllAnswered`,
  `AppliedOrWedged`), which is outside TLAPS;
- `MCQueries.AnswerExplained`, which says of the menu of queries in that module which
  of them share a hash; what holds of any queries and any hash is `AnswersAreOwn`
  and `SoundHashIsFresh`;
- `FileRunner`'s `LiveReachesModels`: what running all statements of a live
  difference one after the other leaves, column by column, on three databases
  that each refuse other statements. `DetectionSettles` is the same argument for
  the replay, where nothing is refused and nobody else takes a turn. The property
  is about tables without rows: a NOT NULL column without a default is refused
  by PostgreSQL, too, once there are rows. It says of the types and defaults a
  model may name only that the server takes them.

## 7. What the models leave out

Left out:

- Error texts, wording and layout of SQL, the rewriting of `?` to `$n` (which
  also rewrites the `?` of PostgreSQL's JSON operators: `BoundExactly` counts
  them as placeholders). Outside `RowValues` and `QueryTree` a write or a row is
  an identity.
- Reads in transactions in `QueryCache` (a read inside a block may fill the cache
  with uncommitted rows; `CachedReads` has this for Rust), isolation levels, and
  lock waits inside the databases.
- COMMIT with an unknown outcome (connection lost after the server committed) is
  modelled as a rollback. A failure to obtain a connection: BEGIN raises and
  nothing changes. Waiting for a connection of a full pool.
- `release_savepoint`: no caller reaches it. `delete` and `clear` of the Rust
  cache, and its Redis backend. The Python storages and streams.
- Cancellation of an awaited operation in `GilLock`.
- Python migrations without files (the interactive choice and live DDL) and the
  Python detector. A router that moves a model away from its `Meta.database` is
  in the model of the runner but in no run. What a table's rows do to a statement
  is fixed (`site`): rows do not come and go between two runs.
- Constraints and foreign keys in Rust DDL, and the older runner at the end of
  `ryx-rs/src/migration.rs`, whose work `FileRunner`'s live run repeats.
- Collisions of the 64 bit hash of the plan cache; name collisions of columns.
- Models, relations, fields and validators, signals' weak references, the symbol
  interner, command lines and data types. Fields, validators, command lines and
  data types have no shared state and no order of events, and unit tests reach
  them; models and relations are sequences of single statements around user
  code, whose hazards are listed in `PROJECT.json`.

In the model, without a property or run of its own, because the code does not do
what a reader may expect and the run would only say so again:

- A bulk write in a block that rolls back stays (`Issue` with kind `bulk`):
  `ryx-python/tests/integration/test_transactions.py:141-154` expects otherwise.
  `BulkRolledBack` states that expectation; with `Kinds = {"query", "bulk"}` in
  `PySolo` TLC violates it.
- A migration run for a tenant's schema takes the records of the public schema
  for its own and applies nothing, against
  `docs/doc/advanced/postgres-multi-schema.mdx:205`: `DoneMeansApplied` fails in
  `Migrate` with a second member of `Schema` and `Call <- TenantCalls`.
- The key of the Python cache lacks values and alias, against
  `docs/doc/advanced/caching.mdx:107-110`. `OwnAnswer` states it; it fails in
  `PySolo` with two members of `Param`.
- "If a query takes 100ms to execute on the database, the GIL is **not held** for
  those 100ms, allowing other Python threads to continue running"
  (`docs/doc/internals/performance.mdx:75`): a coroutine that opens a nested block
  keeps the GIL in `get_alias` (`lib.rs:722`) for as long as another's statement on
  the handle takes. `GilFreeInSql` states the claim; it fails in `Handles`. With two
  members of `Nester` `ThreadsRun` fails there, too, and for good: savepoint, commit
  and rollback ask for the GIL with the handle's mutex held (`lib.rs:731-778`), while
  the other coroutine asks for the mutex with the GIL held.
- Statements that name another database than the open block's run on the block's
  connection, against `docs/doc/advanced/multi-db.mdx:114`, and a nested block
  that raises does not roll back to its savepoint, against
  `docs/doc/advanced/transactions.mdx:48`, because `_active_tx.reset(None)`
  raises first (`transaction.py:111`).
- A dry run, documented as "Print SQL without executing"
  (`docs/doc/advanced/cli.mdx:112`), creates the tracking table and records the
  files it finds irrelevant.
- Keys are split at the last known lookup, so a key without one keeps only its
  first name: `title__near` filters `title` exactly, and Rust's parser never
  knows custom lookups (`q.rs:9-27`).
- `count`, `delete` and `update` of a query drop its limit, offset and distinct.
- The dates of the three databases number week days differently, and some parts
  have no function on PostgreSQL (`TIME(col)`, `EXTRACT(ISOWEEK ..)`).
- On MySQL the Rust file runner never starts: its tracking table is created with
  double quotes.
- A stream given the column of a keyset, "efficient, stable across data changes"
  (`ryx-rs/src/stream.rs:9`), pages by LIMIT and OFFSET all the same: `next_chunk`
  never reads `keyset`. The model has the one mode there is.
- `InsertBuilder::save`, which "executes the INSERT and returns the model instance"
  (`docs/doc/rust/crud/creating.mdx:20`), reports an error after its row is in when
  the model has more columns than `RETURNING` gives back; `AnswersTrue` exempts it.

## 8. Plan

Done: the transaction modules, `GilLock`, `QueryCache`, the Python migrations;
then the query modules with `PlanCache`, the Rust migrations, `Backends`,
`RowValues`, `CachedReads`, `FileStore`; and the proofs of section 6.

What is left, most useful first:

1. Proofs: the live difference (`LiveReachesModels`), along the lines of
   `DetectionSettles`, and which files `Pending` may leave out.
2. Connections: a pool with a limit, the connection a block keeps and the second
   one a bulk operation in it asks for, timeouts. Theorem: no connection is held
   by two.
3. The steps of `Model.save()` and their failures; `get_or_create` in two tasks;
   `ManyToManyManager.set`; forward keys and their cached objects.
4. The batches of `bulk_update` (`bulk.py:349` executes once with the keys of the
   last), the Python stream (`queryset.py:1344`), the Python storages
   (`storage.py:157`).
5. The lock protocols of the symbol interner (`symbols.rs:34`) and the model
   registry. Theorems: a symbol has one name; no wait in a circle.
6. Signals and the Python configuration; a `Migrate` run with a router
   (`runner.py:198`).
