----------------------------- MODULE FileRunner -----------------------------
(***************************************************************************)
(* The Rust migrations: Autodetector::run writing files, FileRunner::run     *)
(* applying them or the live difference (ryx-rs/src/migration/runner.rs).     *)
(* Programs are rebuilt with other models, files arrive from other branches, *)
(* runs overlap and stop between two statements.                             *)
(*                                                                         *)
(* A run reads files, applied names and schema when it starts and then       *)
(* executes one statement after another.                                     *)
(***************************************************************************)
EXTENDS DdlGenerator

CONSTANTS
  Process,     \* programs that run migrations
  Backend,     \* the configured databases: alias -> backend
  Projects,    \* sequences of versions; a version is a sequence of ModelEntry
  Branches,    \* files that may arrive from elsewhere
  Calls,       \* [alias, schema, live, choice, dry] a run is started with
  MaxArrivals, \* files that arrive
  MaxStarts,   \* runs that are started
  MaxFiles     \* files makemigrations writes to

ASSUME BackendAssumption == \A a \in DOMAIN Backend : Backend[a] \in {PG, MY, LITE}

ASSUME ProjectAssumption ==
  \A versions \in Projects :
    /\ IsList(versions) /\ versions # <<>>
    /\ \A entries \in Range(versions) :
         /\ IsList(entries)
         /\ \A e \in Range(entries) :
              /\ e = [table |-> e.table, database |-> e.database, schema |-> e.schema, columns |-> e.columns]
              /\ IsList(e.columns) /\ \A c \in Range(e.columns) : IsColumn(c)

\* Any file that parses is such a list; no file's stem is the mark of a live run
ASSUME BranchAssumption ==
  \A f \in Branches :
    /\ f.stem # <<"live">>
    /\ IsList(f.ops)
    /\ \A op \in Range(f.ops) :
         /\ op.kind \in OperationKinds
         /\ IsList(op.columns) /\ \A c \in Range(op.columns) : IsColumn(c)
         /\ op.kind = "AddField" => DOMAIN op.columns = {1}
         /\ op.kind = "AlterField" => DOMAIN op.columns = {1, 2}

ASSUME CallsAssumption ==
  \A c \in Calls : c.alias \in DOMAIN Backend /\ c.choice \in {"L", "A", "S", "none"}

VARIABLES
  project,  \* the project
  version,  \* the version the programs are built from
  files,    \* the migration files, as discover_migration_files orders them
  dbs,      \* alias -> database
  ledger,   \* alias -> stems recorded in ryx_migrations
  runs,     \* process -> the run under way
  diffed,   \* <<alias, schema>> a live difference was taken of, tables known
  budget    \* arrivals and starts so far

vars == <<project, version, files, dbs, ledger, runs, diffed, budget>>

Alias == DOMAIN Backend
Entries == project[version]
NoRun == [running |-> FALSE, alias |-> "", todo |-> <<>>]

Init ==
  /\ project \in Projects
  /\ version = 1
  /\ files = <<>>
  /\ dbs = [a \in Alias |-> EmptyDatabase(Backend[a])]
  /\ ledger = [a \in Alias |-> {}]
  /\ runs = [p \in Process |-> NoRun]
  /\ diffed = {}
  /\ budget = [arrivals |-> 0, starts |-> 0]

-----------------------------------------------------------------------------
(* The models are edited and the programs rebuilt.                          *)
Evolve ==
  /\ version < Len(project)
  /\ version' = version + 1
  /\ UNCHANGED <<project, files, dbs, ledger, runs, diffed, budget>>

(* Autodetector::run                                                        *)
MakeMigrations ==
  LET ops == Detect(files, Entries)
  IN /\ Len(files) < MaxFiles
     /\ ops # <<>>
     /\ files' = Written(files, ops)
     /\ UNCHANGED <<project, version, dbs, ledger, runs, diffed, budget>>

(* A file of another branch, or one written by hand, is added.              *)
Arrive(f) ==
  /\ budget.arrivals < MaxArrivals
  /\ budget' = [budget EXCEPT !.arrivals = @ + 1]
  /\ \E i \in Places(files, f) : files' = InsertAt(files, i, f)
  /\ UNCHANGED <<project, version, dbs, ledger, runs, diffed>>

-----------------------------------------------------------------------------
(* What a run will do.                                                      *)

Sql(s, by) == [do |-> "sql", statement |-> s, by |-> by]
Note(stem) == [do |-> "record", stem |-> stem]

\* FileRunner::build_target: the runner's schema replaces that of every model
Target(schema) == MapTo(BuildTarget(Entries), LAMBDA t : [t EXCEPT !.schema = schema])

LiveChanges(a, schema) == DiffStates(Introspect(Backend[a], dbs[a], schema), Target(schema))

\* run_live
LiveStatements(a, schema) ==
  Generate([backend |-> Backend[a], schema |-> schema], LiveChanges(a, schema))

\* operation_is_relevant
Relevant(op, a) == op.database \in {"", a}

\* apply_files runs an operation in the schema it names; [A] in none
SchemaFor(op, relevant) == IF relevant THEN op.schema ELSE ""

\* A file's statements: apply_files takes the relevant operations, [A] all
FileSql(f, a, schema, relevant) ==
  LET gen == [backend |-> Backend[a], schema |-> schema]
  IN Collect(Select(f.ops, LAMBDA op : relevant => Relevant(op, a)),
             LAMBDA op : OperationToSql(In(gen, SchemaFor(op, relevant)), op))

\* Mutation: a file is recorded first
FileItemsRecordFirst(f, a, schema, relevant) ==
  <<Note(f.stem)>> \o MapTo(FileSql(f, a, schema, relevant), LAMBDA s : Sql(s, f.stem))

FileItems(f, a, schema, relevant) ==
  MapTo(FileSql(f, a, schema, relevant), LAMBDA s : Sql(s, f.stem)) \o <<Note(f.stem)>>

\* apply_files: what is not recorded and can be read
Pending(a) == Select(files, LAMBDA f : f.stem \notin ledger[a] /\ f.readable)
FileTodo(a, schema) == Collect(Pending(a), LAMBDA f : FileItems(f, a, schema, TRUE))

\* run: a live difference, the files, or with no file what handle_no_files
\* offers.  [A] detects for every model, with the schema of the runner where
\* the model was given it, writes the file and applies all of it.
Captured(schema) == MapTo(Entries, LAMBDA e : IF e.schema = "" THEN [e EXCEPT !.schema = schema] ELSE e)

Generates(c) == /\ ~c.live /\ files = <<>> /\ c.choice = "A"
                /\ LiveChanges(c.alias, c.schema) # <<>>
                /\ Detect(files, Captured(c.schema)) # <<>>

IsLive(c) == c.live \/ (files = <<>> /\ c.choice = "L")

Todo(c) ==
  IF IsLive(c) THEN MapTo(LiveStatements(c.alias, c.schema), LAMBDA s : Sql(s, <<"live">>))
  ELSE IF files # <<>> THEN FileTodo(c.alias, c.schema)
  ELSE IF Generates(c)
       THEN FileItems(Written(files, Detect(files, Captured(c.schema)))[1], c.alias, "", FALSE)
  ELSE <<>>

\* ensure_tracking_table: its double quotes are no name on MySQL
Tracks(a) == Backend[a] # MY

Start(p, c) ==
  LET items == Todo(c) IN
  /\ ~runs[p].running
  /\ budget.starts < MaxStarts
  /\ budget' = [budget EXCEPT !.starts = @ + 1]
  /\ IF Tracks(c.alias)
     THEN /\ runs' = [runs EXCEPT ![p] = [running |-> TRUE, alias |-> c.alias,
                                          todo |-> IF c.dry THEN <<>> ELSE items]]
          /\ files' = IF Generates(c) THEN Written(files, Detect(files, Captured(c.schema))) ELSE files
          /\ diffed' = IF IsLive(c) /\ ~c.dry /\ Introspect(Backend[c.alias], dbs[c.alias], c.schema) # <<>>
                       THEN diffed \cup {<<c.alias, c.schema>>} ELSE diffed
     ELSE UNCHANGED <<runs, files, diffed>>
  /\ UNCHANGED <<project, version, dbs, ledger>>

-----------------------------------------------------------------------------
(* The run.                                                                 *)

Doing(p) == runs[p].running /\ runs[p].todo # <<>>
At(p) == runs[p].alias

Ends(p) == runs' = [runs EXCEPT ![p] = NoRun]
Advance(p) == runs' = [runs EXCEPT ![p].todo = Tail(@)]

Step(p) ==
  LET a == At(p)
      item == Head(runs[p].todo)
  IN /\ Doing(p) /\ item.do = "sql"
     /\ IF Accepts(Backend[a], dbs[a], item.statement)
        THEN /\ dbs' = [dbs EXCEPT ![a] = Execute(Backend[a], @, item.statement, item.by)]
             /\ Advance(p)
        ELSE Ends(p) /\ UNCHANGED dbs
     /\ UNCHANGED <<project, version, files, ledger, diffed, budget>>

(* record_migration: INSERT OR REPLACE is SQLite's alone                    *)
RecordMigration(p) ==
  LET a == At(p)
      item == Head(runs[p].todo)
  IN /\ Doing(p) /\ item.do = "record"
     /\ IF Backend[a] = LITE
        THEN ledger' = [ledger EXCEPT ![a] = @ \cup {item.stem}] /\ Advance(p)
        ELSE Ends(p) /\ UNCHANGED ledger
     /\ UNCHANGED <<project, version, files, dbs, diffed, budget>>

(* A statement fails for a reason of the database's own, or the program dies. *)
Stop(p) ==
  /\ Doing(p)
  /\ Ends(p)
  /\ UNCHANGED <<project, version, files, dbs, ledger, diffed, budget>>

Finish(p) ==
  /\ runs[p].running /\ runs[p].todo = <<>>
  /\ Ends(p)
  /\ UNCHANGED <<project, version, files, dbs, ledger, diffed, budget>>

Next ==
  \/ Evolve
  \/ MakeMigrations
  \/ \E f \in Branches : Arrive(f)
  \/ \E p \in Process :
       \/ \E c \in Calls : Start(p, c)
       \/ Step(p) \/ RecordMigration(p) \/ Stop(p) \/ Finish(p)

Spec == Init /\ [][Next]_vars

-----------------------------------------------------------------------------
(* Properties.                                                              *)

OneSchemaEach(entries) ==
  \A i, j \in DOMAIN entries :
    entries[i].table = entries[j].table => entries[i].schema = entries[j].schema

OneColumnEach(entries) ==
  \A i, j \in DOMAIN entries : entries[i].table = entries[j].table =>
    \A c \in Range(entries[i].columns), d \in Range(entries[j].columns) : c.name = d.name => c = d

KeyMoved(state, entries) ==
  \E i \in DOMAIN entries : \E c \in Range(entries[i].columns) :
    LET t == [name |-> entries[i].table, schema |-> entries[i].schema]
    IN Knows(state, t) /\ HasColumn(Find(state, t), c.name) /\ ColumnOf(Find(state, t), c.name).pk # c.pk

\* What makemigrations writes, replayed after the files before it, gives the
\* models: the next makemigrations writes nothing.  Three changes come back:
\* the primary key flag, which AlterField does not carry; the columns of a
\* table in one schema while a table of the same name is new in another; and
\* a column that two models of one table declare differently.
DetectSettles ==
  [][MakeMigrations =>
       \/ Detect(files', Entries) = <<>>
       \/ KeyMoved(BuildCurrent(files), Entries)
       \/ ~OneSchemaEach(Entries)
       \/ ~OneColumnEach(Entries)]_vars

TablesAt(a, gen, op) == Named(dbs[a], Home(Backend[a], Qn(In(gen, op.schema))), op.table)

\* A file recorded for a database is in effect there: every column it creates
\* or adds exists, although files stop half way, are run again, and are run by
\* two programs at once.  A table that another file or a live run made first
\* is left as it is (IF NOT EXISTS), so only the columns of a file's own
\* tables are promised; and of two files of one stem only one is.
AppliedMeansPresent ==
  \A a \in Alias : \A f \in Range(files) :
    (/\ f.stem \in ledger[a] /\ f.readable
     /\ \A g \in Range(files) : g.stem = f.stem => g = f) =>
      \A op \in Range(f.ops) :
        op.kind \in {"CreateTable", "AddField"} /\ Relevant(op, a) =>
          \E t \in TablesAt(a, [backend |-> Backend[a], schema |-> ""], op) :
            op.kind = "AddField" \/ t.by = f.stem => Names(op.columns) \subseteq Names(t.columns)

\* "4. Execute statements -> per-backend SQL", "5. Track applied state"
\* (docs/doc/rust/core-concepts/migrations.mdx:62-63): a run that is through
\* with a file's statements records the file and goes on with the next one.
AppliedIsTracked ==
  [][\A p \in Process : RecordMigration(p) =>
       /\ Head(runs[p].todo).stem \in ledger'[At(p)]
       /\ runs'[p] = [runs[p] EXCEPT !.todo = Tail(@)]]_vars

\* How far AppliedIsTracked fails: off SQLite every run stops after the first
\* file it finds and the next begins with that file again, so the tables there
\* come from one file of the project, or one that arrived before it.
OnlyFirstFileReaches ==
  \A a \in Alias : Backend[a] # LITE =>
    Cardinality({t.by : t \in dbs[a].tables} \ {<<"live">>}) <= 1 + budget.arrivals

\* A file changes the default of a column
AltersDefault(f, t, name) ==
  \E op \in Range(f.ops) :
    /\ op.kind = "AlterField" /\ op.table = t.name /\ op.schema \in {"", t.schema}
    /\ op.columns[2].name = name /\ op.columns[1].default # op.columns[2].default

\* A generated key stays generated under every run of files, unless a file
\* says otherwise.  A live difference of a PostgreSQL schema asked for by name
\* takes the key's default for a change of the model and drops it.
KeysStayGenerated ==
  \A a \in Alias : Backend[a] = PG =>
    \A t \in dbs[a].tables : \A c \in Range(t.columns) :
      c.pk /\ c.default # "nextval" =>
        \/ <<a, t.schema>> \in diffed
        \/ \E f \in Range(files) : f.readable /\ AltersDefault(f, t, c.name)

\* The statements of a live difference, run in order on the database they
\* were computed from.
Outcome(a, schema) ==
  FoldLeft(LAMBDA o, s : IF o.ok /\ Accepts(Backend[a], o.db, s)
                         THEN [o EXCEPT !.db = Execute(Backend[a], @, s, <<"live">>)]
                         ELSE [o EXCEPT !.ok = FALSE],
           [ok |-> TRUE, db |-> dbs[a]], LiveStatements(a, schema))

\* The schema asked for is the one introspection gives tables
SeesItsTables(a, schema) == (Backend[a] = PG) <=> (schema # "")

\* SQLite is asked to add what it cannot, PostgreSQL to change what it cannot
CannotAdd(a, schema) ==
  Backend[a] = LITE /\ \E c \in Range(PlainAdds(LiveChanges(a, schema))) :
    c.column.unique \/ (~c.column.null /\ c.column.default = "")

CannotAlter(a, schema) ==
  Backend[a] = PG /\ \E c \in Range(OfKind(LiveChanges(a, schema), "AlterColumn")) :
    ~Recasts(c.old.type, c.column.type) \/ (c.old.pk /\ c.column.null)

\* No table and no column of a table is declared twice
NoTwins(entries) ==
  /\ \A i, j \in DOMAIN entries : entries[i].table = entries[j].table => i = j
  /\ \A e \in Range(entries) : Cardinality(Names(e.columns)) = Len(e.columns)

\* A live run brings a database without rows to the models.  It is stopped by
\* a column SQLite cannot add and by a type or a key PostgreSQL cannot change,
\* and by nothing else.  When it is not, every column of every model is there
\* after it, but, silently, for the tables that exist where the schema it was
\* asked for is not the one introspection reports: PostgreSQL's default
\* schema, or a schema elsewhere.  It says nothing of MySQL, and nothing of
\* models that declare a table or a column twice.
LiveReachesModels ==
  (\A p \in Process : ~runs[p].running) /\ NoTwins(Entries) =>
  \A a \in Alias, schema \in {c.schema : c \in Calls} : Backend[a] # MY =>
    LET end == Outcome(a, schema)
        home == Home(Backend[a], Qn([backend |-> Backend[a], schema |-> schema]))
    IN /\ end.ok <=> ~CannotAdd(a, schema) /\ ~CannotAlter(a, schema)
       /\ end.ok => \A t \in Range(Target(schema)) :
            \/ \E u \in Named(end.db, home, t.name) : Names(t.columns) \subseteq Names(u.columns)
            \/ ~SeesItsTables(a, schema) /\ Named(dbs[a], home, t.name) # {}
=============================================================================
