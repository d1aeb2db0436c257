----------------------------- MODULE SchemaDiff -----------------------------
(***************************************************************************)
(* Schemas of the Rust side and what turns one into another: the columns a   *)
(* derived model declares (ryx-macro/src/lib.rs), the comparison of two      *)
(* schemas (ryx-rs/src/migration.rs), the operations of a migration file and *)
(* their replay (ryx-rs/src/migration/operations.rs, autodetect.rs).         *)
(*                                                                         *)
(* A schema is a sequence of tables, a table has a sequence of columns; ""   *)
(* stands for no schema, no default and no database.                         *)
(***************************************************************************)
EXTENDS Naturals, Sequences, FiniteSets, SequencesExt

Column(name, type, null, pk, unique, default) ==
  [name |-> name, type |-> type, null |-> null, pk |-> pk, unique |-> unique, default |-> default]

IsColumn(c) ==
  c = [name |-> c.name, type |-> c.type, null |-> c.null, pk |-> c.pk, unique |-> c.unique, default |-> c.default]

\* A vector, with any elements
IsList(s) == s \in Seq(Range(s))

\* The concatenation makes TLC evaluate each element once.
MapTo(s, Op(_)) == [i \in DOMAIN s |-> Op(s[i])] \o <<>>
Collect(s, Op(_)) == FlattenSeq(MapTo(s, Op))
\* SelectSeq, with nothing in it that the provers cannot open
Select(s, Test(_)) == Collect(s, LAMBDA x : IF Test(x) THEN <<x>> ELSE <<>>)

-----------------------------------------------------------------------------
(* Declarations.                                                            *)

SqlTypes ==
  [i32 |-> "INTEGER", i64 |-> "BIGINT", f64 |-> "DOUBLE PRECISION", bool |-> "BOOLEAN",
   String |-> "TEXT", NaiveDateTime |-> "TIMESTAMP", NaiveDate |-> "DATE", Uuid |-> "UUID",
   Value |-> "JSONB", StoredFile |-> "VARCHAR(255)"]

\* A struct field: its Rust type, whether it is an Option, its #[field(...)]
RustTypeToSql(f) ==
  IF f.dbType # "" THEN f.dbType
  ELSE IF f.rust \in DOMAIN SqlTypes THEN SqlTypes[f.rust] ELSE "TEXT"

FieldMeta(f) ==
  Column(f.name, RustTypeToSql(f), "nullable" \in f.flags \/ f.option,
         "pk" \in f.flags, "unique" \in f.flags, f.default)

\* ModelEntry::from_model; the fields that hold relations are no columns
ModelEntry(table, database, schema, fields) ==
  [table |-> table, database |-> database, schema |-> schema,
   columns |-> MapTo(SelectSeq(fields, LAMBDA f : "relation" \notin f.flags), FieldMeta)]

\* Autodetector::build_target
BuildTarget(entries) ==
  MapTo(entries, LAMBDA e : [name |-> e.table, schema |-> e.schema, columns |-> e.columns])

-----------------------------------------------------------------------------
(* diff_states.  Tables are matched by schema and name; nothing is dropped.  *)

Same(t, u) == t.schema = u.schema /\ t.name = u.name
Knows(state, t) == \E i \in DOMAIN state : Same(state[i], t)
TableIndex(state, t) == SelectInSeq(state, LAMBDA u : Same(u, t))
Find(state, t) == state[TableIndex(state, t)]
HasColumn(t, name) == \E i \in DOMAIN t.columns : t.columns[i].name = name
ColumnIndex(cols, name) == SelectInSeq(cols, LAMBDA c : c.name = name)
ColumnOf(t, name) == t.columns[ColumnIndex(t.columns, name)]

NoColumn == Column("", "", FALSE, FALSE, FALSE, "")
Change(kind, t, column, old) ==
  [kind |-> kind, table |-> t.name, schema |-> t.schema, column |-> column, old |-> old]

SchemasOf(state) == {state[i].schema : i \in DOMAIN state}

DiffStates(current, target) ==
  LET new     == Select(target, LAMBDA t : ~Knows(current, t))
      known   == Select(target, LAMBDA t : Knows(current, t))
      schemas == SetToSeq(SchemasOf(target) \ (SchemasOf(current) \cup {""}))
      Add(t, cols) == MapTo(cols, LAMBDA c : Change("AddColumn", t, c, NoColumn))
      Missing(t) == Select(t.columns, LAMBDA c : ~HasColumn(Find(current, t), c.name))
      Altered(t) == Select(t.columns, LAMBDA c : /\ HasColumn(Find(current, t), c.name)
                                                    /\ ColumnOf(Find(current, t), c.name) # c)
  IN MapTo(schemas, LAMBDA s : Change("CreateSchema", [name |-> "", schema |-> s], NoColumn, NoColumn))
     \o MapTo(new, LAMBDA t : Change("CreateTable", t, NoColumn, NoColumn))
     \o Collect(new, LAMBDA t : Add(t, t.columns))
     \o Collect(known, LAMBDA t : Add(t, Missing(t)))
     \o Collect(known, LAMBDA t :
          MapTo(Altered(t), LAMBDA c : Change("AlterColumn", t, c, ColumnOf(Find(current, t), c.name))))

OfKind(changes, kind) == Select(changes, LAMBDA c : c.kind = kind)
NewTables(changes) == {c.table : c \in Range(OfKind(changes, "CreateTable"))}

\* The columns a new table is given: those added to any table of its name
ColumnsFor(changes, table) ==
  MapTo(Select(OfKind(changes, "AddColumn"), LAMBDA c : c.table = table), LAMBDA c : c.column)

\* The columns added to tables that no new table shares its name with
PlainAdds(changes) ==
  Select(OfKind(changes, "AddColumn"), LAMBDA c : c.table \notin NewTables(changes))

-----------------------------------------------------------------------------
(* Operations of a migration file.                                          *)

OperationKinds == {"CreateTable", "AddField", "RemoveField", "AlterField",
                   "CreateIndex", "DeleteIndex", "RunSQL", "CreateSchema"}

\* Operation::database: the last three kinds have none and run everywhere
Operation(kind, table, schema, columns, database) ==
  [kind |-> kind, table |-> table, schema |-> schema, columns |-> columns,
   database |-> IF kind \in {"RemoveField", "DeleteIndex", "RunSQL"} THEN "" ELSE database]

\* find_entry goes by the table's name alone
DatabaseOf(entries, table) ==
  LET i == SelectInSeq(entries, LAMBDA e : e.table = table) IN IF i = 0 THEN "" ELSE entries[i].database

ChangesToOperations(changes, entries) ==
  LET Op(kind, c, cols) == Operation(kind, c.table, c.schema, cols, DatabaseOf(entries, c.table))
  IN MapTo(OfKind(changes, "CreateSchema"), LAMBDA c : Operation("CreateSchema", "", c.schema, <<>>, ""))
     \o MapTo(OfKind(changes, "CreateTable"), LAMBDA c : Op("CreateTable", c, ColumnsFor(changes, c.table)))
     \o MapTo(PlainAdds(changes), LAMBDA c : Op("AddField", c, <<c.column>>))
     \o MapTo(OfKind(changes, "AlterColumn"), LAMBDA c : Op("AlterField", c, <<c.old, c.column>>))

\* Mutation: the replay forgets the default too
AlteringNoDefault(col, new) ==
  [col EXCEPT !.type = new.type, !.null = new.null, !.unique = new.unique]

\* The column after an AlterField: the primary key flag is not copied
Altering(col, new) ==
  [col EXCEPT !.type = new.type, !.null = new.null, !.unique = new.unique, !.default = new.default]

TableOf(op) == [name |-> op.table, schema |-> op.schema]

OnTable(state, op, Edit(_)) ==
  LET i == TableIndex(state, TableOf(op)) IN IF i = 0 THEN state ELSE [state EXCEPT ![i].columns = Edit(@)]

AlterIn(cols, old, new) ==
  LET i == ColumnIndex(cols, old.name) IN IF i = 0 THEN cols ELSE [cols EXCEPT ![i] = Altering(@, new)]

\* One operation of apply_operations
ApplyOperation(state, op) ==
  CASE op.kind = "CreateTable" ->
         Append(Select(state, LAMBDA t : ~Same(t, TableOf(op))),
                [name |-> op.table, schema |-> op.schema, columns |-> op.columns])
    [] op.kind = "AddField" -> OnTable(state, op, LAMBDA cols : cols \o op.columns)
    [] op.kind = "RemoveField" ->
         OnTable(state, op, LAMBDA cols : Select(cols, LAMBDA c : c.name # op.columns[1].name))
    [] op.kind = "AlterField" -> OnTable(state, op, LAMBDA cols : AlterIn(cols, op.columns[1], op.columns[2]))
    [] OTHER -> state

\* apply_operations
ApplyOperations(state, ops) ==
  LET after[k \in 0 .. Len(ops)] == IF k = 0 THEN state ELSE ApplyOperation(after[k - 1], ops[k])
  IN after[Len(ops)]

\* build_current: files in their order, those that do not parse left out
BuildCurrent(files) ==
  LET after[i \in 0 .. Len(files)] ==
        IF i = 0 THEN <<>>
        ELSE IF files[i].readable THEN ApplyOperations(after[i - 1], files[i].ops) ELSE after[i - 1]
  IN after[Len(files)]

Detect(files, entries) ==
  ChangesToOperations(DiffStates(BuildCurrent(files), BuildTarget(entries)), entries)

-----------------------------------------------------------------------------
(* Files.  A stem is a number and a slug; files are found in every directory *)
(* below the one searched, ordered by stem.                                  *)

NextNumber(files) == FoldLeft(LAMBDA n, f : IF f.stem[1] > n THEN f.stem[1] ELSE n, 0, files) + 1

SlugOf(ops) ==
  LET op == ops[1]
  IN <<op.kind, op.table>> \o (IF op.kind \in {"AddField", "AlterField", "RemoveField"}
                               THEN <<op.columns[Len(op.columns)].name>> ELSE <<>>)

MigrationFile(stem, ops, readable) == [stem |-> stem, ops |-> ops, readable |-> readable]

\* Where a file may come: numbers ascend, the order of equal ones is open
Places(files, f) ==
  {i \in 1 .. Len(files) + 1 :
     /\ \A j \in 1 .. i - 1 : files[j].stem[1] <= f.stem[1]
     /\ \A j \in i .. Len(files) : files[j].stem[1] >= f.stem[1]}

\* write_migration_file
Written(files, ops) ==
  Append(files, MigrationFile(<<NextNumber(files)>> \o SlugOf(ops), ops, TRUE))
=============================================================================
