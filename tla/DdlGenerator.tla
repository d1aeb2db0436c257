---------------------------- MODULE DdlGenerator ----------------------------
(***************************************************************************)
(* DDLGenerator (ryx-rs/src/migration/ddl.rs), and the database that runs    *)
(* its statements and is introspected (ryx-rs/src/migration.rs).             *)
(*                                                                         *)
(* A statement is a record of its kind, the table as qualified, and what it  *)
(* says of columns.  A database is a set of schemas, a set of tables, each   *)
(* with the columns the server keeps, and a set of indexes.                  *)
(***************************************************************************)
EXTENDS SchemaDiff

PG == "PostgreSQL"
MY == "MySQL"
LITE == "SQLite"

-----------------------------------------------------------------------------
(* Statements.                                                              *)

\* col_type_for_backend: the types a backend writes otherwise
NativeType(type, backend) ==
  LET own == CASE backend = PG -> [none |-> ""]
               [] backend = MY -> [BOOLEAN |-> "TINYINT(1)", INTEGER |-> "INT", REAL |-> "FLOAT",
                                   TIMESTAMP |-> "DATETIME", UUID |-> "CHAR(36)", JSONB |-> "JSON"]
               [] backend = LITE -> [BOOLEAN |-> "INTEGER", BIGINT |-> "INTEGER",
                                     UUID |-> "TEXT", JSONB |-> "TEXT"]
  IN IF type \in DOMAIN own THEN own[type]
     ELSE IF type = "DOUBLE PRECISION" /\ backend # PG
          THEN (IF backend = MY THEN "DOUBLE" ELSE "REAL") ELSE type

\* Mutation: the key is declared like any other column
ColumnSqlPlainKey(c, backend, includePk) ==
  Column(c.name, NativeType(c.type, backend), c.null, FALSE, c.unique, c.default)

\* build_col_sql: a primary key of a new table is generated, and says nothing
\* of its type, of NULL, of uniqueness or of a default
ColumnSql(c, backend, includePk) ==
  IF includePk /\ c.pk
  THEN Column(c.name, CASE backend = PG -> "BIGSERIAL"
                        [] backend = MY -> "INT AUTO_INCREMENT"
                        [] backend = LITE -> "INTEGER AUTOINCREMENT", TRUE, backend = LITE, FALSE, "")
  ELSE Column(c.name, NativeType(c.type, backend), c.null, FALSE, c.unique, c.default)

\* qn: the schema a table is qualified with, "" for none
Qn(gen) == IF gen.backend = PG THEN gen.schema ELSE ""

\* A statement; clause is its PRIMARY KEY clause or what is changed of a column
Statement(kind, gen, table, columns, clause) ==
  [kind |-> kind, schema |-> Qn(gen), table |-> table, columns |-> columns, clause |-> clause]

CreateTable(gen, table, columns) ==
  LET key == SelectInSeq(columns, LAMBDA c : c.pk)
  IN Statement("create_table", gen, table,
               MapTo(columns, LAMBDA c : ColumnSql(c, gen.backend, TRUE)),
               IF key = 0 \/ gen.backend = LITE THEN "" ELSE columns[key].name)

AddColumn(gen, table, c) ==
  Statement("add_column", gen, table, <<ColumnSql(c, gen.backend, FALSE)>>, "")

\* SQLite drops and alters nothing: the statement is a comment
DropColumn(gen, table, c) ==
  Statement(IF gen.backend = LITE THEN "comment" ELSE "drop_column", gen, table, <<c>>, "")

AlterColumn(gen, table, old, new) ==
  LET col == <<ColumnSql(new, gen.backend, FALSE)>>
      Set(part, differs) ==
        IF differs THEN <<Statement("alter_column", gen, table, col, part)>> ELSE <<>>
  IN CASE gen.backend = PG -> Set("type", old.type # new.type) \o Set("null", old.null # new.null)
                              \o Set("default", old.default # new.default)
       [] gen.backend = MY -> <<Statement("modify_column", gen, table, col, "")>>
       [] gen.backend = LITE -> <<Statement("comment", gen, table, col, "")>>

CreateSchema(gen, schema) ==
  IF gen.backend = PG /\ schema # ""
  THEN <<[Statement("create_schema", gen, "", <<>>, "") EXCEPT !.schema = schema]>> ELSE <<>>

\* DROP INDEX names no table's schema, except on MySQL
DropIndex(gen, table, index) ==
  [Statement("drop_index", gen, table, <<>>, index)
    EXCEPT !.schema = IF gen.backend = PG THEN "" ELSE @]

In(gen, schema) == IF schema = "" THEN gen ELSE [gen EXCEPT !.schema = schema]

\* Mutation: the columns of a new table are added to it once more
GenerateTwice(gen, changes) ==
  LET Create(c) == LET cols == ColumnsFor(changes, c.table)
                   IN IF cols = <<>> THEN <<>> ELSE <<CreateTable(In(gen, c.schema), c.table, cols)>>
  IN Collect(OfKind(changes, "CreateSchema"), LAMBDA c : CreateSchema(gen, c.schema))
     \o Collect(OfKind(changes, "CreateTable"), Create)
     \o MapTo(OfKind(changes, "AddColumn"), LAMBDA c : AddColumn(In(gen, c.schema), c.table, c.column))

\* generate: schemas, new tables that have columns, added columns, and off
\* SQLite the altered ones
Generate(gen, changes) ==
  LET Create(c) == LET cols == ColumnsFor(changes, c.table)
                   IN IF cols = <<>> THEN <<>> ELSE <<CreateTable(In(gen, c.schema), c.table, cols)>>
  IN Collect(OfKind(changes, "CreateSchema"), LAMBDA c : CreateSchema(gen, c.schema))
     \o Collect(OfKind(changes, "CreateTable"), Create)
     \o MapTo(PlainAdds(changes), LAMBDA c : AddColumn(In(gen, c.schema), c.table, c.column))
     \o IF gen.backend = LITE THEN <<>>
        ELSE Collect(OfKind(changes, "AlterColumn"),
                     LAMBDA c : AlterColumn(In(gen, c.schema), c.table, c.old, c.column))

\* operation_to_sql
OperationToSql(gen, op) ==
  CASE op.kind = "CreateSchema" -> CreateSchema(gen, op.schema)
    [] op.kind = "CreateTable"  -> <<CreateTable(gen, op.table, op.columns)>>
    [] op.kind = "AddField"     -> <<AddColumn(gen, op.table, op.columns[1])>>
    [] op.kind = "RemoveField"  -> <<DropColumn(gen, op.table, op.columns[1])>>
    [] op.kind = "AlterField"   -> AlterColumn(gen, op.table, op.columns[1], op.columns[2])
    [] op.kind = "CreateIndex"  ->
         <<Statement("create_index", gen, op.table, op.columns, op.columns[1].name)>>
    [] op.kind = "DeleteIndex"  -> <<DropIndex(gen, op.table, op.columns[1].name)>>
    [] op.kind = "RunSQL"       -> <<Statement("raw", gen, "", <<>>, "")>>

-----------------------------------------------------------------------------
(* The database.                                                            *)

\* What a backend calls the schema of an unqualified name
Home(backend, schema) == IF backend = PG /\ schema = "" THEN "public" ELSE schema

EmptyDatabase(backend) == [schemas |-> {Home(backend, "")}, tables |-> {}, indexes |-> {}]

Named(db, schema, table) == {t \in db.tables : t.schema = schema /\ t.name = table}
Names(columns) == {columns[i].name : i \in DOMAIN columns}

\* The column a server keeps for a column definition: a key is named in the
\* PRIMARY KEY clause or, on SQLite, says so itself
Kept(c, key) ==
  LET named == key # "" /\ c.name = key
  IN CASE c.pk -> Column(c.name, "INTEGER", TRUE, TRUE, FALSE, "")
       [] ~c.pk /\ c.type = "BIGSERIAL" -> Column(c.name, "BIGINT", FALSE, named, FALSE, "nextval")
       [] ~c.pk /\ c.type # "BIGSERIAL" -> [c EXCEPT !.pk = named, !.null = @ /\ ~named]

\* The types PostgreSQL changes one into the other with no USING clause: it
\* writes everything as text, converts numbers, and dates and times
Recasts(from, to) ==
  \/ from = to
  \/ to \in {"TEXT", "VARCHAR(255)", "CHARACTER VARYING"}
  \/ {from, to} \subseteq {"INTEGER", "BIGINT", "DOUBLE PRECISION", "REAL"}
  \/ {from, to} \subseteq {"TIMESTAMP", "DATE"}

\* What PostgreSQL says to a change of the column it keeps: a key stays NOT NULL
Permits(kept, s) ==
  /\ s.clause = "type" => Recasts(kept.type, s.columns[1].type)
  /\ s.clause = "null" => ~(kept.pk /\ s.columns[1].null)

\* Whether a statement succeeds on tables without rows, its types and its
\* defaults being the server's.  MySQL takes the double quotes the generator
\* puts around column names for strings; SQLite adds no column that is unique,
\* or NOT NULL without a default.
Accepts(backend, db, s) ==
  LET schema == Home(backend, s.schema)
      at     == Named(db, schema, s.table)
      name   == s.columns[1].name
  IN /\ backend # MY
     /\ s.kind = "create_table" /\ at = {} =>
          schema \in db.schemas /\ Cardinality(Names(s.columns)) = Len(s.columns)
     /\ s.kind \in {"add_column", "drop_column", "alter_column", "create_index"} => at # {}
     /\ s.kind = "add_column" =>
          /\ \A t \in at : ~HasColumn(t, name)
          /\ backend = LITE => ~s.columns[1].unique /\ (s.columns[1].null \/ s.columns[1].default # "")
     /\ s.kind = "alter_column" => \A t \in at : HasColumn(t, name) /\ Permits(ColumnOf(t, name), s)
     /\ s.kind = "create_index" => \A t \in at : Names(s.columns) \subseteq Names(t.columns)

Changing(c, s) ==
  IF c.name # s.columns[1].name THEN c
  ELSE CASE s.clause = "type"    -> [c EXCEPT !.type = s.columns[1].type]
         [] s.clause = "null"    -> [c EXCEPT !.null = s.columns[1].null]
         [] s.clause = "default" -> [c EXCEPT !.default = s.columns[1].default]

\* The database after a statement it accepts.  by is whose table it becomes.
Execute(backend, db, s, by) ==
  LET schema == Home(backend, s.schema)
      at     == Named(db, schema, s.table)
      Edit(Columns(_)) ==
        [db EXCEPT !.tables = (@ \ at) \cup {[t EXCEPT !.columns = Columns(t.columns)] : t \in at}]
  IN CASE s.kind = "create_schema" -> [db EXCEPT !.schemas = @ \cup {s.schema}]
       [] s.kind = "create_table" ->
            IF at # {} THEN db
            ELSE [db EXCEPT !.tables = @ \cup
                   {[name |-> s.table, schema |-> schema, by |-> by,
                     columns |-> MapTo(s.columns, LAMBDA c : Kept(c, s.clause))]}]
       [] s.kind = "add_column"  -> Edit(LAMBDA cols : Append(cols, Kept(s.columns[1], "")))
       [] s.kind = "drop_column" ->
            Edit(LAMBDA cols : Select(cols, LAMBDA c : c.name # s.columns[1].name))
       [] s.kind = "alter_column" -> Edit(LAMBDA cols : MapTo(cols, LAMBDA c : Changing(c, s)))
       [] s.kind = "create_index" -> [db EXCEPT !.indexes = @ \cup {<<schema, s.clause>>}]
       [] s.kind = "drop_index"   -> [db EXCEPT !.indexes = @ \ {<<schema, s.clause>>}]
       [] OTHER -> db

\* normalize_pg_type, normalize_mysql_type, on the types the generator writes
ReportedType(backend, type) ==
  CASE backend = PG /\ type = "VARCHAR(255)" -> "CHARACTER VARYING"
    [] OTHER -> type

\* introspect_schema: on PostgreSQL the tables of one schema under its name
Introspect(backend, db, schema) ==
  LET seen == IF backend = PG THEN {t \in db.tables : t.schema = Home(backend, schema)} ELSE db.tables
      Report(c) == [c EXCEPT !.type = ReportedType(backend, @),
                             !.unique = @ /\ backend # LITE]
  IN MapTo(SetToSeq(seen), LAMBDA t : [name |-> t.name, schema |-> t.schema,
                                       columns |-> MapTo(t.columns, Report)])
=============================================================================
