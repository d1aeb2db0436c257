----------------------------- MODULE RowValues -----------------------------
(***************************************************************************)
(* A value on its way through a database and back: the casts a statement    *)
(* puts around its placeholders and the binding of the values               *)
(* (ryx-backend/src/backends/*.rs), the decoding of a row                   *)
(* (ryx-backend/src/utils.rs) with the registry of the Python models        *)
(* (ryx-core/src/model_registry.rs), and the readers the derive macros      *)
(* write for a Rust struct (ryx-macro/src/lib.rs).                          *)
(*                                                                         *)
(* A value is its kind and what it says; the texts are told apart by what    *)
(* the code and the databases recognise in them.  What a database stores is  *)
(* external, and so is which Rust types sqlx reads out of it.               *)
(***************************************************************************)
EXTENDS Naturals, Sequences, Functions

CONSTANTS
  Journeys   \* what may be written where: records [backend, path, front, type, column, boolish,
             \*   models, batch]; batch is the column of a bulk insert, or one value

Value(kind, says) == [kind |-> kind, says |-> says]
Nothing == Value("Null", "")

\* rust_type_to_sql, and db_type of the Python fields: the column made for a field,
\* for the types whose columns the databases treat differently
RustColumn ==
  [i32 |-> "INTEGER", i64 |-> "BIGINT", f64 |-> "DOUBLE", bool |-> "BOOLEAN", String |-> "TEXT",
   NaiveDateTime |-> "TIMESTAMP", NaiveDate |-> "DATE"]
PythonColumn ==
  [IntField |-> "INTEGER", BigIntField |-> "BIGINT", FloatField |-> "DOUBLE", BooleanField |-> "BOOLEAN",
   DecimalField |-> "NUMERIC", UUIDField |-> "UUID", DateTimeField |-> "TEXT", DateField |-> "DATE",
   TimeField |-> "TIME", JSONField |-> "JSON", CharField |-> "TEXT"]

\* A value for such a column: Python hands dates over as text
Suits(v, column) ==
  \/ column \in {"INTEGER", "BIGINT"} /\ v.kind = "Int"
  \/ column = "DOUBLE" /\ v.kind = "Float"
  \/ column = "BOOLEAN" /\ v.kind = "Bool"
  \/ column = "TEXT" /\ v.kind = "Text"
  \/ column = "DATE" /\ v.kind \in {"Date", "Text"} /\ v.says = "day"
  \/ column = "TIMESTAMP" /\ v.kind = "DateTime" /\ v.says = "moment"
  \/ /\ v.kind = "Text"
     /\ <<column, v.says>> \in {<<"NUMERIC", "number">>, <<"UUID", "uuid">>, <<"TIME", "time">>, <<"JSON", "json">>}

\* A struct is written by execute, without a registry.  What the SQLite driver
\* reads a NULL as is not this code's to say.
ASSUME JourneyAssumption ==
  \A c \in Journeys :
    /\ c.backend \in {"SQLite", "PostgreSQL", "MySQL"}
    /\ c.path \in {"execute", "bulk"} /\ c.boolish \in BOOLEAN
    /\ c.batch \in Seq(Range(c.batch)) /\ c.batch # <<>>
    /\ c.path = "execute" => Len(c.batch) = 1
    /\ \/ /\ c.front = "rust" /\ c.type \in DOMAIN RustColumn /\ c.column = RustColumn[c.type]
          /\ c.path = "execute" /\ c.models = <<>>
       \/ c.front = "python" /\ c.type \in DOMAIN PythonColumn /\ c.column = PythonColumn[c.type]
    /\ \A v \in Range(c.batch) :
         /\ v = Value(v.kind, v.says)
         /\ Suits(v, c.column) \/ (v = Nothing /\ c.backend # "SQLite")

VARIABLES
  cell,      \* the journey
  stored,    \* what the column holds, the last value of the batch
  row,       \* what the decoder makes of it
  field      \* what the caller gets

tripVars == <<cell, stored, row, field>>

NotYet  == [class |-> "not yet", says |-> ""]
Refused == [class |-> "refused", says |-> ""]
Unread  == Value("fails", "")

-----------------------------------------------------------------------------
(* The model registry.                                                      *)

\* register_model_spec: the model replaces one of its name, and its table is
\* indexed to the model registered last; a registration lists the fields'
\* types by column
IndexOf(models, table) == CHOOSE i \in DOMAIN models :
  models[i].table = table /\ \A j \in DOMAIN models : models[j].table = table => j <= i

\* lookup_field
LookupField(models, table, column) ==
  IF \E i \in DOMAIN models : models[i].table = table
  THEN LET fields == models[IndexOf(models, table)].fields
       IN IF column \in DOMAIN fields THEN fields[column] ELSE ""
  ELSE ""

-----------------------------------------------------------------------------
(* Placeholders.                                                            *)

\* is_date: ten characters with two dashes; is_timestamp: a space, a dash and
\* a colon anywhere
IsDate(v)      == v.kind = "Date" \/ (v.kind = "Text" /\ v.says = "day")
IsTimestamp(v) == v.kind = "DateTime" \/ (v.kind = "Text" /\ v.says \in {"moment", "sentence"})

\* postgres_cast_for_type
CastForType(type) ==
  CASE type = "DateField" -> "DATE"
    [] type = "TimeField" -> "TIME"
    [] type = "JSONField" -> "JSON"
    [] type = "UUIDField" -> "UUID"
    [] OTHER -> ""

\* the heuristic on the value itself
CastOfValue(v) == IF IsDate(v) THEN "DATE" ELSE IF IsTimestamp(v) THEN "TIMESTAMP" ELSE ""

\* postgres_placeholder_cast and, in bulk_insert, postgres_maybe_model_cast
PostgresCast(type, path, v) ==
  IF CastForType(type) # "" \/ path = "bulk" THEN CastForType(type) ELSE CastOfValue(v)

\* bulk_insert of SQLite and MySQL: the first row decides for its column
BulkCast(first) == IF first.kind = "Time" THEN "TIME" ELSE CastOfValue(first)

Cast(backend, path, type, batch) ==
  IF backend = "PostgreSQL" THEN PostgresCast(type, path, batch[Len(batch)])
  ELSE IF path = "bulk" THEN BulkCast(batch[1]) ELSE ""

-----------------------------------------------------------------------------
(* The databases, external.                                                 *)

\* bind_values: the type a parameter is declared with
Bound(v) == CASE v.kind = "Bool" -> "BOOLEAN" [] v.kind = "Int" -> "BIGINT"
              [] v.kind = "Float" -> "DOUBLE" [] OTHER -> "TEXT"

Reads(says, class) ==
  \/ class = "TEXT"
  \/ says = "day" /\ class \in {"DATE", "TIMESTAMP"}
  \/ says \in {"moment", "isoMoment"} /\ class \in {"DATE", "TIMESTAMP", "TIME"}
  \/ says = "time" /\ class = "TIME"
  \/ says = "number" /\ class = "NUMERIC"
  \/ says = "uuid" /\ class = "UUID"
  \/ says = "json" /\ class = "JSON"

\* PostgreSQL checks types: a parameter is assigned as what it is bound or cast to.
PostgresStores(column, cast, v) ==
  LET given == IF cast = "" THEN Bound(v) ELSE cast
      taken == /\ cast # "" => Bound(v) = "TEXT" /\ (v = Nothing \/ Reads(v.says, cast))
               /\ \/ column = "TEXT"
                  \/ given = column
                  \/ <<given, column>> \in {<<"BIGINT", "INTEGER">>, <<"BIGINT", "DOUBLE">>,
                                            <<"DATE", "TIMESTAMP">>, <<"TIMESTAMP", "DATE">>}
  IN IF ~taken THEN Refused
     ELSE [class |-> IF v = Nothing THEN "NULL" ELSE column, says |-> v.says]

\* MySQL converts what it can; CAST( AS TIMESTAMP) is no MySQL.
MySqlStores(column, cast, v) ==
  LET taken == /\ cast # "TIMESTAMP"
               /\ v = Nothing \/ Bound(v) # "TEXT" \/ (cast # "" => Reads(v.says, cast))
               /\ v = Nothing \/ Bound(v) # "TEXT" \/ column = "UUID" \/ Reads(v.says, column)
  IN IF ~taken THEN Refused
     ELSE [class |-> IF v = Nothing THEN "NULL" ELSE column, says |-> v.says]

\* SQLite: every cast above is a cast to a number, which takes the leading
\* digits of a text; a column of numeric affinity keeps a text that is none.
LeadingNumber(says) == CASE says \in {"day", "moment", "isoMoment"} -> "year"
                         [] says = "time" -> "hour" [] OTHER -> "0"
LiteStores(column, cast, v) ==
  LET textual == Bound(v) = "TEXT"
      says  == IF textual /\ cast # "" THEN LeadingNumber(v.says) ELSE v.says
      class == IF column \in {"TEXT", "UUID", "JSON"} THEN "TEXT"
               ELSE IF column = "DOUBLE" \/ (column = "NUMERIC" /\ says = "number") THEN "DOUBLE"
               ELSE IF textual /\ cast = "" THEN "TEXT" ELSE "BIGINT"
  IN [class |-> class, says |-> says]

Stores(backend, column, cast, v) ==
  CASE backend = "PostgreSQL" -> PostgresStores(column, cast, v)
    [] backend = "MySQL"      -> MySqlStores(column, cast, v)
    [] backend = "SQLite"     -> LiteStores(column, cast, v)

\* The Rust types sqlx reads a stored value as.
ReadableAs(backend, s) ==
  LET integers == IF backend = "PostgreSQL"
                  THEN [INTEGER |-> {"i32"}, BIGINT |-> {"i64"}, BOOLEAN |-> {"bool"}]
                  ELSE [c \in {"INTEGER", "BIGINT", "BOOLEAN"} |-> {"i64", "i32", "bool"}]
  IN CASE s.class \in DOMAIN integers -> integers[s.class]
       [] s.class = "DOUBLE" -> {"f64"}
       [] s.class = "TEXT" \/ (s.class = "UUID" /\ backend = "MySQL") -> {"String"}
       [] OTHER -> {}

-----------------------------------------------------------------------------
(* Decoding.                                                                *)

\* Mutation: whatever the name, zero and one are taken for a bool
DecodeHeuristicAnyName(s, types, boolish) ==
  IF "i64" \in types THEN Value(IF s.says \in {"0", "1"} THEN "Bool" ELSE "Int", s.says)
  ELSE IF "i32" \in types THEN Value("Int", s.says)
  ELSE IF "bool" \in types THEN Value("Bool", s.says)
  ELSE IF "f64" \in types THEN Value("Float", s.says)
  ELSE IF "String" \in types THEN Value("Text", s.says) ELSE Nothing

\* decode_heuristic: the first type that reads it; a zero or one in a column
\* named like a question is a bool
DecodeHeuristic(s, types, boolish) ==
  IF "i64" \in types THEN Value(IF boolish /\ s.says \in {"0", "1"} THEN "Bool" ELSE "Int", s.says)
  ELSE IF "i32" \in types THEN Value("Int", s.says)
  ELSE IF "bool" \in types THEN Value("Bool", s.says)
  ELSE IF "f64" \in types THEN Value("Float", s.says)
  ELSE IF "String" \in types THEN Value("Text", s.says) ELSE Nothing

\* decode_with_spec: the kind, and the types tried for it
SpecOf(type) ==
  CASE type = "BooleanField" -> [kind |-> "Bool", types |-> {"bool"}]
    [] type \in {"IntField", "BigIntField"} -> [kind |-> "Int", types |-> {"i64", "i32", "f64"}]
    [] type = "FloatField" -> [kind |-> "Float", types |-> {"f64"}]
    [] type = "DecimalField" -> [kind |-> "Decimal", types |-> {"String"}]
    [] type = "UUIDField" -> [kind |-> "Uuid", types |-> {"String"}]
    [] type = "CharField" -> [kind |-> "Text", types |-> {"String"}]
    [] type = "DateTimeField" -> [kind |-> "DateTime", types |-> {"String"}]
    [] type = "DateField" -> [kind |-> "Date", types |-> {"String"}]
    [] type = "TimeField" -> [kind |-> "Time", types |-> {"String"}]
    [] type = "JSONField" -> [kind |-> "Json", types |-> {"String"}]

DecodeWithSpec(s, types, type) ==
  IF types \cap SpecOf(type).types # {} THEN Value(SpecOf(type).kind, s.says)
  ELSE IF type = "FloatField" /\ "String" \in types THEN Value("Text", s.says) ELSE Nothing

\* lookup_with_spec
Decode(c, s) ==
  LET types == ReadableAs(c.backend, s)
      type  == LookupField(c.models, "t", "c")
  IN IF type # "" THEN DecodeWithSpec(s, types, type) ELSE DecodeHeuristic(s, types, c.boolish)

\* type_to_sql_reader_expr: the kinds a reader takes; a reader of Option<T>
\* asks the reader of T once the column is there
ReaderTakes(type) ==
  CASE type \in {"i32", "i64"} -> {"Int"}
    [] type = "bool" -> {"Bool", "Int"}
    [] type = "f64" -> {"Float", "Int"}
    [] type \in {"String", "NaiveDateTime", "NaiveDate"} -> {"Text"}

RustField(type, v) ==
  LET parses == CASE type = "NaiveDateTime" -> v.says = "moment"
                  [] type = "NaiveDate" -> v.says = "day"
                  [] OTHER -> TRUE
  IN IF v.kind \in ReaderTakes(type) /\ parses THEN v ELSE Unread

-----------------------------------------------------------------------------
\* An INSERT or UPDATE through execute, or bulk_insert.
WriteCell ==
  /\ stored = NotYet
  /\ LET all == [i \in DOMAIN cell.batch |->
                   Stores(cell.backend, cell.column,
                          Cast(cell.backend, cell.path, LookupField(cell.models, "t", "c"), cell.batch),
                          cell.batch[i])]
     IN stored' = IF \E i \in DOMAIN all : all[i] = Refused THEN Refused ELSE all[Len(all)]
  /\ UNCHANGED <<cell, row, field>>

\* decode_row
DecodeRow ==
  /\ stored \notin {NotYet, Refused} /\ row = Unread
  /\ row' = Decode(cell, stored)
  /\ UNCHANGED <<cell, stored, field>>

\* from_row; sql_to_py hands a Python caller what was decoded
ReadField ==
  /\ row # Unread /\ field = NotYet
  /\ field' = IF cell.front = "rust" THEN RustField(cell.type, row) ELSE row
  /\ UNCHANGED <<cell, stored, row>>

TripInit ==
  /\ cell \in Journeys
  /\ stored = NotYet /\ row = Unread /\ field = NotYet

TripNext == WriteCell \/ DecodeRow \/ ReadField

TripSpec == TripInit /\ [][TripNext]_tripVars

-----------------------------------------------------------------------------
\* What a caller writes into a column made for it is stored, and is what a
\* caller reads.  It need not be when sqlx reads the column as no type the
\* decoder tries (a decimal, which SQLite keeps as a number, too); when a cast
\* is guessed from the looks of the value; for a NULL that PostgreSQL gets as
\* text, or that a Rust struct has to take; for a zero or one in an integer
\* column named like a question; and when another model is registered for the
\* table.  (utils.rs 70-208, postgres.rs 140-199, sqlite.rs 497-516)
Untold ==
  cell.column \in CASE cell.backend = "PostgreSQL" -> {"DATE", "TIMESTAMP", "TIME", "JSON", "UUID", "NUMERIC"}
                    [] cell.backend = "MySQL" -> {"DATE", "TIMESTAMP", "TIME", "JSON", "NUMERIC"}
                    [] cell.backend = "SQLite" -> {"NUMERIC"}
Written == cell.batch[Len(cell.batch)]
Guessed ==
  IF cell.backend = "PostgreSQL" THEN Written.says = "sentence"
  ELSE cell.path = "bulk" /\ BulkCast(cell.batch[1]) # ""
NoNull == /\ Nothing \in Range(cell.batch)
          /\ cell.front = "rust" \/ (cell.backend = "PostgreSQL" /\ cell.column # "TEXT")
Questioned ==
  cell.front = "rust" /\ cell.boolish /\ cell.type \in {"i32", "i64"} /\ Written.says \in {"0", "1"}
Shadowed == cell.front = "python" /\ LookupField(cell.models, "t", "c") # cell.type

WrittenIsRead ==
  ~(Untold \/ Guessed \/ NoNull \/ Questioned \/ Shadowed) =>
    /\ stored # Refused
    /\ field # NotYet => /\ field.says = Written.says
                         /\ field.kind = "Null" <=> Written = Nothing
                         /\ field # Unread
=============================================================================
