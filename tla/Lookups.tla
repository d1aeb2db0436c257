------------------------------ MODULE Lookups ------------------------------
(***************************************************************************)
(* The lookup registry of ryx-query (src/ryx-query/src/lookups): what the   *)
(* suffix of a filter key ("age__gte", "made__year") becomes in SQL.        *)
(*                                                                         *)
(* Identifiers and key segments are strings taken whole.  A field name is   *)
(* the sequence of its dotted parts, <<"made">> or <<"author", "name">>.    *)
(* A column expression is a record: the identifier, how it was quoted, the  *)
(* transforms wrapped around it (innermost first) and whether its outermost *)
(* cast is to INTEGER instead of TEXT.  A fragment is a column, an operator *)
(* and the number of "?" characters in its text.                           *)
(***************************************************************************)
EXTENDS Naturals, Sequences, SequencesExt

Backends == {"PostgreSQL", "MySQL", "SQLite"}

DateParts == {"date", "year", "month", "day", "hour", "minute", "second", "week",
              "dow", "quarter", "time", "iso_week", "iso_dow"}
JsonParts == {"key", "key_text", "json"}
KnownTransforms == DateParts \cup JsonParts

Comparisons == {"exact", "gt", "gte", "lt", "lte"}

\* The names of the registry.  "contains" is inserted twice: json_contains
\* replaces the text lookup.
BuiltinNames ==
  Comparisons \cup KnownTransforms
    \cup {"icontains", "startswith", "istartswith", "endswith", "iendswith",
          "isnull", "in", "range", "contains", "has_key", "has_any", "has_all",
          "contained_by"}

\* all_lookups(): the fixed slice the Rust parser takes its names from, which
\* register_custom does not extend; registered_lookups(): what Python is given.
AllLookups == BuiltinNames
RegisteredLookups(custom) == BuiltinNames \cup DOMAIN custom

-----------------------------------------------------------------------------
(* Columns.                                                                 *)

\* qualified_col splits "t.c" into two identifiers; the resolver's own
\* format!("\"{}\"") quotes the dotted name as one.
QualifiedCol(name) == [name |-> name, split |-> TRUE, steps |-> <<>>, int |-> FALSE]
QuotedWhole(name)  == [name |-> name, split |-> Len(name) = 1, steps |-> <<>>, int |-> FALSE]

\* strftime formats of the SQLite date parts; the parts absent are date(), time()
Strftime == [year |-> "%Y", month |-> "%m", day |-> "%d", hour |-> "%H", minute |-> "%M",
             second |-> "%S", week |-> "%W", dow |-> "%w", quarter |-> "%m",
             iso_week |-> "%W", iso_dow |-> "%w"]

StepParts(col) == {col.steps[i].part : i \in DOMAIN col.steps}

HasStrftime(col, backend) == backend = "SQLite" /\ StepParts(col) \cap DOMAIN Strftime # {}
HasFormat(col, backend, formats) ==
  backend = "SQLite" /\ \E p \in StepParts(col) \cap DOMAIN Strftime : Strftime[p] \in formats
AsTextCast(col, backend) ==
  /\ ~col.int
  /\ \/ HasStrftime(col, backend)
     \/ backend = "SQLite" /\ "key_text" \in StepParts(col)
AsIntegerCast(col, backend) ==
  col.int \/ (backend = "SQLite" /\ "quarter" \in StepParts(col))
ReplaceCast(col) == [col EXCEPT !.int = TRUE]

\* apply_date_transform: every date part wraps the column
DateStep(part) == [part |-> part, key |-> "", rooted |-> TRUE]

\* apply_json_transform: "key" reads '$.k' and key_text '.k' (on PostgreSQL both
\* read the key itself); "json" casts on PostgreSQL and is nothing elsewhere.
JsonStep(part, key, backend) ==
  [part |-> part, key |-> IF part = "json" THEN "" ELSE IF key = "" THEN "key" ELSE key,
   rooted |-> part # "key_text" \/ backend = "PostgreSQL"]

\* apply_transform; an unknown name is an error, here never met (callers test it)
StepsOf(part, backend, key) ==
  CASE part \in DateParts -> <<DateStep(part)>>
    [] part = "json" /\ backend # "PostgreSQL" -> <<>>
    [] OTHER -> <<JsonStep(part, key, backend)>>

ApplyTransform(part, col, backend, key) == [col EXCEPT !.steps = @ \o StepsOf(part, backend, key)]

\* One transform after the other, each with its key
ApplyAll(parts, keys, col, backend) ==
  [col EXCEPT !.steps = @ \o FlattenSeq([i \in DOMAIN parts |-> StepsOf(parts[i], backend, keys[i])])]

-----------------------------------------------------------------------------
(* Fragments.                                                               *)

Fragment(col, op, holes) ==
  [err |-> "none", col |-> col, op |-> op, holes |-> holes, castText |-> FALSE]
Failure(err) ==
  [err |-> err, col |-> QualifiedCol(<<>>), op |-> "", holes |-> 0, castText |-> FALSE]

\* common_lookups.rs
CommonOp == [exact |-> "=", gt |-> ">", gte |-> ">=", lt |-> "<", lte |-> "<=",
             icontains |-> "ILIKE", startswith |-> "LIKE", istartswith |-> "ILIKE",
             endswith |-> "LIKE", iendswith |-> "ILIKE",
             isnull |-> "IS NULL", in |-> "IN", range |-> "BETWEEN"]
CommonLookup(name, col) ==
  Fragment(col, CommonOp[name], CASE name = "isnull" -> 0 [] name = "range" -> 2 [] OTHER -> 1)

\* date_lookups.rs, the *_transform functions: a date part in the place of a
\* lookup is "part(col) = ?", on SQLite already cast to INTEGER (date casts the
\* parameter to TEXT, time casts nothing).
ImplicitPart(part, col, backend) ==
  LET wrapped == [col EXCEPT !.steps = Append(@, DateStep(part))]
      number  == backend = "SQLite" /\ part \in DOMAIN Strftime
  IN [Fragment(IF number THEN ReplaceCast(wrapped) ELSE wrapped, "=", 1)
        EXCEPT !.castText = (backend = "SQLite" /\ part = "date")]

\* json_lookups.rs, the lookups.  PostgreSQL's operators ?, ?| and ?& are "?"
\* characters too.  SQLite has the bare column for the containment lookups, and
\* the JSON transforms in the place of a lookup have no parameter anywhere.
JsonLookup(name, col, backend) ==
  CASE name \in JsonParts ->
         Fragment(ApplyTransform(name, col, backend, IF name = "json" THEN "" ELSE "key"), "bare", 0)
    [] name = "has_key" ->
         Fragment(col, "has_key", IF backend = "PostgreSQL" THEN 2 ELSE 1)
    [] name \in {"has_any", "has_all"} ->
         Fragment(col, name, IF backend = "MySQL" THEN 1 ELSE 2)
    [] OTHER ->
         IF backend = "SQLite" THEN Fragment(col, "bare", 0) ELSE Fragment(col, name, 1)

Builtin(name, col, backend) ==
  CASE name \in DOMAIN CommonOp -> CommonLookup(name, col)
    [] name \in DateParts       -> ImplicitPart(name, col, backend)
    [] OTHER                    -> JsonLookup(name, col, backend)

\* resolve_simple: the custom lookups first
ResolveSimple(name, col, backend, custom) ==
  IF name \in DOMAIN custom THEN Fragment(col, custom[name].op, custom[name].holes)
  ELSE IF name \in BuiltinNames THEN Builtin(name, col, backend)
  ELSE Failure("UnknownLookup")

\* register_custom: an insert that replaces the template of an earlier one
RegisterCustom(custom, name, template) == (name :> template) @@ custom

-----------------------------------------------------------------------------
(* resolve: a lookup is the sequence of its "__" parts; jsonKey "" is None.  *)

ComparesAsText(name, col, backend) == name \in Comparisons /\ AsTextCast(col, backend)

\* mutant: the cast of a date part in the path is left as it was
SingleColumnUncast(name, field, col, backend, jsonKey) ==
  IF jsonKey # "" THEN ApplyTransform("key", QuotedWhole(field), backend, jsonKey) ELSE col

\* resolve of a single name.  A JSON key is read from the bare column; of the
\* parts written in the field path only year, month (and quarter, whose format is
\* the month's), day and hour have their cast rewritten, the other parts go on
\* being compared as text.
SingleColumn(name, field, col, backend, jsonKey) ==
  CASE jsonKey # "" -> ApplyTransform("key", QuotedWhole(field), backend, jsonKey)
    [] jsonKey = "" /\ HasFormat(col, backend, {"%Y", "%m", "%d", "%H"})
                    /\ ComparesAsText(name, col, backend) -> ReplaceCast(col)
    [] OTHER -> col

\* The transforms a sequence of names begins with
LeadingTransforms(names) ==
  LET stop == SelectInSeq(names, LAMBDA p : p \notin KnownTransforms)
  IN IF stop = 0 THEN names ELSE SubSeq(names, 1, stop - 1)

\* resolve of a chain: the transforms up to the first name that is none are
\* applied to the whole quoted field, the names between are dropped, the last
\* name is the lookup.
ChainColumn(chain, field, backend, jsonKey) ==
  LET parts == LeadingTransforms(Front(chain))
      keys  == [i \in DOMAIN parts |-> IF parts[i] \notin {"key", "key_text"} THEN ""
                                       ELSE IF jsonKey # "" THEN jsonKey ELSE field[Len(field)]]
  IN ApplyAll(parts, keys, QuotedWhole(field), backend)

Recast(name, col, backend) ==
  IF name \in Comparisons /\ HasStrftime(col, backend) /\ ~AsIntegerCast(col, backend)
  THEN ReplaceCast(col) ELSE col

Resolve(lookup, field, col, backend, jsonKey, custom) ==
  ResolveSimple(Last(lookup),
                IF Len(lookup) = 1
                THEN SingleColumn(lookup[1], field, col, backend, jsonKey)
                ELSE Recast(Last(lookup), ChainColumn(lookup, field, backend, jsonKey), backend),
                backend, custom)
=============================================================================
