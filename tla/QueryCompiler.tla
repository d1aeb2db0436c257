--------------------------- MODULE QueryCompiler ---------------------------
(***************************************************************************)
(* The SQL compiler (ryx-query/src/compiler/compilr.rs, helpers.rs): a query *)
(* node and the custom lookups of the registry give the text of a statement  *)
(* and the values to bind.                                                   *)
(*                                                                         *)
(* The text is a structure.  What the writer does with parentheses is kept:  *)
(* a condition is a chain, a sequence of terms each with the AND or OR       *)
(* written before it, and a term is a fragment or a parenthesised chain.     *)
(***************************************************************************)
EXTENDS QueryTree

Result(err, chain, values) == [err |-> err, chain |-> chain, values |-> values]
Fails(err) == Result(err, <<>>, <<>>)

\* The "?" characters of a chain
Holes(chain) == Total([i \in DOMAIN chain |-> chain[i].holes])

TermOf(kind, frag, not, kids, size, holes) ==
  [link |-> "", kind |-> kind, frag |-> frag, not |-> not, kids |-> kids, size |-> size, holes |-> holes]
Term(frag)        == TermOf("atom", frag, FALSE, <<>>, 0, frag.holes)
Group(chain, neg) == TermOf("group", Failure("none"), neg, chain, Above(chain), Holes(chain))

\* mutant: exclude() is forgotten
NegatableLost(chain, negated) == chain

\* if negated { "NOT (" } ... ")"
Negatable(chain, negated) == IF negated THEN <<Group(chain, TRUE)>> ELSE chain

\* write_separated: the separator before every part but the first, nothing around
Separated(chains, link) ==
  LET linked(i) == IF i = 1 \/ chains[i] = <<>> THEN chains[i]
                   ELSE [chains[i] EXCEPT ![1].link = link]
  IN FlattenSeq([i \in DOMAIN chains |-> linked(i)])

\* The parts of a condition list.  Their errors are unwrapped: the thread panics.
Combined(results, link) ==
  IF \E i \in DOMAIN results : results[i].err # "none" THEN Fails("panic")
  ELSE Result("none", Separated([i \in DOMAIN results |-> results[i].chain], link),
              FlattenSeq([i \in DOMAIN results |-> results[i].values]))

-----------------------------------------------------------------------------
(* compile_single_filter.                                                   *)

\* The "__" segments of a field: transforms up to the first other name, which
\* is the JSON key; what follows the key is dropped.
FieldPath(segs) ==
  LET known == LeadingTransforms(segs)
  IN [transforms |-> known, key |-> IF known = segs THEN "" ELSE segs[Len(known) + 1]]

\* mutant: the segments of the field are parsed and not applied
FinalColumnBare(f, backend) == QualifiedCol(f.field.name)

\* A chained lookup starts again from the bare column
FinalColumn(f, backend) ==
  IF Len(f.lookup) > 1 THEN QualifiedCol(f.field.name)
  ELSE LET parts == FieldPath(f.field.segs).transforms
       IN ApplyAll(parts, [i \in DOMAIN parts |-> ""], QualifiedCol(f.field.name), backend)

Items(value) == IF value.type = "List" THEN value.items ELSE <<value>>

\* apply_like_wrapping
LikeWrapped(lookup, value) ==
  IF value.type # "Text" THEN value
  ELSE [value EXCEPT !.wrap = CASE lookup \in {"contains", "icontains"}     -> "both"
                                [] lookup \in {"startswith", "istartswith"} -> "after"
                                [] lookup \in {"endswith", "iendswith"}     -> "before"
                                [] OTHER                                    -> @]

\* mutant: the value of isnull is bound like any other
IsNullBinds(f, col) == Result("none", Negatable(<<Term(Fragment(col, "IS NULL", 0))>>, f.negated), <<f.value>>)

IsNull(f, col) ==
  LET isNull == f.value.type \in {"Bool", "Int"} => f.value.truth
  IN Result("none", Negatable(<<Term(Fragment(col, IF isNull THEN "IS NULL" ELSE "IS NOT NULL", 0))>>,
                              f.negated), <<>>)

\* An empty list is (1 = 0) before the negation is looked at
Never == Result("none", <<TermOf("never", Failure("none"), FALSE, <<>>, 0, 0)>>, <<>>)

InList(f, col) ==
  LET items == Items(f.value)
  IN IF items = <<>> THEN Never
     ELSE Result("none", Negatable(<<Term(Fragment(col, "IN", Len(items)))>>, f.negated), items)

\* has_any, has_all.  PostgreSQL writes one parameter (and an operator that is a
\* "?" character) for any number of keys, MySQL one per key, SQLite one test per
\* key, with no parentheses around the alternatives.
HasKeys(f, col, backend) ==
  LET items == Items(f.value)
      name  == f.lookup[1]
      test  == <<Term(Fragment(col, "json_extract IS NOT NULL", 1))>>
      chain == CASE backend = "PostgreSQL" -> <<Term(Fragment(col, name, 2))>>
                 [] backend = "MySQL"      -> <<Term(Fragment(col, name, Len(items)))>>
                 [] OTHER -> Separated([i \in DOMAIN items |-> test],
                                       IF name = "has_any" THEN "OR" ELSE "AND")
  IN IF items = <<>> THEN Never ELSE Result("none", Negatable(chain, f.negated), items)

InRange(f, col) ==
  IF f.value.type = "List" /\ Len(f.value.items) = 2
  THEN Result("none", Negatable(<<Term(Fragment(col, "BETWEEN", 2))>>, f.negated), f.value.items)
  ELSE Fails("range")

Fragmented(frag, negated, value) ==
  IF frag.err # "none" THEN Fails(frag.err)
  ELSE Result("none", Negatable(<<Term(frag)>>, negated), <<value>>)

\* The four lookups with a form of their own, then what the registry resolves; a
\* transform in the place of a lookup goes past the custom lookups, and only a
\* plain lookup has its "%" signs added.
FilterOn(f, col, key, backend, custom) ==
  LET name  == f.lookup[1]
      one   == Len(f.lookup) = 1
      plain == one /\ key = ""
  IN CASE one /\ name = "isnull" -> IsNull(f, col)
       [] one /\ name = "in"     -> InList(f, col)
       [] one /\ name = "range"  -> InRange(f, col)
       [] one /\ name \in {"has_any", "has_all"} -> HasKeys(f, col, backend)
       [] OTHER ->
            Fragmented(IF plain /\ name \in KnownTransforms THEN Builtin(name, col, backend)
                       ELSE Resolve(f.lookup, f.field.name, col, backend, key, custom),
                       f.negated, IF plain THEN LikeWrapped(name, f.value) ELSE f.value)

SingleFilter(f, backend, custom) ==
  FilterOn(f, FinalColumn(f, backend), FieldPath(f.field.segs).key, backend, custom)

-----------------------------------------------------------------------------
(* compile_q, compile_filters, compile_where_combined.                      *)

Grouped(r, neg) == IF r.err = "none" THEN [r EXCEPT !.chain = <<Group(@, neg)>>] ELSE r

\* One node, from what its children compile to
CompileNode(t, kids, backend, custom) ==
  IF t.kind = "leaf" THEN SingleFilter(t.test, backend, custom)
  ELSE Grouped(IF t.kind = "not" THEN kids[1]
               ELSE Combined(kids, IF t.kind = "and" THEN "AND" ELSE "OR"), t.kind = "not")

CompileQ(q, backend, custom) ==
  LET compiled[t \in Nodes(q)] ==
        CompileNode(t, [i \in DOMAIN t.kids |-> compiled[t.kids[i]]], backend, custom)
  IN compiled[q]

CompileFilters(filters, backend, custom) ==
  Combined([i \in DOMAIN filters |-> SingleFilter(filters[i], backend, custom)], "AND")

\* The parts in parentheses, or the first of their errors
Conjoined(results) ==
  LET bad == SelectInSeq(results, LAMBDA r : r.err # "none")
  IN IF bad # 0 THEN results[bad]
     ELSE Result("none",
            Separated([i \in DOMAIN results |-> <<Group(results[i].chain, FALSE)>>], "AND"),
            FlattenSeq([i \in DOMAIN results |-> results[i].values]))

\* The flat filters and the tree, the filters first
CompileWhere(n, custom) ==
  Conjoined((IF n.filters = <<>> THEN <<>> ELSE <<CompileFilters(n.filters, n.backend, custom)>>)
            \o (IF n.q = NoQ THEN <<>> ELSE <<CompileQ(n.q, n.backend, custom)>>))

-----------------------------------------------------------------------------
(* The statements.                                                          *)

\* write_table_ref and write_join_table_ref: the schema only where there are any
TableRef(table, n) == <<IF n.backend = "PostgreSQL" THEN n.schema ELSE "", table>>

\* compile_joins: a cross join has no condition, every joined table takes the
\* schema of the query
CompileJoins(n) ==
  [i \in DOMAIN n.joins |->
     LET j == n.joins[i] IN <<j.kind, TableRef(j.table, n), j.alias,
                              IF j.kind = "cross" THEN <<>> ELSE <<j.left, j.right>>>>]

\* compile_agg_cols: DISTINCT for any function but a raw expression
CompileAggregates(anns) ==
  [i \in DOMAIN anns |-> <<anns[i].func, anns[i].func \in NamedFuncs /\ anns[i].distinct,
                           anns[i].field, anns[i].alias>>]

CompileColumns(n) ==
  IF n.op.cols # <<>> THEN <<n.op.cols, CompileAggregates(n.annotations)>>
  ELSE IF n.annotations = <<>> THEN <<<<"*">>, <<>>>>
  ELSE <<n.groupBy, CompileAggregates(n.annotations)>>

\* A statement that compiled: its text (a string, so that texts of different
\* statements compare), its "?" characters and its values
Statement(text, holes, values) ==
  [err |-> "none", text |-> ToString(text), holes |-> holes, values |-> values]
Refused(err) == [err |-> err, text |-> "", holes |-> 0, values |-> <<>>]

\* The statements are written around the WHERE (and HAVING) of the query
CompileSelect(n, where, having) ==
  LET near   == n.nearest # NoNeighbor
      limit  == IF n.nearest.limit # NoLimit THEN n.nearest.limit ELSE n.limit
      text   == <<"SELECT", n.distinct, CompileColumns(n), n.extra, TableRef(n.table, n),
                  CompileJoins(n), where.chain, n.groupBy, having.chain,
                  <<n.nearest.field, n.nearest.operator>>, n.orderBy, limit, n.offset>>
  IN IF where.err # "none" THEN Refused(where.err)
     ELSE IF having.err # "none" THEN Refused(having.err)
     ELSE IF near /\ n.backend # "PostgreSQL" THEN Refused("UnsupportedBackend")
     ELSE Statement(text, Holes(where.chain) + Holes(having.chain) + (IF near THEN 1 ELSE 0),
                    where.values \o having.values
                      \o (IF near THEN <<Scalar("Vector", TRUE)>> ELSE <<>>))

\* aggregate, count and delete keep the WHERE and nothing of LIMIT, OFFSET,
\* DISTINCT, GROUP BY; delete and update drop the joins too
CompileScan(n, where) ==
  LET joins == IF n.op.kind = "delete" THEN <<>> ELSE CompileJoins(n)
      what  == IF n.op.kind = "aggregate" THEN CompileAggregates(n.annotations) ELSE <<>>
  IN IF n.op.kind = "aggregate" /\ n.annotations = <<>> THEN Refused("no aggregates")
     ELSE IF where.err # "none" THEN Refused(where.err)
     ELSE Statement(<<n.op.kind, what, TableRef(n.table, n), joins, where.chain>>,
                    Holes(where.chain), where.values)

AssignedColumns(n) == [i \in DOMAIN n.op.cols |-> n.op.cols[i].col]
AssignedValues(n)  == [i \in DOMAIN n.op.cols |-> n.op.cols[i].value]

CompileUpdate(n, where) ==
  IF n.op.cols = <<>> THEN Refused("no assignments")
  ELSE IF where.err # "none" THEN Refused(where.err)
  ELSE Statement(<<"UPDATE", TableRef(n.table, n), AssignedColumns(n), where.chain>>,
                 Len(n.op.cols) + Holes(where.chain), AssignedValues(n) \o where.values)

CompileInsert(n) ==
  IF n.op.cols = <<>> THEN Refused("no values")
  ELSE Statement(<<"INSERT", TableRef(n.table, n), AssignedColumns(n), n.op.returning>>,
                 Len(n.op.cols), AssignedValues(n))

CompileOp(n, where, having) ==
  CASE n.op.kind = "select" -> CompileSelect(n, where, having)
    [] n.op.kind = "update" -> CompileUpdate(n, where)
    [] n.op.kind = "insert" -> CompileInsert(n)
    [] OTHER                -> CompileScan(n, where)

Compile(n, custom) ==
  CompileOp(n, CompileWhere(n, custom), CompileFilters(n.having, n.backend, custom))

-----------------------------------------------------------------------------
(* compute_plan_hash and hash_q: the items fed to the hasher.  The lists of a *)
(* node are told apart by the width of their items, the children of a tree   *)
(* only by their tags; streams that differ are taken to hash differently.   *)

HashQ(q) ==
  LET tag == [leaf |-> 1, and |-> 2, or |-> 3, not |-> 4]
      hash[t \in Nodes(q)] ==
        IF t.kind = "leaf" THEN <<1, t.test.field, t.test.lookup, t.test.negated>>
        ELSE <<tag[t.kind]>> \o FlattenSeq([i \in DOMAIN t.kids |-> hash[t.kids[i]]])
  IN IF q = NoQ THEN <<>> ELSE hash[q]

\* mutant: the lookups stay out of the hash
HashFiltersByField(filters) == [i \in DOMAIN filters |-> <<filters[i].field, filters[i].negated>>]

HashFilters(filters) ==
  [i \in DOMAIN filters |-> <<filters[i].field, filters[i].lookup, filters[i].negated>>]

HashOp(op) ==
  CASE op.kind = "select"    -> <<1>> \o op.cols
    [] op.kind = "aggregate" -> <<2>>
    [] op.kind = "count"     -> <<3>>
    [] op.kind = "delete"    -> <<4>>
    [] op.kind = "update"    -> <<5>> \o [i \in DOMAIN op.cols |-> op.cols[i].col]
    [] op.kind = "insert"    -> <<6, op.returning>> \o [i \in DOMAIN op.cols |-> op.cols[i].col]

PlanHash(n) ==
  ToString(<<n.table, n.schema, n.backend, n.distinct, n.limit, n.offset, n.orderBy, n.groupBy,
             n.joins, HashFilters(n.filters), HashQ(n.q), n.annotations,
             IF n.nearest = NoNeighbor THEN <<>> ELSE <<9, n.nearest>>, HashOp(n.op)>>)
=============================================================================
