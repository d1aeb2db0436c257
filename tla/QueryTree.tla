----------------------------- MODULE QueryTree -----------------------------
(***************************************************************************)
(* Query nodes (ryx-query/src/ast.rs) and the two front ends that build     *)
(* them: the Rust query sets (ryx-rs/src/queryset.rs, q.rs, agg.rs,          *)
(* objects.rs) and the Python binding (ryx-python/src/plan.rs, lib.rs).      *)
(*                                                                         *)
(* Every builder returns a new node, so the operators map a node to a node. *)
(* Values are records: a type, the items of a list, the truth isnull reads   *)
(* and the "%" signs a LIKE lookup added.  "" and NoLimit stand for None.    *)
(***************************************************************************)
EXTENDS Lookups, Integers

CONSTANT AliasBackend   \* the configured pools: alias -> backend, "default" among them

ASSUME PoolsAssumption ==
  /\ "default" \in DOMAIN AliasBackend /\ "" \notin DOMAIN AliasBackend
  /\ \A a \in DOMAIN AliasBackend : AliasBackend[a] \in Backends

NoLimit == -1
NoQ     == [kind |-> "none"]
NoNeighbor == [field |-> <<>>, operator |-> "", limit |-> NoLimit]
PlanError  == [kind |-> "error"]

Scalar(type, truth) == [type |-> type, truth |-> truth, wrap |-> "none", items |-> <<>>]
ListOf(items) == [type |-> "List", truth |-> TRUE, wrap |-> "none", items |-> items]

\* FilterNode, and what the leaf of a Q tree tests: field is a name and its "__"
\* segments
Condition(field, lookup, value, negated) ==
  [field |-> field, lookup |-> lookup, value |-> value, negated |-> negated]

-----------------------------------------------------------------------------
(* Trees.  The nodes of a Q tree, and the terms of a compiled condition, are *)
(* records with a list of `kids` and a `size` above that of each kid: what is *)
(* recursive on a tree is a function on the set of its nodes.               *)

Total(s) ==
  LET sum[i \in 0 .. Len(s)] == IF i = 0 THEN 0 ELSE sum[i - 1] + s[i] IN sum[Len(s)]

Above(kids) == 1 + Total([i \in DOMAIN kids |-> kids[i].size])

Nodes(q) ==
  LET level[n \in 0 .. q.size] ==
        IF n = 0 THEN {q} ELSE UNION {ToSet(t.kids) : t \in level[n - 1]}
  IN UNION {level[n] : n \in 0 .. q.size}

\* QNode
QLeaf(test) == [kind |-> "leaf", test |-> test, kids |-> <<>>, size |-> 0]
QTree(kind, kids) == [kind |-> kind, kids |-> kids, size |-> Above(kids)]

-----------------------------------------------------------------------------
(* Query nodes.                                                             *)

\* QueryNode::select
SelectNode(table) ==
  [table |-> table, backend |-> "PostgreSQL", alias |-> "", schema |-> "",
   op |-> [kind |-> "select", cols |-> <<>>],
   filters |-> <<>>, q |-> NoQ, joins |-> <<>>, annotations |-> <<>>, groupBy |-> <<>>,
   having |-> <<>>, orderBy |-> <<>>, nearest |-> NoNeighbor, limit |-> NoLimit,
   offset |-> NoLimit, distinct |-> FALSE, extra |-> <<>>]

\* with_q conjoins with the tree already there
WithQ(n, q) ==
  [n EXCEPT !.q = IF @ = NoQ THEN q ELSE QTree("and", <<@, q>>)]

\* The other with_* builders: the list parts are pushed to, the rest replaced.
ListParts == {"filters", "joins", "annotations", "groupBy", "having", "orderBy", "extra"}
With(n, part, item) ==
  IF part \in ListParts THEN [n EXCEPT ![part] = Append(@, item)]
                        ELSE [n EXCEPT ![part] = item]

WithAll(n, part, items) == [n EXCEPT ![part] = @ \o items]

WithOp(n, kind, cols) == [n EXCEPT !.op = [kind |-> kind, cols |-> cols]]

-----------------------------------------------------------------------------
(* Keys.                                                                    *)

\* parse_field_lookup, _parse_lookup_key: from the right, the last segment
\* that is a known lookup starts the lookup; with none of them known every
\* segment is dropped and the lookup is exact.
ParseKey(name, segs, known) ==
  LET last == SelectLastInSeq(segs, LAMBDA s : s \in known)
  IN IF last = 0 THEN [field |-> [name |-> name, segs |-> <<>>], lookup |-> <<"exact">>]
     ELSE [field  |-> [name |-> name, segs |-> SubSeq(segs, 1, last - 1)],
           lookup |-> SubSeq(segs, last, Len(segs))]

Keyed(name, segs, value, negated, known) ==
  LET key == ParseKey(name, segs, known)
  IN Condition(key.field, key.lookup, value, negated)

-----------------------------------------------------------------------------
(* The Rust query set.                                                      *)

\* mutant: the default backend of a node stays
NewQuerySetUnrouted(table) == SelectNode(table)

\* QuerySet::new: the backend of the default pool
NewQuerySet(table) == [SelectNode(table) EXCEPT !.backend = AliasBackend["default"]]

\* using() names the pool that will run the statement and leaves node.backend
RsUsing(n, alias) == With(n, "alias", alias)

\* filter and exclude take a key with a value, or a Q tree
RsFilter(n, arg, negated) ==
  IF arg.kind = "key"
  THEN With(n, "filters", Keyed(arg.name, arg.segs, arg.value, negated, AllLookups))
  ELSE WithQ(n, IF negated THEN QTree("not", <<arg.q>>) ELSE arg.q)

\* order_by_distance and nearest_neighbors
RsNearest(n, field, operator, limit) ==
  With(n, "nearest", [field |-> field, operator |-> operator, limit |-> limit])

\* Q::new, Q::not, Q::and, Q::or, Q::negate and q_to_qnode
RsLeaf(name, segs, value, negated) == QLeaf(Keyed(name, segs, value, negated, AllLookups))

\* agg.rs: count, sum, avg, min, max and count_distinct.  A function that is
\* none of NamedFuncs is the raw expression itself.
NamedFuncs == {"Count", "Sum", "Avg", "Min", "Max"}
Aggregate(alias, func, field, distinct) ==
  [alias |-> alias, func |-> func, field |-> field, distinct |-> distinct]

\* The statement each call of a query set compiles.  get() parses its key
\* twice and keeps neither lookup; update() keeps the columns of its keys.
RsStatement(n, call, args) ==
  CASE call = "all"       -> n
    [] call = "get"       -> LET first == ParseKey(args.name, args.segs, AllLookups).field
                             IN RsFilter(n, [kind |-> "key", name |-> first.name,
                                             segs |-> first.segs, value |-> args.value], FALSE)
    [] call = "first"     -> With(n, "limit", 1)
    [] call = "count"     -> WithOp(n, "count", <<>>)
    [] call = "delete"    -> WithOp(n, "delete", <<>>)
    [] call = "update"    -> WithOp(n, "update", args.assigns)
    [] call = "aggregate" -> WithAll(WithOp(n, "aggregate", <<>>), "annotations", args.aggs)
    [] call = "values"    -> WithOp(n, "select", args.cols)
    [] call = "annotate"  -> WithAll(WithOp(n, "select", <<>>), "annotations", args.aggs)

\* select_related: unknown names are passed over, yet the columns of the
\* model are always spelled out.  fields: the columns of the model and of each
\* of its relations.
SelectRelated(n, names, fields) ==
  LET known  == SelectSeq(names, LAMBDA r : r \in DOMAIN fields.relations)
      join(r) == [kind |-> "left", table |-> r, alias |-> r,
                  left |-> <<n.table, r>>, right |-> <<r, "id">>]
      extra(r) == [i \in DOMAIN fields.relations[r] |->
                     [col |-> <<r, fields.relations[r][i]>>, alias |-> fields.relations[r][i]]]
      joined == WithAll(n, "joins", [i \in DOMAIN known |-> join(known[i])])
  IN WithOp(WithAll(joined, "extra", FlattenSeq([i \in DOMAIN known |-> extra(known[i])])),
            "select", [i \in DOMAIN fields.own |-> <<n.table, fields.own[i]>>])

\* InsertBuilder::save: the default pool and its backend, RETURNING id
RsInsert(table, schema, assigns) ==
  LET n == [SelectNode(table) EXCEPT !.backend = AliasBackend["default"], !.schema = schema]
  IN [n EXCEPT !.op = [kind |-> "insert", cols |-> assigns, returning |-> TRUE]]

-----------------------------------------------------------------------------
(* The Python binding.                                                      *)

\* py_dict_to_qnode: a not without children is an error, wherever it is; of
\* several its first would be kept, but Q.to_q_node writes one
PyQ(dict) ==
  IF \E t \in Nodes(dict) : t.kind = "not" /\ t.kids = <<>> THEN PlanError ELSE dict

\* add_join and the "join" op: any other kind is an inner join
PyJoin(j) ==
  [j EXCEPT !.kind = CASE @ \in {"LEFT", "LEFT OUTER"}   -> "left"
                       [] @ \in {"RIGHT", "RIGHT OUTER"} -> "right"
                       [] @ \in {"FULL", "FULL OUTER"}   -> "full"
                       [] @ = "CROSS"                    -> "cross"
                       [] OTHER                          -> "inner"]

\* One op of build_plan; an unknown tag changes nothing
PlanOp(n, op) ==
  IF n = PlanError THEN PlanError ELSE
  CASE op.tag = "filters"       -> WithAll(n, "filters", op.items)
    [] op.tag = "q_node"        -> LET q == PyQ(op.q)
                                   IN IF q = PlanError THEN PlanError ELSE WithQ(n, q)
    [] op.tag = "annotations"   -> WithAll(n, "annotations", op.items)
    [] op.tag = "group_by"      -> WithAll(n, "groupBy", op.items)
    [] op.tag = "select_cols"   -> WithOp(n, "select", op.items)
    [] op.tag = "join"          -> With(n, "joins", PyJoin(op.item))
    [] op.tag = "extra_alias"   -> With(n, "extra", op.item)
    [] op.tag = "order_by"      -> WithAll(n, "orderBy", op.items)
    [] op.tag \in {"limit", "offset", "schema"} -> With(n, op.tag, op.item)
    [] op.tag = "distinct"      -> IF op.item THEN With(n, "distinct", TRUE) ELSE n
    [] op.tag = "using"         -> IF op.item \in DOMAIN AliasBackend
                                   THEN With(With(n, "backend", AliasBackend[op.item]),
                                             "alias", op.item)
                                   ELSE PlanError
    [] op.tag \in {"nearest_neighbor", "order_by_distance"} ->
         IF op.item.operator \in {"<->", "<=>", "<#>"}
         THEN With(n, "nearest", [op.item EXCEPT !.limit = IF op.tag = "nearest_neighbor"
                                                           THEN @ ELSE NoLimit])
         ELSE PlanError
    [] OTHER -> n

\* build_plan: the backend of the alias, or of the default pool, then the ops
BuildPlan(table, ops, alias) ==
  LET pool == IF alias = "" THEN "default" ELSE alias
  IN IF pool \notin DOMAIN AliasBackend THEN PlanError
     ELSE LET start == [SelectNode(table) EXCEPT !.backend = AliasBackend[pool], !.alias = alias]
              after[i \in 0 .. Len(ops)] == IF i = 0 THEN start ELSE PlanOp(after[i - 1], ops[i])
          IN after[Len(ops)]

\* The execution methods of PyQueryBuilder
PyStatement(n, call, args) ==
  CASE call \in {"all", "get"} -> n
    [] call = "first"     -> With(n, "limit", 1)
    [] call = "count"     -> WithOp(n, "count", <<>>)
    [] call = "aggregate" -> WithOp(n, "aggregate", <<>>)
    [] call = "delete"    -> WithOp(n, "delete", <<>>)
    [] call = "update"    -> WithOp(n, "update", args.assigns)
    [] call = "insert"    -> [n EXCEPT !.op = [kind |-> "insert", cols |-> args.assigns,
                                               returning |-> args.returning]]
=============================================================================
