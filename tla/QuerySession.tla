---------------------------- MODULE QuerySession ----------------------------
(***************************************************************************)
(* One caller building a query through the Rust query set or the Python     *)
(* binding, call by call, and asking for a statement.                        *)
(***************************************************************************)
EXTENDS QueryCompiler

CONSTANTS Keys,      \* filter keys with their values: [name, segs, value]
          Trees(_),  \* Q trees, the keys of their leaves split with these known names
          Shapes,    \* the other parts: [part, item]
          Requests,  \* the statements asked for: [call, args]
          Customs,   \* states of the custom lookups
          Fields,    \* the columns and relations of the model
          MaxParts   \* parts one query is built from

\* A list, and what a condition is made of
IsList(s) == s \in Seq(ToSet(s))
IsValue(v) ==
  /\ v \in [type : STRING, truth : BOOLEAN, wrap : STRING, items : {v.items}]
  /\ IsList(v.items)
IsCondition(f) ==
  /\ f = Condition([name |-> f.field.name, segs |-> f.field.segs], f.lookup, f.value, f.negated)
  /\ IsList(f.field.segs) /\ IsList(f.lookup) /\ f.lookup # <<>>
  /\ IsValue(f.value) /\ f.negated \in BOOLEAN

\* A node of a Q tree: what Q's constructors and to_q_node write
IsNode(t) ==
  \/ t.kind = "leaf" /\ t = QLeaf(t.test) /\ IsCondition(t.test)
  \/ /\ t.kind \in {"and", "or", "not"} /\ IsList(t.kids) /\ t = QTree(t.kind, t.kids)
     /\ \A i \in DOMAIN t.kids : t.kids[i].size \in Nat
     /\ t.kind = "not" => Len(t.kids) <= 1

ASSUME KeysAssumption == \A k \in Keys : IsList(k.segs) /\ IsValue(k.value)
ASSUME CustomsAssumption == \A c \in Customs : \A name \in DOMAIN c : c[name].holes \in Nat
ASSUME TreesAssumption ==
  \A known \in {AllLookups} \cup {RegisteredLookups(c) : c \in Customs} :
    \A q \in Trees(known) : IsNode(q) /\ \A t \in Nodes(q) : IsNode(t)
ASSUME ShapesAssumption ==
  \A s \in Shapes : /\ s.part \notin {"q_node", "using", "select_cols", "group_by", "order_by"}
                    /\ s.part = "filters" => IsCondition(s.item)
ASSUME RequestsAssumption ==
  \A r \in Requests :
    /\ r.call = "get" => IsList(r.args.segs) /\ IsValue(r.args.value)
    /\ r.call \in {"update", "insert"} => IsList(r.args.assigns)

VARIABLES front, node, parts, stmt, custom

sessionVars == <<front, node, parts, stmt, custom>>

NoStmt == [kind |-> "none"]
Table  == "post"

SessionInit ==
  /\ front \in {"rust", "python"}
  /\ custom \in Customs
  /\ node = IF front = "rust" THEN NewQuerySet(Table) ELSE BuildPlan(Table, <<>>, "")
  /\ parts = 0
  /\ stmt = NoStmt

Built(n) ==
  /\ stmt = NoStmt
  /\ parts < MaxParts
  /\ n # PlanError
  /\ node' = n
  /\ parts' = parts + 1
  /\ UNCHANGED <<front, stmt, custom>>

\* The names a front end knows when it splits a key
Known == IF front = "rust" THEN AllLookups ELSE RegisteredLookups(custom)

\* filter(key, value), exclude(key, value)
Filter(k, negated) ==
  Built(IF front = "rust"
        THEN RsFilter(node, [kind |-> "key", name |-> k.name, segs |-> k.segs, value |-> k.value], negated)
        ELSE PlanOp(node, [tag |-> "filters",
                           items |-> <<Keyed(k.name, k.segs, k.value, negated, Known)>>]))

\* filter(Q), exclude(Q); the constructors of Rust's Q make no empty node
FilterTree(q, negated) ==
  /\ front = "rust" => \A t \in Nodes(q) : t.kind # "leaf" => t.kids # <<>>
  /\ Built(IF front = "rust" THEN RsFilter(node, [kind |-> "q", q |-> q], negated)
           ELSE PlanOp(node, [tag |-> "q_node",
                              q |-> IF negated THEN QTree("not", <<q>>) ELSE q]))

\* using(alias)
Route(alias) ==
  /\ node.alias = ""
  /\ Built(IF front = "rust" THEN RsUsing(node, alias)
           ELSE PlanOp(node, [tag |-> "using", item |-> alias]))

\* select_related(names): Python sends the joins and aliases it worked out
Related(names) ==
  /\ front = "rust" /\ node.joins = <<>>
  /\ Built(SelectRelated(node, names, Fields))

\* order_by, limit, offset, distinct, nearest neighbours, schema; the parts only
\* Python can add are ops of its plan, filters with a lookup as it stands included
RustParts == {"limit", "offset", "distinct", "schema", "orderBy"}
Shape(s) ==
  \/ /\ front = "rust"
     /\ \/ s.part \in RustParts /\ Built(With(node, s.part, s.item))
        \/ s.part = "nearest" /\ Built(RsNearest(node, s.item.field, s.item.operator, s.item.limit))
  \/ /\ front = "python"
     /\ Built(CASE s.part = "nearest" ->
                     PlanOp(node, [tag |-> IF s.item.limit = NoLimit THEN "order_by_distance"
                                           ELSE "nearest_neighbor", item |-> s.item])
                [] s.part = "orderBy"     -> PlanOp(node, [tag |-> "order_by", items |-> <<s.item>>])
                [] s.part = "groupBy"     -> PlanOp(node, [tag |-> "group_by", items |-> <<s.item>>])
                [] s.part = "annotations" -> PlanOp(node, [tag |-> s.part, items |-> <<s.item>>])
                [] s.part = "joins"       -> PlanOp(node, [tag |-> "join", item |-> s.item])
                [] s.part = "filters"     -> PlanOp(node, [tag |-> s.part, items |-> <<s.item>>])
                [] OTHER                  -> PlanOp(node, [tag |-> s.part, item |-> s.item]))

\* all, get, first, count, delete, update, aggregate, values, annotate; insert
RustCalls   == {"all", "get", "first", "count", "delete", "update", "aggregate", "values",
                "annotate", "insert"}
PythonCalls == {"all", "first", "count", "delete", "update", "aggregate", "insert"}
Ask(r) ==
  /\ stmt = NoStmt
  /\ r.call \in (IF front = "rust" THEN RustCalls ELSE PythonCalls)
  /\ stmt' = IF front = "python" THEN PyStatement(node, r.call, r.args)
             ELSE IF r.call = "insert" THEN RsInsert(Table, node.schema, r.args.assigns)
             ELSE RsStatement(node, r.call, r.args)
  /\ UNCHANGED <<front, node, parts, custom>>

SessionNext ==
  \/ \E k \in Keys, negated \in BOOLEAN : Filter(k, negated)
  \/ \E q \in Trees(Known), negated \in BOOLEAN : FilterTree(q, negated)
  \/ \E a \in DOMAIN AliasBackend : Route(a)
  \/ \E names \in {<<"author">>, <<"author", "nobody">>} : Related(names)
  \/ \E s \in Shapes : Shape(s)
  \/ \E r \in Requests : Ask(r)

SessionSpec == SessionInit /\ [][SessionNext]_sessionVars
=============================================================================
