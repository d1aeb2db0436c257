----------------------------- MODULE MCQueries -----------------------------
(***************************************************************************)
(* The menus of the Queries runs.  In mode "build" one query is built and   *)
(* asked for; in mode "cache" two threads compile the queries of a small     *)
(* menu through the plan cache.                                             *)
(***************************************************************************)
EXTENDS QueryMeaning, PlanCache

VARIABLE mode

T == Scalar("Text", TRUE)
I == Scalar("Int", TRUE)
Yes == Scalar("Bool", TRUE)
No  == Scalar("Bool", FALSE)
L(n) == ListOf([i \in 1 .. n |-> I])
Nested == ListOf(<<I, L(2)>>)

K(name, segs, value) == [name |-> <<name>>, segs |-> segs, value |-> value]

MCPools == [default |-> "SQLite", pg |-> "PostgreSQL", my |-> "MySQL"]

MCKeys ==
  { K("age", <<>>, I), K("age", <<"gte">>, I), K("age", <<"in">>, L(0)), K("age", <<"in">>, L(2)), K("age", <<"in">>, Nested),
    K("age", <<"range">>, L(2)), K("age", <<"range">>, L(1)), K("age", <<>>, L(2)),
    K("title", <<"contains">>, T), K("title", <<"startswith">>, T), K("title", <<"isnull">>, No),
    K("title", <<"near">>, T), K("made", <<"year", "near">>, T),
    K("made", <<"minute", "gte">>, I), K("made", <<"month", "gte">>, I), K("made", <<"month">>, I),
    K("made", <<"year", "in">>, L(2)), K("made", <<"year", "theme", "gte">>, I),
    K("meta", <<"theme", "exact">>, T), K("meta", <<"theme", "isnull">>, Yes),
    K("meta", <<"has_any">>, L(2)), K("meta", <<"has_all">>, L(3)), K("meta", <<"has_key">>, T),
    K("meta", <<"key">>, T), K("meta", <<"contained_by">>, T) }

MCTrees(known) ==
  LET leaf(k, negated) == QLeaf(Keyed(k.name, k.segs, k.value, negated, known))
      old    == leaf(K("age", <<"gte">>, I), FALSE)
      named  == leaf(K("title", <<"startswith">>, T), TRUE)
      tagged == leaf(K("meta", <<"has_any">>, L(2)), FALSE)
      ranged == leaf(K("age", <<"range">>, L(1)), FALSE)
  IN { QTree("or", <<old, named>>), QTree("and", <<old, QTree("or", <<named, tagged>>)>>),
       QTree("not", <<QTree("and", <<old, named>>)>>), QTree("not", <<>>), QTree("or", <<ranged, old>>) }

Chained(chain, value) == Condition([name |-> <<"made">>, segs |-> <<>>], chain, value, FALSE)
MCShapes ==
  { [part |-> "limit", item |-> 5], [part |-> "distinct", item |-> TRUE],
    [part |-> "schema", item |-> "tenant"], [part |-> "orderBy", item |-> <<"-", "age">>],
    [part |-> "nearest", item |-> [field |-> <<"emb">>, operator |-> "<->", limit |-> NoLimit]],
    [part |-> "nearest", item |-> [field |-> <<"emb">>, operator |-> "=", limit |-> 3]],
    [part |-> "groupBy", item |-> <<"author">>],
    [part |-> "annotations", item |-> Aggregate("n", "Count", <<"id">>, TRUE)],
    [part |-> "joins", item |-> [kind |-> "CROSS", table |-> "tag", alias |-> "",
                                 left |-> <<>>, right |-> <<>>]],
    [part |-> "filters", item |-> Chained(<<"minute", "gte">>, I)],
    [part |-> "filters", item |-> Chained(<<"key", "in">>, L(2))],
    [part |-> "filters", item |-> Chained(<<"year", "isnull">>, Yes)],
    [part |-> "unheard", item |-> 0] }

Assign == <<[col |-> <<"age">>, value |-> I]>>
MCRequests ==
  { [call |-> c, args |-> 0] : c \in {"all", "first", "count", "delete"} }
  \cup { [call |-> "get", args |-> K("made", <<"year", "gte">>, I)],
         [call |-> "update", args |-> [assigns |-> Assign]],
         [call |-> "update", args |-> [assigns |-> <<>>]],
         [call |-> "insert", args |-> [assigns |-> Assign, returning |-> TRUE]],
         [call |-> "aggregate", args |-> [aggs |-> <<Aggregate("n", "Sum", <<"age">>, FALSE)>>]],
         [call |-> "annotate", args |-> [aggs |-> <<Aggregate("n", "Count", <<"id">>, FALSE)>>]],
         [call |-> "values", args |-> [cols |-> <<<<"age">>>>]] }

NoCustom == [x \in {} |-> 0]
Near(holes) == "near" :> [op |-> "near", holes |-> holes] @@ "year" :> [op |-> "fiscal", holes |-> 2]
MCCustoms == {NoCustom, Near(1)}
MCFields == [own |-> <<"id", "age">>, relations |-> [author |-> <<"id">>]]

\* The queries of mode "cache": pairs that differ only in what the hash leaves
\* out (values, the ends of a tree's lists), and pairs that differ in what it
\* takes.
New(f) == RsFilter(NewQuerySet(Table), [kind |-> "key", name |-> f.name, segs |-> f.segs, value |-> f.value], FALSE)
Tree(q) == WithQ(NewQuerySet(Table), q)
Leafed(k) == RsLeaf(k.name, k.segs, k.value, FALSE)
A == Leafed(K("age", <<>>, I))
CachedQueries ==
  { New(K("age", <<"in">>, L(1))), New(K("age", <<"in">>, L(2))),
    New(K("title", <<"isnull">>, Yes)), New(K("title", <<"isnull">>, No)),
    RsFilter(NewQuerySet(Table), [kind |-> "key", name |-> <<"title">>, segs |-> <<"isnull">>,
                                  value |-> Yes], TRUE),
    WithOp(New(K("age", <<"in">>, L(1))), "delete", <<>>),
    With(NewQuerySet(Table), "filters",
         Condition([name |-> <<"title">>, segs |-> <<>>], <<"near">>, T, FALSE)),
    Tree(QTree("or", <<A, QTree("not", <<A>>)>>)),
    Tree(QTree("and", <<QTree("or", <<A, A>>), A, A>>)),
    Tree(QTree("and", <<QTree("or", <<A, A, A>>), A>>)) }

MCCallers == {"t1", "t2"}
MCRegistries == {NoCustom, Near(1)}

MaxEmitted == 3

MCInit ==
  /\ SessionInit
  /\ CacheInit
  /\ mode \in {"build", "cache"}
  /\ mode = "build" => registry = NoCustom
  /\ mode = "cache" => front = "rust" /\ custom = NoCustom

MCNext ==
  /\ UNCHANGED mode
  /\ \/ mode = "build" /\ SessionNext /\ UNCHANGED cacheVars
     \/ mode = "cache" /\ Cardinality(emitted) < MaxEmitted /\ CacheNext /\ UNCHANGED sessionVars

MCSpec == MCInit /\ [][MCNext]_<<mode, sessionVars, cacheVars>>

-----------------------------------------------------------------------------
\* What is left of a tree without its values and without its brackets: the
\* tests and connectives in the order they are written
RECURSIVE Spelled(_)
Spelled(q) == IF q.kind = "leaf" THEN <<[q.test EXCEPT !.value = I]>>
              ELSE <<q.kind>> \o FlattenSeq([i \in DOMAIN q.kids |-> Spelled(q.kids[i])])
ShapeOf(n) == [n EXCEPT !.filters = [i \in DOMAIN @ |-> [@[i] EXCEPT !.value = I]],
                        !.q = IF @ = NoQ THEN <<>> ELSE Spelled(@), !.extra = <<>>]

\* A statement answered from the cache is the statement of the query asked
\* unless a query was compiled before that differs from it only in its values
\* (the length of a list, the boolean of isnull), in its column aliases or in
\* where the lists of children in its tree end, or the custom lookups have
\* changed since.  So it is for the queries of this menu.
\* (compilr.rs 146-303)
AnswerExplained ==
  \A c \in Callers : Done(c) /\ calls[c].plan # PlanOf(calls[c].query, calls[c].under) =>
    \E e \in emitted : /\ calls[c].plan = PlanOf(e.query, e.under)
                       /\ ShapeOf(e.query) = ShapeOf(calls[c].query)
                       /\ e.query # calls[c].query \/ e.under # calls[c].under
=============================================================================
