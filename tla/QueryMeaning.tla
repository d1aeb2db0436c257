---------------------------- MODULE QueryMeaning ----------------------------
(***************************************************************************)
(* What the compiled statement of a query has to do with the query: the      *)
(* properties of the builder and the compiler taken together.               *)
(***************************************************************************)
EXTENDS QuerySession

Asked == stmt # NoStmt
Compiled == Compile(stmt, custom)

\* The conditions of a query, of its lists and of its tree
Leaves(q) == IF q = NoQ THEN {} ELSE {t.test : t \in {u \in Nodes(q) : u.kind = "leaf"}}
Tested(n) == ToSet(n.filters) \cup Leaves(n.q)

Direct(f) == Len(f.lookup) = 1
Final(f)  == f.lookup[Len(f.lookup)]
KeyOfPath(f) == FieldPath(f.field.segs).key

-----------------------------------------------------------------------------
\* bind: a List is skipped, every other value takes one parameter
Bound(values) == Total([i \in DOMAIN values |-> IF values[i].type = "List" THEN 0 ELSE 1])

\* The conditions whose text has another number of "?" than they bind values:
\* tests for several keys on PostgreSQL (one parameter, one operator "?"); a
\* list among the members of a list; a JSON part in the place of a lookup;
\* has_key on PostgreSQL; containment on SQLite; a custom lookup with another
\* number of "?" than one; a list where one value was meant; isnull, in and range
\* at the end of a chain, where the resolver's own forms of them are used.
ExpandsLists == {"isnull", "in", "range", "has_any", "has_all"}
Plain(f) == Direct(f) /\ KeyOfPath(f) = ""
Customized(f) == Final(f) \in DOMAIN custom /\ ~(Plain(f) /\ Final(f) \in KnownTransforms)
Miscounted(f, backend) ==
  LET items == Items(f.value)
      written == CASE Final(f) \in JsonParts \cup {"isnull"}     -> 0
                   [] Final(f) \in {"contains", "contained_by"} -> IF backend = "SQLite" THEN 0 ELSE 1
                   [] Final(f) = "range"                        -> 2
                   [] Final(f) = "has_key"                      -> IF backend = "PostgreSQL" THEN 2 ELSE 1
                   [] Final(f) \in {"has_any", "has_all"}       -> IF backend = "MySQL" THEN 1 ELSE 2
                   [] OTHER                                     -> 1
      keys  == items # <<>> /\ Bound(items) # 2
      list  == Bound(items) # Len(items)
      other == (IF Customized(f) THEN custom[Final(f)].holes ELSE written) # Bound(<<f.value>>)
  IN IF ~Direct(f) \/ Final(f) \notin ExpandsLists THEN other
     ELSE CASE Final(f) = "isnull"               -> FALSE
            [] Final(f) \in {"in", "range"}      -> list
            [] Final(f) \in {"has_any", "has_all"} -> IF backend = "PostgreSQL" THEN keys ELSE list

\* A statement has exactly as many "?" as it binds values unless one of its
\* conditions is of the shapes above, or a list is assigned to a column; and each
\* of those conditions alone is off: the database refuses the statement or the
\* values slide to the wrong parameter.  (compilr.rs 780-997, lookups.rs resolve)
BoundExactly ==
  Asked /\ Compiled.err = "none" =>
    LET used == CASE stmt.op.kind = "insert" -> {}
                  [] stmt.op.kind = "select" -> Tested(stmt) \cup ToSet(stmt.having)
                  [] OTHER -> Tested(stmt)
        assigned == IF stmt.op.kind \in {"insert", "update"} THEN AssignedValues(stmt) ELSE <<>>
        off(f) == LET r == SingleFilter(f, stmt.backend, custom) IN Holes(r.chain) # Bound(r.values)
    IN /\ (\A f \in used : ~Miscounted(f, stmt.backend)) /\ Bound(assigned) = Len(assigned)
            => Compiled.holes = Bound(Compiled.values)
       /\ \A f \in used : off(f) <=> Miscounted(f, stmt.backend)

-----------------------------------------------------------------------------
\* The truth of a compiled chain: AND binds before OR.  The atoms are numbered in
\* the order they are written; v holds the numbers of those that are true.

\* Along a chain whose first atom is number i: whether an alternative before
\* held, whether the terms since the last OR do, the number of the next atom
AlongChain(chain, truths, i) ==
  LET after[n \in 0 .. Len(chain)] ==
        IF n = 0 THEN [before |-> FALSE, run |-> TRUE, next |-> i]
        ELSE LET a == after[n - 1]
                 r == truths[n][a.next]
             IN IF chain[n].link = "OR"
                THEN [before |-> a.before \/ a.run, run |-> r.holds, next |-> r.next]
                ELSE [before |-> a.before, run |-> a.run /\ r.holds, next |-> r.next]
  IN after[Len(chain)]

\* A term, from the truths of the terms in its parentheses, as a function of the
\* number of its first atom
TermTruth(t, truths, v) ==
  [i \in Nat |->
     CASE t.kind = "never" -> [holds |-> FALSE, next |-> i]
       [] t.kind = "atom"  -> [holds |-> i \in v, next |-> i + 1]
       [] t.kind = "group" -> LET all == AlongChain(t.kids, truths, i)
                              IN [holds |-> (all.before \/ all.run) # t.not, next |-> all.next]]

Truth(term, v) ==
  LET truth[t \in Nodes(term)] == TermTruth(t, [n \in DOMAIN t.kids |-> truth[t.kids[n]]], v)
  IN truth[term]

EvalChain(chain, v, i) == Truth(Group(chain, FALSE), v)[i]

\* The truth the query asks for: a condition is one atom, or on SQLite one for
\* each key of has_any and has_all; an empty list matches nothing.
TestsKeys(f) == Direct(f) /\ Final(f) \in {"has_any", "has_all"}
Empty(f) == Direct(f) /\ Final(f) \in {"in", "has_any", "has_all"} /\ Items(f.value) = <<>>
MeansLeaf(f, v, i) ==
  LET n == IF Empty(f) THEN 0 ELSE IF TestsKeys(f) /\ stmt.backend = "SQLite" THEN Len(Items(f.value)) ELSE 1
      holds == IF Empty(f) THEN FALSE
               ELSE IF Final(f) = "has_any" THEN \E j \in i .. i + n - 1 : j \in v
               ELSE \A j \in i .. i + n - 1 : j \in v
  IN [holds |-> holds # f.negated, next |-> i + n]

AlongKids(kind, meanings, i) ==
  LET after[n \in 0 .. Len(meanings)] ==
        IF n = 0 THEN [holds |-> kind = "and", next |-> i]
        ELSE LET a == after[n - 1]
                 r == meanings[n][a.next]
             IN [holds |-> CASE kind = "and" -> a.holds /\ r.holds
                             [] kind = "or"  -> a.holds \/ r.holds
                             [] kind = "not" -> ~r.holds,
                 next |-> r.next]
  IN after[Len(meanings)]

NodeMeans(t, meanings, v) ==
  [i \in Nat |-> IF t.kind = "leaf" THEN MeansLeaf(t.test, v, i) ELSE AlongKids(t.kind, meanings, i)]

MeansQ(q, v) ==
  LET means[t \in Nodes(q)] == NodeMeans(t, [i \in DOMAIN t.kids |-> means[t.kids[i]]], v)
  IN means[q]

\* The flat filters and the tree
WhereTree(n) ==
  QTree("and", [i \in DOMAIN n.filters |-> QLeaf(n.filters[i])] \o (IF n.q = NoQ THEN <<>> ELSE <<n.q>>))

\* A negated test for members of an empty list, on SQLite the alternatives of
\* has_any (or the tests of has_all) written without parentheses, and "()",
\* which no database takes
NegatedEmpty(f) == Empty(f) /\ f.negated
Loose(f) == TestsKeys(f) /\ stmt.backend = "SQLite" /\ Len(Items(f.value)) > 1 /\ ~f.negated
Blank(t) == t.kind = "or" /\ t.kids = <<>>

\* The WHERE clause holds for exactly the rows the filters, exclusions and Q
\* trees describe, however they are nested and whatever else the statement has,
\* unless an empty list is negated, SQLite's alternatives stand loose or an "or"
\* has no children.  (compilr.rs 645-779)
ConditionMeans ==
  Asked /\ stmt.op.kind # "insert" /\ Compiled.err = "none" =>
    \/ \E f \in Tested(stmt) : NegatedEmpty(f) \/ Loose(f)
    \/ stmt.q # NoQ /\ \E t \in Nodes(stmt.q) : Blank(t)
    \/ LET chain == CompileWhere(stmt, custom).chain
           atoms == EvalChain(chain, {}, 1).next - 1
       IN \A v \in SUBSET (1 .. atoms) :
            EvalChain(chain, v, 1).holds = MeansQ(WhereTree(stmt), v)[1].holds

-----------------------------------------------------------------------------
\* The fragments a condition compiles to, under its NOT if it has one
AtomsIn(chain) ==
  {t.frag : t \in {u \in ToSet(chain) \cup UNION {ToSet(x.kids) : x \in ToSet(chain)} : u.kind = "atom"}}

\* The transforms that reach the column a condition tests: those of its path
\* unless a key follows them or the lookup is a chain, which starts again with its
\* own; and the last name of the lookup, if the registry resolves it to one.
Reaching(f) ==
  (IF Direct(f) /\ (KeyOfPath(f) = "" \/ Final(f) \in ExpandsLists)
   THEN ToSet(FieldPath(f.field.segs).transforms)
   ELSE IF Direct(f) THEN {} ELSE ToSet(LeadingTransforms(Front(f.lookup))))
  \cup (IF Customized(f) THEN {} ELSE {Final(f)})

\* Every "__" segment of a field reaches the column it tests, except that the
\* lookups that expand lists (and isnull) read the whole document where a key is
\* named, and that a key, or a chained lookup, discards the transforms before it.
PathHonoured ==
  Asked /\ Compiled.err = "none" /\ stmt.op.kind # "insert" =>
    \A f \in Tested(stmt) :
      LET path == FieldPath(f.field.segs)
      IN ~Empty(f) => \A a \in AtomsIn(SingleFilter(f, stmt.backend, custom).chain) :
           /\ path.key # "" =>
                ((\E s \in ToSet(a.col.steps) : s.part = "key" /\ s.key = path.key)
                   <=> IF Direct(f) THEN Final(f) \notin ExpandsLists
                       ELSE "key" \in ToSet(LeadingTransforms(Front(f.lookup))))
           /\ \A p \in ToSet(path.transforms) \ JsonParts :
                (\E s \in ToSet(a.col.steps) : s.part = p) <=> p \in Reaching(f)

-----------------------------------------------------------------------------
\* A SQLite date part is a zero-padded text; bound as an integer, the value is
\* compared with it as a text unless the column is cast.
Digits(x) == IF x < 10 THEN <<x>> ELSE <<x \div 10, x % 10>>
Padded(x) == <<x \div 10, x % 10>>
TextLess(s, t) ==
  \E i \in 1 .. Len(t) : /\ \A j \in 1 .. i - 1 : j <= Len(s) /\ s[j] = t[j]
                         /\ i > Len(s) \/ s[i] < t[i]
Compares(op, less, equal) ==
  CASE op = "="  -> equal [] op = ">"  -> ~less /\ ~equal [] op = ">=" -> ~less
    [] op = "<"  -> less  [] op = "<=" -> less \/ equal

\* A comparison of a two-digit date part with a number selects the rows whose
\* part compares so, on every backend, unless a custom lookup stands for it; on
\* SQLite it does unless the part was written in the path of the field and
\* nothing there is a part the resolver casts.
CastParts == {"year", "month", "quarter", "day", "hour"}
TwoDigits == {"month", "day", "hour", "minute", "second", "week", "iso_week"}
PartsCompareAsNumbers ==
  Asked /\ Compiled.err = "none" /\ stmt.op.kind # "insert" =>
    \A f \in Tested(stmt) :
      LET path == FieldPath(f.field.segs)
          part(a) == a.col.steps[Len(a.col.steps)].part
      IN f.value.type = "Int" /\ ~Customized(f) => \A a \in AtomsIn(SingleFilter(f, stmt.backend, custom).chain) :
           a.col.steps # <<>> /\ part(a) \in TwoDigits /\ a.op \in {"=", ">", ">=", "<", "<="} =>
             LET asText == stmt.backend = "SQLite" /\ ~AsIntegerCast(a.col, "SQLite")
                 right == \A stored, bound \in {3, 5, 12, 31} :
                   LET less  == IF asText THEN TextLess(Padded(stored), Digits(bound)) ELSE stored < bound
                       equal == IF asText THEN Padded(stored) = Digits(bound) ELSE stored = bound
                   IN Compares(a.op, less, equal) = Compares(a.op, stored < bound, stored = bound)
             IN right <=> \/ stmt.backend # "SQLite"
                          \/ ~Direct(f)
                          \/ path.transforms = <<>>
                          \/ ToSet(path.transforms) \cap CastParts # {}
                          \/ Final(f) \notin Comparisons

-----------------------------------------------------------------------------
\* A statement is compiled for the backend of the pool that will run it.  The
\* Python binding sees to that; using() of the Rust query set does not.
CompiledForPool ==
  Asked =>
    LET pool == IF stmt.alias = "" THEN "default" ELSE stmt.alias
    IN \/ stmt.backend = AliasBackend[pool]
       \/ front = "rust" /\ stmt.alias # ""
=============================================================================
