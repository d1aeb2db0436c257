------------------------ MODULE MCMigrationRunner ------------------------
(* A project of two tables on two databases, for TLC; see Migrate.cfg.     *)
EXTENDS MigrationRunner, TLC

CONSTANTS a, b, t, u

O(k, tab, h) == [kind |-> k, table |-> tab, home |-> h, schema |-> None]

(* 0001: both tables; 0002: a column of one and raw SQL; 0003: a changed    *)
(* column and an index of the other, an operation of a type the runner      *)
(* passes over, and raw SQL that cannot be run twice.                       *)
Files ==
  << <<O("create", t, a), O("create", u, b)>>,
     <<O("add", t, a), O("sql", t, None)>>,
     <<O("alter", u, b), O("index", u, b), O("none", u, b),
       O("sql", u, None)>> >>

Stems == [f \in 1..3 |-> f]

Site(first, second, unfit) == [dialect |-> (a :> first) @@ (b :> second), unfit |-> unfit]

(* One that takes everything, and three that never take one operation: the  *)
(* index, the changed column, or a column the rows of its table do not allow. *)
MCSites ==
  { Site("sqlite", "postgres", {}), Site("postgres", "mysql", {}),
    Site("postgres", "sqlite", {}), Site("mysql", "postgres", {<<a, <<2, 1>>>>}) }

NotTwice == {<<3, 4>>}

Routes == (t :> a) @@ (u :> b)

Calls ==
  {[schema |-> Public, only |-> None, dry |-> FALSE],
   [schema |-> Public, only |-> b, dry |-> TRUE]}

TenantCalls == [schema : Schema, only : {None}, dry : {FALSE}]
=============================================================================
