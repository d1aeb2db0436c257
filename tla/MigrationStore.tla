--------------------------- MODULE MigrationStore ---------------------------
(***************************************************************************)
(* What migration runners work on: the files with their operations, and    *)
(* the databases (DDL in effect, tracking table ryx_migrations).  Every    *)
(* statement commits by itself.                                            *)
(***************************************************************************)
EXTENDS Naturals, Sequences, FiniteSets

CONSTANTS
  Alias,      \* the databases
  Schema,     \* schemas of a PostgreSQL database; one elsewhere
  Public,     \* the schema an unqualified name means
  Table,      \* the tables the files are about
  Script,     \* the files in the order of their stems, each a sequence of operations
  Stem,       \* the stem of a file
  Once,       \* RunSQL steps that fail when they are run again
  Sites,      \* the databases the project may meet: records [dialect, unfit]
  MaxFaults,  \* bound on crashes and failing statements
  None

Kind == {"create", "index", "add", "alter", "sql", "none"}

(* home: the database of the operation's model, None for RunSQL and for     *)
(* operations without a model; schema: the operation's own, if any.         *)
Operation ==
  [kind : Kind, table : Table, home : Alias \cup {None}, schema : Schema \cup {None}]

File == DOMAIN Script
Step == UNION {{f} \X DOMAIN Script[f] : f \in File}
Op(s) == Script[s[1]][s[2]]

ASSUME SchemaAssumption == Public \in Schema /\ None \notin Schema \cup Alias
ASSUME ScriptAssumption == Script \in Seq(Seq(Operation))
ASSUME StemAssumption == DOMAIN Stem = File
ASSUME OnceAssumption == Once \subseteq {s \in Step : Op(s).kind = "sql"}
ASSUME SitesAssumption ==
  \A d \in Sites : /\ d.dialect \in [Alias -> {"sqlite", "postgres", "mysql"}]
                   /\ d.unfit \subseteq Alias \X {s \in Step : Op(s).kind \in {"add", "alter"}}
ASSUME FaultAssumption == MaxFaults \in Nat

VARIABLES
  site,       \* the backend of each database, and the columns it cannot add or
              \* alter for what its tables hold
  effect,     \* per database, the operations in effect and the schema of each
  tracked,    \* the schemas that have a table ryx_migrations
  rows,       \* the stems recorded in the one an unqualified name means
  again,      \* history: operations that changed something a second time
  budget,     \* crashes and failures to come
  disturbed   \* history: a crash, a failed statement or two runs at a time

store == <<site, effect, tracked, rows, again>>
history == <<budget, disturbed>>

StoreTypeOK ==
  /\ site \in Sites
  /\ effect \in [Alias -> SUBSET (Step \X Schema)]
  /\ tracked \in [Alias -> SUBSET Schema]
  /\ rows \in [Alias -> SUBSET {Stem[f] : f \in File}]
  /\ again \subseteq Alias \X Step
  /\ budget \in 0..MaxFaults
  /\ disturbed \in BOOLEAN

StoreInit ==
  /\ site \in Sites
  /\ effect = [a \in Alias |-> {}]
  /\ tracked = [a \in Alias |-> {}]
  /\ rows = [a \in Alias |-> {}]
  /\ again = {}
  /\ budget = MaxFaults
  /\ disturbed = FALSE

Undisturbed == UNCHANGED history
Fault == budget > 0 /\ budget' = budget - 1 /\ disturbed' = TRUE
(* A statement the database refuses for what is in it.                      *)
Refused == disturbed' = TRUE /\ UNCHANGED budget

-----------------------------------------------------------------------------
(* RunSQL and operations without a model are for every database.            *)
Relevant(s, a) == Op(s).home \in {None, a}

(* Operations of other types yield no statement.                            *)
Wanted(a) == {s \in Step : Relevant(s, a) /\ Op(s).kind # "none"}

Before(s, t) == s[1] < t[1] \/ (s[1] = t[1] /\ s[2] < t[2])

(* The schema a statement names: the operation's, else the runner's.        *)
Target(s, sc) ==
  IF Op(s).kind = "sql" THEN Public
  ELSE IF Op(s).schema # None THEN Op(s).schema ELSE sc

HasTable(a, t, sc) ==
  \E s \in Step : <<s, sc>> \in effect[a] /\ Op(s).kind = "create" /\ Op(s).table = t

(* What the database makes of a statement.  CREATE TABLE is IF NOT EXISTS,  *)
(* and so is CREATE INDEX, which MySQL does not parse.  alter_column raises *)
(* for SQLite, before there is a statement: a column knows no table.  ADD   *)
(* COLUMN fails if the column is there.                                     *)
Accepts(a, s, sc) ==
  LET o == Op(s) IN
  /\ o.kind \in {"index", "add", "alter"} => HasTable(a, o.table, sc)
  /\ o.kind = "alter" => site.dialect[a] # "sqlite"
  /\ o.kind = "index" => site.dialect[a] # "mysql"
  /\ o.kind = "add" \/ s \in Once => <<s, sc>> \notin effect[a]
  /\ <<a, s>> \notin site.unfit

Execute(a, s, sc) ==
  /\ Accepts(a, s, sc)
  /\ effect' = [effect EXCEPT ![a] = @ \cup {<<s, sc>>}]
  /\ again' = IF <<s, sc>> \in effect[a] /\ Op(s).kind \in {"alter", "sql"}
              THEN again \cup {<<a, s>>} ELSE again
  /\ UNCHANGED <<site, tracked, rows>>

(* INSERT INTO ryx_migrations: the name is UNIQUE.                          *)
Insertable(a, m) == Public \in tracked[a] /\ m \notin rows[a]
=============================================================================
