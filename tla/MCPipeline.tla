----------------------------- MODULE MCPipeline -----------------------------
(* Small projects, files of other branches and calls for FileRunner.         *)
EXTENDS FileRunner, TLC

CONSTANTS p, q

Symmetry == Permutations({p, q})

F(name, rust, flags, default) ==
  [name |-> name, rust |-> rust, option |-> FALSE, dbType |-> "", flags |-> flags, default |-> default]

Id == F("id", "i64", {"pk"}, "")
Title == F("title", "String", {}, "")
Cover == F("cover", "StoredFile", {"nullable"}, "")
Views == F("views", "i32", {}, "0")
Slug == F("slug", "String", {}, "")

Posts(fields) == ModelEntry("posts", "main", "", fields)
In1(fields) == ModelEntry("posts", "main", "one", fields)
In2(fields) == ModelEntry("posts", "main", "two", fields)

MCProjects ==
  { \* columns are added and altered, one of another database
    << <<Posts(<<Id, Title>>), ModelEntry("tags", "pg", "", <<Id>>)>>,
       <<Posts(<<Id, [Title EXCEPT !.default = "'x'"], Views, Cover>>), ModelEntry("tags", "pg", "", <<Id>>),
         ModelEntry("notes", "pg", "", <<Id>>)>> >>,
    \* a column SQLite cannot add, and a key that moves
    << <<Posts(<<Id, Title>>)>>, <<Posts(<<Id, Title, Slug>>)>>,
       <<Posts(<<[Id EXCEPT !.flags = {}], [Title EXCEPT !.flags = {"pk"}], Slug>>)>> >>,
    \* one table in two schemas
    << <<In1(<<Id>>)>>, <<In1(<<Id, Views>>), In2(<<Id, Views>>)>> >>,
    \* a type that is changed into one PostgreSQL casts to, and into one it does not
    << <<Posts(<<Id, Views>>)>>, <<Posts(<<Id, [Views EXCEPT !.rust = "String"]>>)>>,
       <<Posts(<<Id, [Views EXCEPT !.rust = "Uuid"]>>)>> >>,
    \* a key that may be NULL
    << <<Posts(<<Id>>)>>, <<Posts(<<[Id EXCEPT !.flags = {"pk", "nullable"}]>>)>> >> }

Branch(stem, ops) == MigrationFile(stem, ops, TRUE)
Col(f) == FieldMeta(f)
\* Compared once, so that two workers of TLC share them in their normal form
Files(S) == {f \in S : f = MigrationFile(f.stem, f.ops, f.readable)}

MCBranches == Files(
  { Branch(<<1, "other">>, <<Operation("CreateTable", "posts", "", <<Col(Id)>>, "main"),
                             Operation("CreateTable", "drafts", "", <<Col(Id)>>, "")>>),
    Branch(<<1, "CreateTable", "posts">>, <<Operation("CreateTable", "labels", "", <<Col(Id), Col(Views)>>, "")>>),
    Branch(<<2, "edit">>, <<Operation("RemoveField", "posts", "", <<Col(Title)>>, ""),
                            Operation("CreateIndex", "posts", "", <<Col(Id)>>, ""),
                            Operation("DeleteIndex", "posts", "", <<Col(Id)>>, ""),
                            Operation("RunSQL", "", "", <<>>, "")>>),
    MigrationFile(<<1, "broken">>, <<>>, FALSE) })

MCBackend == [main |-> "SQLite", pg |-> "PostgreSQL", my |-> "MySQL"]

Call(alias, schema, live, choice, dry) ==
  [alias |-> alias, schema |-> schema, live |-> live, choice |-> choice, dry |-> dry]

MCCalls ==
  { Call("main", "", FALSE, "none", FALSE), Call("main", "", TRUE, "none", FALSE),
    Call("main", "one", FALSE, "A", FALSE), Call("pg", "one", FALSE, "L", FALSE),
    Call("pg", "", FALSE, "A", TRUE), Call("pg", "", FALSE, "none", FALSE),
    Call("pg", "one", TRUE, "none", FALSE), Call("pg", "", TRUE, "none", FALSE),
    Call("my", "", FALSE, "none", FALSE) }
=============================================================================
