----------------------------- MODULE MCServices -----------------------------
(***************************************************************************)
(* The Services run: four components that share no state, one behaviour      *)
(* each (`part`): the backends' calls, a value's round trip, cached reads     *)
(* and streams, and file storage.                                           *)
(***************************************************************************)
EXTENDS FileStore, CachedReads, Backends, RowValues

VARIABLE part

-----------------------------------------------------------------------------
\* Two databases of different kinds, one of each kind alone, and files that
\* are missing, broken or shadowed by the environment.
File(parses, urls) == [parses |-> parses, urls |-> urls]
MCSources ==
  { [files |-> <<File(FALSE, <<>>), File(TRUE, [default |-> "SQLite"])>>,
     env |-> [default |-> "MySQL", logs |-> "PostgreSQL"], narrow |-> TRUE],
    [files |-> <<File(TRUE, [default |-> "PostgreSQL"]), File(TRUE, [logs |-> "MySQL"])>>,
     env |-> [logs |-> "SQLite"], narrow |-> FALSE],
    [files |-> <<>>, env |-> [logs |-> "MySQL"], narrow |-> FALSE] }

Call(op, alias, marked, keys) == [op |-> op, alias |-> alias, marked |-> marked, keys |-> keys]
MCCalls ==
  { Call(op, alias, FALSE, {}) : op \in {"insert", "save"}, alias \in {"", "logs"} }
    \cup { Call(op, "", FALSE, 1 .. 2) : op \in {"all", "count", "bulkUpdate", "bulkDelete"} }
    \cup { Call("one", alias, FALSE, 1 .. 2) : alias \in {"logs", "lost"} }
    \cup { Call("update", "", marked, 1 .. 2) : marked \in BOOLEAN }
    \cup { Call("delete", "", FALSE, {1}) }

-----------------------------------------------------------------------------
\* What each field is made for: the Rust types and the Python fields with
\* their columns and values.
RustFields ==
  { <<"i32", "INTEGER", Value("Int", n)>> : n \in {"0", "7"} }
    \cup { <<"i64", "BIGINT", Value("Int", n)>> : n \in {"1", "7"} }
    \cup { <<"f64", "DOUBLE", Value("Float", "1.5")>>, <<"i64", "BIGINT", Nothing>>, <<"String", "TEXT", Nothing>> }
    \cup { <<"bool", "BOOLEAN", Value("Bool", n)>> : n \in {"0", "1"} }
    \cup { <<"String", "TEXT", Value("Text", s)>> : s \in {"plain", "day", "moment", "sentence"} }
    \cup { <<"NaiveDateTime", "TIMESTAMP", Value("DateTime", "moment")>>,
           <<"NaiveDate", "DATE", Value("Date", "day")>> }
PythonFields ==
  { <<"IntField", "INTEGER", Value("Int", "7")>>, <<"BigIntField", "BIGINT", Value("Int", "1")>>,
    <<"FloatField", "DOUBLE", Value("Float", "1.5")>>, <<"BooleanField", "BOOLEAN", Value("Bool", "1")>>,
    <<"DecimalField", "NUMERIC", Value("Text", "number")>>, <<"UUIDField", "UUID", Value("Text", "uuid")>>,
    <<"DateTimeField", "TEXT", Value("Text", "isoMoment")>>, <<"DateField", "DATE", Value("Text", "day")>>,
    <<"TimeField", "TIME", Value("Text", "time")>>, <<"JSONField", "JSON", Value("Text", "json")>>,
    <<"CharField", "TEXT", Nothing>>, <<"IntField", "INTEGER", Nothing>> }
    \cup { <<"CharField", "TEXT", Value("Text", s)>> : s \in {"plain", "day", "moment", "sentence"} }

Model(table, type) == [table |-> table, fields |-> [c |-> type]]
Registries(type) ==
  { <<Model("t", type)>>, <<Model("t", type), Model("u", "DateField")>>,
    <<Model("t", type), Model("t", "IntField")>> }

Kinds == {"SQLite", "PostgreSQL", "MySQL"}
Storable(kind, v) == kind = "SQLite" => v # Nothing
RustJourneys ==
  { [backend |-> kind, path |-> "execute", front |-> "rust", type |-> f[1], column |-> f[2],
     boolish |-> boolish, models |-> <<>>, batch |-> <<f[3]>>] :
      kind \in Kinds, f \in RustFields, boolish \in BOOLEAN }
PythonJourneys ==
  UNION { { [backend |-> kind, path |-> path, front |-> "python", type |-> f[1], column |-> f[2],
             boolish |-> FALSE, models |-> models, batch |-> <<f[3]>>] :
              kind \in Kinds, path \in {"execute", "bulk"}, models \in Registries(f[1]) } :
            f \in PythonFields }
BulkJourneys ==
  { [j EXCEPT !.batch = <<f[3], @[1]>>] :
      j \in {k \in PythonJourneys : k.path = "bulk"}, f \in {g \in PythonFields : g[1] = "CharField"} }
MCJourneys ==
  { j \in RustJourneys \cup PythonJourneys \cup {k \in BulkJourneys : k.type = "CharField"} :
      \A i \in DOMAIN j.batch : Storable(j.backend, j.batch[i]) }

-----------------------------------------------------------------------------
\* Two queries asked for on two aliases, one of them under a key by hand too;
\* the ttl of one is the cache's own, those of the others are shorter.
Asks(alias, sql, key, ttl) == [alias |-> alias, sql |-> sql, key |-> key, ttl |-> ttl]
MCAlias == {"default", "replica"}
MCAsked == { Asks("default", "low", "", 1), Asks("replica", "low", "", 2), Asks("default", "every", "low", 1) }
MCSelects == [low |-> {1}, every |-> {1, 2}]

Chunks(chunk, limit, offset) ==
  [chunk |-> chunk, limit |-> limit, offset |-> offset, alias |-> "default"]
MCStreams == { Chunks(1, NoLimit, 0), Chunks(2, NoLimit, 0), Chunks(3, NoLimit, 0), Chunks(1, 1, 0), Chunks(1, NoLimit, 1) }

-----------------------------------------------------------------------------
MCInit ==
  /\ part \in {"calls", "keys", "trip", "cached", "streamed", "files"}
  /\ BackendsInit /\ TripInit /\ ReadsInit /\ Init
  /\ part # "trip" => cell = CHOOSE j \in Journeys : TRUE

MCNext ==
  /\ UNCHANGED part
  /\ \/ /\ part \in {"calls", "keys"} /\ BackendsNext
        /\ part = "calls" => task' = task /\ \A a \in DOMAIN born' : Len(born'[a]) <= 2
        /\ part = "keys" => /\ last'.op = "none" \/ (last'.op = "insert" /\ last'.alias = "logs")
                            /\ registry' = Unset \/ registry'.pools = [default |-> "PostgreSQL", logs |-> "SQLite"]
                            /\ \E a \in DOMAIN born' :
                                 /\ \A other \in DOMAIN born' \ {a} : born'[other] = <<>>
                                 /\ Cardinality({k \in DOMAIN born'[a] : born'[a][k] = Stranger}) <= 1
        /\ UNCHANGED <<tripVars, readVars, storeVars>>
     \/ part = "trip" /\ TripNext /\ UNCHANGED <<backendVars, readVars, storeVars>>
     \/ /\ part \in {"cached", "streamed"} /\ ReadsNext
        /\ part = "cached" => /\ stream' = stream
                              /\ tables' \in [Alias -> SUBSET {1}]
                              /\ work'.open => work'.rows \subseteq {1}
        /\ part = "streamed" => reader' = reader /\ clock' = clock /\ tables'["replica"] = {}
        /\ UNCHANGED <<backendVars, tripVars, storeVars>>
     \/ part = "files" /\ Next /\ UNCHANGED <<backendVars, tripVars, readVars>>

Alike == UNION { Permutations(s) : s \in {Task, Conn} }

MCSpec == MCInit /\ [][MCNext]_<<part, backendVars, tripVars, readVars, storeVars>>

=============================================================================
