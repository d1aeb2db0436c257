---------------------------- MODULE CachedReads ----------------------------
(***************************************************************************)
(* Reads of the Rust interface that do not go straight to the database:     *)
(* query sets cached in a MemoryCache (ryx-rs/src/cache.rs) and streams of   *)
(* chunks (ryx-rs/src/stream.rs), beside writers and a transaction closure.  *)
(*                                                                         *)
(* A database is the set of keys of its one table.  A query selects the keys *)
(* its sql names, in order; a history of the table's committed contents and  *)
(* the origin of each cache entry serve the properties only.                 *)
(***************************************************************************)
EXTENDS Naturals, Sequences, FiniteSets, FiniteSetsExt, SequencesExt

CONSTANTS
  Alias,        \* the databases
  Reader,       \* tasks that call .cache(..).all()
  Asked,        \* the queries they ask: records [alias, sql, key, ttl]; key "" for none given
  Selects,      \* sql -> the keys it selects
  Key,          \* the keys a table may hold
  DefaultTtl,   \* the lifetime of the MemoryCache
  MaxEntries,   \* its max_entries
  MaxClock,     \* bound on the seconds that pass
  Streams       \* the streams that may be opened: records [chunk, limit, offset, alias]

NoLimit == 0      \* the limit of a query that gives none

ASSUME TableAssumption == "default" \in Alias /\ IsFiniteSet(Key)
ASSUME CacheAssumption == DefaultTtl \in Nat /\ \A query \in Asked : query.alias \in Alias /\ query.ttl \in Nat
ASSUME StreamAssumption ==
  \A query \in Streams :
    query.chunk \in Nat /\ query.limit \in Nat /\ query.offset \in Nat /\ query.alias \in Alias

VARIABLES
  tables,   \* alias -> the keys committed
  work,     \* what the open closure sees of "default", or Closed
  clock,
  cache,    \* key -> [at, value, origin, straight]
  reader,   \* Reader -> the read it is in
  past,     \* alias -> contents and the last second they were current
  stream    \* the stream in progress

readVars == <<tables, work, clock, cache, reader, past, stream>>

Closed == [open |-> FALSE]
Idle == [at |-> "idle"]
NoStream == [at |-> "none"]

\* What a pool or, whatever the alias, the open closure answers.
Content(alias) == IF work.open THEN work.rows ELSE tables[alias]
Result(sql, rows) == rows \cap Selects[sql]

-----------------------------------------------------------------------------
(* MemoryCache.                                                             *)

\* Mutation: an entry of the age of the lifetime is alive
AliveToo(key) == key \in DOMAIN cache /\ clock - cache[key].at <= DefaultTtl

\* get: an entry lives for the cache's lifetime, whatever ttl it was set with
Alive(key) == key \in DOMAIN cache /\ clock - cache[key].at < DefaultTtl

\* set: a new key replaces the oldest one of a full cache; of the ttl given
\* nothing is kept
Oldest == {k \in DOMAIN cache : \A other \in DOMAIN cache : cache[k].at <= cache[other].at}
Kept(key, evicted) ==
  IF Cardinality(DOMAIN cache) >= MaxEntries /\ key \notin DOMAIN cache
  THEN DOMAIN cache \ {evicted} ELSE DOMAIN cache

Set(key, entry) ==
  \E evicted \in Oldest \cup {key} :
    /\ evicted = key <=> (Oldest = {} \/ Kept(key, evicted) = DOMAIN cache)
    /\ cache' = [k \in Kept(key, evicted) \cup {key} |-> IF k = key THEN entry ELSE cache[k]]

\* make_cache_key: the model, the sql and the values; no alias
CacheKey(query) == IF query.key # "" THEN query.key ELSE query.sql

-----------------------------------------------------------------------------
(* CachedQuerySet::all.                                                     *)

\* filled for another alias or query, inside a closure, or late
Odd(entry, query) ==
  entry.origin.alias # query.alias \/ entry.origin.sql # query.sql \/ ~entry.straight

Ask(r, query) ==
  /\ reader[r].at \in {"idle", "answered"}
  /\ reader' = [reader EXCEPT ![r] =
       IF Alive(CacheKey(query))
       THEN [at |-> "answered", query |-> query, value |-> cache[CacheKey(query)].value,
             when |-> clock, odd |-> Odd(cache[CacheKey(query)], query)]
       ELSE [at |-> "missed", query |-> query]]
  /\ UNCHANGED <<tables, work, clock, cache, past, stream>>

\* fetch_raw_rows
Fetch(r) ==
  /\ reader[r].at = "missed"
  /\ reader' = [reader EXCEPT ![r] =
       [at |-> "fetched", query |-> @.query, asof |-> clock, inside |-> work.open,
        value |-> Result(@.query.sql, Content(@.query.alias))]]
  /\ UNCHANGED <<tables, work, clock, cache, past, stream>>

Fill(r) ==
  /\ reader[r].at = "fetched"
  /\ LET read == reader[r]
     IN /\ Set(CacheKey(read.query),
               [at |-> clock, value |-> read.value, origin |-> read.query,
                straight |-> read.asof = clock /\ ~read.inside])
        /\ reader' = [reader EXCEPT ![r] = Idle]
  /\ UNCHANGED <<tables, work, clock, past, stream>>

-----------------------------------------------------------------------------
(* The tables, external: writers in autocommit mode, and a closure.         *)

Ended(alias) == {m \in past[alias] : m.until + DefaultTtl > clock /\ m.rows # tables[alias]}
                  \cup {[rows |-> tables[alias], until |-> clock]}

Commit(alias, rows) ==
  /\ tables' = [tables EXCEPT ![alias] = rows]
  /\ past' = [past EXCEPT ![alias] = Ended(alias)]
  /\ stream' = IF stream.at = "none" THEN stream
               ELSE [stream EXCEPT !.moved = @ \/ stream.query.alias = alias]

Flip(rows, k) == IF k \in rows THEN rows \ {k} ELSE rows \cup {k}

WriteRow(alias, k) ==
  /\ ~work.open
  /\ Commit(alias, Flip(tables[alias], k))
  /\ UNCHANGED <<work, clock, cache, reader>>

OpenClosure ==
  /\ ~work.open
  /\ work' = [open |-> TRUE, rows |-> tables["default"]]
  /\ stream' = IF stream.at = "none" THEN stream ELSE [stream EXCEPT !.moved = TRUE]
  /\ UNCHANGED <<tables, clock, cache, reader, past>>

WriteInside(k) ==
  /\ work.open
  /\ work' = [work EXCEPT !.rows = Flip(@, k)]
  /\ UNCHANGED <<tables, clock, cache, reader, past, stream>>

CloseClosure ==
  /\ work.open
  /\ work' = Closed
  /\ \/ Commit("default", work.rows)
     \/ UNCHANGED <<tables, past, stream>>
  /\ UNCHANGED <<clock, cache, reader>>

Tick ==
  /\ clock < MaxClock
  /\ clock' = clock + 1
  /\ UNCHANGED <<tables, work, cache, reader, past, stream>>

-----------------------------------------------------------------------------
(* QueryStream.                                                             *)

\* The rows of the table, in an order that its content determines; and those
\* after an offset, up to a limit.
All(alias) == SetToSeq(Content(alias))
Rows(alias, limit, offset) ==
  LET all == All(alias)
  IN SubSeq(all, offset + 1, IF offset + limit < Len(all) THEN offset + limit ELSE Len(all))

Open(query) ==
  /\ stream.at = "none"
  /\ stream' = [at |-> "open", query |-> query, last |-> 0, seen |-> <<>>, moved |-> work.open]
  /\ UNCHANGED <<tables, work, clock, cache, reader, past>>

\* Mutation: a full chunk is taken for the last one
NextChunkStops ==
  /\ stream.at = "open"
  /\ LET q == stream.query
         rows == Rows(q.alias, q.chunk, IF stream.last > 0 THEN stream.last ELSE q.offset)
     IN stream' = [stream EXCEPT !.seen = @ \o rows, !.last = @ + Len(rows),
                                 !.at = IF Len(rows) <= q.chunk THEN "ended" ELSE "open"]
  /\ UNCHANGED <<tables, work, clock, cache, reader, past>>

\* next_chunk: the chunk replaces the query's own limit, and what was read
\* its own offset; a short chunk, or none, is the last
NextChunk ==
  /\ stream.at = "open"
  /\ LET q == stream.query
         rows == Rows(q.alias, q.chunk, IF stream.last > 0 THEN stream.last ELSE q.offset)
     IN stream' = [stream EXCEPT !.seen = @ \o rows, !.last = @ + Len(rows),
                                 !.at = IF Len(rows) < q.chunk THEN "ended" ELSE "open"]
  /\ UNCHANGED <<tables, work, clock, cache, reader, past>>

-----------------------------------------------------------------------------
ReadsInit ==
  /\ tables = [a \in Alias |-> {}]
  /\ work = Closed
  /\ clock = 0
  /\ cache = [k \in {} |-> 0]
  /\ reader = [r \in Reader |-> Idle]
  /\ past = [a \in Alias |-> {}]
  /\ stream = NoStream

ReadsNext ==
  \/ \E r \in Reader, query \in Asked : Ask(r, query)
  \/ \E r \in Reader : Fetch(r) \/ Fill(r)
  \/ \E a \in Alias, k \in Key : WriteRow(a, k)
  \/ OpenClosure \/ CloseClosure
  \/ \E k \in Key : WriteInside(k)
  \/ Tick
  \/ \E query \in Streams : Open(query)
  \/ NextChunk

ReadsSpec == ReadsInit /\ [][ReadsNext]_readVars

-----------------------------------------------------------------------------
\* An answer from the cache is what the database asked held, committed, at
\* some moment of the last DefaultTtl seconds.  It need not be when the entry
\* was filled for another alias or, under a key given by hand, for another
\* query, when it was read inside a closure (whose writes may be rolled back,
\* and which serves every alias), or when seconds passed between the fetch and
\* the fill.  The lifetime is the cache's own; TtlHonoured is about the one
\* given to .cache().  (cache.rs 74-98, 247-316)
CachedAsAsked ==
  \A r \in Reader : reader[r].at = "answered" /\ reader[r].when = clock /\ ~reader[r].odd =>
    \E m \in Ended(reader[r].query.alias) :
      Result(reader[r].query.sql, m.rows) = reader[r].value

\* No answer is given from an entry after the ttl it was stored with: "TTL: 60
\* seconds", "Time-to-live before the cache entry expires"
\* (docs/doc/rust/advanced/caching.mdx:24, 32).
TtlHonoured ==
  \A key \in DOMAIN cache : Alive(key) => clock - cache[key].at < cache[key].origin.ttl

\* A stream that ended over a table nobody changed has returned the rows its
\* query selects, each once and in order, if the query has no limit and no
\* offset of its own: the chunks replace both.  (stream.rs 55-86)
StreamsWhole ==
  stream.at = "ended" /\ ~stream.moved /\ stream.query.limit = NoLimit /\ stream.query.offset = 0 =>
    stream.seen = All(stream.query.alias)
=============================================================================
