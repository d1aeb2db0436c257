--------------------------- MODULE ServicesProofs ---------------------------
(***************************************************************************)
(* The Rust services: that no save replaces a file that was there when it    *)
(* chose its name, for any number of savers, names, suffixes and tries; what *)
(* a cached query set and a stream return, for any tables, queries, readers, *)
(* lifetime and capacity; and what the calls of a backend tell their callers *)
(* and which keys bulk_create gives, for any configuration and tasks; that   *)
(* a value written into a column made for it is what is read of it, for any  *)
(* journeys.                                                                *)
(***************************************************************************)
EXTENDS FileStore, CachedReads, Backends, RowValues, Integers, FiniteSetTheorems, TLAPS

Names == [stem : Stem, suffix : Suffix \cup {""}]
Saves == [at : {"asking", "writing"}, name : Names, tries : Nat, content : Nat, since : SUBSET Nat]

StoreTypeOK ==
  /\ DOMAIN files \subseteq Names
  /\ files \in [DOMAIN files -> Nat]
  /\ saves \in Nat
  /\ saving \in [Saver -> {Quiet} \cup Saves]

\* A name that was chosen is free, unless a save wrote it in the meantime, the
\* name cannot be written, or the suffixes had run out.
Chosen(s) ==
  saving[s].at = "writing" =>
    \/ saving[s].name \notin DOMAIN files
    \/ files[saving[s].name] \in saving[s].since
    \/ saving[s].name.stem \in Outside
    \/ saving[s].tries > MaxTries

StoreInv == StoreTypeOK /\ \A s \in Saver : Chosen(s)

LEMMA NextNumber == \A n, m \in Nat : n + 1 \in Nat /\ (n = m => n + 1 > m)
OBVIOUS

LEMMA SavesAreSaves ==
  ASSUME StoreTypeOK, NEW s \in Saver, saving[s].at # "idle"
  PROVE  saving[s] \in Saves
BY DEF StoreTypeOK, Quiet

-----------------------------------------------------------------------------
LEMMA InitEstablishes == Init => StoreInv
BY DEF Init, StoreInv, StoreTypeOK, Chosen, Quiet

LEMMA BeginPreserves ==
  ASSUME StoreInv, NEW s \in Saver, NEW stem \in Stem, Begin(s, stem)
  PROVE  StoreInv'
<1> DEFINE first == [at |-> "asking", name |-> Name(stem, ""), tries |-> 0,
                     content |-> saves', since |-> {}]
<1> saves \in Nat /\ saving \in [Saver -> {Quiet} \cup Saves]
  BY DEF StoreInv, StoreTypeOK
<1>0. saves' \in Nat /\ saving' = [saving EXCEPT ![s] = first]
  <2>1. saves' \in Nat BY NextNumber, Zenon DEF Begin
  <2>2. saving' = [saving EXCEPT ![s] = first] BY Zenon DEF Begin
  <2> QED BY <2>1, <2>2
<1>1. first \in Saves /\ saving' \in [Saver -> {Quiet} \cup Saves]
  BY <1>0 DEF StoreInv, StoreTypeOK, Saves, Names, Name
<1>2. ASSUME NEW t \in Saver PROVE Chosen(t)'
  <2>1. files' = files
    BY DEF Begin
  <2>2. CASE t = s
    <3>1. saving'[t] = first
      BY <2>2, <1>0
    <3>2. first.at = "asking"
      OBVIOUS
    <3>3. saving'[t].at # "writing"
      BY <3>1, <3>2
    <3> HIDE DEF first
    <3> QED BY <3>3 DEF Chosen
  <2>3. CASE t # s
    <3>1. saving'[t] = saving[t]
      BY <2>3, <1>0
    <3>2. Chosen(t) BY DEF StoreInv
    <3> QED BY <2>1, <3>1, <3>2 DEF Chosen
  <2> QED BY <2>2, <2>3
<1> QED
  BY <1>0, <1>1, <1>2 DEF StoreInv, StoreTypeOK, Begin

LEMMA AskFreePreserves ==
  ASSUME StoreInv, NEW s \in Saver, AskFree(s)
  PROVE  StoreInv'
<1>1. saving[s] \in Saves
  BY SavesAreSaves DEF StoreInv, AskFree
<1>2. PICK suffix \in Suffix : saving' = [saving EXCEPT ![s] = Answered(saving[s], suffix)]
  BY DEF AskFree
<1>3. CASE ~Exists(saving[s].name)
  <2>1. saving' = [saving EXCEPT ![s] = [saving[s] EXCEPT !.at = "writing"]]
    BY <1>2, <1>3 DEF Answered
  <2>2. saving' \in [Saver -> {Quiet} \cup Saves]
    BY <2>1, <1>1 DEF StoreInv, StoreTypeOK, Saves
  <2>3. Chosen(s)'
    BY <2>1, <1>1, <1>3 DEF StoreInv, StoreTypeOK, Chosen, Exists, AskFree, Saves
  <2>4. ASSUME NEW t \in Saver, t # s PROVE Chosen(t)'
    BY <2>1, <2>4 DEF StoreInv, StoreTypeOK, Chosen, AskFree
  <2> QED
    BY <2>2, <2>3, <2>4 DEF StoreInv, StoreTypeOK, AskFree
<1>4. CASE Exists(saving[s].name)
  <2> DEFINE next == [at |-> IF saving[s].tries = MaxTries THEN "writing" ELSE "asking",
                      name |-> Name(saving[s].name.stem, suffix), tries |-> saving[s].tries + 1,
                      content |-> saving[s].content, since |-> saving[s].since]
  <2>1. saving' = [saving EXCEPT ![s] = next]
    BY <1>2, <1>4 DEF Answered
  <2>2. next \in Saves /\ (next.at = "writing" => next.tries > MaxTries)
    <3> DEFINE save == saving[s]
    <3>1. save.name \in Names /\ save.tries \in Nat /\ save.content \in Nat /\ save.since \in SUBSET Nat
      BY <1>1 DEF Saves
    <3>2. save.tries + 1 \in Nat /\ (save.tries = MaxTries => save.tries + 1 > MaxTries)
      BY <3>1, NextNumber, Zenon DEF StorageAssumption
    <3>3. Name(save.name.stem, suffix) \in Names
      BY <3>1 DEF Names, Name
    <3> QED
      BY <3>1, <3>2, <3>3 DEF Saves
  <2>3. saving' \in [Saver -> {Quiet} \cup Saves]
    BY <2>1, <2>2 DEF StoreInv, StoreTypeOK
  <2>5. Chosen(s)'
    BY <2>1, <2>2 DEF StoreInv, StoreTypeOK, Chosen
  <2>6. ASSUME NEW t \in Saver, t # s PROVE Chosen(t)'
    BY <2>1, <2>6 DEF StoreInv, StoreTypeOK, Chosen, AskFree
  <2> QED
    BY <2>3, <2>5, <2>6 DEF StoreInv, StoreTypeOK, AskFree
<1> QED
  BY <1>3, <1>4

LEMMA WritePreserves ==
  ASSUME StoreInv, NEW s \in Saver, Write(s)
  PROVE  StoreInv'
<1> DEFINE name == saving[s].name
           into == [n \in DOMAIN files \cup {name} |->
                      IF n = name THEN saving[s].content ELSE files[n]]
           heard(t) == IF saving[t].at = "writing"
                       THEN [saving[t] EXCEPT !.since = @ \cup {saving[s].content}] ELSE saving[t]
<1>1. saving[s] \in Saves /\ saves' = saves /\ saves \in Nat
  BY SavesAreSaves DEF StoreInv, StoreTypeOK, Write
<1>2. CASE files' = into /\ saving' = [t \in Saver |-> IF t = s THEN Quiet ELSE heard(t)]
  <2>1. DOMAIN files' \subseteq Names /\ files' \in [DOMAIN files' -> Nat]
    BY <1>1, <1>2 DEF StoreInv, StoreTypeOK, Saves
  <2>2. ASSUME NEW t \in Saver PROVE heard(t) \in {Quiet} \cup Saves
    <3>1. CASE saving[t].at = "writing"
      BY <3>1, <1>1, SavesAreSaves DEF StoreInv, Saves
    <3>2. CASE saving[t].at # "writing"
      BY <3>2 DEF StoreInv, StoreTypeOK
    <3> QED BY <3>1, <3>2
  <2>3. saving' \in [Saver -> {Quiet} \cup Saves]
    BY <1>2, <2>2
  <2>4. ASSUME NEW t \in Saver PROVE Chosen(t)'
    <3>1. CASE t = s
      BY <3>1, <1>2 DEF Chosen, Quiet
    <3>2. CASE t # s /\ saving[t].at = "writing"
      <4>1. saving[t] \in Saves
        BY <3>2, SavesAreSaves DEF StoreInv
      <4>2. saving'[t] = [saving[t] EXCEPT !.since = saving[t].since \cup {saving[s].content}]
        BY <3>2, <1>2
      <4>3. /\ saving'[t].name = saving[t].name /\ saving'[t].tries = saving[t].tries
            /\ saving'[t].since = saving[t].since \cup {saving[s].content}
        BY <4>1, <4>2 DEF Saves
      <4>4. CASE saving[t].name = name
        <5>1. files'[saving[t].name] = saving[s].content
          BY <4>4, <1>2
        <5> QED BY <5>1, <4>3 DEF Chosen
      <4>5. CASE saving[t].name # name
        <5>1. /\ saving[t].name \in DOMAIN files' <=> saving[t].name \in DOMAIN files
              /\ saving[t].name \in DOMAIN files => files'[saving[t].name] = files[saving[t].name]
          BY <4>5, <1>2
        <5>2. Chosen(t) BY DEF StoreInv
        <5> QED BY <5>1, <5>2, <4>3, <3>2 DEF Chosen
      <4> QED BY <4>4, <4>5
    <3>3. CASE t # s /\ saving[t].at # "writing"
      BY <3>3, <1>2 DEF Chosen
    <3> QED BY <3>1, <3>2, <3>3
  <2> QED
    BY <1>1, <2>1, <2>3, <2>4 DEF StoreInv, StoreTypeOK
<1>3. CASE files' = files /\ saving' = [saving EXCEPT ![s] = Quiet]
  <2>1. saving' \in [Saver -> {Quiet} \cup Saves]
    BY <1>3 DEF StoreInv, StoreTypeOK
  <2>2. ASSUME NEW t \in Saver PROVE Chosen(t)'
    BY <1>3 DEF StoreInv, StoreTypeOK, Chosen, Quiet
  <2> QED
    BY <1>1, <1>3, <2>1, <2>2 DEF StoreInv, StoreTypeOK
<1> QED
  BY <1>2, <1>3 DEF Write

LEMMA DeletePreserves ==
  ASSUME StoreInv, NEW name \in DOMAIN files, Delete(name)
  PROVE  StoreInv'
<1>1. /\ DOMAIN files' = DOMAIN files \ {name}
      /\ \A n \in DOMAIN files' : files'[n] = files[n]
  BY DEF Delete
<1>2. StoreTypeOK'
  BY <1>1 DEF StoreInv, StoreTypeOK, Delete
<1>3. ASSUME NEW t \in Saver PROVE Chosen(t)'
  BY <1>1 DEF StoreInv, Chosen, Delete
<1> QED
  BY <1>2, <1>3 DEF StoreInv

\* The invariant holds in every state that saves and deletions reach.
THEOREM SpecStoreInv == Spec => []StoreInv
<1>1. StoreInv /\ [Next]_storeVars => StoreInv'
  <2> SUFFICES ASSUME StoreInv, [Next]_storeVars PROVE StoreInv'
    OBVIOUS
  <2>1. CASE Next
    BY <2>1, BeginPreserves, AskFreePreserves, WritePreserves, DeletePreserves DEF Next
  <2>2. CASE UNCHANGED storeVars
    BY <2>2 DEF storeVars, StoreInv, StoreTypeOK, Chosen
  <2> QED BY <2>1, <2>2
<1> QED
  BY InitEstablishes, <1>1, PTL DEF Spec

-----------------------------------------------------------------------------
\* What FilesKept says of one step.
KeepsFiles ==
  \A n \in DOMAIN files : n \in DOMAIN files' /\ files'[n] # files[n] =>
    \E s \in Saver : /\ saving[s].at = "writing" /\ saving[s].name = n
                     /\ \/ files[n] \in saving[s].since
                        \/ saving[s].tries > MaxTries

LEMMA StepKeepsFiles == StoreInv /\ [Next]_storeVars => [KeepsFiles]_storeVars
<1> SUFFICES ASSUME StoreInv, Next,
                    NEW n \in DOMAIN files, n \in DOMAIN files', files'[n] # files[n]
             PROVE  \E s \in Saver : /\ saving[s].at = "writing" /\ saving[s].name = n
                                     /\ \/ files[n] \in saving[s].since
                                        \/ saving[s].tries > MaxTries
  BY DEF KeepsFiles
<1>1. PICK s \in Saver : Write(s)
  BY DEF Next, Begin, AskFree, Delete
<1>2. saving[s].at = "writing" /\ saving[s].name = n /\ saving[s].name.stem \notin Outside
  BY <1>1 DEF Write
<1>3. Chosen(s)
  BY DEF StoreInv
<1> QED
  BY <1>2, <1>3 DEF Chosen

\* FilesKept, for every number of savers, names, suffixes and tries: an existing
\* file is overwritten only by a save that chose the name while it was free, or
\* that had run out of suffixes (storage.rs 40-42, 71-86).
THEOREM FilesAreKept == Spec => FilesKept
<1>1. Spec => [][KeepsFiles]_storeVars
  BY SpecStoreInv, StepKeepsFiles, PTL DEF Spec
<1> QED
  BY <1>1 DEF FilesKept, KeepsFiles

-----------------------------------------------------------------------------
(***************************************************************************)
(* Cached reads.                                                            *)
(***************************************************************************)
Contents == [rows : SUBSET Key, until : Nat]
CacheEntry == [at : Nat, value : SUBSET Key, origin : Asked, straight : BOOLEAN]
Missed == [at : {"missed"}, query : Asked]
Fetched == [at : {"fetched"}, query : Asked, asof : Nat, inside : BOOLEAN, value : SUBSET Key]
Answers == [at : {"answered"}, query : Asked, value : SUBSET Key, when : Nat, odd : BOOLEAN]

HistoryOK ==
  /\ tables \in [Alias -> SUBSET Key]
  /\ clock \in Nat
  /\ past \in [Alias -> SUBSET Contents]
  /\ \A a \in Alias : \A m \in past[a] : m.until <= clock
TablesOK == HistoryOK /\ work \in {Closed} \cup [open : {TRUE}, rows : SUBSET Key]

ReadsTypeOK ==
  /\ TablesOK
  /\ cache \in [DOMAIN cache -> CacheEntry]
  /\ \A k \in DOMAIN cache : cache[k].at <= clock
  /\ reader \in [Reader -> {Idle} \cup Missed \cup Fetched \cup Answers]
  /\ \A r \in Reader : /\ reader[r].at = "fetched" => reader[r].asof <= clock
                       /\ reader[r].at = "answered" => reader[r].when <= clock

\* Some committed content that was current at second t or later, no longer
\* than the lifetime ago, gives this answer.
Recent(alias, t, sql, value) ==
  \E m \in Ended(alias) : m.until >= t /\ Result(sql, m.rows) = value

\* While an entry lives, what it holds was true after it was stored, unless it
\* was read inside a closure or filled late; so was what a reader has fetched.
EntryTrue(e) ==
  e.straight /\ clock < e.at + DefaultTtl => Recent(e.origin.alias, e.at, e.origin.sql, e.value)
FetchTrue(f) ==
  ~f.inside /\ clock < f.asof + DefaultTtl => Recent(f.query.alias, f.asof, f.query.sql, f.value)
AnswerTrue(f) ==
  /\ DefaultTtl > 0
  /\ f.when = clock /\ ~f.odd => Recent(f.query.alias, 0, f.query.sql, f.value)

ReadsInv ==
  /\ ReadsTypeOK
  /\ \A k \in DOMAIN cache : EntryTrue(cache[k])
  /\ \A r \in Reader : /\ reader[r].at = "fetched" => FetchTrue(reader[r])
                       /\ reader[r].at = "answered" => AnswerTrue(reader[r])

\* What the steps do to the tables and their history.
Commits == \E a \in Alias, content \in SUBSET Key : Commit(a, content)
TablesStep ==
  \/ UNCHANGED <<tables, past, clock>>
  \/ Commits /\ UNCHANGED clock
  \/ clock' = clock + 1 /\ UNCHANGED <<tables, past>>

LEMMA OpenWork ==
  ASSUME TablesOK, work.open
  PROVE  work \in [open : {TRUE}, rows : SUBSET Key] /\ work.rows \in SUBSET Key
<1>1. Closed.open = FALSE
  BY DEF Closed
<1>2. work # Closed
  BY <1>1
<1> QED
  BY <1>2 DEF TablesOK

LEMMA ReadsNextStep ==
  ASSUME TablesOK, [ReadsNext]_readVars
  PROVE  TablesStep
<1>1. ASSUME NEW a \in Alias, NEW k \in Key, WriteRow(a, k) PROVE TablesStep
  <2>1. Flip(tables[a], k) \in SUBSET Key
    BY DEF Flip, TablesOK, HistoryOK
  <2> QED BY <1>1, <2>1 DEF WriteRow, TablesStep, Commits
<1>2. CASE CloseClosure
  <2>1. work.rows \in SUBSET Key
    BY <1>2, OpenWork DEF CloseClosure
  <2> QED BY <1>2, <2>1, TableAssumption DEF CloseClosure, TablesStep, Commits
<1>3. CASE Tick
  BY <1>3 DEF Tick, TablesStep
<1>4. ASSUME NEW r \in Reader, NEW query \in Asked, Ask(r, query) PROVE TablesStep
  BY <1>4 DEF Ask, TablesStep
<1>5. ASSUME NEW r \in Reader, Fetch(r) \/ Fill(r) PROVE TablesStep
  BY <1>5 DEF Fetch, Fill, TablesStep
<1>6. CASE OpenClosure \/ (\E k \in Key : WriteInside(k)) \/ (\E query \in Streams : Open(query)) \/ NextChunk
           \/ UNCHANGED readVars
  BY <1>6 DEF OpenClosure, WriteInside, Open, NextChunk, readVars, TablesStep
<1> QED
  BY <1>1, <1>2, <1>3, <1>4, <1>5, <1>6 DEF ReadsNext

-----------------------------------------------------------------------------
LEMMA EndedType ==
  ASSUME TablesOK, NEW a \in Alias
  PROVE  /\ Ended(a) \subseteq Contents
         /\ \A m \in Ended(a) : m.until <= clock
         /\ [rows |-> tables[a], until |-> clock] \in Ended(a)
BY DEF Ended, TablesOK, HistoryOK, Contents

\* The history forgets no content before its lifetime is over.
LEMMA RecentStays ==
  ASSUME TablesOK, TablesStep, NEW a \in Alias, NEW t \in Nat, NEW sql, NEW value,
         Recent(a, t, sql, value), DefaultTtl > 0,
         clock' = clock \/ clock' < t + DefaultTtl
  PROVE  Recent(a, t, sql, value)'
<1> USE DEF TablesOK, HistoryOK
<1>1. PICK m \in Ended(a) : m.until >= t /\ Result(sql, m.rows) = value
  BY DEF Recent
<1>2. m \in Contents /\ m.until <= clock
  BY <1>1, EndedType
<1>3. SUFFICES \E n \in Ended(a)' : n.until >= t /\ n.rows = m.rows
  BY <1>1 DEF Recent, Result
<1> DEFINE current == [rows |-> tables'[a], until |-> clock']
<1>4. current \in Ended(a)'
  BY DEF Ended
<1>5. clock' >= clock /\ clock' \in Nat
  BY DEF TablesStep
<1>6. CASE m.rows = tables'[a]
  <2>1. current.until >= t /\ current.rows = m.rows
    BY <1>1, <1>2, <1>5, <1>6 DEF Contents
  <2> QED BY <1>4, <2>1
<1>7. CASE m.rows # tables'[a]
  <2>1. m.until + DefaultTtl > clock'
    <3>1. m.until \in Nat /\ clock \in Nat /\ clock' \in Nat /\ DefaultTtl \in Nat
      BY <1>2, <1>5, CacheAssumption DEF Contents
    <3>2. m.until + DefaultTtl > clock \/ m.until = clock
      BY <1>1 DEF Ended
    <3> QED BY <1>1, <3>1, <3>2
  <2>2. m \in past'[a]
    <3>1. CASE UNCHANGED <<tables, past>>
      BY <1>1, <1>7, <3>1 DEF Ended
    <3>2. ASSUME NEW b \in Alias, NEW content \in SUBSET Key, Commit(b, content) PROVE m \in past'[a]
      <4>1. past' = [past EXCEPT ![b] = Ended(b)] /\ tables' = [tables EXCEPT ![b] = content]
        BY <3>2 DEF Commit
      <4>2. CASE a = b
        BY <1>1, <4>1, <4>2
      <4>3. CASE a # b
        BY <1>1, <1>7, <4>1, <4>3 DEF Ended
      <4> QED BY <4>2, <4>3
    <3> QED BY <3>1, <3>2 DEF TablesStep, Commits
  <2>3. m \in Ended(a)'
    BY <1>7, <2>1, <2>2 DEF Ended
  <2> QED BY <1>1, <2>3
<1> QED
  BY <1>6, <1>7

LEMMA TablesType == TablesOK /\ [ReadsNext]_readVars => TablesOK'
<1> SUFFICES ASSUME TablesOK, [ReadsNext]_readVars PROVE TablesOK'
  OBVIOUS
<1>1. TablesStep
  BY ReadsNextStep
<1>2. work' \in {Closed} \cup [open : {TRUE}, rows : SUBSET Key]
  <2>1. ASSUME NEW k \in Key, WriteInside(k) PROVE work' \in [open : {TRUE}, rows : SUBSET Key]
    <3>1. work \in [open : {TRUE}, rows : SUBSET Key]
      BY <2>1, OpenWork DEF WriteInside
    <3>2. Flip(work.rows, k) \in SUBSET Key
      BY <3>1 DEF Flip
    <3> QED BY <2>1, <3>1, <3>2 DEF WriteInside
  <2>2. CASE OpenClosure
    BY <2>2, TableAssumption DEF OpenClosure, TablesOK, HistoryOK
  <2>3. CASE CloseClosure
    BY <2>3 DEF CloseClosure
  <2>4. CASE UNCHANGED work
    BY <2>4 DEF TablesOK, HistoryOK
  <2>5. \/ UNCHANGED work
        \/ OpenClosure \/ CloseClosure \/ \E k \in Key : WriteInside(k)
    BY DEF ReadsNext, readVars, Ask, Fetch, Fill, WriteRow, Tick, Open, NextChunk
  <2> QED BY <2>1, <2>2, <2>3, <2>4, <2>5
<1>3. HistoryOK'
  <2>1. CASE UNCHANGED <<tables, past, clock>>
    BY <2>1 DEF TablesOK, HistoryOK
  <2>2. CASE clock' = clock + 1 /\ UNCHANGED <<tables, past>>
    <3>1. \A a \in Alias : \A m \in past[a] : m.until \in Nat
      BY DEF TablesOK, HistoryOK, Contents
    <3> QED BY <2>2, <3>1 DEF TablesOK, HistoryOK
  <2>3. ASSUME NEW b \in Alias, NEW content \in SUBSET Key, Commit(b, content), UNCHANGED clock
        PROVE  HistoryOK'
    <3>1. past' = [past EXCEPT ![b] = Ended(b)] /\ tables' = [tables EXCEPT ![b] = content]
      BY <2>3 DEF Commit
    <3>2. Ended(b) \subseteq Contents /\ \A m \in Ended(b) : m.until <= clock
      BY EndedType
    <3> QED BY <2>3, <3>1, <3>2 DEF TablesOK, HistoryOK
  <2> QED BY <1>1, <2>1, <2>2, <2>3 DEF TablesStep, Commits
<1> QED
  BY <1>2, <1>3 DEF TablesOK, HistoryOK

-----------------------------------------------------------------------------
\* What was true of an entry, a fetch or an answer stays true, whatever happens
\* to the tables.
LEMMA ClockGrows ==
  ASSUME TablesOK, TablesStep
  PROVE  clock \in Nat /\ clock' \in Nat /\ clock <= clock'
BY DEF TablesOK, HistoryOK, TablesStep

LEMMA AskedOf == \A query \in Asked : query.alias \in Alias
BY CacheAssumption

LEMMA EntryStays ==
  ASSUME TablesOK, TablesStep, NEW e \in CacheEntry, e.at <= clock, EntryTrue(e)
  PROVE  EntryTrue(e)'
<1> SUFFICES ASSUME e.straight, clock' < e.at + DefaultTtl
             PROVE  Recent(e.origin.alias, e.at, e.origin.sql, e.value)'
  BY DEF EntryTrue
<1>1. e.at \in Nat /\ e.origin.alias \in Alias /\ DefaultTtl \in Nat
  BY AskedOf, CacheAssumption DEF CacheEntry
<1>2. clock < e.at + DefaultTtl /\ DefaultTtl > 0
  BY <1>1, ClockGrows
<1>3. Recent(e.origin.alias, e.at, e.origin.sql, e.value)
  BY <1>2 DEF EntryTrue
<1> QED
  BY <1>1, <1>2, <1>3, RecentStays

LEMMA FetchStays ==
  ASSUME TablesOK, TablesStep, NEW f \in Fetched, f.asof <= clock, FetchTrue(f)
  PROVE  FetchTrue(f)'
<1> SUFFICES ASSUME ~f.inside, clock' < f.asof + DefaultTtl
             PROVE  Recent(f.query.alias, f.asof, f.query.sql, f.value)'
  BY DEF FetchTrue
<1>1. f.asof \in Nat /\ f.query.alias \in Alias /\ DefaultTtl \in Nat
  BY AskedOf, CacheAssumption DEF Fetched
<1>2. clock < f.asof + DefaultTtl /\ DefaultTtl > 0
  BY <1>1, ClockGrows
<1>3. Recent(f.query.alias, f.asof, f.query.sql, f.value)
  BY <1>2 DEF FetchTrue
<1> QED
  BY <1>1, <1>2, <1>3, RecentStays

LEMMA AnswerStays ==
  ASSUME TablesOK, TablesStep, NEW f \in Answers, f.when <= clock, AnswerTrue(f)
  PROVE  AnswerTrue(f)'
<1>1. f.when \in Nat /\ f.query.alias \in Alias /\ DefaultTtl > 0
  BY AskedOf DEF Answers, AnswerTrue
<1>2. ASSUME f.when = clock', ~f.odd
      PROVE  Recent(f.query.alias, 0, f.query.sql, f.value)'
  <2>1. clock' = clock
    BY <1>1, <1>2, ClockGrows
  <2>2. Recent(f.query.alias, 0, f.query.sql, f.value)
    BY <1>2, <2>1 DEF AnswerTrue
  <2> QED BY <1>1, <2>1, <2>2, RecentStays
<1> QED
  BY <1>1, <1>2 DEF AnswerTrue

\* What a reader is in.
LEMMA ReaderIn ==
  ASSUME ReadsTypeOK, NEW r \in Reader
  PROVE  /\ reader[r].at = "missed" => reader[r] \in Missed
         /\ reader[r].at = "fetched" => reader[r] \in Fetched
         /\ reader[r].at = "answered" => reader[r] \in Answers
<1>1. reader[r] \in {Idle} \cup Missed \cup Fetched \cup Answers
  BY DEF ReadsTypeOK
<1>2. Idle.at = "idle"
  BY DEF Idle
<1>3. /\ \A f \in Missed : f.at = "missed"
      /\ \A f \in Fetched : f.at = "fetched"
      /\ \A f \in Answers : f.at = "answered"
  BY DEF Missed, Fetched, Answers
<1> QED
  BY <1>1, <1>2, <1>3

\* A step that leaves the cache and the readers alone.
LEMMA OthersPreserve ==
  ASSUME ReadsInv, TablesStep, TablesOK', UNCHANGED <<cache, reader>>
  PROVE  ReadsInv'
<1>1. clock \in Nat /\ clock' \in Nat /\ clock <= clock'
  BY ClockGrows DEF ReadsInv, ReadsTypeOK
<1>2. \A k \in DOMAIN cache : cache[k] \in CacheEntry /\ cache[k].at <= clock /\ cache[k].at \in Nat
  <2>1. \A e \in CacheEntry : e.at \in Nat
    BY DEF CacheEntry
  <2> QED BY <2>1 DEF ReadsInv, ReadsTypeOK
<1>3. \A k \in DOMAIN cache' : cache'[k].at <= clock' /\ EntryTrue(cache[k])'
  <2> TAKE k \in DOMAIN cache'
  <2>1. cache[k] \in CacheEntry /\ cache[k].at <= clock /\ EntryTrue(cache[k]) /\ cache[k].at \in Nat
    BY <1>2 DEF ReadsInv
  <2>2. \A e \in CacheEntry : e.at <= clock /\ EntryTrue(e) => EntryTrue(e)'
    BY EntryStays DEF ReadsInv, ReadsTypeOK
  <2> QED BY <1>1, <2>1, <2>2
<1>4. ASSUME NEW r \in Reader
      PROVE  /\ reader'[r].at = "fetched" => reader'[r].asof <= clock' /\ FetchTrue(reader[r])'
             /\ reader'[r].at = "answered" => reader'[r].when <= clock' /\ AnswerTrue(reader[r])'
  <2>1. CASE reader[r].at = "fetched"
    <3>1. reader[r] \in Fetched /\ reader[r].asof <= clock /\ FetchTrue(reader[r])
      BY <2>1, ReaderIn DEF ReadsInv, ReadsTypeOK
    <3>2. reader[r].asof \in Nat
      BY <3>1 DEF Fetched
    <3>3. \A f \in Fetched : f.asof <= clock /\ FetchTrue(f) => FetchTrue(f)'
      BY FetchStays DEF ReadsInv, ReadsTypeOK
    <3> QED BY <1>1, <2>1, <3>1, <3>2, <3>3
  <2>2. CASE reader[r].at = "answered"
    <3>1. reader[r] \in Answers /\ reader[r].when <= clock /\ AnswerTrue(reader[r])
      BY <2>2, ReaderIn DEF ReadsInv, ReadsTypeOK
    <3>2. reader[r].when \in Nat
      BY <3>1 DEF Answers
    <3>3. \A f \in Answers : f.when <= clock /\ AnswerTrue(f) => AnswerTrue(f)'
      BY AnswerStays DEF ReadsInv, ReadsTypeOK
    <3> QED BY <1>1, <2>2, <3>1, <3>2, <3>3
  <2> QED BY <2>1, <2>2
<1>5. /\ cache' \in [DOMAIN cache' -> CacheEntry]
      /\ reader' \in [Reader -> {Idle} \cup Missed \cup Fetched \cup Answers]
  BY DEF ReadsInv, ReadsTypeOK
<1> QED
  BY <1>3, <1>4, <1>5 DEF ReadsInv, ReadsTypeOK

-----------------------------------------------------------------------------
LEMMA InitReadsInv == ReadsInit => ReadsInv
<1> SUFFICES ASSUME ReadsInit PROVE ReadsInv
  OBVIOUS
<1>1. TablesOK
  BY DEF ReadsInit, TablesOK, HistoryOK
<1>2. DOMAIN cache = {} /\ cache \in [DOMAIN cache -> CacheEntry]
  BY DEF ReadsInit
<1>3. \A r \in Reader : reader[r] = Idle /\ Idle.at = "idle"
  BY DEF ReadsInit, Idle
<1>4. reader \in [Reader -> {Idle} \cup Missed \cup Fetched \cup Answers]
  BY DEF ReadsInit
<1> QED
  BY <1>1, <1>2, <1>3, <1>4 DEF ReadsInv, ReadsTypeOK

\* A step of one reader that leaves the cache and the tables alone.
LEMMA ReaderMoves ==
  ASSUME ReadsInv, NEW r \in Reader, NEW f \in Missed \cup Fetched \cup Answers,
         f.at = "fetched" => f.asof <= clock /\ FetchTrue(f),
         f.at = "answered" => f.when <= clock /\ AnswerTrue(f),
         reader' = [reader EXCEPT ![r] = f],
         UNCHANGED <<tables, work, clock, cache, past>>
  PROVE  ReadsInv'
<1>1. TablesOK' /\ TablesStep
  BY DEF ReadsInv, ReadsTypeOK, TablesOK, HistoryOK, TablesStep
<1>2. /\ cache' \in [DOMAIN cache' -> CacheEntry]
      /\ \A k \in DOMAIN cache' : cache'[k].at <= clock' /\ EntryTrue(cache[k])'
  BY DEF ReadsInv, ReadsTypeOK, EntryTrue, Recent, Ended
<1>3. reader' \in [Reader -> {Idle} \cup Missed \cup Fetched \cup Answers]
  BY DEF ReadsInv, ReadsTypeOK
<1>4. ASSUME NEW s \in Reader
      PROVE  /\ reader'[s].at = "fetched" => reader'[s].asof <= clock' /\ FetchTrue(reader[s])'
             /\ reader'[s].at = "answered" => reader'[s].when <= clock' /\ AnswerTrue(reader[s])'
  <2>1. CASE s = r
    <3>1. reader'[s] = f
      BY <2>1 DEF ReadsInv, ReadsTypeOK
    <3> QED BY <3>1 DEF FetchTrue, AnswerTrue, Recent, Ended
  <2>2. CASE s # r
    <3>1. reader'[s] = reader[s]
      BY <2>2 DEF ReadsInv, ReadsTypeOK
    <3> QED BY <3>1 DEF ReadsInv, ReadsTypeOK, FetchTrue, AnswerTrue, Recent, Ended
  <2> QED BY <2>1, <2>2
<1> QED
  BY <1>1, <1>2, <1>3, <1>4 DEF ReadsInv, ReadsTypeOK

LEMMA AskPreserves ==
  ASSUME ReadsInv, NEW r \in Reader, NEW query \in Asked, Ask(r, query)
  PROVE  ReadsInv'
<1> DEFINE key == CacheKey(query)
<1>1. UNCHANGED <<tables, work, clock, cache, past>>
  BY DEF Ask
<1>2. CASE Alive(key)
  <2> DEFINE e == cache[key]
             f == [at |-> "answered", query |-> query, value |-> e.value,
                   when |-> clock, odd |-> Odd(e, query)]
  <2>1. reader' = [reader EXCEPT ![r] = f]
    BY <1>2 DEF Ask
  <2>2. e \in CacheEntry /\ e.at <= clock /\ EntryTrue(e) /\ clock - e.at < DefaultTtl
    BY <1>2 DEF Alive, ReadsInv, ReadsTypeOK
  <2>3. e.at \in Nat /\ clock \in Nat /\ DefaultTtl \in Nat
    BY <2>2, CacheAssumption DEF CacheEntry, ReadsInv, ReadsTypeOK, TablesOK, HistoryOK
  <2>4. DefaultTtl > 0 /\ clock < e.at + DefaultTtl
    BY <2>2, <2>3
  <2>5. f \in Answers
    BY <2>2, <2>3 DEF Answers, CacheEntry, Odd
  <2>6. ASSUME ~f.odd PROVE Recent(query.alias, 0, query.sql, e.value)
    <3>1. e.straight /\ e.origin.alias = query.alias /\ e.origin.sql = query.sql
      BY <2>6 DEF Odd
    <3>2. Recent(query.alias, e.at, query.sql, e.value)
      BY <2>2, <2>4, <3>1 DEF EntryTrue
    <3>3. \A m \in Ended(query.alias) : m.until \in Nat
      BY EndedType, AskedOf DEF Contents, ReadsInv, ReadsTypeOK
    <3> QED BY <2>3, <3>2, <3>3 DEF Recent
  <2>7. AnswerTrue(f)
    BY <2>4, <2>6 DEF AnswerTrue
  <2>8. f.at = "answered" /\ f.when <= clock
    BY <2>3
  <2> HIDE DEF f
  <2> QED BY <1>1, <2>1, <2>5, <2>7, <2>8, ReaderMoves
<1>3. CASE ~Alive(key)
  <2> DEFINE f == [at |-> "missed", query |-> query]
  <2>1. reader' = [reader EXCEPT ![r] = f]
    BY <1>3 DEF Ask
  <2>2. f \in Missed /\ f.at = "missed"
    BY DEF Missed
  <2> HIDE DEF f
  <2> QED BY <1>1, <2>1, <2>2, ReaderMoves
<1> QED
  BY <1>2, <1>3

LEMMA FetchPreserves ==
  ASSUME ReadsInv, NEW r \in Reader, Fetch(r)
  PROVE  ReadsInv'
<1> DEFINE query == reader[r].query
           value == Result(query.sql, Content(query.alias))
           f == [at |-> "fetched", query |-> query, asof |-> clock, inside |-> work.open,
                 value |-> value]
<1>1. UNCHANGED <<tables, work, clock, cache, past>> /\ reader' = [reader EXCEPT ![r] = f]
  BY DEF Fetch
<1>2. TablesOK /\ clock \in Nat
  BY DEF ReadsInv, ReadsTypeOK, TablesOK, HistoryOK
<1>3. query \in Asked /\ query.alias \in Alias
  <2>1. reader[r] \in Missed
    BY ReaderIn DEF Fetch, ReadsInv
  <2> QED BY <2>1, AskedOf DEF Missed
<1>4. work.open \in BOOLEAN
  <2>1. Closed.open = FALSE
    BY DEF Closed
  <2>2. \A w \in [open : {TRUE}, rows : SUBSET Key] : w.open = TRUE
    OBVIOUS
  <2> QED BY <1>2, <2>1, <2>2 DEF TablesOK
<1>5. Content(query.alias) \in SUBSET Key
  BY <1>2, <1>3, OpenWork DEF Content, TablesOK, HistoryOK
<1>6. f \in Fetched
  BY <1>2, <1>3, <1>4, <1>5 DEF Fetched, Result
<1>7. FetchTrue(f)
  <2> DEFINE current == [rows |-> tables[query.alias], until |-> clock]
  <2>1. current \in Ended(query.alias)
    BY <1>2, <1>3, EndedType
  <2>2. ~work.open => Result(query.sql, current.rows) = value
    BY DEF Content
  <2>3. current.until >= f.asof
    BY <1>2
  <2> QED BY <2>1, <2>2, <2>3 DEF FetchTrue, Recent
<1>8. f.at = "fetched" /\ f.asof <= clock
  BY <1>2
<1> HIDE DEF f
<1> QED
  BY <1>1, <1>6, <1>7, <1>8, ReaderMoves

LEMMA FillPreserves ==
  ASSUME ReadsInv, NEW r \in Reader, Fill(r)
  PROVE  ReadsInv'
<1> DEFINE f == reader[r]
           e == [at |-> clock, value |-> f.value, origin |-> f.query,
                 straight |-> f.asof = clock /\ ~f.inside]
<1>1. UNCHANGED <<tables, work, clock, past>> /\ reader' = [reader EXCEPT ![r] = Idle]
  BY DEF Fill
<1>2. TablesOK /\ TablesOK' /\ clock \in Nat
  BY <1>1 DEF ReadsInv, ReadsTypeOK, TablesOK, HistoryOK
<1>3. f \in Fetched /\ FetchTrue(f)
  BY ReaderIn DEF Fill, ReadsInv
<1>4. e \in CacheEntry /\ e.at <= clock
  BY <1>2, <1>3 DEF CacheEntry, Fetched
<1>5. EntryTrue(e)
  BY <1>3 DEF EntryTrue, FetchTrue
<1>6. PICK evicted : cache' = [k \in Kept(CacheKey(f.query), evicted) \cup {CacheKey(f.query)} |->
                                 IF k = CacheKey(f.query) THEN e ELSE cache[k]]
  BY DEF Fill, Set
<1>7. \A k \in DOMAIN cache' : cache'[k] = e \/ (k \in DOMAIN cache /\ cache'[k] = cache[k])
  BY <1>6 DEF Kept
<1>8. /\ cache' \in [DOMAIN cache' -> CacheEntry]
      /\ \A k \in DOMAIN cache' : cache'[k].at <= clock' /\ EntryTrue(cache[k])'
  <2>1. \A k \in DOMAIN cache' : cache'[k] \in CacheEntry /\ cache'[k].at <= clock
    BY <1>4, <1>7 DEF ReadsInv, ReadsTypeOK
  <2>2. \A k \in DOMAIN cache' : EntryTrue(cache'[k])
    BY <1>5, <1>7 DEF ReadsInv
  <2>3. cache' \in [DOMAIN cache' -> CacheEntry]
    BY <1>6, <2>1
  <2> QED BY <1>1, <2>1, <2>2, <2>3 DEF EntryTrue, Recent, Ended
<1>9. ASSUME NEW s \in Reader
      PROVE  /\ reader'[s].at = "fetched" => reader'[s].asof <= clock' /\ FetchTrue(reader[s])'
             /\ reader'[s].at = "answered" => reader'[s].when <= clock' /\ AnswerTrue(reader[s])'
  <2>1. CASE s = r
    BY <1>1, <2>1 DEF Idle, ReadsInv, ReadsTypeOK
  <2>2. CASE s # r
    <3>1. reader'[s] = reader[s]
      BY <1>1, <2>2 DEF ReadsInv, ReadsTypeOK
    <3> QED BY <1>1, <3>1 DEF ReadsInv, ReadsTypeOK, FetchTrue, AnswerTrue, Recent, Ended
  <2> QED BY <2>1, <2>2
<1>10. reader' \in [Reader -> {Idle} \cup Missed \cup Fetched \cup Answers]
  BY <1>1 DEF ReadsInv, ReadsTypeOK
<1> QED
  BY <1>2, <1>8, <1>9, <1>10 DEF ReadsInv, ReadsTypeOK

\* The invariant holds in every state that reads, fills and writers reach.
THEOREM SpecReadsInv == ReadsSpec => []ReadsInv
<1>1. ReadsInv /\ [ReadsNext]_readVars => ReadsInv'
  <2> SUFFICES ASSUME ReadsInv, [ReadsNext]_readVars PROVE ReadsInv'
    OBVIOUS
  <2>1. TablesStep /\ TablesOK'
    BY ReadsNextStep, TablesType DEF ReadsInv, ReadsTypeOK
  <2>2. ASSUME NEW r \in Reader, NEW query \in Asked, Ask(r, query) PROVE ReadsInv'
    BY <2>2, AskPreserves
  <2>3. ASSUME NEW r \in Reader, Fetch(r) \/ Fill(r) PROVE ReadsInv'
    BY <2>3, FetchPreserves, FillPreserves
  <2>4. CASE UNCHANGED <<cache, reader>>
    BY <2>1, <2>4, OthersPreserve
  <2>5. \/ \E r \in Reader, query \in Asked : Ask(r, query)
        \/ \E r \in Reader : Fetch(r) \/ Fill(r)
        \/ UNCHANGED <<cache, reader>>
    BY DEF ReadsNext, readVars, WriteRow, OpenClosure, CloseClosure, WriteInside, Tick, Open, NextChunk
  <2> QED BY <2>2, <2>3, <2>4, <2>5
<1> QED
  BY InitReadsInv, <1>1, PTL DEF ReadsSpec

\* CachedAsAsked, for any databases, tables, queries, readers, lifetime and
\* capacity: unless an entry was filled for another alias or query, inside a
\* closure, or late, an answer from the cache is one the database gave, committed,
\* within the lifetime (cache.rs 74-98, 247-316).
THEOREM CachedIsAsAsked == ReadsSpec => []CachedAsAsked
<1>1. ReadsInv => CachedAsAsked
  BY DEF ReadsInv, AnswerTrue, Recent, CachedAsAsked
<1> QED
  BY SpecReadsInv, <1>1, PTL

-----------------------------------------------------------------------------
(***************************************************************************)
(* Streams.                                                                 *)
(***************************************************************************)
OpenStream == [at : {"open", "ended"}, query : Streams, last : Nat, seen : Seq(Key), moved : BOOLEAN]

\* While nobody changes the table, a stream without an offset of its own has
\* seen its first rows, and all of them when it ends.
StreamTrue ==
  stream.at # "none" /\ ~stream.moved =>
    /\ ~work.open
    /\ stream.query.offset = 0 =>
         /\ stream.last <= Len(All(stream.query.alias))
         /\ stream.seen = SubSeq(All(stream.query.alias), 1, stream.last)
         /\ stream.at = "ended" => stream.last = Len(All(stream.query.alias))

StreamInv == TablesOK /\ stream \in {NoStream} \cup OpenStream /\ StreamTrue

\* A table's rows are in some order, each once.
LEMMA AllRows ==
  ASSUME TablesOK, NEW a \in Alias
  PROVE  /\ All(a) \in Seq(Key)
         /\ Len(All(a)) = Cardinality(Content(a))
         /\ Content(a) \subseteq Key
<1> DEFINE S == Content(a)
<1>1. S \subseteq Key /\ IsFiniteSet(S)
  <2>1. S \subseteq Key
    BY OpenWork DEF Content, TablesOK, HistoryOK
  <2> QED BY <2>1, FS_Subset, TableAssumption
<1>2. Cardinality(S) \in Nat /\ ExistsBijection(1..Cardinality(S), S)
  BY <1>1, FS_CardinalityType
<1>3. \E f \in [1..Cardinality(S) -> S] : IsInjective(f)
  BY <1>2 DEF ExistsBijection, Bijection, Injection
<1>4. All(a) \in [1..Cardinality(S) -> S]
  BY <1>3 DEF All, SetToSeq
<1> HIDE DEF S
<1>5. All(a) \in Seq(S) /\ Len(All(a)) = Cardinality(S)
  BY <1>2, <1>4
<1> QED
  BY <1>1, <1>5 DEF S

\* A chunk of c rows after the first n, and what it makes of the rows seen.
Upto(s, n, c) == IF n + c < Len(s) THEN n + c ELSE Len(s)
Chunk(s, n, c) == SubSeq(s, n + 1, Upto(s, n, c))

LEMMA SameRows ==
  ASSUME NEW u \in Seq(Key), NEW v \in Seq(Key), Len(u) = Len(v), \A i \in 1..Len(v) : u[i] = v[i]
  PROVE  u = v
OBVIOUS

LEMMA Halves ==
  ASSUME NEW s \in Seq(Key), NEW n \in Nat, NEW hi \in Nat, n <= hi, hi <= Len(s)
  PROVE  SubSeq(s, 1, n) \o SubSeq(s, n + 1, hi) = SubSeq(s, 1, hi)
<1> DEFINE front == SubSeq(s, 1, n)
           back == SubSeq(s, n + 1, hi)
           whole == SubSeq(s, 1, hi)
<1>1. /\ front \in Seq(Key) /\ Len(front) = n /\ \A i \in 1..n : front[i] = s[i]
      /\ back \in Seq(Key) /\ Len(back) = hi - n /\ \A i \in 1..(hi - n) : back[i] = s[n + i]
      /\ whole \in Seq(Key) /\ Len(whole) = hi /\ \A i \in 1..hi : whole[i] = s[i]
  OBVIOUS
<1> HIDE DEF front, back, whole
<1>2. front \o back \in Seq(Key) /\ Len(front \o back) = Len(whole)
  BY <1>1
<1>3. ASSUME NEW i \in 1..hi PROVE (front \o back)[i] = whole[i]
  <2>1. CASE i <= n
    BY <1>1, <2>1
  <2>2. CASE i > n
    <3>1. i - n \in 1..(hi - n) /\ n + (i - n) = i
      BY <2>2
    <3>2. (front \o back)[i] = back[i - n]
      BY <1>1, <2>2
    <3>3. back[i - n] = s[n + (i - n)]
      BY <1>1, <3>1
    <3> QED BY <1>1, <3>1, <3>2, <3>3
  <2>3. i <= n \/ i > n
    OBVIOUS
  <2> QED BY <2>1, <2>2, <2>3, Zenon
<1>4. front \o back = whole
  <2> DEFINE both == front \o back
  <2>1. /\ both \in Seq(Key) /\ whole \in Seq(Key) /\ Len(both) = Len(whole)
        /\ \A i \in 1..Len(whole) : both[i] = whole[i]
    BY <1>1, <1>2, <1>3
  <2> HIDE DEF both
  <2>2. both = whole
    BY <2>1, SameRows, Zenon
  <2> QED BY <2>2 DEF both
<1> QED
  BY <1>4 DEF front, back, whole

LEMMA ChunkOf ==
  ASSUME NEW s \in Seq(Key), NEW n \in Nat, NEW c \in Nat
  PROVE  /\ Chunk(s, n, c) \in Seq(Key) /\ Len(Chunk(s, n, c)) \in Nat
         /\ n <= Len(s) => /\ n + Len(Chunk(s, n, c)) <= Len(s)
                           /\ SubSeq(s, 1, n) \o Chunk(s, n, c) = SubSeq(s, 1, n + Len(Chunk(s, n, c)))
                           /\ Len(Chunk(s, n, c)) < c => n + Len(Chunk(s, n, c)) = Len(s)
<1> DEFINE chunk == Chunk(s, n, c)
           hi == Upto(s, n, c)
<1>0. hi = (IF n + c < Len(s) THEN n + c ELSE Len(s)) /\ chunk = SubSeq(s, n + 1, hi)
  BY DEF Chunk, Upto
<1> HIDE DEF hi, chunk
<1>1. Len(s) \in Nat /\ hi \in Nat /\ hi <= Len(s)
  BY <1>0
<1>2. chunk \in Seq(Key) /\ Len(chunk) = IF n <= hi THEN hi - n ELSE 0
  BY <1>0, <1>1
<1>3. ASSUME n <= Len(s)
      PROVE  /\ n + Len(chunk) = hi
             /\ SubSeq(s, 1, n) \o chunk = SubSeq(s, 1, hi)
             /\ Len(chunk) < c => hi = Len(s)
  <2>1. n <= hi
    BY <1>0, <1>3
  <2>2. Len(chunk) = hi - n
    BY <1>1, <1>2, <2>1
  <2>3. SubSeq(s, 1, n) \o SubSeq(s, n + 1, hi) = SubSeq(s, 1, hi)
    BY <1>1, <2>1, Halves
  <2>4. hi - n < c => hi = Len(s)
    BY <1>0, <1>1, <1>3
  <2>5. n + Len(chunk) = hi
    BY <1>1, <2>2
  <2> QED BY <1>0, <2>2, <2>3, <2>4, <2>5, Zenon
<1>4. Len(chunk) \in Nat
  BY <1>1, <1>2
<1> QED
  BY <1>1, <1>2, <1>3, <1>4, Zenon DEF chunk

LEMMA NextChunkPreserves ==
  ASSUME StreamInv, NextChunk
  PROVE  StreamInv'
<1> DEFINE q == stream.query
           all == All(q.alias)
           n == IF stream.last > 0 THEN stream.last ELSE q.offset
           got == Rows(q.alias, q.chunk, n)
           next == [stream EXCEPT !.seen = @ \o got, !.last = @ + Len(got),
                                  !.at = IF Len(got) < q.chunk THEN "ended" ELSE "open"]
<1>1. TablesOK /\ TablesOK' /\ UNCHANGED <<tables, work>>
  BY DEF StreamInv, NextChunk, TablesOK, HistoryOK
<1>2. stream \in OpenStream
  <2>1. NoStream.at = "none" /\ stream.at = "open"
    BY DEF NoStream, NextChunk
  <2> QED BY <2>1 DEF StreamInv
<1>3. /\ q \in Streams /\ q.chunk \in Nat /\ q.offset \in Nat /\ q.alias \in Alias
      /\ stream.last \in Nat /\ stream.seen \in Seq(Key) /\ stream.moved \in BOOLEAN
  BY <1>2, StreamAssumption DEF OpenStream
<1>4. all \in Seq(Key)
  BY <1>1, <1>3, AllRows
<1>5. n \in Nat
  BY <1>3
<1>6. got = Chunk(all, n, q.chunk)
  BY DEF Rows, Chunk, Upto
<1>7. stream' = next
  BY DEF NextChunk
<1> HIDE DEF all, n, got
<1>8. /\ got \in Seq(Key) /\ Len(got) \in Nat
      /\ n <= Len(all) => /\ n + Len(got) <= Len(all)
                          /\ SubSeq(all, 1, n) \o got = SubSeq(all, 1, n + Len(got))
                          /\ Len(got) < q.chunk => n + Len(got) = Len(all)
  <2> DEFINE c == q.chunk
  <2>1. c \in Nat /\ got = Chunk(all, n, c)
    BY <1>3, <1>6
  <2> HIDE DEF c
  <2>2. got \in Seq(Key) /\ Len(got) \in Nat
    BY <1>4, <1>5, <2>1, ChunkOf, Zenon
  <2>3. ASSUME n <= Len(all)
        PROVE  /\ n + Len(got) <= Len(all)
               /\ SubSeq(all, 1, n) \o got = SubSeq(all, 1, n + Len(got))
               /\ Len(got) < c => n + Len(got) = Len(all)
    BY <1>4, <1>5, <2>1, <2>3, ChunkOf, Zenon
  <2> QED BY <2>2, <2>3, Zenon DEF c
<1>9. /\ stream'.at = IF Len(got) < q.chunk THEN "ended" ELSE "open"
      /\ stream'.query = q /\ stream'.moved = stream.moved
      /\ stream'.last = stream.last + Len(got) /\ stream'.seen = stream.seen \o got
  <2> QED BY <1>2, <1>7 DEF OpenStream
<1>10. stream' \in OpenStream
  <2>1. stream.last + Len(got) \in Nat /\ stream.seen \o got \in Seq(Key)
    <3> HIDE DEF q
    <3> QED BY <1>3, <1>8
  <2> HIDE DEF q
  <2> QED BY <1>2, <1>7, <2>1 DEF OpenStream
<1>11. all' = all
  BY <1>1, <1>9 DEF all, All, Content
<1>12. ASSUME ~stream'.moved
       PROVE  /\ ~work'.open
              /\ stream'.query.offset = 0 =>
                   /\ stream'.last <= Len(all)
                   /\ stream'.seen = SubSeq(all, 1, stream'.last)
                   /\ stream'.at = "ended" => stream'.last = Len(all)
  <2>1. stream.at # "none" /\ ~stream.moved
    BY <1>9, <1>12 DEF NextChunk
  <2>2. ~work.open /\ (q.offset = 0 => stream.last <= Len(all) /\ stream.seen = SubSeq(all, 1, stream.last))
    BY <2>1 DEF StreamInv, StreamTrue, all
  <2>3. ASSUME q.offset = 0
        PROVE  /\ stream'.last <= Len(all) /\ stream'.seen = SubSeq(all, 1, stream'.last)
               /\ stream'.at = "ended" => stream'.last = Len(all)
    <3>1. n = stream.last /\ n <= Len(all)
      BY <1>3, <2>2, <2>3 DEF n
    <3>2. /\ n + Len(got) <= Len(all)
          /\ SubSeq(all, 1, n) \o got = SubSeq(all, 1, n + Len(got))
          /\ Len(got) < q.chunk => n + Len(got) = Len(all)
      BY <1>8, <3>1, Zenon
    <3> HIDE DEF q
    <3> QED BY <1>9, <2>2, <2>3, <3>1, <3>2
  <2> QED BY <1>1, <1>9, <2>2, <2>3
<1> QED
  BY <1>1, <1>9, <1>10, <1>11, <1>12 DEF StreamInv, StreamTrue, all

LEMMA OpenPreserves ==
  ASSUME StreamInv, NEW query \in Streams, Open(query)
  PROVE  StreamInv'
<1>1. TablesOK /\ TablesOK' /\ UNCHANGED <<tables, work>>
  BY DEF StreamInv, Open, TablesOK, HistoryOK
<1>2. stream' = [at |-> "open", query |-> query, last |-> 0, seen |-> <<>>, moved |-> work.open]
  BY DEF Open
<1>3. work.open \in BOOLEAN
  <2>1. Closed.open = FALSE
    BY DEF Closed
  <2>2. \A w \in [open : {TRUE}, rows : SUBSET Key] : w.open = TRUE
    OBVIOUS
  <2> QED BY <1>1, <2>1, <2>2 DEF TablesOK
<1>4. stream' \in OpenStream
  BY <1>2, <1>3 DEF OpenStream
<1>5. All(query.alias) \in Seq(Key) /\ All(query.alias)' = All(query.alias)
  BY <1>1, AllRows, StreamAssumption DEF All, Content
<1>6. 0 <= Len(All(query.alias)) /\ SubSeq(All(query.alias), 1, 0) = <<>>
  BY <1>5
<1> QED
  BY <1>1, <1>2, <1>4, <1>5, <1>6 DEF StreamInv, StreamTrue

\* A write to the table, a closure and the rest of the system.
LEMMA StreamStep ==
  ASSUME StreamInv, [ReadsNext]_readVars
  PROVE  StreamInv'
<1>1. TablesOK /\ TablesOK'
  BY TablesType DEF StreamInv
<1>2. ASSUME NEW query \in Streams, Open(query) PROVE StreamInv'
  BY <1>2, OpenPreserves
<1>3. CASE NextChunk
  BY <1>3, NextChunkPreserves
<1>4. CASE UNCHANGED <<tables, work, stream>>
  BY <1>1, <1>4 DEF StreamInv, StreamTrue, All, Content
<1>5. ASSUME NEW k \in Key, WriteInside(k) PROVE StreamInv'
  <2>1. work.open /\ UNCHANGED stream
    BY <1>5 DEF WriteInside
  <2> QED BY <1>1, <2>1 DEF StreamInv, StreamTrue
<1> DEFINE Moved == stream' = [stream EXCEPT !.moved = TRUE]
<1>6. ASSUME stream' = stream /\ stream.at = "none" PROVE StreamInv'
  BY <1>1, <1>6 DEF StreamInv, StreamTrue
<1>7. ASSUME stream.at # "none"
      PROVE  /\ stream \in OpenStream
             /\ Moved => StreamInv'
  <2>1. NoStream.at = "none"
    BY DEF NoStream
  <2>2. stream \in OpenStream
    BY <1>7, <2>1 DEF StreamInv
  <2>3. ASSUME Moved PROVE stream' \in OpenStream /\ stream'.moved
    BY <2>2, <2>3 DEF OpenStream
  <2> QED BY <1>1, <2>2, <2>3 DEF StreamInv, StreamTrue
<1>8. CASE OpenClosure
  BY <1>6, <1>7, <1>8 DEF OpenClosure
<1>9. ASSUME NEW a \in Alias, NEW content, Commit(a, content), UNCHANGED work \/ work.open
      PROVE  StreamInv'
  <2>1. CASE stream.at = "none"
    BY <1>6, <1>9, <2>1 DEF Commit
  <2>2. CASE stream.at # "none"
    <3>1. stream \in OpenStream /\ stream' = [stream EXCEPT !.moved = @ \/ stream.query.alias = a]
      BY <1>7, <1>9, <2>2 DEF Commit
    <3>2. /\ stream' \in OpenStream /\ stream'.at = stream.at /\ stream'.query = stream.query
          /\ stream'.last = stream.last /\ stream'.seen = stream.seen
          /\ stream'.moved = (stream.moved \/ stream.query.alias = a)
      BY <3>1 DEF OpenStream
    <3>3. stream.query.alias \in Alias
      BY <3>1, StreamAssumption DEF OpenStream
    <3>4. ASSUME ~stream'.moved
          PROVE  ~work.open /\ UNCHANGED work /\ ~stream.moved
                 /\ All(stream.query.alias)' = All(stream.query.alias)
      <4>1. ~stream.moved /\ stream.query.alias # a
        BY <3>2, <3>4
      <4>2. ~work.open /\ UNCHANGED work
        BY <1>9, <2>2, <4>1 DEF StreamInv, StreamTrue
      <4>3. tables'[stream.query.alias] = tables[stream.query.alias]
        BY <1>1, <1>9, <3>3, <4>1 DEF Commit, TablesOK, HistoryOK
      <4> QED BY <3>2, <4>1, <4>2, <4>3 DEF All, Content
    <3> QED BY <1>1, <2>2, <3>2, <3>4 DEF StreamInv, StreamTrue
  <2> QED BY <2>1, <2>2
<1>10. CASE CloseClosure
  <2>1. work.open
    BY <1>10 DEF CloseClosure
  <2>2. CASE UNCHANGED stream
    BY <1>1, <2>1, <2>2 DEF StreamInv, StreamTrue
  <2>3. CASE Commit("default", work.rows)
    BY <1>9, <2>1, <2>3, TableAssumption
  <2> QED BY <1>10, <2>2, <2>3 DEF CloseClosure
<1>11. ASSUME NEW a \in Alias, NEW k \in Key, WriteRow(a, k) PROVE StreamInv'
  BY <1>9, <1>11 DEF WriteRow
<1>12. \/ \E query \in Streams : Open(query)
       \/ NextChunk \/ OpenClosure \/ CloseClosure
       \/ \E k \in Key : WriteInside(k)
       \/ \E a \in Alias, k \in Key : WriteRow(a, k)
       \/ UNCHANGED <<tables, work, stream>>
  BY DEF ReadsNext, readVars, Ask, Fetch, Fill, Tick
<1> QED
  BY <1>2, <1>3, <1>4, <1>5, <1>8, <1>10, <1>11, <1>12

\* StreamsWhole, for any tables, chunk sizes and writers: a stream that ended over
\* a table nobody changed has returned its rows, each once and in order, if its
\* query has no limit and no offset of its own (stream.rs 55-86).
THEOREM StreamsAreWhole == ReadsSpec => []StreamsWhole
<1>1. ReadsInit => StreamInv
  <2> SUFFICES ASSUME ReadsInit PROVE StreamInv
    OBVIOUS
  <2>1. TablesOK /\ stream = NoStream
    BY DEF ReadsInit, TablesOK, HistoryOK
  <2> QED BY <2>1 DEF StreamInv, StreamTrue, NoStream
<1>2. StreamInv => StreamsWhole
  <2> SUFFICES ASSUME StreamInv, stream.at = "ended", ~stream.moved, stream.query.offset = 0
               PROVE  stream.seen = All(stream.query.alias)
    BY DEF StreamsWhole
  <2> DEFINE all == All(stream.query.alias)
  <2>1. stream.seen = SubSeq(all, 1, Len(all))
    BY DEF StreamInv, StreamTrue
  <2>2. all \in Seq(Key)
    <3>1. NoStream.at = "none"
      BY DEF NoStream
    <3>2. stream \in OpenStream
      BY <3>1 DEF StreamInv
    <3>3. stream.query.alias \in Alias
      BY <3>2, StreamAssumption DEF OpenStream
    <3> QED BY <3>3, AllRows DEF StreamInv
  <2> HIDE DEF all
  <2>3. SubSeq(all, 1, Len(all)) = all
    BY <2>2
  <2> QED BY <2>1, <2>3 DEF all
<1> QED
  BY <1>1, <1>2, StreamStep, PTL DEF ReadsSpec

-----------------------------------------------------------------------------
(***************************************************************************)
(* Backend calls.                                                           *)
(***************************************************************************)
Pools == DOMAIN registry.pools

\* Before the setup nothing has happened; a block is on a pool.
PoolsOK ==
  /\ registry = Unset => last = NoCall /\ slot = NoSlot /\ \A t \in Task : task[t] = NoTask
  /\ slot = NoSlot \/ slot \in [at : {"open", "ended"}, alias : Pools, conn : Conn]

CallsInv == PoolsOK /\ AnswersTrue

LEMMA RouteIs ==
  ASSUME PoolsOK, NEW op, NEW alias, Route(op, alias).at \in {"pool", "open"}
  PROVE  /\ Route(op, alias).alias \in Pools
         /\ Route(op, alias).at = "pool" => Route(op, alias).alias = Resolve(alias)
         /\ Route(op, alias).at = "open" => Route(op, alias) = slot /\ slot.conn \in Conn
         /\ Through(Route(op, alias)) \subseteq Conn
<1> DEFINE route == Route(op, alias)
<1>1. CASE Resolve(alias) \notin Pools
  BY <1>1 DEF Route, Pools
<1>2. CASE Resolve(alias) \in Pools /\ (op \in Bulk \/ slot.at = "none")
  <2>1. route = [at |-> "pool", alias |-> Resolve(alias)]
    BY <1>2 DEF Route, Pools
  <2>2. Through(route) \subseteq Conn
    BY <2>1 DEF Through
  <2> QED BY <1>2, <2>1, <2>2
<1>3. CASE Resolve(alias) \in Pools /\ op \notin Bulk /\ slot.at # "none"
  <2>1. route = slot
    BY <1>3 DEF Route, Pools
  <2>2. NoSlot.at = "none"
    BY DEF NoSlot
  <2>3. slot \in [at : {"open", "ended"}, alias : Pools, conn : Conn]
    BY <1>3, <2>2 DEF PoolsOK
  <2>4. route.at = "open" /\ slot.alias \in Pools /\ slot.conn \in Conn
    BY <2>1, <2>3
  <2>5. Through(route) \subseteq Conn
    BY <2>1, <2>4 DEF Through
  <2> QED BY <2>1, <2>4, <2>5
<1> QED BY <1>1, <1>2, <1>3

LEMMA PoolsStep == PoolsOK /\ [BackendsNext]_backendVars => PoolsOK'
<1> SUFFICES ASSUME PoolsOK, [BackendsNext]_backendVars PROVE PoolsOK'
  OBVIOUS
<1>1. ASSUME NEW source \in Sources, Setup(source) PROVE PoolsOK'
  <2>1. registry'.pools = Urls(source) /\ Urls(source) # Unset.pools
    BY <1>1 DEF Setup
  <2>2. registry' # Unset /\ slot' = NoSlot
    BY <1>1, <2>1 DEF PoolsOK, Setup
  <2> QED BY <2>2 DEF PoolsOK
<1>2. ASSUME NEW call \in Calls, Refusal(call) \/ Reading(call) \/ Insert(call) \/ Modify(call)
      PROVE  registry # Unset /\ UNCHANGED <<registry, slot, task>>
  BY <1>2 DEF Refusal, Reading, Insert, Modify, Failed, Runs
<1>3. ASSUME NEW t \in Task, NEW alias, NEW size, NEW ignore, NEW skipped,
             BulkCreate(t, alias, size, skipped, ignore)
      PROVE  registry # Unset /\ UNCHANGED <<registry, slot>>
  BY <1>3 DEF BulkCreate
<1>4. ASSUME NEW t \in Task, AskRowid(t) PROVE registry # Unset /\ UNCHANGED <<registry, slot>>
  <2>1. task[t].at = "asks" /\ UNCHANGED <<registry, slot>>
    BY <1>4 DEF AskRowid
  <2>2. NoTask.at = "idle"
    BY DEF NoTask
  <2> QED BY <2>1, <2>2 DEF PoolsOK
<1>5. ASSUME NEW alias \in Pools, BeginBlock(alias) PROVE PoolsOK'
  <2>1. registry # Unset
    <3>1. Unset.pools = [a \in {} |-> ""] /\ DOMAIN [a \in {} |-> ""] = {}
      BY DEF Unset
    <3> QED BY <3>1 DEF Pools
  <2>2. slot' \in [at : {"open", "ended"}, alias : Pools, conn : Conn] /\ registry' = registry
    BY <1>5 DEF BeginBlock
  <2> QED BY <2>1, <2>2 DEF PoolsOK, Pools
<1>6. CASE EndBlock
  <2>1. slot \in [at : {"open", "ended"}, alias : Pools, conn : Conn] /\ slot # NoSlot
    BY <1>6 DEF PoolsOK, EndBlock, NoSlot
  <2>2. slot' = [slot EXCEPT !.at = "ended"] /\ registry' = registry
    BY <1>6 DEF EndBlock
  <2>3. slot' \in [at : {"open", "ended"}, alias : Pools, conn : Conn]
    BY <2>1, <2>2
  <2> QED BY <2>1, <2>2, <2>3 DEF PoolsOK, Pools
<1>7. CASE ReleaseSlot
  <2>1. slot # NoSlot
    BY <1>7 DEF ReleaseSlot, NoSlot
  <2> QED BY <1>7, <2>1 DEF PoolsOK, ReleaseSlot
<1>8. ASSUME registry # Unset, UNCHANGED <<registry, slot>> PROVE PoolsOK'
  BY <1>8 DEF PoolsOK, Pools
<1>9. CASE UNCHANGED backendVars
  BY <1>9 DEF backendVars, PoolsOK, Pools
<1> QED
  BY <1>1, <1>2, <1>3, <1>4, <1>5, <1>6, <1>7, <1>8, <1>9 DEF BackendsNext, Pools

-----------------------------------------------------------------------------
LEMMA ReadingTrue == ASSUME PoolsOK, NEW call, Reading(call) PROVE AnswersTrue'
<1> DEFINE route == Route(call.op, call.alias)
           seen == Visible(route) \cap call.keys
<1>1. /\ last' = [op |-> call.op, alias |-> call.alias, marked |-> FALSE, keys |-> call.keys,
                  route |-> route, told |-> Read(call.op, seen), did |-> seen]
      /\ route.at \in {"pool", "open"} /\ call.op \in {"all", "count", "one"}
      /\ registry' = registry
  BY DEF Reading, Told, Runs
<1>2. route.at = "pool" => route.alias = Resolve(call.alias)
  BY <1>1, RouteIs
<1>3. Addressed' = Resolve(call.alias)
  BY <1>1 DEF Addressed, Resolve
<1>4. Read(call.op, seen).ok => Read(call.op, seen).value = Truth'
  BY <1>1 DEF Read, Says, Fails, Truth
<1>5. ~Read(call.op, seen).ok => call.op = "one"
  BY <1>1 DEF Read, Says, Fails
<1> HIDE DEF route, seen
<1> QED
  BY <1>1, <1>2, <1>3, <1>4, <1>5 DEF AnswersTrue, Caught

LEMMA InsertTrue == ASSUME PoolsOK, NEW call, Insert(call) PROVE AnswersTrue'
<1> DEFINE route == Route(call.op, call.alias)
           key == Len(born[route.alias]) + 1
           told == IF call.op = "save" THEN Fails ELSE Says(key)
<1>1. /\ last' = [op |-> call.op, alias |-> call.alias, marked |-> FALSE, keys |-> {key},
                  route |-> route, told |-> told, did |-> {key}]
      /\ route.at \in {"pool", "open"} /\ call.op \in {"insert", "save"}
      /\ registry' = registry
  BY DEF Insert, Told, Runs
<1>2. route.at = "pool" => route.alias = Resolve(call.alias)
  BY <1>1, RouteIs
<1>3. Addressed' = Resolve(call.alias)
  BY <1>1 DEF Addressed, Resolve
<1>4. told.ok => told.value = Truth'
  BY <1>1 DEF Says, Fails, Truth
<1>5. ~told.ok => call.op = "save"
  BY <1>1 DEF Says, Fails
<1> HIDE DEF route, key, told
<1> QED
  BY <1>1, <1>2, <1>3, <1>4, <1>5 DEF AnswersTrue, Caught

LEMMA ModifyTrue == ASSUME PoolsOK, NEW call, Modify(call) PROVE AnswersTrue'
<1> DEFINE route == Route(call.op, call.alias)
           hit == Visible(route) \cap call.keys
           told == Says(Affected(call.marked /\ call.op \notin Bulk, route, Cardinality(hit)))
<1>1. /\ last' = [op |-> call.op, alias |-> call.alias, marked |-> call.marked, keys |-> call.keys,
                  route |-> route, told |-> told, did |-> hit]
      /\ route.at \in {"pool", "open"} /\ call.op \in {"update", "delete"} \cup Bulk
      /\ registry' = registry
  BY DEF Modify, Told, Runs
<1>2. route.at = "pool" => route.alias = Resolve(call.alias)
  BY <1>1, RouteIs
<1>3. Addressed' = Resolve(call.alias)
  BY <1>1 DEF Addressed, Resolve
<1>4. told.ok
  BY DEF Says
<1>5. ~(call.marked /\ call.op \in {"update", "delete"}) => told.value = Cardinality(hit)
  BY <1>1 DEF Says, Affected, Bulk
<1> HIDE DEF route, hit, told
<1>6. Truth' = Cardinality(hit)
  BY <1>1 DEF Truth, Bulk
<1> QED
  BY <1>1, <1>2, <1>3, <1>4, <1>5, <1>6 DEF AnswersTrue, Caught

LEMMA RefusalTrue == ASSUME PoolsOK, NEW call, Refusal(call) PROVE AnswersTrue'
<1>1. last'.told = Fails /\ last'.did = {}
  BY DEF Refusal, Failed, Told
<1> QED
  BY <1>1 DEF AnswersTrue, Fails

\* AnswersTrue, for any databases, calls, blocks and tables: a call acts on the
\* database it names unless a block on another catches it, and is told what it
\* did (sqlite.rs 367-457, postgres.rs and mysql.rs alike).
THEOREM CallsAreTrue == BackendsSpec => []AnswersTrue
<1>1. BackendsInit => CallsInv
  BY DEF BackendsInit, CallsInv, PoolsOK, AnswersTrue
<1>2. CallsInv /\ [BackendsNext]_backendVars => CallsInv'
  <2> SUFFICES ASSUME CallsInv, [BackendsNext]_backendVars PROVE AnswersTrue'
    BY PoolsStep DEF CallsInv
  <2>1. ASSUME NEW call \in Calls, Refusal(call) \/ Reading(call) \/ Insert(call) \/ Modify(call)
        PROVE  AnswersTrue'
    BY <2>1, RefusalTrue, ReadingTrue, InsertTrue, ModifyTrue DEF CallsInv
  <2>2. ASSUME NEW source \in Sources, Setup(source) PROVE AnswersTrue'
    BY <2>2 DEF CallsInv, PoolsOK, Setup, AnswersTrue
  <2>3. CASE UNCHANGED <<registry, last>>
    BY <2>3 DEF CallsInv, AnswersTrue, Caught, Addressed, Truth
  <2>4. \/ \E call \in Calls : Refusal(call) \/ Reading(call) \/ Insert(call) \/ Modify(call)
        \/ \E source \in Sources : Setup(source)
        \/ UNCHANGED <<registry, last>>
    <3>1. ASSUME NEW t \in Task, NEW alias, NEW size, NEW ignore, NEW skipped,
                 BulkCreate(t, alias, size, skipped, ignore)
          PROVE  UNCHANGED <<registry, last>>
      BY <3>1 DEF BulkCreate
    <3>2. ASSUME NEW t \in Task, AskRowid(t) PROVE UNCHANGED <<registry, last>>
      BY <3>2 DEF AskRowid
    <3>3. ASSUME NEW alias, BeginBlock(alias) \/ EndBlock \/ ReleaseSlot
          PROVE  UNCHANGED <<registry, last>>
      BY <3>3 DEF BeginBlock, EndBlock, ReleaseSlot
    <3>4. UNCHANGED backendVars => UNCHANGED <<registry, last>>
      BY DEF backendVars
    <3> QED BY <3>1, <3>2, <3>3, <3>4 DEF BackendsNext
  <2> QED BY <2>1, <2>2, <2>3, <2>4
<1>3. CallsInv => AnswersTrue
  BY DEF CallsInv
<1> QED
  BY <1>1, <1>2, <1>3, PTL DEF BackendsSpec

-----------------------------------------------------------------------------
(***************************************************************************)
(* The keys of bulk_create.                                                 *)
(***************************************************************************)
IsSeries(s) == s \in Seq({s[i] : i \in DOMAIN s})

LEMMA SeriesOf == ASSUME NEW S, NEW s \in Seq(S) PROVE IsSeries(s)
BY DEF IsSeries

LEMMA SequenceOf == ASSUME NEW S, NEW n \in Nat, NEW f \in [1..n -> S] PROVE f \in Seq(S) /\ Len(f) = n
OBVIOUS

LEMMA SeriesJoin ==
  ASSUME NEW s, NEW u, IsSeries(s), IsSeries(u)
  PROVE  /\ IsSeries(s \o u) /\ Len(s) \in Nat /\ Len(u) \in Nat
         /\ Len(s \o u) = Len(s) + Len(u)
         /\ \A k \in 1..Len(s) : (s \o u)[k] = s[k]
         /\ \A k \in 1..Len(u) : (s \o u)[Len(s) + k] = u[k]
<1> DEFINE S == {s[i] : i \in DOMAIN s} \cup {u[i] : i \in DOMAIN u}
<1>1. s \in Seq(S) /\ u \in Seq(S)
  BY DEF IsSeries
<1> HIDE DEF S
<1>2. s \o u \in Seq(S) /\ Len(s \o u) = Len(s) + Len(u)
  BY <1>1
<1>3. IsSeries(s \o u)
  BY <1>2, SeriesOf
<1>4. Len(s) \in Nat /\ Len(u) \in Nat
  BY <1>1
<1>5. \A k \in 1..Len(s) : (s \o u)[k] = s[k]
  BY <1>1
<1>6. \A k \in 1..Len(u) : (s \o u)[Len(s) + k] = u[k]
  BY <1>1
<1> QED BY <1>2, <1>3, <1>4, <1>5, <1>6

\* A batch of which nothing is skipped stays as it is.
LEMMA InOrderIs ==
  ASSUME NEW size \in Nat, NEW skipped \in SUBSET (1..size)
  PROVE  /\ IsSeries(InOrder(1..size \ skipped))
         /\ Len(InOrder(1..size \ skipped)) \in Nat
         /\ DOMAIN InOrder(1..size \ skipped) = 1..Len(InOrder(1..size \ skipped))
         /\ skipped = {} => /\ Len(InOrder(1..size \ skipped)) = size
                            /\ \A i \in 1..size : InOrder(1..size \ skipped)[i] = i
<1> DEFINE places == 1..size \ skipped
           n == Cardinality(places)
<1>1. \A m \in Nat : IsFiniteSet(1..m) /\ Cardinality(1..m) = m
  BY FS_Interval
<1>2. n \in Nat
  BY <1>1, FS_Subset, FS_CardinalityType
<1> HIDE DEF n
<1>3. InOrder(places) = [i \in 1..n |-> Nth(places, i)]
  BY DEF InOrder, n
<1>4. InOrder(places) \in Seq({Nth(places, i) : i \in 1..n}) /\ Len(InOrder(places)) = n
  <2> DEFINE S == {Nth(places, i) : i \in 1..n}
  <2>1. InOrder(places) \in [1..n -> S]
    BY <1>3
  <2> HIDE DEF S
  <2>2. InOrder(places) \in Seq(S) /\ Len(InOrder(places)) = n
    BY <1>2, <2>1, SequenceOf, Zenon
  <2> QED BY <2>2 DEF S
<1>5. IsSeries(InOrder(places))
  BY <1>4, SeriesOf
<1>6. ASSUME skipped = {} PROVE n = size /\ \A i \in 1..size : InOrder(places)[i] = i
  <2>1. places = 1..size /\ n = size
    BY <1>1, <1>6 DEF n
  <2>2. ASSUME NEW i \in 1..size PROVE Nth(1..size, i) = i
    <3>1. ASSUME NEW j \in 1..size PROVE Cardinality({k \in 1..size : k <= j}) = j
      <4>1. {k \in 1..size : k <= j} = 1..j
        OBVIOUS
      <4>2. j \in Nat
        OBVIOUS
      <4>3. Cardinality(1..j) = j
        BY <1>1, <4>2
      <4> QED BY <4>1, <4>3
    <3> QED BY <3>1 DEF Nth
  <2> QED BY <1>3, <2>1, <2>2
<1> QED
  BY <1>2, <1>3, <1>4, <1>5, <1>6

-----------------------------------------------------------------------------
Failing == [at |-> "failed"]
Batches == [at : {"asks", "done"}, alias : Pools, conn : Conn, skipped : SUBSET Nat, size : Nat,
            straight : BOOLEAN, keys : Seq(Int)]

RowsOK ==
  /\ born = [a \in Pools |-> born[a]] /\ \A a \in Pools : IsSeries(born[a])
  /\ lastRow \in [Pools -> [Conn -> Nat]]
  /\ task \in [Task -> {NoTask, Failing} \cup Batches]

Created(t) == task[t].at \in {"asks", "done"} /\ task[t].skipped = {}

\* The batch of t is in the table of a, and ends with this key.
EndsAt(t, a, key) ==
  \A i \in 1..task[t].size :
    /\ key - task[t].size + i \in 1..Len(born[a])
    /\ born[a][key - task[t].size + i] = <<t, i>>

Own(t) ==
  task[t].at = "done" /\ task[t].straight /\ task[t].skipped = {} =>
    \A i \in 1..task[t].size :
      task[t].keys[i] # 0 => /\ task[t].keys[i] \in 1..Len(born[task[t].alias])
                             /\ born[task[t].alias][task[t].keys[i]] = <<t, i>>
Fresh(t) == task[t] = NoTask => \A a \in Pools : \A k \in 1..Len(born[a]) : born[a][k][1] # t

\* What a connection remembers is the end of a batch, or a row of its own.
Remembers(a, c) ==
  /\ lastRow[a][c] <= Len(born[a])
  /\ \A t \in Task : lastRow[a][c] # 0 /\ born[a][lastRow[a][c]][1] = t /\ Created(t)
                       => EndsAt(t, a, lastRow[a][c])

KeysInv ==
  /\ PoolsOK /\ RowsOK
  /\ \A t \in Task : Own(t) /\ Fresh(t)
  /\ \A a \in Pools, c \in Conn : Remembers(a, c)

LEMMA TaskIs ==
  ASSUME RowsOK, NEW t \in Task
  PROVE  /\ task[t].at \in {"asks", "done"} => task[t] \in Batches
         /\ task[t] = NoTask => task[t].at \notin {"asks", "done"}
<1>1. NoTask.at = "idle" /\ Failing.at = "failed"
  BY DEF NoTask, Failing
<1>2. task[t] \in {NoTask, Failing} \cup Batches
  BY DEF RowsOK
<1> QED BY <1>1, <1>2

\* Rows are only added.
Grown == \A a \in Pools : /\ Len(born[a]) \in Nat /\ Len(born'[a]) \in Nat
                          /\ Len(born[a]) <= Len(born'[a])
                          /\ \A k \in 1..Len(born[a]) : born'[a][k] = born[a][k]

LEMMA SameGrows == ASSUME RowsOK, UNCHANGED born PROVE Grown
<1>1. \A a \in Pools : Len(born[a]) \in Nat
  BY DEF RowsOK, IsSeries
<1> QED BY <1>1 DEF Grown

LEMMA OwnStays ==
  ASSUME RowsOK, Grown, NEW t \in Task, Own(t), task'[t] = task[t]
  PROVE  Own(t)'
<1> SUFFICES ASSUME task[t].at = "done", task[t].straight, task[t].skipped = {},
                    NEW i \in 1..task[t].size, task[t].keys[i] # 0
             PROVE  /\ task[t].keys[i] \in 1..Len(born'[task[t].alias])
                    /\ born'[task[t].alias][task[t].keys[i]] = <<t, i>>
  BY DEF Own
<1>1. task[t].alias \in Pools
  BY TaskIs DEF Batches
<1> DEFINE a == task[t].alias
           k == task[t].keys[i]
<1>2. k \in 1..Len(born[a]) /\ born[a][k] = <<t, i>>
  BY DEF Own
<1> HIDE DEF a, k
<1>3. k \in 1..Len(born'[a]) /\ born'[a][k] = born[a][k]
  BY <1>1, <1>2 DEF Grown, a
<1> QED BY <1>2, <1>3 DEF a, k

LEMMA RemembersStays ==
  ASSUME RowsOK, Grown, NEW a \in Pools, NEW c \in Conn, Remembers(a, c),
         lastRow'[a][c] = lastRow[a][c],
         \A t \in Task : \/ Created(t)' => Created(t) /\ task'[t].size = task[t].size
                         \/ \A k \in 1..Len(born[a]) : born[a][k][1] # t
  PROVE  Remembers(a, c)'
<1> DEFINE k == lastRow[a][c]
<1>1. k \in Nat
  BY DEF RowsOK
<1>2. k <= Len(born[a]) /\ Len(born[a]) \in Nat /\ Len(born'[a]) \in Nat /\ Len(born[a]) <= Len(born'[a])
  BY DEF Remembers, Grown
<1>3. ASSUME NEW t \in Task, k # 0, born'[a][k][1] = t, Created(t)'
      PROVE  EndsAt(t, a, lastRow[a][c])'
  <2>1. k \in 1..Len(born[a]) /\ born'[a][k] = born[a][k]
    BY <1>1, <1>2, <1>3 DEF Grown
  <2>2. Created(t) /\ task'[t].size = task[t].size
    BY <1>3, <2>1
  <2>3. EndsAt(t, a, k)
    BY <1>3, <2>1, <2>2 DEF Remembers
  <2>4. ASSUME NEW i \in 1..task[t].size
        PROVE  /\ k - task[t].size + i \in 1..Len(born'[a])
               /\ born'[a][k - task[t].size + i] = <<t, i>>
    <3> DEFINE j == k - task[t].size + i
    <3>1. j \in 1..Len(born[a]) /\ born[a][j] = <<t, i>>
      BY <2>3 DEF EndsAt
    <3> HIDE DEF j, k
    <3>2. j \in 1..Len(born'[a]) /\ born'[a][j] = born[a][j]
      BY <1>2, <3>1 DEF Grown
    <3> QED BY <3>1, <3>2 DEF j
  <2> QED BY <2>2, <2>4 DEF EndsAt
<1>4. lastRow'[a][c] <= Len(born'[a])
  BY <1>1, <1>2
<1> QED
  BY <1>3, <1>4 DEF Remembers

LEMMA InsertedIs ==
  ASSUME RowsOK, NEW a \in Pools, NEW c \in Conn, NEW key \in Nat
  PROVE  /\ Inserted(a, c, key) \in [Pools -> [Conn -> Nat]]
         /\ \A b \in Pools, d \in Conn :
              \/ Inserted(a, c, key)[b][d] = lastRow[b][d]
              \/ b = a /\ Inserted(a, c, key)[b][d] = key
<1>1. lastRow \in [Pools -> [Conn -> Nat]]
  BY DEF RowsOK
<1>2. [lastRow EXCEPT ![a][c] = key] \in [Pools -> [Conn -> Nat]]
  BY <1>1
<1>3. \A b \in Pools, d \in Conn : \/ [lastRow EXCEPT ![a][c] = key][b][d] = lastRow[b][d]
                                   \/ b = a /\ [lastRow EXCEPT ![a][c] = key][b][d] = key
  BY <1>1
<1>4. Inserted(a, c, key) \in {lastRow, [lastRow EXCEPT ![a][c] = key]}
  BY DEF Inserted
<1> QED BY <1>1, <1>2, <1>3, <1>4

LEMMA SeriesAppend ==
  ASSUME NEW s, NEW e, IsSeries(s)
  PROVE  /\ IsSeries(Append(s, e)) /\ Len(s) \in Nat /\ Len(Append(s, e)) = Len(s) + 1
         /\ \A k \in 1..Len(s) : Append(s, e)[k] = s[k]
         /\ Append(s, e)[Len(s) + 1] = e
<1> DEFINE S == {s[i] : i \in DOMAIN s} \cup {e}
<1>1. s \in Seq(S) /\ e \in S
  BY DEF IsSeries
<1> HIDE DEF S
<1>2. Append(s, e) \in Seq(S)
  BY <1>1
<1>3. IsSeries(Append(s, e))
  BY <1>2, SeriesOf
<1> QED BY <1>1, <1>3

\* A step that touches neither rows nor batches.
LEMMA CallsKeep ==
  ASSUME KeysInv, PoolsOK', UNCHANGED <<registry, born, lastRow, task>>
  PROVE  KeysInv'
<1> USE DEF KeysInv
<1>1. Pools' = Pools
  BY DEF Pools
<1>2. RowsOK'
  BY <1>1 DEF RowsOK, Batches
<1>3. Grown
  BY SameGrows
<1>4. ASSUME NEW t \in Task PROVE Own(t)' /\ Fresh(t)'
  <2>1. Own(t)'
    BY <1>3, OwnStays
  <2>2. Fresh(t)'
    BY <1>1 DEF Fresh
  <2> QED BY <2>1, <2>2
<1>5. ASSUME NEW a \in Pools, NEW c \in Conn PROVE Remembers(a, c)'
  <2>1. \A t \in Task : Created(t)' => Created(t) /\ task'[t].size = task[t].size
    BY DEF Created
  <2> QED BY <1>3, <2>1, RemembersStays
<1> QED BY <1>1, <1>2, <1>4, <1>5

LEMMA InsertKeeps == ASSUME KeysInv, PoolsOK', NEW call, Insert(call) PROVE KeysInv'
<1> DEFINE r   == Route(call.op, call.alias).alias
           key == Len(born[r]) + 1
<1>1. /\ Route(call.op, call.alias).at \in {"pool", "open"} /\ registry' = registry /\ task' = task
      /\ born' = [born EXCEPT ![r] = Append(@, Stranger)]
  BY DEF Insert, Runs
<1>2. r \in Pools /\ Through(Route(call.op, call.alias)) \subseteq Conn
  BY <1>1, RouteIs DEF KeysInv
<1>3. \E c \in Conn : lastRow' = Inserted(r, c, key)
  BY <1>2 DEF Insert
<1> HIDE DEF r
<1>4. Pools' = Pools /\ Stranger[1] \notin Task
  BY <1>1, TaskAssumption DEF Pools
<1>5. /\ born'[r] = Append(born[r], Stranger) /\ born' = [a \in Pools |-> born'[a]]
      /\ \A a \in Pools : a # r => born'[a] = born[a]
  BY <1>1, <1>2 DEF KeysInv, RowsOK
<1>6. IsSeries(born[r])
  BY <1>2 DEF KeysInv, RowsOK
<1>7. /\ IsSeries(born'[r]) /\ Len(born[r]) \in Nat /\ Len(born'[r]) = key /\ key \in Nat \ {0}
      /\ \A k \in 1..Len(born[r]) : born'[r][k] = born[r][k]
      /\ born'[r][key] = Stranger
  BY <1>5, <1>6, SeriesAppend
<1>8. PICK c \in Conn : lastRow' = Inserted(r, c, key)
  BY <1>3
<1> HIDE DEF key
<1>9. /\ lastRow' \in [Pools -> [Conn -> Nat]]
      /\ \A b \in Pools, d \in Conn : \/ lastRow'[b][d] = lastRow[b][d]
                                      \/ b = r /\ lastRow'[b][d] = key
  <2>1. RowsOK /\ r \in Pools /\ c \in Conn /\ key \in Nat
    BY <1>2, <1>7 DEF KeysInv
  <2>2. /\ Inserted(r, c, key) \in [Pools -> [Conn -> Nat]]
        /\ \A b \in Pools, d \in Conn : \/ Inserted(r, c, key)[b][d] = lastRow[b][d]
                                        \/ b = r /\ Inserted(r, c, key)[b][d] = key
    BY <2>1, InsertedIs, Zenon
  <2>3. lastRow' = Inserted(r, c, key)
    BY <1>8
  <2> HIDE DEF Pools, Inserted
  <2> QED BY <2>2, <2>3
<1>10. RowsOK'
  <2>1. \A a \in Pools : IsSeries(born'[a])
    BY <1>5, <1>7 DEF KeysInv, RowsOK
  <2>2. task' \in [Task -> {NoTask, Failing} \cup Batches']
    BY <1>1, <1>4 DEF KeysInv, RowsOK, Batches
  <2> QED BY <1>4, <1>5, <1>9, <2>1, <2>2 DEF RowsOK, IsSeries
<1>11. Grown
  <2>1. \A a \in Pools : Len(born[a]) \in Nat
    BY DEF KeysInv, RowsOK, IsSeries
  <2>2. Len(born[r]) <= key
    BY <1>7 DEF key
  <2>3. ASSUME NEW a \in Pools
        PROVE  /\ Len(born[a]) \in Nat /\ Len(born'[a]) \in Nat /\ Len(born[a]) <= Len(born'[a])
               /\ \A k \in 1..Len(born[a]) : born'[a][k] = born[a][k]
    <3>1. CASE a = r
      BY <1>7, <2>2, <3>1
    <3>2. CASE a # r
      BY <1>5, <2>1, <3>2
    <3> QED BY <3>1, <3>2
  <2> QED BY <2>3 DEF Grown
<1>12. ASSUME NEW t \in Task PROVE Own(t)' /\ Fresh(t)'
  <2>1. Own(t)'
    BY <1>1, <1>11, OwnStays DEF KeysInv
  <2>2. ASSUME task[t] = NoTask, NEW a \in Pools, NEW k \in 1..Len(born'[a]) PROVE born'[a][k][1] # t
    <3>1. CASE k \in 1..Len(born[a])
      <4>1. born'[a][k] = born[a][k]
        BY <1>11, <3>1 DEF Grown
      <4> QED BY <2>2, <3>1, <4>1 DEF KeysInv, Fresh
    <3>2. CASE k \notin 1..Len(born[a])
      <4>1. a = r
        BY <1>5, <2>2, <3>2
      <4>2. k = key
        BY <1>7, <3>2, <4>1 DEF key
      <4> QED BY <1>4, <1>7, <4>1, <4>2
    <3> QED BY <3>1, <3>2
  <2>3. Fresh(t)'
    BY <1>1, <1>4, <2>2 DEF Fresh
  <2> QED BY <2>1, <2>3
<1>13. ASSUME NEW a \in Pools, NEW d \in Conn PROVE Remembers(a, d)'
  <2>1. CASE lastRow'[a][d] = lastRow[a][d]
    <3>1. \A t \in Task : Created(t)' => Created(t) /\ task'[t].size = task[t].size
      BY <1>1 DEF Created
    <3> QED BY <1>11, <2>1, <3>1, RemembersStays DEF KeysInv
  <2>2. CASE a = r /\ lastRow'[a][d] = key
    BY <1>4, <1>7, <2>2 DEF Remembers
  <2> QED BY <1>9, <2>1, <2>2
<1> QED
  BY <1>4, <1>10, <1>12, <1>13 DEF KeysInv

-----------------------------------------------------------------------------
\* The moves of one task: the others' batches are what they were.
LEMMA TasksKeep ==
  ASSUME KeysInv, Grown, Pools' = Pools, NEW t \in Task,
         \A u \in Task : u # t => task'[u] = task[u],
         \A u \in Task : \A a \in Pools : \A k \in 1..Len(born'[a]) :
           k \notin 1..Len(born[a]) => born'[a][k][1] = t
  PROVE  \A u \in Task : u # t => Own(u)' /\ Fresh(u)'
<1> SUFFICES ASSUME NEW u \in Task, u # t PROVE Own(u)' /\ Fresh(u)'
  OBVIOUS
<1>1. Own(u)'
  BY OwnStays DEF KeysInv
<1>2. ASSUME task[u] = NoTask, NEW a \in Pools, NEW k \in 1..Len(born'[a]) PROVE born'[a][k][1] # u
  <2>1. CASE k \in 1..Len(born[a])
    <3>1. born'[a][k] = born[a][k]
      BY <2>1 DEF Grown
    <3> QED BY <1>2, <2>1, <3>1 DEF KeysInv, Fresh
  <2>2. CASE k \notin 1..Len(born[a])
    BY <1>2, <2>2
  <2> QED BY <2>1, <2>2
<1>3. Fresh(u)'
  BY <1>2 DEF Fresh
<1> QED BY <1>1, <1>3

LEMMA FailureKeeps ==
  ASSUME KeysInv, PoolsOK', NEW t \in Task,
         task' = [task EXCEPT ![t] = Failing], UNCHANGED <<registry, born, lastRow>>
  PROVE  KeysInv'
<1>1. Pools' = Pools /\ Grown /\ RowsOK
  BY SameGrows DEF Pools, KeysInv
<1>2. RowsOK'
  <2>1. task' \in [Task -> {NoTask, Failing} \cup Batches']
    BY <1>1 DEF RowsOK, Batches
  <2> QED BY <1>1, <2>1 DEF RowsOK
<1>3. task'[t] = Failing /\ \A u \in Task : u # t => task'[u] = task[u]
  BY <1>1 DEF RowsOK
<1>4. Failing.at = "failed" /\ NoTask.at = "idle"
  BY DEF Failing, NoTask
<1>5. Own(t)' /\ Fresh(t)' /\ ~Created(t)'
  BY <1>3, <1>4 DEF Own, Fresh, Created
<1>6. \A u \in Task : u # t => Own(u)' /\ Fresh(u)'
  BY <1>1, <1>3, TasksKeep
<1>7. ASSUME NEW a \in Pools, NEW c \in Conn PROVE Remembers(a, c)'
  <2>1. \A u \in Task : Created(u)' => Created(u) /\ task'[u].size = task[u].size
    BY <1>3, <1>5 DEF Created
  <2> QED BY <1>1, <2>1, RemembersStays DEF KeysInv
<1> QED BY <1>1, <1>2, <1>5, <1>6, <1>7 DEF KeysInv

LEMMA AskKeeps == ASSUME KeysInv, PoolsOK', NEW t \in Task, AskRowid(t) PROVE KeysInv'
<1> DEFINE batch == task[t]
<1>1. batch.at = "asks" /\ UNCHANGED <<registry, rows, born, slot, pending, lastRow, last>>
  BY DEF AskRowid
<1>2. RowsOK /\ Pools' = Pools /\ batch \in Batches
  BY <1>1, TaskIs DEF KeysInv, Pools
<1>3. CASE task' = [task EXCEPT ![t] = Failing]
  BY <1>1, <1>3, FailureKeeps
<1>4. CASE task' # [task EXCEPT ![t] = Failing]
  <2> DEFINE Given(r, c, key) ==
        [batch EXCEPT !.at = "done", !.keys = FromLast(batch.size, key),
           !.straight = /\ c = batch.conn /\ r.alias = batch.alias
                        /\ key # 0 /\ born[r.alias][key][1] = t]
  <2>0. PICK route \in {IF slot.at = "open" THEN slot ELSE [at |-> "pool", alias |-> batch.alias]} :
          \E c \in Through(route) :
            task' = [task EXCEPT ![t] = Given(route, c, lastRow[route.alias][c])]
    <3>1. slot.at # "ended"
      BY <1>4 DEF AskRowid, Failing
    <3> QED BY <3>1 DEF AskRowid
  <2>1. PICK c \in Through(route) :
          task' = [task EXCEPT ![t] = Given(route, c, lastRow[route.alias][c])]
    BY <2>0
  <2>2. route.alias \in Pools /\ c \in Conn
    <3>1. CASE slot.at = "open"
      <4>1. slot \in [at : {"open", "ended"}, alias : Pools, conn : Conn]
        BY <3>1 DEF KeysInv, PoolsOK, NoSlot
      <4> QED BY <2>1, <3>1, <4>1 DEF Through
    <3>2. CASE slot.at # "open"
      BY <1>2, <2>1, <3>2 DEF Through, Batches
    <3> QED BY <3>1, <3>2
  <2> DEFINE key  == lastRow[route.alias][c]
             told == Given(route, c, key)
  <2>3. task' = [task EXCEPT ![t] = told]
    BY <2>1
  <2>4. key \in Nat
    BY <1>2, <2>2 DEF RowsOK
  <2>5. batch.size \in Nat
    BY <1>2 DEF Batches
  <2> HIDE DEF key
  <2>6. FromLast(batch.size, key) \in Seq(Int)
    <3>1. FromLast(batch.size, key) \in [1..batch.size -> Int]
      BY <2>4, <2>5 DEF FromLast
    <3> QED BY <2>5, <3>1, SequenceOf, Zenon
  <2>7. /\ told \in Batches /\ told.at = "done" /\ told.size = batch.size /\ told.alias = batch.alias
        /\ told.skipped = batch.skipped /\ told.keys = FromLast(batch.size, key)
        /\ told.straight => route.alias = batch.alias /\ key # 0 /\ born[route.alias][key][1] = t
    BY <1>2, <2>6 DEF Batches
  <2> HIDE DEF told
  <2>8. task'[t] = told /\ \A u \in Task : u # t => task'[u] = task[u]
    BY <1>2, <2>3 DEF RowsOK
  <2>9. RowsOK'
    <3>1. task' \in [Task -> {NoTask, Failing} \cup Batches']
      BY <1>1, <1>2, <2>3, <2>7 DEF RowsOK, Batches
    <3> QED BY <1>1, <1>2, <3>1 DEF RowsOK
  <2>10. Grown
    BY <1>1, <1>2, SameGrows
  <2>11. \A u \in Task : Created(u)' => Created(u) /\ task'[u].size = task[u].size
    BY <1>1, <2>7, <2>8 DEF Created
  <2>12. Own(t)'
    <3> SUFFICES ASSUME told.straight, told.skipped = {}, NEW i \in 1..batch.size
                 PROVE  /\ told.keys[i] \in 1..Len(born[batch.alias])
                        /\ born[batch.alias][told.keys[i]] = <<t, i>>
      BY <1>1, <2>7, <2>8 DEF Own
    <3>1. Created(t) /\ route.alias = batch.alias /\ key # 0 /\ born[batch.alias][key][1] = t
      BY <1>1, <2>7 DEF Created
    <3>2. Remembers(batch.alias, c)
      BY <2>2, <3>1 DEF KeysInv
    <3>3. EndsAt(t, batch.alias, key)
      BY <3>1, <3>2 DEF Remembers, key
    <3>4. told.keys[i] = key - batch.size + i
      BY <2>7 DEF FromLast
    <3> QED BY <3>3, <3>4 DEF EndsAt
  <2>13. Fresh(t)'
    BY <2>7, <2>8 DEF Fresh, NoTask
  <2>14. \A u \in Task : u # t => Own(u)' /\ Fresh(u)'
    BY <1>1, <1>2, <2>8, <2>10, TasksKeep
  <2>15. ASSUME NEW a \in Pools, NEW d \in Conn PROVE Remembers(a, d)'
    BY <1>1, <1>2, <2>10, <2>11, RemembersStays DEF KeysInv
  <2> QED BY <1>2, <2>9, <2>12, <2>13, <2>14, <2>15 DEF KeysInv
<1> QED BY <1>3, <1>4

\* One batch is inserted: what task t holds, and what the table got.
LEMMA BatchKeeps ==
  ASSUME KeysInv, PoolsOK', registry' = registry, NEW t \in Task, task[t] = NoTask,
         NEW r \in Pools, NEW c \in Conn, NEW batch \in Batches,
         NEW tagged, IsSeries(tagged), \A k \in 1..Len(tagged) : tagged[k][1] = t,
         task' = [task EXCEPT ![t] = batch],
         born' = [born EXCEPT ![r] = @ \o tagged],
         lastRow' = IF Len(tagged) = 0 THEN lastRow ELSE Inserted(r, c, Len(born[r]) + Len(tagged)),
         batch.alias = r,
         batch.skipped = {} =>
           /\ Len(tagged) = batch.size
           /\ \A i \in 1..batch.size : /\ tagged[i] = <<t, i>>
                                       /\ batch.keys[i] \in {0, Len(born[r]) + i}
  PROVE  KeysInv'
<1> DEFINE first == Len(born[r])
           n     == Len(tagged)
<1>0. batch.size \in Nat
  BY DEF Batches
<1>1. RowsOK /\ Pools' = Pools /\ IsSeries(born[r])
  BY DEF KeysInv, RowsOK, Pools
<1>2. /\ born'[r] = born[r] \o tagged /\ born' = [a \in Pools |-> born'[a]]
      /\ \A a \in Pools : a # r => born'[a] = born[a]
  BY <1>1 DEF RowsOK
<1>3. /\ IsSeries(born'[r]) /\ first \in Nat /\ n \in Nat /\ Len(born'[r]) = first + n
      /\ \A k \in 1..first : born'[r][k] = born[r][k]
      /\ \A k \in 1..n : born'[r][first + k] = tagged[k]
  BY <1>1, <1>2, SeriesJoin
<1>4. /\ lastRow' \in [Pools -> [Conn -> Nat]]
      /\ \A a \in Pools, d \in Conn : \/ lastRow'[a][d] = lastRow[a][d]
                                      \/ a = r /\ lastRow'[a][d] = first + n /\ n # 0
  <2>1. CASE n = 0
    BY <1>1, <2>1 DEF RowsOK
  <2>2. CASE n # 0
    <3>1. lastRow' = Inserted(r, c, first + n) /\ first + n \in Nat
      BY <1>3, <2>2
    <3> HIDE DEF first, n, Pools, Inserted
    <3>2. /\ Inserted(r, c, first + n) \in [Pools -> [Conn -> Nat]]
          /\ \A b \in Pools, d \in Conn : \/ Inserted(r, c, first + n)[b][d] = lastRow[b][d]
                                          \/ b = r /\ Inserted(r, c, first + n)[b][d] = first + n
      BY <1>1, <3>1, InsertedIs, Zenon
    <3> QED BY <2>2, <3>1, <3>2
  <2> QED BY <2>1, <2>2
<1> HIDE DEF first, n
<1>5. task'[t] = batch /\ \A u \in Task : u # t => task'[u] = task[u]
  BY <1>1 DEF RowsOK
<1>6. RowsOK'
  <2>1. \A a \in Pools : IsSeries(born'[a])
    BY <1>1, <1>2, <1>3 DEF RowsOK
  <2>2. task' \in [Task -> {NoTask, Failing} \cup Batches']
    BY <1>1 DEF RowsOK, Batches
  <2> QED BY <1>1, <1>2, <1>4, <2>1, <2>2 DEF RowsOK, IsSeries
<1>7. Grown
  <2>1. \A a \in Pools : Len(born[a]) \in Nat
    BY <1>1 DEF RowsOK, IsSeries
  <2>2. ASSUME NEW a \in Pools
        PROVE  /\ Len(born[a]) \in Nat /\ Len(born'[a]) \in Nat /\ Len(born[a]) <= Len(born'[a])
               /\ \A k \in 1..Len(born[a]) : born'[a][k] = born[a][k]
    <3>1. CASE a = r
      BY <1>3, <3>1 DEF first
    <3>2. CASE a # r
      BY <1>2, <2>1, <3>2
    <3> QED BY <3>1, <3>2
  <2> QED BY <2>2 DEF Grown
<1>8. ASSUME NEW a \in Pools, NEW k \in 1..Len(born'[a]), k \notin 1..Len(born[a])
      PROVE  born'[a][k][1] = t
  <2>1. a = r
    BY <1>2, <1>8
  <2>2. k - first \in 1..n /\ first + (k - first) = k
    BY <1>3, <1>8, <2>1 DEF first
  <2>3. born'[r][k] = tagged[k - first]
    BY <1>3, <2>2
  <2> QED BY <2>1, <2>2, <2>3 DEF n
<1>9. \A u \in Task : u # t => Own(u)' /\ Fresh(u)'
  BY <1>1, <1>5, <1>7, <1>8, TasksKeep
<1>10. Fresh(t)'
  BY <1>5, TaskIs, <1>1 DEF Fresh, Batches, NoTask
<1>11. Own(t)'
  <2> SUFFICES ASSUME batch.skipped = {}, NEW i \in 1..batch.size, batch.keys[i] # 0
               PROVE  batch.keys[i] \in 1..Len(born'[r]) /\ born'[r][batch.keys[i]] = <<t, i>>
    BY <1>5 DEF Own
  <2>1. n = batch.size /\ tagged[i] = <<t, i>> /\ batch.keys[i] = first + i /\ i \in 1..n
    BY DEF first, n
  <2>2. first + i \in 1..Len(born'[r])
    BY <1>3, <2>1
  <2>3. born'[r][first + i] = tagged[i]
    BY <1>3, <2>1
  <2> QED BY <2>1, <2>2, <2>3
<1>12. ASSUME NEW a \in Pools, NEW d \in Conn PROVE Remembers(a, d)'
  <2>1. CASE lastRow'[a][d] = lastRow[a][d]
    <3>1. \A k \in 1..Len(born[a]) : born[a][k][1] # t
      BY DEF KeysInv, Fresh
    <3>2. \A u \in Task : \/ Created(u)' => Created(u) /\ task'[u].size = task[u].size
                          \/ \A k \in 1..Len(born[a]) : born[a][k][1] # u
      BY <1>5, <3>1 DEF Created
    <3> QED BY <1>1, <1>7, <2>1, <3>2, RemembersStays DEF KeysInv
  <2>2. CASE a = r /\ lastRow'[a][d] = first + n /\ n # 0
    <3>1. born'[r][first + n] = tagged[n] /\ tagged[n][1] = t
      BY <1>3, <2>2 DEF n
    <3>2. lastRow'[a][d] <= Len(born'[a])
      BY <1>3, <2>2
    <3>3. ASSUME NEW u \in Task, born'[a][lastRow'[a][d]][1] = u, Created(u)'
          PROVE  EndsAt(u, a, lastRow[a][d])'
      <4>1. u = t
        BY <2>2, <3>1, <3>3
      <4>2. batch.skipped = {} /\ n = batch.size
        BY <1>5, <3>3, <4>1 DEF Created, n
      <4>3. ASSUME NEW i \in 1..batch.size
            PROVE  /\ first + n - batch.size + i \in 1..Len(born'[r])
                   /\ born'[r][first + n - batch.size + i] = <<t, i>>
        <5>1. first + n - batch.size + i = first + i
          BY <1>0, <1>3, <4>2
        <5>2. tagged[i] = <<t, i>> /\ i \in 1..n
          BY <4>2
        <5>3. first + i \in 1..Len(born'[r])
          BY <1>3, <5>2
        <5>4. born'[r][first + i] = tagged[i]
          BY <1>3, <5>2
        <5> QED BY <5>1, <5>2, <5>3, <5>4
      <4>4. lastRow'[a][d] = first + n /\ task'[u] = batch /\ a = r
        BY <1>5, <2>2, <4>1
      <4>5. ASSUME NEW i \in 1..task'[u].size
            PROVE  /\ lastRow'[a][d] - task'[u].size + i \in 1..Len(born'[a])
                   /\ born'[a][lastRow'[a][d] - task'[u].size + i] = <<u, i>>
        <5>1. task'[u].size = batch.size
          BY <4>4
        <5>2. i \in 1..batch.size
          BY <5>1
        <5>3. lastRow'[a][d] - task'[u].size + i = first + n - batch.size + i
          BY <1>0, <1>3, <4>4, <5>1, <5>2
        <5> QED BY <4>1, <4>3, <4>4, <5>2, <5>3
      <4> QED BY <4>5 DEF EndsAt
    <3> QED BY <3>2, <3>3 DEF Remembers
  <2> QED BY <1>4, <2>1, <2>2
<1> QED BY <1>1, <1>6, <1>9, <1>10, <1>11, <1>12 DEF KeysInv

LEMMA BulkKeeps ==
  ASSUME KeysInv, PoolsOK', NEW t \in Task, NEW alias, NEW size \in Sizes, NEW ignore,
         NEW skipped \in SUBSET (1..size), BulkCreate(t, alias, size, skipped, ignore)
  PROVE  KeysInv'
<1> DEFINE route == [at |-> "pool", alias |-> Resolve(alias)]
           r     == route.alias
           kind  == registry.pools[r]
           kept  == InOrder(1..size \ skipped)
           first == Len(born[r])
           new   == [i \in DOMAIN kept |-> first + i]
           tagged == [i \in DOMAIN kept |-> <<t, kept[i]>>]
           keys  == Paired(size, IF kind = "PostgreSQL" /\ ~registry.narrow THEN new ELSE <<>>)
           Batch(c) == [at |-> IF kind = "SQLite" THEN "asks" ELSE "done", alias |-> r,
                        conn |-> c, skipped |-> skipped, size |-> size, straight |-> TRUE, keys |-> keys]
<1>1. registry' = registry /\ task[t] = NoTask /\ r \in Pools
  BY DEF BulkCreate, Pools
<1>2. size \in Nat
  BY TaskAssumption
<1>3. CASE Locked(route) \/ (skipped # {} /\ ~ignore)
  BY <1>1, <1>3, FailureKeeps DEF BulkCreate, Failing
<1>4. CASE ~(Locked(route) \/ (skipped # {} /\ ~ignore))
  <2>1. /\ born' = [born EXCEPT ![r] = @ \o tagged]
        /\ \E c \in Through(route) :
             /\ lastRow' = IF kept = <<>> THEN lastRow ELSE Inserted(r, c, first + Len(kept))
             /\ task' = [task EXCEPT ![t] = Batch(c)]
    BY <1>4 DEF BulkCreate
  <2>2. PICK c \in Through(route) :
             /\ lastRow' = IF kept = <<>> THEN lastRow ELSE Inserted(r, c, first + Len(kept))
             /\ task' = [task EXCEPT ![t] = Batch(c)]
    BY <2>1
  <2>3. c \in Conn
    BY DEF Through
  <2>4. /\ IsSeries(kept) /\ Len(kept) \in Nat /\ DOMAIN kept = 1..Len(kept)
        /\ skipped = {} => Len(kept) = size /\ \A i \in 1..size : kept[i] = i
    BY <1>2, InOrderIs
  <2>5. first \in Nat
    BY <1>1 DEF KeysInv, RowsOK, IsSeries
  <2> HIDE DEF kept, first, r, kind
  <2>6. new \in Seq(Int) /\ Len(new) = Len(kept)
    <3>1. new \in [1..Len(kept) -> Int]
      BY <2>4, <2>5
    <3> HIDE DEF new
    <3> QED BY <2>4, <3>1, SequenceOf, Zenon
  <2>7. tagged \in Seq({<<t, kept[k]>> : k \in DOMAIN kept}) /\ Len(tagged) = Len(kept)
    <3> DEFINE S == {<<t, kept[k]>> : k \in DOMAIN kept}
    <3>1. tagged \in [1..Len(kept) -> S]
      BY <2>4
    <3> HIDE DEF tagged, S
    <3>2. tagged \in Seq(S) /\ Len(tagged) = Len(kept)
      BY <2>4, <3>1, SequenceOf, Zenon
    <3> QED BY <3>2 DEF S
  <2>8. IsSeries(tagged)
    BY <2>7, SeriesOf
  <2>9. \A k \in 1..Len(tagged) : tagged[k] = <<t, kept[k]>>
    BY <2>4, <2>7
  <2>10. ASSUME NEW s \in Seq(Int) PROVE Paired(size, s) \in Seq(Int)
    <3>1. Paired(size, s) \in [1..size -> Int]
      BY <1>2 DEF Paired
    <3> QED BY <1>2, <3>1, SequenceOf, Zenon
  <2>11. <<>> \in Seq(Int) /\ Len(<<>>) = 0
    OBVIOUS
  <2>12. keys \in Seq(Int)
    <3> HIDE DEF new
    <3> QED BY <2>6, <2>10, <2>11
  <2>13. ASSUME skipped = {}, NEW i \in 1..size
         PROVE  keys[i] \in {0, first + i}
    <3>1. i <= Len(new) /\ new[i] = first + i
      BY <2>4, <2>6, <2>13
    <3>2. ~(i <= Len(<<>>))
      BY <1>2, <2>11
    <3> HIDE DEF new
    <3> QED BY <3>1, <3>2 DEF Paired
  <2>14. kept = <<>> <=> Len(tagged) = 0
    <3>1. kept \in Seq({kept[k] : k \in DOMAIN kept})
      BY <2>4 DEF IsSeries
    <3> QED BY <2>7, <2>11, <3>1
  <2> HIDE DEF tagged, keys
  <2>15. Batch(c) \in Batches
    <3>1. skipped \in SUBSET Nat
      BY <1>2
    <3> QED BY <1>1, <1>2, <2>3, <2>12, <3>1 DEF Batches
  <2>16. Batch(c).alias = r /\ Batch(c).skipped = skipped /\ Batch(c).size = size /\ Batch(c).keys = keys
    OBVIOUS
  <2>17. lastRow' = IF Len(tagged) = 0 THEN lastRow ELSE Inserted(r, c, first + Len(tagged))
    BY <2>2, <2>7, <2>14
  <2>18. \A k \in 1..Len(tagged) : tagged[k][1] = t
    BY <2>9
  <2>19. skipped = {} => /\ Len(tagged) = size
                         /\ \A i \in 1..size : tagged[i] = <<t, i>> /\ keys[i] \in {0, first + i}
    BY <2>4, <2>7, <2>9, <2>13
  <2>20. born' = [born EXCEPT ![r] = @ \o tagged] /\ task' = [task EXCEPT ![t] = Batch(c)]
    BY <2>1, <2>2
  <2> HIDE DEF Batch
  <2> QED
    BY <1>1, <2>3, <2>8, <2>15, <2>16, <2>17, <2>18, <2>19, <2>20, BatchKeeps DEF first
<1> QED BY <1>3, <1>4

LEMMA SetupKeeps == ASSUME KeysInv, PoolsOK', NEW source \in Sources, Setup(source) PROVE KeysInv'
<1>1. /\ registry = Unset /\ registry'.pools = Urls(source) /\ task' = task
      /\ born' = [a \in DOMAIN Urls(source) |-> <<>>]
      /\ lastRow' = [a \in DOMAIN Urls(source) |-> [c \in Conn |-> 0]]
  BY DEF Setup
<1>2. Pools' = DOMAIN Urls(source) /\ \A t \in Task : task[t] = NoTask /\ task'[t] = NoTask
  BY <1>1 DEF Pools, KeysInv, PoolsOK
<1>3. /\ born' = [a \in Pools' |-> <<>>] /\ \A a \in Pools' : born'[a] = <<>>
      /\ lastRow' \in [Pools' -> [Conn -> Nat]] /\ \A a \in Pools', c \in Conn : lastRow'[a][c] = 0
  BY <1>1, <1>2
<1>4. IsSeries(<<>>) /\ Len(<<>>) = 0
  BY DEF IsSeries
<1>5. RowsOK'
  <2>1. \A a \in Pools' : IsSeries(born'[a])
    BY <1>3, <1>4
  <2>2. task \in [Task -> {NoTask, Failing} \cup Batches]
    BY DEF KeysInv, RowsOK
  <2>3. task' \in [Task -> {NoTask, Failing} \cup Batches']
    BY <1>1, <1>2, <2>2
  <2> QED BY <1>3, <2>1, <2>3 DEF RowsOK, IsSeries
<1>6. \A t \in Task : Own(t)' /\ Fresh(t)'
  BY <1>2, <1>3, <1>4 DEF Own, Fresh, NoTask
<1>7. \A a \in Pools', c \in Conn : Remembers(a, c)'
  BY <1>3, <1>4 DEF Remembers
<1> QED BY <1>5, <1>6, <1>7 DEF KeysInv

\* The keys bulk_create gives its instances are those of their own rows, or
\* none, when its question for the last one was asked on the connection of the
\* insert with no other insert in between and nothing was left out of the batch.
\* (bulk.py 145-177, postgres.rs 640-652, sqlite.rs 472-540)
THEOREM KeysAreTheirOwn == BackendsSpec => []KeysAreOwn
<1>1. BackendsInit => KeysInv
  <2> SUFFICES ASSUME BackendsInit PROVE KeysInv
    OBVIOUS
  <2>1. Pools = {} /\ \A t \in Task : task[t] = NoTask
    BY DEF BackendsInit, Pools, Unset
  <2>2. born = [a \in {} |-> <<>>] /\ lastRow = [a \in {} |-> 0] /\ task = [t \in Task |-> NoTask]
    BY DEF BackendsInit
  <2>3. RowsOK
    BY <2>1, <2>2 DEF RowsOK
  <2>4. PoolsOK
    BY <2>1 DEF BackendsInit, PoolsOK
  <2>5. \A t \in Task : Own(t) /\ Fresh(t)
    BY <2>1 DEF Own, Fresh, NoTask
  <2> QED BY <2>1, <2>3, <2>4, <2>5 DEF KeysInv
<1>2. KeysInv /\ [BackendsNext]_backendVars => KeysInv'
  <2> SUFFICES ASSUME KeysInv, [BackendsNext]_backendVars PROVE KeysInv'
    OBVIOUS
  <2>1. PoolsOK'
    BY PoolsStep DEF KeysInv
  <2>2. ASSUME NEW source \in Sources, Setup(source) PROVE KeysInv'
    BY <2>1, <2>2, SetupKeeps
  <2>3. ASSUME NEW call \in Calls, Insert(call) PROVE KeysInv'
    BY <2>1, <2>3, InsertKeeps
  <2>4. ASSUME NEW call \in Calls, Refusal(call) \/ Reading(call) \/ Modify(call) PROVE KeysInv'
    <3>1. UNCHANGED <<registry, born, lastRow, task>>
      BY <2>4 DEF Refusal, Reading, Modify, Failed
    <3> QED BY <2>1, <3>1, CallsKeep
  <2>5. ASSUME NEW t \in Task, NEW alias, NEW size \in Sizes, NEW ignore,
               NEW skipped \in SUBSET (1..size), BulkCreate(t, alias, size, skipped, ignore)
        PROVE  KeysInv'
    BY <2>1, <2>5, BulkKeeps
  <2>6. ASSUME NEW t \in Task, AskRowid(t) PROVE KeysInv'
    BY <2>1, <2>6, AskKeeps
  <2>7. CASE (\E alias \in Pools : BeginBlock(alias)) \/ EndBlock \/ ReleaseSlot \/ UNCHANGED backendVars
    <3>1. UNCHANGED <<registry, born, lastRow, task>>
      BY <2>7 DEF BeginBlock, EndBlock, ReleaseSlot, backendVars
    <3> QED BY <2>1, <3>1, CallsKeep
  <2> QED
    BY <2>2, <2>3, <2>4, <2>5, <2>6, <2>7 DEF BackendsNext, Pools
<1>3. KeysInv => KeysAreOwn
  <2> SUFFICES ASSUME KeysInv, NEW t \in Task, task[t].at = "done", task[t].straight,
                      task[t].skipped = {}, NEW i \in 1..task[t].size, task[t].keys[i] # 0
               PROVE  /\ task[t].keys[i] <= Len(born[task[t].alias])
                      /\ born[task[t].alias][task[t].keys[i]] = <<t, i>>
    BY DEF KeysAreOwn
  <2>1. task[t].alias \in Pools
    BY TaskIs DEF KeysInv, Batches
  <2>2. Len(born[task[t].alias]) \in Nat
    BY <2>1 DEF KeysInv, RowsOK, IsSeries
  <2>3. /\ task[t].keys[i] \in 1..Len(born[task[t].alias])
        /\ born[task[t].alias][task[t].keys[i]] = <<t, i>>
    BY DEF KeysInv, Own
  <2> QED BY <2>2, <2>3
<1> QED
  BY <1>1, <1>2, <1>3, PTL DEF BackendsSpec

-----------------------------------------------------------------------------
(* A value's way through a database and back.                               *)

\* What a journey stores and gives, as far as it goes.
TypeOf(c) == LookupField(c.models, "t", "c")
CastIn(c) == Cast(c.backend, c.path, TypeOf(c), c.batch)
KeptAs(c, v) == Stores(c.backend, c.column, CastIn(c), v)
Latest(c) == c.batch[Len(c.batch)]

\* A journey on which what is written is told.
Faithful(c) ==
  /\ c.backend = "PostgreSQL" => c.column \in {"INTEGER", "BIGINT", "DOUBLE", "BOOLEAN", "TEXT"}
                                 /\ Latest(c).says # "sentence"
  /\ c.backend = "MySQL" => c.column \in {"INTEGER", "BIGINT", "DOUBLE", "BOOLEAN", "TEXT", "UUID"}
  /\ c.backend = "SQLite" => c.column # "NUMERIC"
  /\ c.backend # "PostgreSQL" /\ c.path = "bulk" => BulkCast(c.batch[1]) = ""
  /\ Nothing \in Range(c.batch) => c.front = "python" /\ (c.backend = "PostgreSQL" => c.column = "TEXT")
  /\ c.front = "rust" /\ c.boolish /\ c.type \in {"i32", "i64"} => Latest(c).says \notin {"0", "1"}
  /\ c.front = "python" => TypeOf(c) = c.type

LEMMA ToldIs ==
  ASSUME cell \in Journeys, ~(Untold \/ Guessed \/ NoNull \/ Questioned \/ Shadowed)
  PROVE  Faithful(cell)
<1> DEFINE c == cell
           pg == "PostgreSQL"
           my == "MySQL"
           lite == "SQLite"
           columns == {"INTEGER", "BIGINT", "DOUBLE", "BOOLEAN", "TEXT", "DATE", "TIMESTAMP", "TIME",
                       "JSON", "UUID", "NUMERIC"}
<1>1. /\ c.backend \in {lite, pg, my} /\ c.front \in {"rust", "python"}
      /\ c.column \in columns
  <2>1. \A t \in DOMAIN RustColumn : RustColumn[t] \in columns
    BY DEF RustColumn
  <2>2. \A t \in DOMAIN PythonColumn : PythonColumn[t] \in columns
    BY DEF PythonColumn
  <2> HIDE DEF columns
  <2> QED BY <2>1, <2>2, JourneyAssumption
<1>2. /\ pg # my /\ pg # lite /\ my # lite
  OBVIOUS
<1>3. c.backend = pg => c.column \notin {"DATE", "TIMESTAMP", "TIME", "JSON", "UUID", "NUMERIC"}
  BY <1>2, Zenon DEF Untold
<1>4. c.backend = my => c.column \notin {"DATE", "TIMESTAMP", "TIME", "JSON", "NUMERIC"}
  BY <1>2, Zenon DEF Untold
<1>5. c.backend = lite => c.column \notin {"NUMERIC"}
  BY <1>2, Zenon DEF Untold
<1>6. /\ c.backend = pg => Latest(c).says # "sentence"
      /\ c.backend # pg /\ c.path = "bulk" => BulkCast(c.batch[1]) = ""
  BY Zenon DEF Guessed, Written, Latest
<1>7. Nothing \in Range(c.batch) => c.front = "python" /\ (c.backend = pg => c.column = "TEXT")
  BY <1>1, Zenon DEF NoNull
<1>8. c.front = "rust" /\ c.boolish /\ c.type \in {"i32", "i64"} => Latest(c).says \notin {"0", "1"}
  BY Zenon DEF Questioned, Written, Latest
<1>9. c.front = "python" => TypeOf(c) = c.type
  BY Zenon DEF Shadowed, TypeOf
<1> QED BY <1>1, <1>3, <1>4, <1>5, <1>6, <1>7, <1>8, <1>9 DEF Faithful

LEMMA RustPlain == ASSUME NEW c \in Journeys, c.front = "rust" PROVE TypeOf(c) = ""
<1>1. c.models = <<>>
  BY JourneyAssumption
<1>2. ~\E i \in DOMAIN c.models : c.models[i].table = "t"
  BY <1>1
<1> QED BY <1>2, Zenon DEF TypeOf, LookupField

\* The cast of a journey: none, or one guessed from the looks of a text.
Guess(c) ==
  /\ c.backend = "PostgreSQL" /\ Len(c.batch) = 1 /\ c.column = "TEXT" /\ Latest(c).kind = "Text"
  /\ <<Latest(c).says, CastIn(c)>> \in {<<"day", "DATE">>, <<"moment", "TIMESTAMP">>}

LEMMA LastIs ==
  ASSUME NEW c \in Journeys
  PROVE  /\ Latest(c) \in Range(c.batch) /\ Len(c.batch) \in Nat /\ Len(c.batch) >= 1
         /\ DOMAIN c.batch = 1..Len(c.batch)
<1>1. c.batch \in Seq(Range(c.batch)) /\ c.batch # <<>>
  BY JourneyAssumption
<1>2. Len(c.batch) \in Nat /\ Len(c.batch) >= 1 /\ DOMAIN c.batch = 1..Len(c.batch)
  BY <1>1
<1>3. Latest(c) \in Range(c.batch)
  BY <1>2 DEF Latest, Range
<1> QED BY <1>2, <1>3

LEMMA NothingIs == Nothing.kind = "Null" /\ Nothing.says = ""
<1>1. \A k, t : Value(k, t).kind = k /\ Value(k, t).says = t
  BY DEF Value
<1> QED BY <1>1, Zenon DEF Nothing

LEMMA SuitsIs ==
  ASSUME NEW c \in Journeys, NEW v \in Range(c.batch)
  PROVE  /\ v = Value(v.kind, v.says)
         /\ Suits(v, c.column) \/ (v = Nothing /\ c.backend # "SQLite")
BY JourneyAssumption

LEMMA CastIs ==
  ASSUME NEW c \in Journeys, Faithful(c)
  PROVE  CastIn(c) = "" \/ Guess(c)
<1> DEFINE pg == "PostgreSQL"
           none == ""
           v == Latest(c)
           cast == CastIn(c)
<1>1. CASE c.backend # pg
  <2>1. cast = IF c.path = "bulk" THEN BulkCast(c.batch[1]) ELSE none
    BY <1>1, Zenon DEF CastIn, Cast
  <2> QED BY <1>1, <2>1 DEF Faithful
<1>2. CASE c.backend = pg
  <2>1. CastForType(TypeOf(c)) = none
    <3>1. c.column \in {"INTEGER", "BIGINT", "DOUBLE", "BOOLEAN", "TEXT"}
      BY <1>2 DEF Faithful
    <3>2. TypeOf(c) \notin {"DateField", "TimeField", "JSONField", "UUIDField"}
      <4>1. CASE c.front = "rust"
        BY <4>1, RustPlain
      <4>2. CASE c.front = "python"
        <5>1. TypeOf(c) = c.type /\ c.type \in DOMAIN PythonColumn /\ c.column = PythonColumn[c.type]
          BY <4>2, JourneyAssumption DEF Faithful
        <5>2. \A t \in {"DateField", "TimeField", "JSONField", "UUIDField"} :
                PythonColumn[t] \in {"DATE", "TIME", "JSON", "UUID"}
          BY DEF PythonColumn
        <5> QED BY <3>1, <5>1, <5>2
      <4> QED BY <4>1, <4>2, JourneyAssumption
    <3> QED BY <3>2, Zenon DEF CastForType
  <2>2. cast = IF c.path = "bulk" THEN none ELSE CastOfValue(v)
    BY <1>2, <2>1, Zenon DEF CastIn, Cast, PostgresCast, Latest
  <2>3. CASE c.path = "bulk"
    BY <2>2, <2>3
  <2>4. CASE c.path # "bulk"
    <3>1. Len(c.batch) = 1 /\ cast = CastOfValue(v)
      BY <2>2, <2>4, JourneyAssumption
    <3>2. v \in Range(c.batch)
      BY LastIs
    <3>3. Suits(v, c.column) \/ v = Nothing
      BY <3>2, SuitsIs
    <3>4. v.says # "sentence" /\ c.column \in {"INTEGER", "BIGINT", "DOUBLE", "BOOLEAN", "TEXT"}
      BY <1>2 DEF Faithful
    <3> HIDE DEF v, cast
    <3>5. CASE IsDate(v)
      <4>1. v.kind # "Null"
        BY <3>5 DEF IsDate
      <4>2. v # Nothing
        BY <4>1, NothingIs
      <4>3. v.kind = "Text" /\ v.says = "day" /\ c.column = "TEXT"
        BY <3>3, <3>4, <3>5, <4>2 DEF IsDate, Suits
      <4>4. cast = "DATE"
        BY <3>1, <3>5, Zenon DEF CastOfValue
      <4> QED BY <1>2, <3>1, <4>3, <4>4 DEF Guess, v, cast
    <3>6. CASE ~IsDate(v) /\ IsTimestamp(v)
      <4>1. v.kind # "Null"
        BY <3>6 DEF IsTimestamp
      <4>2. v # Nothing
        BY <4>1, NothingIs
      <4>3. v.kind = "Text" /\ v.says = "moment" /\ c.column = "TEXT"
        BY <3>3, <3>4, <3>6, <4>2 DEF IsTimestamp, Suits
      <4>4. cast = "TIMESTAMP"
        BY <3>1, <3>6, Zenon DEF CastOfValue
      <4> QED BY <1>2, <3>1, <4>3, <4>4 DEF Guess, v, cast
    <3>7. CASE ~IsDate(v) /\ ~IsTimestamp(v)
      BY <3>1, <3>7, Zenon DEF CastOfValue, cast
    <3> QED BY <3>5, <3>6, <3>7
  <2> QED BY <2>3, <2>4
<1> QED BY <1>1, <1>2

\* The class a told value is kept in.
ClassOf(c, v) ==
  IF c.backend = "SQLite"
  THEN IF c.column = "DOUBLE" THEN "DOUBLE"
       ELSE IF c.column \in {"INTEGER", "BIGINT", "BOOLEAN"} THEN "BIGINT" ELSE "TEXT"
  ELSE IF v = Nothing THEN "NULL" ELSE c.column

LEMMA BoundIs ==
  ASSUME NEW v
  PROVE  /\ v.kind = "Bool" => Bound(v) = "BOOLEAN"
         /\ v.kind = "Int" => Bound(v) = "BIGINT"
         /\ v.kind = "Float" => Bound(v) = "DOUBLE"
         /\ v.kind \in {"Text", "Date", "DateTime", "Null"} => Bound(v) = "TEXT"
<1>1. CASE v.kind = "Bool"
  BY <1>1, Zenon DEF Bound
<1>2. CASE v.kind = "Int"
  BY <1>2, Zenon DEF Bound
<1>3. CASE v.kind = "Float"
  BY <1>3, Zenon DEF Bound
<1>4. CASE v.kind \in {"Text", "Date", "DateTime", "Null"}
  <2>1. v.kind # "Bool" /\ v.kind # "Int" /\ v.kind # "Float"
    BY <1>4
  <2>2. Bound(v) = "TEXT"
    BY <2>1, Zenon DEF Bound
  <2> QED BY <1>4, <2>1, <2>2
<1> QED BY <1>1, <1>2, <1>3, <1>4

LEMMA KeptPostgres ==
  ASSUME NEW c \in Journeys, Faithful(c), c.backend = "PostgreSQL", NEW v \in Range(c.batch)
  PROVE  KeptAs(c, v) = [class |-> ClassOf(c, v), says |-> v.says]
<1> DEFINE none == ""
           cast == CastIn(c)
           null == "NULL"
           class == IF v = Nothing THEN null ELSE c.column
           given == IF cast = none THEN Bound(v) ELSE cast
<1>1. KeptAs(c, v) = PostgresStores(c.column, cast, v)
  BY Zenon DEF KeptAs, Stores
<1>2. Suits(v, c.column) \/ v = Nothing
  BY SuitsIs
<1>3. c.column \in {"INTEGER", "BIGINT", "DOUBLE", "BOOLEAN", "TEXT"}
  BY DEF Faithful
<1>4. v = Nothing => c.column = "TEXT" /\ v.kind = "Null"
  BY NothingIs DEF Faithful
<1>5. cast = none \/ Guess(c)
  BY CastIs
<1>6. Guess(c) => v = Latest(c)
  BY LastIs DEF Guess, Latest, Range
<1>7. cast # none => Bound(v) = "TEXT" /\ Reads(v.says, cast) /\ c.column = "TEXT"
  <2> SUFFICES ASSUME cast # none PROVE Bound(v) = "TEXT" /\ Reads(v.says, cast) /\ c.column = "TEXT"
    OBVIOUS
  <2>1. /\ c.column = "TEXT" /\ v.kind = "Text"
        /\ (v.says = "day" /\ cast = "DATE") \/ (v.says = "moment" /\ cast = "TIMESTAMP")
    BY <1>5, <1>6 DEF Guess
  <2> HIDE DEF cast
  <2>2. Reads(v.says, cast)
    BY <2>1 DEF Reads
  <2> QED BY <2>1, <2>2, BoundIs
<1>8. c.column = "TEXT" \/ given = c.column
        \/ <<given, c.column>> \in {<<"BIGINT", "INTEGER">>, <<"BIGINT", "DOUBLE">>,
                                    <<"DATE", "TIMESTAMP">>, <<"TIMESTAMP", "DATE">>}
  <2>1. CASE c.column = "TEXT"
    BY <2>1
  <2>2. CASE c.column # "TEXT"
    <3>1. given = Bound(v) /\ Suits(v, c.column)
      BY <1>2, <1>4, <1>7, <2>2
    <3> HIDE DEF given
    <3>2. \/ c.column \in {"INTEGER", "BIGINT"} /\ v.kind = "Int"
          \/ c.column = "DOUBLE" /\ v.kind = "Float"
          \/ c.column = "BOOLEAN" /\ v.kind = "Bool"
      BY <1>3, <2>2, <3>1 DEF Suits
    <3> QED BY <3>1, <3>2, BoundIs
  <2> QED BY <2>1, <2>2
<1>9. PostgresStores(c.column, cast, v) = [class |-> class, says |-> v.says]
  <2> HIDE DEF cast
  <2> QED BY <1>7, <1>8, Zenon DEF PostgresStores
<1>10. ClassOf(c, v) = class
  BY Zenon DEF ClassOf
<1> QED BY <1>1, <1>9, <1>10
LEMMA Uncast ==
  ASSUME NEW c \in Journeys, Faithful(c), c.backend # "PostgreSQL"
  PROVE  CastIn(c) = ""
BY CastIs DEF Guess

LEMMA KeptMySql ==
  ASSUME NEW c \in Journeys, Faithful(c), c.backend = "MySQL", NEW v \in Range(c.batch)
  PROVE  KeptAs(c, v) = [class |-> ClassOf(c, v), says |-> v.says]
<1> DEFINE none == ""
           null == "NULL"
           class == IF v = Nothing THEN null ELSE c.column
<1>1. KeptAs(c, v) = MySqlStores(c.column, none, v)
  BY Uncast, Zenon DEF KeptAs, Stores
<1>2. v = Nothing \/ Bound(v) # "TEXT" \/ c.column = "UUID" \/ Reads(v.says, c.column)
  <2> SUFFICES ASSUME v # Nothing PROVE Bound(v) # "TEXT" \/ c.column = "UUID" \/ c.column = "TEXT"
    BY DEF Reads
  <2>1. Suits(v, c.column)
    BY SuitsIs
  <2>2. c.column \in {"INTEGER", "BIGINT", "DOUBLE", "BOOLEAN", "TEXT", "UUID"}
    BY DEF Faithful
  <2>3. \/ c.column \in {"TEXT", "UUID"} \/ v.kind = "Int" \/ v.kind = "Float" \/ v.kind = "Bool"
    BY <2>1, <2>2 DEF Suits
  <2> QED BY <2>3, BoundIs
<1>3. none # "TIMESTAMP"
  OBVIOUS
<1>4. MySqlStores(c.column, none, v) = [class |-> class, says |-> v.says]
  <2>1. none = ""
    OBVIOUS
  <2> QED BY <1>2, <1>3, <2>1, Zenon DEF MySqlStores
<1>5. ClassOf(c, v) = class
  BY Zenon DEF ClassOf
<1> QED BY <1>1, <1>4, <1>5

LEMMA KeptSqlite ==
  ASSUME NEW c \in Journeys, Faithful(c), c.backend = "SQLite", NEW v \in Range(c.batch)
  PROVE  KeptAs(c, v) = [class |-> ClassOf(c, v), says |-> v.says]
<1> DEFINE none == ""
           column == c.column
           class == IF column \in {"TEXT", "UUID", "JSON"} THEN "TEXT"
                    ELSE IF column = "DOUBLE" \/ (column = "NUMERIC" /\ v.says = "number") THEN "DOUBLE"
                    ELSE IF Bound(v) = "TEXT" THEN "TEXT" ELSE "BIGINT"
<1>1. KeptAs(c, v) = LiteStores(column, none, v)
  BY Uncast, Zenon DEF KeptAs, Stores
<1>2. LiteStores(column, none, v) = [class |-> class, says |-> v.says]
  BY Zenon DEF LiteStores
<1>3. Suits(v, column) /\ column # "NUMERIC"
  BY SuitsIs DEF Faithful
<1> HIDE DEF column
<1>4. /\ column \in {"INTEGER", "BIGINT", "BOOLEAN"} => Bound(v) # "TEXT"
      /\ column \notin {"INTEGER", "BIGINT", "BOOLEAN", "DOUBLE"} => Bound(v) = "TEXT"
  <2>1. /\ column \in {"INTEGER", "BIGINT", "BOOLEAN"} => v.kind \in {"Int", "Bool"}
        /\ column \notin {"INTEGER", "BIGINT", "BOOLEAN", "DOUBLE"} => v.kind \in {"Text", "Date", "DateTime"}
    BY <1>3 DEF Suits
  <2> QED BY <2>1, BoundIs
<1>5. class = IF column = "DOUBLE" THEN "DOUBLE"
              ELSE IF column \in {"INTEGER", "BIGINT", "BOOLEAN"} THEN "BIGINT" ELSE "TEXT"
  BY <1>3, <1>4
<1>6. ClassOf(c, v) = class
  BY <1>5, Zenon DEF ClassOf, column
<1> QED BY <1>1, <1>2, <1>6

LEMMA KeptIs ==
  ASSUME NEW c \in Journeys, Faithful(c), NEW v \in Range(c.batch)
  PROVE  KeptAs(c, v) = [class |-> ClassOf(c, v), says |-> v.says] /\ KeptAs(c, v) # Refused
<1>1. KeptAs(c, v) = [class |-> ClassOf(c, v), says |-> v.says]
  BY KeptPostgres, KeptMySql, KeptSqlite, JourneyAssumption
<1>2. ClassOf(c, v) # "refused"
  <2> DEFINE classes == {"INTEGER", "BIGINT", "DOUBLE", "BOOLEAN", "TEXT", "UUID", "NULL"}
  <2>1. c.backend # "SQLite" => c.column \in classes
    BY JourneyAssumption DEF Faithful
  <2>2. ClassOf(c, v) \in classes
    BY <2>1 DEF ClassOf
  <2> QED BY <2>2
<1>3. KeptAs(c, v).class # Refused.class
  BY <1>1, <1>2 DEF Refused
<1> QED BY <1>1, <1>3

LEMMA StoredIs ==
  ASSUME NEW c \in Journeys, Faithful(c), NEW all,
         all = [i \in DOMAIN c.batch |->
                  Stores(c.backend, c.column,
                         Cast(c.backend, c.path, LookupField(c.models, "t", "c"), c.batch), c.batch[i])]
  PROVE  ~(\E i \in DOMAIN all : all[i] = Refused) /\ all[Len(all)] = KeptAs(c, Latest(c))
<1>1. all = [i \in 1..Len(c.batch) |-> KeptAs(c, c.batch[i])] /\ Len(c.batch) \in Nat /\ Len(c.batch) >= 1
      /\ \A i \in 1..Len(c.batch) : c.batch[i] \in Range(c.batch)
  BY LastIs DEF KeptAs, CastIn, TypeOf, Range
<1>2. all \in Seq({KeptAs(c, v) : v \in Range(c.batch)}) /\ Len(all) = Len(c.batch)
  BY <1>1
<1>3. all[Len(all)] = KeptAs(c, Latest(c))
  BY <1>1, <1>2 DEF Latest
<1>4. ~\E i \in DOMAIN all : all[i] = Refused
  BY <1>1, KeptIs
<1> QED BY <1>3, <1>4
\* The Rust types a value kept in a class is read as.
LEMMA TypesIs ==
  ASSUME NEW c \in Journeys, Faithful(c), NEW v \in Range(c.batch), NEW s, s.class = ClassOf(c, v)
  PROVE  LET types == ReadableAs(c.backend, s)
         IN /\ v = Nothing => types = {}
            /\ v # Nothing =>
                 /\ c.column \in {"INTEGER", "BIGINT"} => types \in {{"i32"}, {"i64"}, {"i64", "i32", "bool"}}
                 /\ c.column = "BOOLEAN" => types \in {{"bool"}, {"i64", "i32", "bool"}}
                 /\ c.column = "DOUBLE" => types = {"f64"}
                 /\ c.column \notin {"INTEGER", "BIGINT", "BOOLEAN", "DOUBLE"} => types = {"String"}
<1> DEFINE types == ReadableAs(c.backend, s)
           exact == [INTEGER |-> {"i32"}, BIGINT |-> {"i64"}, BOOLEAN |-> {"bool"}]
           loose == [x \in {"INTEGER", "BIGINT", "BOOLEAN"} |-> {"i64", "i32", "bool"}]
           integers == IF c.backend = "PostgreSQL" THEN exact ELSE loose
           class == s.class
           ints == {"INTEGER", "BIGINT", "BOOLEAN"}
<1>1. /\ DOMAIN exact = ints /\ DOMAIN loose = ints
      /\ exact["INTEGER"] = {"i32"} /\ exact["BIGINT"] = {"i64"} /\ exact["BOOLEAN"] = {"bool"}
      /\ \A x \in ints : loose[x] = {"i64", "i32", "bool"}
  OBVIOUS
<1>2. types = CASE class \in DOMAIN integers -> integers[class]
                [] class = "DOUBLE" -> {"f64"}
                [] class = "TEXT" \/ (class = "UUID" /\ c.backend = "MySQL") -> {"String"}
                [] OTHER -> {}
  BY Zenon DEF ReadableAs
<1> HIDE DEF types, class, exact, loose
<1>3. DOMAIN integers = ints
  BY <1>1
<1> HIDE DEF integers
<1>4. ASSUME class \in ints PROVE types = integers[class]
  BY <1>2, <1>3, <1>4, Zenon
<1>5. ASSUME class = "DOUBLE" PROVE types = {"f64"}
  <2>1. class \notin ints
    BY <1>5
  <2> HIDE DEF ints
  <2> QED BY <1>2, <1>3, <1>5, <2>1, Zenon
<1>6. ASSUME class = "TEXT" \/ (class = "UUID" /\ c.backend = "MySQL") PROVE types = {"String"}
  <2>1. class \notin ints /\ class # "DOUBLE"
    BY <1>6
  <2> HIDE DEF ints
  <2> QED BY <1>2, <1>3, <1>6, <2>1, Zenon
<1>7. ASSUME class = "NULL" PROVE types = {}
  <2>1. class \notin ints /\ class # "DOUBLE" /\ class # "TEXT" /\ class # "UUID"
    BY <1>7
  <2> HIDE DEF ints
  <2> QED BY <1>2, <1>3, <2>1, Zenon
<1>8. v = Nothing => c.backend # "SQLite"
  BY SuitsIs, NothingIs DEF Suits
<1>9. c.backend \in {"SQLite", "PostgreSQL", "MySQL"} /\ class = ClassOf(c, v)
  BY JourneyAssumption DEF class
<1>10. v = Nothing => class = "NULL"
  BY <1>8, <1>9 DEF ClassOf
<1>11. CASE c.backend = "SQLite"
  <2>1. integers = loose
    BY <1>11, Zenon DEF integers
  <2>2. /\ c.column \in ints => class = "BIGINT"
        /\ c.column = "DOUBLE" => class = "DOUBLE"
        /\ c.column \notin ints \cup {"DOUBLE"} => class = "TEXT"
    BY <1>9, <1>11 DEF ClassOf
  <2> QED BY <1>1, <1>4, <1>5, <1>6, <1>8, <1>11, <2>1, <2>2 DEF types
<1>12. CASE c.backend # "SQLite" /\ v = Nothing
  BY <1>7, <1>10, <1>12 DEF types
<1>13. CASE c.backend # "SQLite" /\ v # Nothing
  <2>1. class = c.column
    BY <1>9, <1>13 DEF ClassOf
  <2>2. \A x \in ints : integers[x] \in {exact[x], loose[x]}
    BY DEF integers
  <2>3. \/ c.column \in {"INTEGER", "BIGINT", "DOUBLE", "BOOLEAN", "TEXT"}
        \/ c.column = "UUID" /\ c.backend = "MySQL"
    BY <1>9, <1>13 DEF Faithful
  <2> QED BY <1>1, <1>4, <1>5, <1>6, <1>13, <2>1, <2>2, <2>3 DEF types
<1> QED BY <1>11, <1>12, <1>13

\* What a caller is to get of a value.
Right(r, v) == r.says = v.says /\ (r.kind = "Null" <=> v = Nothing) /\ r # Unread

LEMMA RightIs ==
  ASSUME NEW kind, kind # "Null", kind # "fails", NEW v, v # Nothing
  PROVE  Right(Value(kind, v.says), v) /\ Value(kind, v.says).kind = kind
<1>1. \A k, t : Value(k, t).kind = k /\ Value(k, t).says = t
  BY DEF Value
<1>2. Unread.kind = "fails"
  BY <1>1, Zenon DEF Unread
<1> QED BY <1>1, <1>2 DEF Right

LEMMA SpecIs ==
  /\ SpecOf("BooleanField") = [kind |-> "Bool", types |-> {"bool"}]
  /\ \A t \in {"IntField", "BigIntField"} : SpecOf(t) = [kind |-> "Int", types |-> {"i64", "i32", "f64"}]
  /\ SpecOf("FloatField") = [kind |-> "Float", types |-> {"f64"}]
  /\ \A t \in DOMAIN PythonColumn \ {"BooleanField", "IntField", "BigIntField", "FloatField"} :
       \E kind : SpecOf(t) = [kind |-> kind, types |-> {"String"}] /\ kind # "Null" /\ kind # "fails"
<1>1. SpecOf("BooleanField") = [kind |-> "Bool", types |-> {"bool"}]
  BY Zenon DEF SpecOf
<1>2. SpecOf("IntField") = [kind |-> "Int", types |-> {"i64", "i32", "f64"}]
      /\ SpecOf("BigIntField") = [kind |-> "Int", types |-> {"i64", "i32", "f64"}]
  BY Zenon DEF SpecOf
<1>3. SpecOf("FloatField") = [kind |-> "Float", types |-> {"f64"}]
  BY Zenon DEF SpecOf
<1>4. /\ SpecOf("DecimalField") = [kind |-> "Decimal", types |-> {"String"}]
      /\ SpecOf("UUIDField") = [kind |-> "Uuid", types |-> {"String"}]
      /\ SpecOf("CharField") = [kind |-> "Text", types |-> {"String"}]
  BY Zenon DEF SpecOf
<1>5. /\ SpecOf("DateTimeField") = [kind |-> "DateTime", types |-> {"String"}]
      /\ SpecOf("DateField") = [kind |-> "Date", types |-> {"String"}]
  BY Zenon DEF SpecOf
<1>6. /\ SpecOf("TimeField") = [kind |-> "Time", types |-> {"String"}]
      /\ SpecOf("JSONField") = [kind |-> "Json", types |-> {"String"}]
  BY Zenon DEF SpecOf
<1>7. \A t \in DOMAIN PythonColumn \ {"BooleanField", "IntField", "BigIntField", "FloatField"} :
        t \in {"DecimalField", "UUIDField", "CharField", "DateTimeField", "DateField", "TimeField", "JSONField"}
  BY DEF PythonColumn
<1> QED BY <1>1, <1>2, <1>3, <1>4, <1>5, <1>6, <1>7

LEMMA DecodePython ==
  ASSUME NEW c \in Journeys, Faithful(c), c.front = "python",
         NEW s, s.class = ClassOf(c, Latest(c)), s.says = Latest(c).says
  PROVE  Right(Decode(c, s), Latest(c))
<1> DEFINE v == Latest(c)
           types == ReadableAs(c.backend, s)
           type == c.type
           none == ""
           spec == SpecOf(type)
           r == Decode(c, s)
           strings == DOMAIN PythonColumn \ {"BooleanField", "IntField", "BigIntField", "FloatField"}
<1>1. /\ v \in Range(c.batch) /\ TypeOf(c) = type
      /\ type \in DOMAIN PythonColumn /\ c.column = PythonColumn[type]
  BY LastIs, JourneyAssumption DEF Faithful
<1>2. type # none
  BY <1>1 DEF PythonColumn
<1>3. r = IF types \cap spec.types # {} THEN Value(spec.kind, s.says)
          ELSE IF type = "FloatField" /\ "String" \in types THEN Value("Text", s.says) ELSE Nothing
  BY <1>1, <1>2, Zenon DEF Decode, DecodeWithSpec, TypeOf
<1>4. /\ v = Nothing => types = {}
      /\ v # Nothing =>
           /\ c.column \in {"INTEGER", "BIGINT"} => types \in {{"i32"}, {"i64"}, {"i64", "i32", "bool"}}
           /\ c.column = "BOOLEAN" => types \in {{"bool"}, {"i64", "i32", "bool"}}
           /\ c.column = "DOUBLE" => types = {"f64"}
           /\ c.column \notin {"INTEGER", "BIGINT", "BOOLEAN", "DOUBLE"} => types = {"String"}
  BY <1>1, TypesIs
<1> HIDE DEF types, r
<1>5. CASE v = Nothing
  <2>1. r = Nothing
    BY <1>3, <1>4, <1>5
  <2>2. Unread.kind = "fails" /\ v.says = ""
    <3>1. \A k, t : Value(k, t).kind = k
      BY DEF Value
    <3> QED BY <1>5, <3>1, NothingIs, Zenon DEF Unread
  <2> QED BY <1>5, <2>1, <2>2, NothingIs DEF Right, r
<1>6. CASE v # Nothing
  <2>1. types \cap spec.types # {} /\ spec.kind # "Null" /\ spec.kind # "fails"
    <3>1. /\ type \in {"IntField", "BigIntField"} => c.column \in {"INTEGER", "BIGINT"}
          /\ type = "BooleanField" => c.column = "BOOLEAN"
          /\ type = "FloatField" => c.column = "DOUBLE"
          /\ type \in strings => c.column \notin {"INTEGER", "BIGINT", "BOOLEAN", "DOUBLE"}
      BY <1>1 DEF PythonColumn
    <3>2. type \in {"IntField", "BigIntField", "BooleanField", "FloatField"} \/ type \in strings
      BY <1>1
    <3> HIDE DEF type
    <3>3. CASE type \in {"IntField", "BigIntField"}
      <4>1. types \in {{"i32"}, {"i64"}, {"i64", "i32", "bool"}}
        BY <1>4, <1>6, <3>1, <3>3
      <4>2. spec = [kind |-> "Int", types |-> {"i64", "i32", "f64"}]
        BY <3>3, SpecIs
      <4> HIDE DEF spec
      <4> QED BY <4>1, <4>2
    <3>4. CASE type = "BooleanField"
      <4>1. types \in {{"bool"}, {"i64", "i32", "bool"}}
        BY <1>4, <1>6, <3>1, <3>4
      <4>2. spec = [kind |-> "Bool", types |-> {"bool"}]
        BY <3>4, SpecIs
      <4> HIDE DEF spec
      <4> QED BY <4>1, <4>2
    <3>5. CASE type = "FloatField"
      <4>1. types = {"f64"}
        BY <1>4, <1>6, <3>1, <3>5
      <4>2. spec = [kind |-> "Float", types |-> {"f64"}]
        BY <3>5, SpecIs
      <4> HIDE DEF spec
      <4> QED BY <4>1, <4>2
    <3>6. CASE type \in strings
      <4>1. types = {"String"}
        BY <1>4, <1>6, <3>1, <3>6
      <4>2. PICK kind : spec = [kind |-> kind, types |-> {"String"}] /\ kind # "Null" /\ kind # "fails"
        BY <3>6, SpecIs
      <4> HIDE DEF spec
      <4> QED BY <4>1, <4>2
    <3> QED BY <3>2, <3>3, <3>4, <3>5, <3>6
  <2>2. r = Value(spec.kind, s.says)
    BY <1>3, <2>1
  <2> HIDE DEF spec
  <2>3. s.says = v.says
    OBVIOUS
  <2> HIDE DEF v
  <2>4. Right(Value(spec.kind, v.says), v)
    BY <1>6, <2>1, RightIs
  <2>5. Right(r, v)
    BY <2>2, <2>3, <2>4
  <2> QED BY <2>5 DEF r, v
<1> QED BY <1>5, <1>6

LEMMA DecodeRust ==
  ASSUME NEW c \in Journeys, Faithful(c), c.front = "rust",
         NEW s, s.class = ClassOf(c, Latest(c)), s.says = Latest(c).says
  PROVE  Right(Decode(c, s), Latest(c)) /\ RustField(c.type, Decode(c, s)) = Decode(c, s)
<1> DEFINE v == Latest(c)
           types == ReadableAs(c.backend, s)
           type == c.type
           none == ""
           r == Decode(c, s)
           int == IF c.boolish /\ s.says \in {"0", "1"} THEN "Bool" ELSE "Int"
<1>1. v \in Range(c.batch) /\ TypeOf(c) = none /\ type \in DOMAIN RustColumn /\ c.column = RustColumn[type]
  BY LastIs, RustPlain, JourneyAssumption
<1>2. r = IF "i64" \in types THEN Value(int, s.says)
          ELSE IF "i32" \in types THEN Value("Int", s.says)
          ELSE IF "bool" \in types THEN Value("Bool", s.says)
          ELSE IF "f64" \in types THEN Value("Float", s.says)
          ELSE IF "String" \in types THEN Value("Text", s.says) ELSE Nothing
  BY <1>1, Zenon DEF Decode, DecodeHeuristic, TypeOf
<1>3. v # Nothing
  BY <1>1, JourneyAssumption DEF Faithful
<1>4. /\ c.column \in {"INTEGER", "BIGINT"} => types \in {{"i32"}, {"i64"}, {"i64", "i32", "bool"}}
      /\ c.column = "BOOLEAN" => types \in {{"bool"}, {"i64", "i32", "bool"}}
      /\ c.column = "DOUBLE" => types = {"f64"}
      /\ c.column \notin {"INTEGER", "BIGINT", "BOOLEAN", "DOUBLE"} => types = {"String"}
  BY <1>1, <1>3, TypesIs
<1>5. type \in {"i32", "i64"} => int = "Int"
  BY DEF Faithful
<1>6. int \in {"Int", "Bool"}
  OBVIOUS
<1>7. /\ type \in {"i32", "i64"} => c.column \in {"INTEGER", "BIGINT"}
      /\ type = "bool" => c.column = "BOOLEAN"
      /\ type = "f64" => c.column = "DOUBLE"
      /\ type \in {"String", "NaiveDateTime", "NaiveDate"} =>
           c.column \notin {"INTEGER", "BIGINT", "BOOLEAN", "DOUBLE"}
      /\ type \in {"i32", "i64", "bool", "f64", "String", "NaiveDateTime", "NaiveDate"}
      /\ type = "NaiveDateTime" => c.column = "TIMESTAMP"
      /\ type = "NaiveDate" => c.column = "DATE"
  <2>1. /\ RustColumn["i32"] = "INTEGER" /\ RustColumn["i64"] = "BIGINT"
        /\ RustColumn["bool"] = "BOOLEAN" /\ RustColumn["f64"] = "DOUBLE"
        /\ RustColumn["String"] = "TEXT" /\ RustColumn["NaiveDateTime"] = "TIMESTAMP"
        /\ RustColumn["NaiveDate"] = "DATE"
    BY DEF RustColumn
  <2>2. DOMAIN RustColumn = {"i32", "i64", "bool", "f64", "String", "NaiveDateTime", "NaiveDate"}
    BY DEF RustColumn
  <2>3. type \in {"i32", "i64", "bool", "f64", "String", "NaiveDateTime", "NaiveDate"}
    BY <1>1, <2>2
  <2> HIDE DEF type
  <2> QED BY <1>1, <2>1, <2>3
<1>8. (type = "NaiveDateTime" => v.says = "moment") /\ (type = "NaiveDate" => v.says = "day")
  <2>1. Suits(v, c.column)
    BY <1>1, <1>3, SuitsIs
  <2> HIDE DEF type
  <2> QED BY <1>7, <2>1 DEF Suits
<1>9. s.says = v.says
  OBVIOUS
<1> HIDE DEF types, r, int, type, v
<1>10. PICK kind \in {"Int", "Bool", "Float", "Text"} :
         /\ r = Value(kind, v.says)
         /\ type \in {"i32", "i64"} => kind = "Int"
         /\ type = "bool" => kind \in {"Int", "Bool"}
         /\ type = "f64" => kind = "Float"
         /\ type \in {"String", "NaiveDateTime", "NaiveDate"} => kind = "Text"
  BY <1>2, <1>4, <1>5, <1>6, <1>7, <1>9
<1>11. Right(r, v) /\ r.kind = kind /\ r.says = v.says
  <2>1. kind # "Null" /\ kind # "fails"
    OBVIOUS
  <2>2. Right(Value(kind, v.says), v) /\ Value(kind, v.says).kind = kind
    BY <1>3, <2>1, RightIs, Zenon
  <2>3. Right(r, v) /\ r.kind = kind
    BY <1>10, <2>2, Zenon
  <2> QED BY <2>3 DEF Right
<1>12. kind \in ReaderTakes(type)
  <2>1. /\ type \in {"i32", "i64"} => ReaderTakes(type) = {"Int"}
        /\ type = "bool" => ReaderTakes(type) = {"Bool", "Int"}
        /\ type = "f64" => ReaderTakes(type) = {"Float", "Int"}
        /\ type \in {"String", "NaiveDateTime", "NaiveDate"} => ReaderTakes(type) = {"Text"}
    <3>1. \A t \in {"i32", "i64"} : ReaderTakes(t) = {"Int"}
      BY Zenon DEF ReaderTakes
    <3>2. ReaderTakes("bool") = {"Bool", "Int"} /\ ReaderTakes("f64") = {"Float", "Int"}
      BY Zenon DEF ReaderTakes
    <3>3. \A t \in {"String", "NaiveDateTime", "NaiveDate"} : ReaderTakes(t) = {"Text"}
      BY Zenon DEF ReaderTakes
    <3> QED BY <3>1, <3>2, <3>3
  <2> QED BY <1>7, <1>10, <2>1
<1>13. RustField(type, r) = r
  <2> DEFINE parses == CASE type = "NaiveDateTime" -> r.says = "moment"
                         [] type = "NaiveDate" -> r.says = "day"
                         [] OTHER -> TRUE
  <2>1. CASE type = "NaiveDateTime"
    <3>1. parses <=> r.says = "moment"
      BY <2>1, Zenon
    <3> QED BY <1>8, <1>11, <1>12, <2>1, <3>1, Zenon DEF RustField
  <2>2. CASE type = "NaiveDate"
    <3>1. parses <=> r.says = "day"
      BY <2>2, Zenon
    <3> QED BY <1>8, <1>11, <1>12, <2>2, <3>1, Zenon DEF RustField
  <2>3. CASE type # "NaiveDateTime" /\ type # "NaiveDate"
    <3>1. parses
      BY <2>3, Zenon
    <3> QED BY <1>11, <1>12, <2>3, <3>1, Zenon DEF RustField
  <2> QED BY <2>1, <2>2, <2>3
<1> QED BY <1>11, <1>13 DEF r, v, type

\* What a journey holds so far is what it was to store and to give.
TripInv ==
  /\ cell \in Journeys
  /\ stored = NotYet => row = Unread
  /\ Faithful(cell) /\ stored # NotYet => stored = KeptAs(cell, Latest(cell)) /\ stored # Refused
  /\ row = Unread \/ row = Decode(cell, stored)
  /\ row = Unread => field = NotYet
  /\ field = NotYet \/ field = IF cell.front = "rust" THEN RustField(cell.type, row) ELSE row

LEMMA TripStarts == TripInit => TripInv
BY Zenon DEF TripInit, TripInv

LEMMA TripKeeps == TripInv /\ [TripNext]_tripVars => TripInv'
<1> SUFFICES ASSUME TripInv, [TripNext]_tripVars PROVE TripInv'
  OBVIOUS
<1> USE DEF TripInv
<1>1. CASE WriteCell
  <2> DEFINE all == [i \in DOMAIN cell.batch |->
                       Stores(cell.backend, cell.column,
                              Cast(cell.backend, cell.path, LookupField(cell.models, "t", "c"), cell.batch),
                              cell.batch[i])]
  <2>1. /\ stored = NotYet /\ UNCHANGED <<cell, row, field>>
        /\ stored' = IF \E i \in DOMAIN all : all[i] = Refused THEN Refused ELSE all[Len(all)]
    BY <1>1, Zenon DEF WriteCell
  <2>2. ASSUME Faithful(cell) PROVE stored' = KeptAs(cell, Latest(cell)) /\ stored' # Refused
    <3>1. ~(\E i \in DOMAIN all : all[i] = Refused) /\ all[Len(all)] = KeptAs(cell, Latest(cell))
      BY <2>2, StoredIs
    <3>2. Latest(cell) \in Range(cell.batch)
      BY LastIs
    <3>3. KeptAs(cell, Latest(cell)) # Refused
      BY <2>2, <3>2, KeptIs
    <3> HIDE DEF all
    <3> QED BY <2>1, <3>1, <3>3
  <2> HIDE DEF all
  <2>3. (Faithful(cell))' <=> Faithful(cell)
    BY <2>1 DEF Faithful, Latest, TypeOf
  <2>4. (KeptAs(cell, Latest(cell)))' = KeptAs(cell, Latest(cell))
    BY <2>1 DEF KeptAs, Latest, CastIn, TypeOf
  <2>5. row' = Unread /\ field' = NotYet /\ cell' \in Journeys
    BY <2>1
  <2> QED BY <2>2, <2>3, <2>4, <2>5
<1>2. CASE DecodeRow
  <2>1. /\ stored # NotYet /\ row = Unread /\ row' = Decode(cell, stored) /\ UNCHANGED <<cell, stored, field>>
    BY <1>2, Zenon DEF DecodeRow
  <2>2. (Faithful(cell))' <=> Faithful(cell)
    BY <2>1 DEF Faithful, Latest, TypeOf
  <2>3. (KeptAs(cell, Latest(cell)))' = KeptAs(cell, Latest(cell))
    BY <2>1 DEF KeptAs, Latest, CastIn, TypeOf
  <2>4. (Decode(cell, stored))' = Decode(cell, stored)
    BY <2>1
  <2> QED BY <2>1, <2>2, <2>3, <2>4
<1>3. CASE ReadField
  <2>1. /\ row # Unread /\ UNCHANGED <<cell, stored, row>>
        /\ field' = IF cell.front = "rust" THEN RustField(cell.type, row) ELSE row
    BY <1>3, Zenon DEF ReadField
  <2>2. (Faithful(cell))' <=> Faithful(cell)
    BY <2>1 DEF Faithful, Latest, TypeOf
  <2>3. (KeptAs(cell, Latest(cell)))' = KeptAs(cell, Latest(cell))
    BY <2>1 DEF KeptAs, Latest, CastIn, TypeOf
  <2>4. (Decode(cell, stored))' = Decode(cell, stored)
    BY <2>1
  <2>5. (IF cell.front = "rust" THEN RustField(cell.type, row) ELSE row)'
          = IF cell.front = "rust" THEN RustField(cell.type, row) ELSE row
    BY <2>1
  <2> QED BY <2>1, <2>2, <2>3, <2>4, <2>5
<1>4. CASE UNCHANGED tripVars
  <2>1. UNCHANGED <<cell, stored, row, field>>
    BY <1>4 DEF tripVars
  <2>2. (Faithful(cell))' <=> Faithful(cell)
    BY <2>1 DEF Faithful, Latest, TypeOf
  <2>3. (KeptAs(cell, Latest(cell)))' = KeptAs(cell, Latest(cell))
    BY <2>1 DEF KeptAs, Latest, CastIn, TypeOf
  <2>4. (Decode(cell, stored))' = Decode(cell, stored)
    BY <2>1
  <2> QED BY <2>1, <2>2, <2>3, <2>4
<1> QED BY <1>1, <1>2, <1>3, <1>4 DEF TripNext

LEMMA TripGives == TripInv => WrittenIsRead
<1> SUFFICES ASSUME TripInv, ~(Untold \/ Guessed \/ NoNull \/ Questioned \/ Shadowed)
             PROVE  /\ stored # Refused
                    /\ field # NotYet => /\ field.says = Written.says
                                         /\ field.kind = "Null" <=> Written = Nothing
                                         /\ field # Unread
  BY DEF WrittenIsRead
<1>1. cell \in Journeys /\ Faithful(cell)
  BY ToldIs DEF TripInv
<1>2. CASE stored = NotYet
  <2>1. NotYet # Refused
    BY DEF NotYet, Refused
  <2>2. field = NotYet
    BY <1>2 DEF TripInv
  <2> QED BY <1>2, <2>1, <2>2
<1>3. CASE stored # NotYet
  <2>1. stored = KeptAs(cell, Latest(cell)) /\ stored # Refused
    BY <1>1, <1>3 DEF TripInv
  <2>2. Latest(cell) \in Range(cell.batch)
    BY <1>1, LastIs
  <2>3. stored = [class |-> ClassOf(cell, Latest(cell)), says |-> Latest(cell).says]
    BY <1>1, <2>1, <2>2, KeptIs
  <2>4. stored.class = ClassOf(cell, Latest(cell)) /\ stored.says = Latest(cell).says
    BY <2>3
  <2>5. ASSUME field # NotYet PROVE Right(field, Latest(cell))
    <3>1. row = Decode(cell, stored)
      BY <2>5 DEF TripInv
    <3>2. field = IF cell.front = "rust" THEN RustField(cell.type, row) ELSE row
      BY <2>5 DEF TripInv
    <3>3. CASE cell.front = "rust"
      BY <1>1, <2>4, <3>1, <3>2, <3>3, DecodeRust
    <3>4. CASE cell.front = "python"
      <4>1. Right(Decode(cell, stored), Latest(cell))
        BY <1>1, <2>4, <3>4, DecodePython
      <4>2. field = row
        BY <3>2, <3>4
      <4> QED BY <3>1, <4>1, <4>2
    <3> QED BY <1>1, <3>3, <3>4, JourneyAssumption
  <2> QED BY <2>1, <2>5 DEF Right, Latest, Written
<1> QED BY <1>2, <1>3

\* What a caller writes into a column made for it is stored, and is what a
\* caller reads, whatever the journeys are: outside the exceptions, the casts
\* of the statement, the type the parameter is bound as, the decoder's choice
\* of a type and the struct's reader agree with the column of the field.
\* (utils.rs 70-208, postgres.rs 140-199, sqlite.rs 497-516)
THEOREM ValuesAreRead == TripSpec => []WrittenIsRead
BY TripStarts, TripKeeps, TripGives, PTL DEF TripSpec
=============================================================================
