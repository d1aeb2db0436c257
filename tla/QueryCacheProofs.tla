-------------------------- MODULE QueryCacheProofs --------------------------
(***************************************************************************)
(* Proofs about QueryCache, for every number of calls, writes, SQL texts   *)
(* and lifetimes, and for every capacity.                                  *)
(***************************************************************************)
EXTENDS QueryCache, TLAPS, WellFoundedInduction

(* Induction over the naturals, from the library's theorem that < is well   *)
(* founded.                                                                 *)
LEMMA Induction ==
  ASSUME NEW S \in SUBSET Nat, 0 \in S, \A n \in S : n + 1 \in S
  PROVE  S = Nat
<1> SUFFICES ASSUME Nat \ S # {} PROVE FALSE
  OBVIOUS
<1> DEFINE R == OpToRel(<, Nat)
<1>1. IsWellFoundedOn(R, Nat)
  BY NatLessThanWellFounded
<1>2. \A i, j \in Nat : i < j => <<i, j>> \in R
  BY DEF OpToRel
<1> HIDE DEF R
<1>3. PICK n \in Nat \ S : \A m \in Nat \ S : ~(<<m, n>> \in R)
  <2>1. Nat \ S \subseteq Nat
    OBVIOUS
  <2> QED BY <1>1, <2>1, WFMin
<1>4. n - 1 \in Nat /\ n - 1 < n /\ (n - 1) + 1 = n
  BY <1>3
<1>5. n - 1 \in S
  BY <1>2, <1>3, <1>4
<1> QED
  BY <1>4, <1>5

-----------------------------------------------------------------------------
(* Deleting keys.  The definition of Without is recursive: the function it  *)
(* chooses exists, and what it leaves of a prefix of the store is there.    *)
Kept(keys, f, n) ==
  IF n = 0 THEN << >>
  ELSE IF store[n].key \in keys THEN f[n - 1] ELSE Append(f[n - 1], store[n])
KeptOf(keys, m, f) == f = [n \in 0..m |-> Kept(keys, f, n)]

LEMMA KeptExists == ASSUME NEW keys PROVE \A m \in Nat : \E f : KeptOf(keys, m, f)
<1> DEFINE S == {m \in Nat : \E f : KeptOf(keys, m, f)}
<1>1. 0 \in S
  <2> DEFINE f == [n \in 0..0 |-> << >>]
  <2>1. f = [n \in 0..0 |-> Kept(keys, f, n)]
    BY DEF Kept
  <2>2. KeptOf(keys, 0, f)
    BY <2>1 DEF KeptOf
  <2> QED BY <2>2
<1>2. ASSUME NEW m \in S PROVE m + 1 \in S
  <2>1. PICK f : KeptOf(keys, m, f)
    OBVIOUS
  <2> DEFINE g == [n \in 0..(m + 1) |-> IF n = m + 1 THEN Kept(keys, f, n) ELSE f[n]]
  <2>2. m \in Nat
    OBVIOUS
  <2>3. ASSUME NEW n \in 0..(m + 1) PROVE g[n] = Kept(keys, g, n)
    <3>1. CASE n = 0
      BY <3>1, <2>1, <2>2 DEF KeptOf, Kept
    <3>2. CASE n # 0
      <4>1. n - 1 \in 0..m /\ n - 1 \in 0..(m + 1) /\ n - 1 # m + 1
        BY <3>2, <2>2
      <4>2. g[n - 1] = f[n - 1]
        BY <4>1
      <4>3. Kept(keys, g, n) = Kept(keys, f, n)
        BY <4>2, <3>2 DEF Kept
      <4>4. CASE n = m + 1
        BY <4>3, <4>4
      <4>5. CASE n # m + 1
        <5>1. n \in 0..m
          BY <4>5, <2>2
        <5>2. f[n] = Kept(keys, f, n)
          BY <5>1, <2>1 DEF KeptOf
        <5> QED BY <5>2, <4>3, <4>5
      <4> QED BY <4>4, <4>5
    <3> QED BY <3>1, <3>2
  <2>4. g = [n \in 0..(m + 1) |-> Kept(keys, g, n)]
    BY <2>3
  <2>5. KeptOf(keys, m + 1, g)
    BY <2>4 DEF KeptOf
  <2> QED BY <2>5, <2>2
<1> HIDE DEF S
<1>3. S = Nat
  BY <1>1, <1>2, Induction DEF S
<1> QED
  BY <1>3 DEF S

Keyed(s) == \A i, j \in DOMAIN s : s[i].key = s[j].key => i = j

(* What is left of the store without some keys is part of it and in its     *)
(* order of keys; each entry is one of the store's, under another key.      *)
LEMMA WithoutKeys ==
  ASSUME store \in Seq(CacheEntry), Keyed(store), NEW keys
  PROVE  /\ Without(keys) \in Seq(CacheEntry)
         /\ Keyed(Without(keys))
         /\ Len(Without(keys)) <= Len(store)
         /\ (\E j \in DOMAIN store : store[j].key \in keys) => Len(Without(keys)) < Len(store)
         /\ \A i \in DOMAIN Without(keys) :
              \E j \in DOMAIN store : Without(keys)[i] = store[j] /\ store[j].key \notin keys
<1>1. Len(store) \in Nat /\ DOMAIN store = 1..Len(store)
  OBVIOUS
<1> DEFINE f == CHOOSE g : KeptOf(keys, Len(store), g)
<1>2. KeptOf(keys, Len(store), f)
  BY <1>1, KeptExists
<1>3. Without(keys) = f[Len(store)]
  BY DEF Without, KeptOf, Kept
<1> HIDE DEF f
<1>4. f[0] = << >> /\ \A n \in 1..Len(store) : f[n] = Kept(keys, f, n)
  <2>1. \A n \in 0..Len(store) : f[n] = Kept(keys, f, n)
    BY <1>2 DEF KeptOf
  <2>2. Kept(keys, f, 0) = << >>
    BY DEF Kept
  <2> QED BY <1>1, <2>1, <2>2
<1> DEFINE Of(n) == /\ f[n] \in Seq(CacheEntry) /\ Keyed(f[n]) /\ Len(f[n]) <= n
                    /\ (\E j \in 1..n : store[j].key \in keys) => Len(f[n]) < n
                    /\ \A i \in 1..Len(f[n]) : \E j \in 1..n :
                         f[n][i] = store[j] /\ store[j].key \notin keys
           S == {n \in Nat : n <= Len(store) => Of(n)}
<1>5. 0 \in S
  <2>1. << >> \in Seq(CacheEntry) /\ Len(<< >>) = 0 /\ DOMAIN << >> = {}
    OBVIOUS
  <2>2. \A j \in 1..0 : FALSE
    OBVIOUS
  <2>3. Of(0)
    BY <1>4, <2>1, <2>2 DEF Keyed
  <2> QED BY <2>3
<1>6. ASSUME NEW n \in Nat, n + 1 <= Len(store), Of(n) PROVE Of(n + 1)
  <2> DEFINE m == n + 1
  <2>1. m \in 1..Len(store) /\ m # 0 /\ m - 1 = n /\ store[m] \in CacheEntry
    BY <1>1, <1>6
  <2>2. f[m] = IF store[m].key \in keys THEN f[n] ELSE Append(f[n], store[m])
    BY <1>4, <2>1 DEF Kept
  <2>3. f[n] \in Seq(CacheEntry) /\ Keyed(f[n]) /\ Len(f[n]) \in Nat /\ Len(f[n]) <= n
        /\ DOMAIN f[n] = 1..Len(f[n])
    BY <1>6
  <2>4. \A i \in 1..Len(f[n]) : \E j \in 1..n : f[n][i] = store[j] /\ store[j].key \notin keys
    BY <1>6
  <2>5. CASE store[m].key \in keys
    <3>1. f[m] = f[n] /\ Len(f[m]) < m
      BY <2>2, <2>3, <2>5
    <3>2. \A i \in 1..Len(f[m]) : \E j \in 1..m : f[m][i] = store[j] /\ store[j].key \notin keys
      BY <3>1, <2>4
    <3> QED BY <3>1, <3>2, <2>3
  <2>6. CASE store[m].key \notin keys
    <3> DEFINE s == Append(f[n], store[m])
    <3>1. f[m] = s
      BY <2>2, <2>6
    <3>2. s \in Seq(CacheEntry) /\ Len(s) = Len(f[n]) + 1 /\ DOMAIN s = 1..(Len(f[n]) + 1)
      BY <2>1, <2>3
    <3>3. s[Len(f[n]) + 1] = store[m] /\ \A i \in 1..Len(f[n]) : s[i] = f[n][i]
      BY <2>1, <2>3
    <3> HIDE DEF s
    <3>4. \A i \in 1..Len(f[n]) : \E j \in 1..n : s[i] = store[j] /\ store[j].key \notin keys
      BY <3>3, <2>4
    <3>5. \A i \in 1..Len(f[n]) : s[i].key # store[m].key
      <4>1. \A j \in 1..n : j \in DOMAIN store /\ m \in DOMAIN store /\ j # m
        BY <1>1, <2>1
      <4> QED BY <4>1, <3>4 DEF Keyed
    <3>6. Keyed(s)
      <4> SUFFICES ASSUME NEW a \in DOMAIN s, NEW b \in DOMAIN s, s[a].key = s[b].key PROVE a = b
        BY DEF Keyed
      <4>1. \A i \in DOMAIN s : i \in 1..Len(f[n]) \/ i = Len(f[n]) + 1
        BY <3>2, <2>3
      <4>2. CASE a \in 1..Len(f[n]) /\ b \in 1..Len(f[n])
        BY <4>2, <3>3, <2>3 DEF Keyed
      <4>3. CASE ~(a \in 1..Len(f[n]) /\ b \in 1..Len(f[n]))
        BY <4>1, <4>3, <3>3, <3>5
      <4> QED BY <4>2, <4>3
    <3>7. \A i \in 1..Len(s) : \E j \in 1..m : s[i] = store[j] /\ store[j].key \notin keys
      <4> SUFFICES ASSUME NEW i \in 1..Len(s)
                   PROVE  \E j \in 1..m : s[i] = store[j] /\ store[j].key \notin keys
        OBVIOUS
      <4>1. CASE i \in 1..Len(f[n])
        BY <4>1, <3>4
      <4>2. CASE i = Len(f[n]) + 1
        BY <4>2, <3>3, <2>1, <2>6
      <4> QED BY <4>1, <4>2, <3>2, <2>3
    <3>8. (\E j \in 1..m : store[j].key \in keys) => Len(s) < m
      <4>1. \A j \in 1..m : j \in 1..n \/ j = m
        OBVIOUS
      <4>2. (\E j \in 1..m : store[j].key \in keys) => Len(f[n]) < n
        BY <4>1, <2>6, <1>6
      <4> QED BY <4>2, <3>2, <2>3
    <3> QED BY <3>1, <3>2, <3>6, <3>7, <3>8, <2>3
  <2> QED BY <2>5, <2>6
<1> HIDE DEF Of
<1>7. \A n \in S : n + 1 \in S
  <2> SUFFICES ASSUME NEW n \in Nat, n <= Len(store) => Of(n), n + 1 <= Len(store)
               PROVE  Of(n + 1)
    OBVIOUS
  <2>1. n <= Len(store)
    BY <1>1
  <2> QED BY <1>6, <2>1
<1>8. S = Nat
  BY <1>5, <1>7, Induction
<1>9. Of(Len(store))
  BY <1>1, <1>8
<1>10. DOMAIN f[Len(store)] = 1..Len(f[Len(store)])
  BY <1>9 DEF Of
<1> DEFINE w == f[Len(store)]
<1>11. w \in Seq(CacheEntry) /\ Keyed(w) /\ Len(w) <= Len(store)
  BY <1>9 DEF Of
<1>12. (\E j \in DOMAIN store : store[j].key \in keys) => Len(w) < Len(store)
  BY <1>1, <1>9 DEF Of
<1>13. \A i \in DOMAIN w : \E j \in DOMAIN store : w[i] = store[j] /\ store[j].key \notin keys
  BY <1>1, <1>9, <1>10 DEF Of
<1>14. Without(keys) = w
  BY <1>3
<1> HIDE DEF w
<1> QED BY <1>11, <1>12, <1>13, <1>14

-----------------------------------------------------------------------------
(* The operations on the store.                                             *)
Stock(s) == s \in Seq(CacheEntry) /\ Len(s) <= MaxSize /\ Keyed(s)
Holds(s, e) == \E i \in DOMAIN s : s[i] = e

LEMMA AppendKeyed ==
  ASSUME NEW s \in Seq(CacheEntry), Keyed(s), NEW e \in CacheEntry, \A i \in DOMAIN s : s[i].key # e.key
  PROVE  /\ Append(s, e) \in Seq(CacheEntry) /\ Keyed(Append(s, e))
         /\ Len(Append(s, e)) = Len(s) + 1
         /\ \A x : Holds(Append(s, e), x) => x = e \/ Holds(s, x)
<1>1. Len(s) \in Nat /\ DOMAIN s = 1..Len(s)
  OBVIOUS
<1>2. /\ Append(s, e) \in Seq(CacheEntry) /\ Len(Append(s, e)) = Len(s) + 1
      /\ DOMAIN Append(s, e) = 1..(Len(s) + 1)
  OBVIOUS
<1>3. Append(s, e)[Len(s) + 1] = e /\ \A i \in 1..Len(s) : Append(s, e)[i] = s[i]
  OBVIOUS
<1>4. \A i \in 1..(Len(s) + 1) : i \in 1..Len(s) \/ i = Len(s) + 1
  BY <1>1
<1>5. Keyed(Append(s, e))
  BY <1>1, <1>2, <1>3, <1>4 DEF Keyed
<1>6. \A x : Holds(Append(s, e), x) => x = e \/ Holds(s, x)
  BY <1>1, <1>2, <1>3, <1>4 DEF Holds
<1> QED
  BY <1>2, <1>5, <1>6

LEMMA NewestStock ==
  ASSUME NEW s \in Seq(CacheEntry), Keyed(s)
  PROVE  Stock(Newest(s)) /\ \A x : Holds(Newest(s), x) => Holds(s, x)
<1>1. Len(s) \in Nat /\ DOMAIN s = 1..Len(s) /\ MaxSize \in Nat
  BY MaxAssumption
<1>2. CASE Len(s) <= MaxSize
  BY <1>1, <1>2 DEF Newest, Stock
<1>3. CASE Len(s) > MaxSize
  <2> DEFINE a == Len(s) - MaxSize
             u == SubSeq(s, a + 1, Len(s))
  <2>1. a \in Nat /\ a + 1 \in 1..(Len(s) + 1) /\ Newest(s) = u /\ Len(s) - a = MaxSize
    BY <1>1, <1>3 DEF Newest
  <2>2. u \in Seq(CacheEntry) /\ Len(u) = MaxSize /\ DOMAIN u = 1..MaxSize
        /\ \A i \in 1..MaxSize : u[i] = s[a + i]
    BY <2>1, <1>1
  <2> HIDE DEF u
  <2>3. \A i \in 1..MaxSize : a + i \in DOMAIN s
    BY <1>1, <2>1
  <2>4. Keyed(u)
    <3> SUFFICES ASSUME NEW i \in 1..MaxSize, NEW j \in 1..MaxSize, u[i].key = u[j].key
                 PROVE  i = j
      BY <2>2 DEF Keyed
    <3>1. a + i = a + j
      BY <2>2, <2>3 DEF Keyed
    <3> QED BY <3>1, <2>1
  <2>5. \A x : Holds(u, x) => Holds(s, x)
    BY <2>2, <2>3 DEF Holds
  <2> QED BY <1>1, <2>1, <2>2, <2>4, <2>5 DEF Stock
<1> QED
  BY <1>1, <1>2, <1>3

LEMMA WithoutStock ==
  ASSUME Stock(store), NEW keys
  PROVE  /\ Stock(Without(keys))
         /\ \A x : Holds(Without(keys), x) => Holds(store, x) /\ x.key \notin keys
<1>1. /\ Without(keys) \in Seq(CacheEntry) /\ Keyed(Without(keys))
      /\ Len(Without(keys)) <= Len(store)
      /\ \A i \in DOMAIN Without(keys) :
           \E j \in DOMAIN store : Without(keys)[i] = store[j] /\ store[j].key \notin keys
  BY WithoutKeys DEF Stock
<1>2. Len(Without(keys)) \in Nat /\ Len(store) \in Nat /\ MaxSize \in Nat
  BY <1>1, MaxAssumption DEF Stock
<1> QED
  BY <1>1, <1>2 DEF Stock, Holds

(* backend.get of a live entry moves it to the recent end.                  *)
LEMMA TouchStock ==
  ASSUME Stock(store), NEW i \in DOMAIN store,
         store' = Append(Without({store[i].key}), store[i])
  PROVE  Stock(store') /\ \A x : Holds(store', x) => Holds(store, x)
<1> DEFINE rest == Without({store[i].key})
<1>1. /\ rest \in Seq(CacheEntry) /\ Keyed(rest) /\ Len(rest) < Len(store)
      /\ \A x : Holds(rest, x) => Holds(store, x) /\ x.key # store[i].key
  BY WithoutKeys, WithoutStock DEF Stock
<1>2. store[i] \in CacheEntry /\ Len(rest) \in Nat /\ Len(store) \in Nat /\ MaxSize \in Nat
  BY <1>1, MaxAssumption DEF Stock
<1> HIDE DEF rest
<1>3. \A j \in DOMAIN rest : rest[j].key # store[i].key
  BY <1>1 DEF Holds
<1>4. /\ Append(rest, store[i]) \in Seq(CacheEntry) /\ Keyed(Append(rest, store[i]))
      /\ Len(Append(rest, store[i])) = Len(rest) + 1
      /\ \A x : Holds(Append(rest, store[i]), x) => x = store[i] \/ Holds(rest, x)
  BY <1>1, <1>2, <1>3, AppendKeyed
<1>5. store' = Append(rest, store[i])
  BY DEF rest
<1>6. Len(Append(rest, store[i])) <= MaxSize
  <2>1. Len(store) <= MaxSize
    BY DEF Stock
  <2> QED BY <1>1, <1>2, <1>4, <2>1
<1>7. Stock(store')
  BY <1>4, <1>5, <1>6 DEF Stock
<1> QED
  BY <1>1, <1>4, <1>5, <1>7 DEF Holds

(* backend.set replaces the entry of its key, and evicts the oldest.        *)
LEMMA SetStock ==
  ASSUME Stock(store), NEW e \in CacheEntry, StoreEntry(e)
  PROVE  Stock(store') /\ \A x : Holds(store', x) => x = e \/ Holds(store, x)
<1> DEFINE rest == Without({e.key})
<1>1. /\ rest \in Seq(CacheEntry) /\ Keyed(rest)
      /\ \A x : Holds(rest, x) => Holds(store, x) /\ x.key # e.key
  BY WithoutStock DEF Stock
<1>2. store' = Newest(Append(rest, e))
  BY DEF StoreEntry
<1> HIDE DEF rest
<1>3. \A j \in DOMAIN rest : rest[j].key # e.key
  BY <1>1 DEF Holds
<1>4. /\ Append(rest, e) \in Seq(CacheEntry) /\ Keyed(Append(rest, e))
      /\ \A x : Holds(Append(rest, e), x) => x = e \/ Holds(rest, x)
  BY <1>1, <1>3, AppendKeyed
<1> QED
  BY <1>1, <1>2, <1>4, NewestStock

-----------------------------------------------------------------------------
(* The entry a call stores.                                                 *)
Filled(r) ==
  [key |-> Key(ask[r].query), query |-> ask[r].query, shows |-> result[r].shows,
   stored |-> now, ttl |-> ask[r].ttl, read |-> result[r].read,
   missed |-> db \ result[r].shows]

LEMMA FilledType ==
  ASSUME CacheTypeOK, NEW r \in Reader, rpc[r] = "fill"
  PROVE  Filled(r) \in CacheEntry
<1>1. /\ ask[r] \in Request /\ result[r] \in Result
      /\ now \in 0..MaxTime /\ db \subseteq Writer
  BY DEF CacheTypeOK
<1>2. Key(ask[r].query) \in Template
  BY <1>1 DEF Key, Request, Query
<1> QED
  BY <1>1, <1>2 DEF Filled, CacheEntry, Request, Result

(* What any step does to the store: entries stay or go, and only a call     *)
(* that stores its result adds one.                                         *)
LEMMA StoreStep ==
  ASSUME CacheTypeOK, [CacheNext]_cacheVars
  PROVE  /\ Stock(store')
         /\ \A x : Holds(store', x) =>
              Holds(store, x) \/ \E r \in Reader : Fill(r) /\ x = Filled(r)
<1>0. Stock(store)
  BY DEF CacheTypeOK, Stock, Keyed
<1>1. CASE UNCHANGED store
  BY <1>0, <1>1
<1>2. ASSUME NEW r \in Reader, NEW q \in Query, NEW ttl \in Ttls, Hit(r, q, ttl)
      PROVE  Stock(store') /\ \A x : Holds(store', x) => Holds(store, x)
  <2>1. PICK i \in Entries(Key(q)) : store' = Append(Without({Key(q)}), store[i])
    BY <1>2 DEF Hit
  <2>2. i \in DOMAIN store /\ store[i].key = Key(q)
    BY <2>1 DEF Entries
  <2> QED BY <1>0, <2>1, <2>2, TouchStock
<1>3. ASSUME NEW keys, DeleteKeys(keys)
      PROVE  Stock(store') /\ \A x : Holds(store', x) => Holds(store, x)
  BY <1>0, <1>3, WithoutStock DEF DeleteKeys
<1>4. ASSUME NEW r \in Reader, Fill(r)
      PROVE  Stock(store') /\ \A x : Holds(store', x) => x = Filled(r) \/ Holds(store, x)
  BY <1>0, <1>4, FilledType, SetStock DEF Fill, Filled
<1>5. CASE \E r \in Reader, q \in Query, ttl \in Ttls : Miss(r, q, ttl)
  BY <1>3, <1>5 DEF Miss
<1>6. CASE \E w \in Writer : Invalidate(w)
  BY <1>3, <1>6 DEF Invalidate
<1>7. CASE (\E k \in Template : Forget({k})) \/ Forget(Template)
  BY <1>3, <1>7 DEF Forget
<1>8. CASE \/ \E r \in Reader : ReadDb(r)
           \/ \E w \in Writer : Write(w) \/ ListKeys(w) \/ EndTransaction(w)
           \/ Tick
  BY <1>1, <1>8 DEF ReadDb, Write, ListKeys, EndTransaction, Tick
<1> QED
  BY <1>1, <1>2, <1>4, <1>5, <1>6, <1>7, <1>8 DEF CacheNext, cacheVars

LEMMA StepType == CacheTypeOK /\ [CacheNext]_cacheVars => CacheTypeOK'
<1> SUFFICES ASSUME CacheTypeOK, [CacheNext]_cacheVars PROVE CacheTypeOK'
  OBVIOUS
<1>1. store' \in Seq(CacheEntry) /\ Len(store') <= MaxSize
      /\ \A i, j \in DOMAIN store' : store'[i].key = store'[j].key => i = j
  BY StoreStep DEF Stock, Keyed
<1>2. \A i \in DOMAIN store : store[i] \in CacheEntry
  BY DEF CacheTypeOK
<1> USE DEF CacheTypeOK
<1>3. CASE UNCHANGED cacheVars
  BY <1>1, <1>3 DEF cacheVars
<1>4. ASSUME NEW r \in Reader, NEW q \in Query, NEW ttl \in Ttls, Hit(r, q, ttl) PROVE CacheTypeOK'
  <2>1. PICK i \in DOMAIN store : result' = [result EXCEPT ![r] =
          [query |-> store[i].query, shows |-> store[i].shows, read |-> store[i].read]]
    BY <1>4 DEF Hit, Entries
  <2>2. [query |-> store[i].query, shows |-> store[i].shows, read |-> store[i].read] \in Result
    BY <1>2 DEF CacheEntry, Result
  <2>3. result' \in [Reader -> Result] /\ \A s \in Reader : s # r => result'[s] = result[s]
    BY <2>1, <2>2
  <2>4. [query |-> q, ttl |-> ttl] \in Request
    BY DEF Request
  <2>5. /\ rpc' = [rpc EXCEPT ![r] = "done"]
        /\ ask' = [ask EXCEPT ![r] = [query |-> q, ttl |-> ttl]]
        /\ UNCHANGED <<now, db, since, wpc, listed>>
    BY <1>4 DEF Hit
  <2>6. \A s \in Reader : rpc'[s] # "new" => ask'[s] \in Request
    BY <2>4, <2>5
  <2>7. \A s \in Reader : rpc'[s] = "fill" => result'[s].query = ask'[s].query
    BY <2>3, <2>5
  <2> QED BY <1>1, <2>3, <2>4, <2>5, <2>6, <2>7
<1>5. ASSUME NEW r \in Reader, NEW q \in Query, NEW ttl \in Ttls, Miss(r, q, ttl) PROVE CacheTypeOK'
  <2>1. [query |-> q, ttl |-> ttl] \in Request
    BY DEF Request
  <2> QED BY <1>1, <1>5, <2>1 DEF Miss
<1>6. ASSUME NEW r \in Reader, ReadDb(r) PROVE CacheTypeOK'
  <2>1. [query |-> ask[r].query, shows |-> db, read |-> now] \in Result
    BY <1>6 DEF ReadDb, Request, Result
  <2>2. /\ rpc' \in [Reader -> {"new", "read", "fill", "done"}]
        /\ \A s \in Reader : rpc'[s] # "new" => rpc[s] # "new"
        /\ \A s \in Reader : s # r => rpc'[s] = rpc[s]
        /\ UNCHANGED <<store, now, db, since, ask, wpc, listed>>
    BY <1>6 DEF ReadDb
  <2>3. /\ result' \in [Reader -> Result]
        /\ \A s \in Reader : s # r => result'[s] = result[s]
        /\ rpc'[r] = "fill" => result'[r].query = ask[r].query
    BY <1>6, <2>1 DEF ReadDb
  <2>4. /\ \A s \in Reader : rpc'[s] # "new" => ask'[s] \in Request
        /\ \A s \in Reader : rpc'[s] = "fill" => result'[s].query = ask'[s].query
    BY <2>2, <2>3
  <2> QED BY <1>1, <2>2, <2>3, <2>4
<1>7. ASSUME NEW r \in Reader, Fill(r) PROVE CacheTypeOK'
  BY <1>1, <1>7 DEF Fill
<1>8. ASSUME NEW w \in Writer PROVE Write(w) \/ EndTransaction(w) => CacheTypeOK'
  <2> SUFFICES ASSUME Write(w) \/ EndTransaction(w) PROVE CacheTypeOK'
    OBVIOUS
  <2>1. UNCHANGED <<store, now, rpc, ask, result, listed>>
    BY DEF Write, EndTransaction
  <2>2. Visible(w) \/ UNCHANGED <<db, since>>
    BY DEF Write, EndTransaction
  <2>3. db' \subseteq Writer /\ since' \in [Writer -> 0..MaxTime]
    BY <1>1, <2>2 DEF Visible
  <2>4. wpc' \in [Writer -> {"new", "list", "delete", "commit", "done"}]
    BY <1>1 DEF Write, EndTransaction
  <2> QED BY <1>1, <2>1, <2>3, <2>4
<1>9. ASSUME NEW w \in Writer, ListKeys(w) PROVE CacheTypeOK'
  <2>1. {store[i].key : i \in {j \in DOMAIN store : Listable(store[j])}} \ Named
          \in SUBSET Template
    BY <1>2 DEF CacheEntry
  <2> QED BY <1>1, <1>9, <2>1 DEF ListKeys
<1>10. ASSUME NEW w \in Writer, Invalidate(w) PROVE CacheTypeOK'
  BY <1>1, <1>10 DEF Invalidate
<1>11. CASE Forget(Template) \/ \E k \in Template : Forget({k})
  BY <1>1, <1>11 DEF Forget
<1>12. CASE Tick
  BY <1>1, <1>12, MaxAssumption DEF Tick
<1> QED
  BY <1>3, <1>4, <1>5, <1>6, <1>7, <1>8, <1>9, <1>10, <1>11, <1>12 DEF CacheNext

LEMMA InitType == CacheInit => CacheTypeOK
<1>1. NoResult \in Result
  BY MaxAssumption DEF NoResult, Result
<1> QED
  BY <1>1, MaxAssumption DEF CacheInit, CacheTypeOK

(* Every variable keeps its type; the cache holds one entry for a key and   *)
(* never more than its capacity, for all values of the constants.           *)
THEOREM TypeCorrect == CacheSpec => []CacheTypeOK
BY InitType, StepType, PTL DEF CacheSpec

-----------------------------------------------------------------------------
(* Stale entries.                                                           *)

LEMMA Times == (\A n \in 0..MaxTime : n \in Nat) /\ (\A n \in Ttls : n \in Nat)
<1>1. \A n \in 0..MaxTime : n \in Nat
  BY MaxAssumption
<1>2. \A n \in Ttls : n \in Nat
  BY TtlsAssumption, Zenon
<1> QED
  BY <1>1, <1>2

(* Why an entry may lack a write that others see.                           *)
Explained(e) ==
  e.key \notin Named /\ Listable(e) =>
    \A w \in db \ (e.shows \cup TxWriter \cup Silent) : w \in e.missed \/ Doomed(e, w)

(* A write that waits for its commit is one in a transaction.               *)
CommitsLater == \A w \in Writer : wpc[w] = "commit" => w \in TxWriter

StaleInv == CacheTypeOK /\ CommitsLater /\ StaleOnlyByRace

LEMMA StaleIsExplained == StaleOnlyByRace <=> \A e : Holds(store, e) => Explained(e)
BY DEF StaleOnlyByRace, Explained, Holds

LEMMA StepCommits == CacheTypeOK /\ CommitsLater /\ [CacheNext]_cacheVars => CommitsLater'
<1> SUFFICES ASSUME CacheTypeOK, CommitsLater, [CacheNext]_cacheVars PROVE CommitsLater'
  OBVIOUS
<1> USE DEF CommitsLater, CacheTypeOK
<1>1. CASE UNCHANGED wpc
  BY <1>1
<1>2. ASSUME NEW w \in Writer, Write(w) \/ ListKeys(w) \/ Invalidate(w) \/ EndTransaction(w)
      PROVE  CommitsLater'
  BY <1>2 DEF Write, ListKeys, Invalidate, EndTransaction
<1>3. CASE \/ \E r \in Reader, q \in Query, ttl \in Ttls : Hit(r, q, ttl) \/ Miss(r, q, ttl)
           \/ \E r \in Reader : ReadDb(r) \/ Fill(r)
           \/ (\E k \in Template : Forget({k})) \/ Forget(Template)
           \/ Tick
  BY <1>1, <1>3 DEF Hit, Miss, ReadDb, Fill, Forget, Tick
<1> QED
  BY <1>1, <1>2, <1>3 DEF CacheNext, cacheVars

(* An entry that is in the store before a step and after it stays explained.*)
LEMMA StaysExplained ==
  ASSUME CacheTypeOK, CommitsLater, [CacheNext]_cacheVars, NEW e \in CacheEntry, Explained(e),
         Holds(store, e), Holds(store', e)
  PROVE  Explained(e)'
<1>0. \A w \in db : w \in Writer
  BY DEF CacheTypeOK
<1>1. CASE UNCHANGED <<now, db, wpc, listed>>
  BY <1>1 DEF Explained, Listable, Doomed
<1>2. ASSUME NEW w \in Writer, Write(w) PROVE Explained(e)'
  <2>1. now' = now /\ listed' = listed /\ wpc' = [wpc EXCEPT ![w] =
          IF w \in Silent THEN "done" ELSE "list"]
    BY <1>2 DEF Write
  <2>2. wpc[w] = "new" /\ db' \subseteq db \cup {w}
    BY <1>2 DEF Write, Visible
  <2>3. \A x \in Writer : x # w => wpc'[x] = wpc[x]
    BY <2>1 DEF CacheTypeOK
  <2>4. w \notin Silent => wpc'[w] = "list"
    BY <2>1 DEF CacheTypeOK
  <2> QED BY <1>0, <2>1, <2>2, <2>3, <2>4 DEF Explained, Listable, Doomed
<1>3. ASSUME NEW w \in Writer, ListKeys(w) PROVE Explained(e)'
  <2>1. /\ now' = now /\ db' = db
        /\ wpc' = [wpc EXCEPT ![w] = "delete"]
        /\ listed' = [listed EXCEPT ![w] =
             {store[i].key : i \in {j \in DOMAIN store : Listable(store[j])}} \ Named]
    BY <1>3 DEF ListKeys
  <2>2. \A x \in Writer : x # w => wpc'[x] = wpc[x] /\ listed'[x] = listed[x]
    BY <2>1 DEF CacheTypeOK
  <2>3. e.key \notin Named /\ Listable(e) => wpc'[w] = "delete" /\ e.key \in listed'[w]
    BY <2>1 DEF CacheTypeOK, Holds
  <2> QED BY <1>0, <2>1, <2>2, <2>3 DEF Explained, Listable, Doomed
<1>4. ASSUME NEW w \in Writer, Invalidate(w) PROVE Explained(e)'
  <2>1. /\ now' = now /\ db' = db /\ wpc[w] = "delete"
        /\ \A x \in Writer : x # w => wpc'[x] = wpc[x] /\ listed'[x] = listed[x]
    BY <1>4 DEF Invalidate, CacheTypeOK
  <2>2. e.key \notin listed[w]
    <3>1. Stock(store) /\ store' = Without(listed[w])
      BY <1>4 DEF Invalidate, DeleteKeys, CacheTypeOK, Stock, Keyed
    <3> QED BY <3>1, WithoutStock
  <2>3. ~Doomed(e, w)
    BY <2>1, <2>2 DEF Doomed
  <2> QED BY <1>0, <2>1, <2>3 DEF Explained, Listable, Doomed
<1>5. ASSUME NEW w \in Writer, EndTransaction(w) PROVE Explained(e)'
  <2>1. /\ now' = now /\ listed' = listed /\ w \in TxWriter /\ db' \subseteq db \cup {w}
        /\ \A x \in Writer : x # w => wpc'[x] = wpc[x]
    BY <1>5 DEF EndTransaction, Visible, CacheTypeOK, CommitsLater
  <2> QED BY <1>0, <2>1 DEF Explained, Listable, Doomed
<1>6. CASE Tick
  <2>1. now' = now + 1 /\ UNCHANGED <<db, wpc, listed>>
    BY <1>6 DEF Tick
  <2>2. e.stored \in Nat /\ e.ttl \in Nat /\ now \in Nat
    <3>1. e.stored \in 0..MaxTime /\ e.ttl \in Ttls
      BY DEF CacheEntry
    <3>2. now \in 0..MaxTime
      BY DEF CacheTypeOK
    <3> QED BY <3>1, <3>2, Times
  <2>3. Listable(e)' => Listable(e)
    BY <2>1, <2>2 DEF Listable
  <2> QED BY <2>1, <2>3 DEF Explained, Doomed
<1>7. CASE \/ \E r \in Reader, q \in Query, ttl \in Ttls : Hit(r, q, ttl) \/ Miss(r, q, ttl)
           \/ \E r \in Reader : ReadDb(r) \/ Fill(r)
           \/ (\E k \in Template : Forget({k})) \/ Forget(Template)
  BY <1>1, <1>7 DEF Hit, Miss, ReadDb, Fill, Forget
<1> QED
  BY <1>1, <1>2, <1>3, <1>4, <1>5, <1>6, <1>7 DEF CacheNext, cacheVars

LEMMA StepStale == StaleInv /\ [CacheNext]_cacheVars => StaleInv'
<1> SUFFICES ASSUME StaleInv, [CacheNext]_cacheVars PROVE StaleInv'
  OBVIOUS
<1>1. CacheTypeOK' /\ CommitsLater'
  BY StepType, StepCommits DEF StaleInv
<1>2. ASSUME NEW e, Holds(store', e) PROVE Explained(e)'
  <2>1. CASE Holds(store, e)
    <3>1. e \in CacheEntry
      BY <2>1 DEF StaleInv, CacheTypeOK, Holds
    <3> QED BY <1>2, <2>1, <3>1, StaleIsExplained, StaysExplained DEF StaleInv
  <2>2. CASE \E r \in Reader : Fill(r) /\ e = Filled(r)
    BY <2>2 DEF Fill, Filled, Explained
  <2> QED BY <1>2, <2>1, <2>2, StoreStep DEF StaleInv
<1>3. StaleOnlyByRace'
  BY <1>2 DEF StaleOnlyByRace, Explained, Holds
<1> QED
  BY <1>1, <1>3 DEF StaleInv

(* However calls, writes, evictions and expiries interleave: a live entry   *)
(* under a generated key lacks a visible autocommitted write only if that   *)
(* write overtook the read that filled it, or is about to remove it.        *)
THEOREM StaleOnlyRaces == CacheSpec => []StaleOnlyByRace
<1>1. CacheInit => StaleInv
  BY InitType DEF CacheInit, StaleInv, CommitsLater, StaleOnlyByRace
<1>2. StaleInv => StaleOnlyByRace
  BY DEF StaleInv
<1> QED
  BY <1>1, <1>2, StepStale, PTL DEF CacheSpec

-----------------------------------------------------------------------------
(* How long a stale entry is served.                                        *)

(* What was read at a time lacks only writes that came to since then.       *)
Reads(shows, read) ==
  read <= now /\ \A w \in db \ shows : read <= since[w]

ReadInv ==
  /\ CacheTypeOK
  /\ \A e : Holds(store, e) => Reads(e.shows, e.read)
  /\ \A r \in Reader : rpc[r] = "fill" => Reads(result[r].shows, result[r].read)

LEMMA ReadsStep ==
  ASSUME CacheTypeOK, [CacheNext]_cacheVars, NEW shows, NEW read \in 0..MaxTime, Reads(shows, read)
  PROVE  Reads(shows, read)'
<1>0. now \in Nat /\ MaxTime \in Nat /\ read \in Nat /\ since \in [Writer -> 0..MaxTime]
      /\ db \subseteq Writer
  BY MaxAssumption DEF CacheTypeOK
<1> USE DEF Reads
<1>1. CASE UNCHANGED <<now, db, since>>
  BY <1>1
<1>2. CASE UNCHANGED <<db, since>> /\ now' = now + 1
  BY <1>0, <1>2
<1>3. ASSUME NEW w \in Writer, Visible(w), now' = now PROVE Reads(shows, read)'
  <2>1. \A x \in db' \ shows : (x = w /\ since'[x] = now) \/ (x \in db /\ since'[x] = since[x])
    BY <1>0, <1>3 DEF Visible
  <2> QED BY <1>0, <1>3, <2>1
<1>4. CASE \/ \E r \in Reader, q \in Query, ttl \in Ttls : Hit(r, q, ttl) \/ Miss(r, q, ttl)
           \/ \E r \in Reader : ReadDb(r) \/ Fill(r)
           \/ \E w \in Writer : ListKeys(w) \/ Invalidate(w)
           \/ (\E k \in Template : Forget({k})) \/ Forget(Template)
  BY <1>1, <1>4 DEF Hit, Miss, ReadDb, Fill, ListKeys, Invalidate, Forget
<1>5. CASE \E w \in Writer : Write(w) \/ EndTransaction(w)
  BY <1>1, <1>3, <1>5 DEF Write, EndTransaction
<1>6. CASE Tick
  BY <1>2, <1>6 DEF Tick
<1> QED
  BY <1>1, <1>4, <1>5, <1>6 DEF CacheNext, cacheVars

LEMMA StepReads == ReadInv /\ [CacheNext]_cacheVars => ReadInv'
<1> SUFFICES ASSUME ReadInv, [CacheNext]_cacheVars PROVE ReadInv'
  OBVIOUS
<1>1. CacheTypeOK /\ CacheTypeOK'
  BY StepType DEF ReadInv
<1>2. ASSUME NEW r \in Reader, rpc[r] = "fill",
             NEW shows, NEW read, shows = result[r].shows, read = result[r].read
      PROVE  Reads(shows, read)'
  <2>1. result[r] \in Result
    BY <1>1 DEF CacheTypeOK
  <2>2. read \in 0..MaxTime /\ Reads(shows, read)
    BY <1>2, <2>1 DEF ReadInv, Result
  <2> QED BY <1>1, <2>2, ReadsStep
<1>3. ASSUME NEW e, Holds(store', e) PROVE Reads(e.shows, e.read)'
  <2>1. CASE Holds(store, e)
    <3>1. e \in CacheEntry
      BY <1>1, <2>1 DEF CacheTypeOK, Holds
    <3>2. e.read \in 0..MaxTime /\ Reads(e.shows, e.read)
      BY <2>1, <3>1 DEF ReadInv, CacheEntry
    <3> QED BY <1>1, <3>2, ReadsStep
  <2>2. ASSUME NEW r \in Reader, Fill(r), e = Filled(r) PROVE Reads(e.shows, e.read)'
    <3>1. rpc[r] = "fill" /\ e.shows = result[r].shows /\ e.read = result[r].read
      BY <2>2 DEF Fill, Filled
    <3> QED BY <3>1, <1>2
  <2> QED BY <1>1, <1>3, <2>1, <2>2, StoreStep
<1>4. ASSUME NEW r \in Reader, rpc'[r] = "fill",
             NEW shows, NEW read, shows = result'[r].shows, read = result'[r].read
      PROVE  Reads(shows, read)'
  <2>1. \/ rpc[r] = "fill" /\ result'[r] = result[r]
        \/ shows = db' /\ read = now' /\ now' \in Nat
    <3>1. now' \in Nat
      BY <1>1, MaxAssumption DEF CacheTypeOK
    <3>2. CASE UNCHANGED <<rpc, result>>
      BY <1>4, <3>2
    <3>3. ASSUME NEW s \in Reader, ReadDb(s)
          PROVE  \/ rpc[r] = "fill" /\ result'[r] = result[r]
                 \/ shows = db' /\ read = now'
      BY <1>1, <1>4, <3>3 DEF ReadDb, CacheTypeOK
    <3>4. ASSUME NEW s \in Reader, NEW q \in Query, NEW ttl \in Ttls,
                 Hit(s, q, ttl) \/ Miss(s, q, ttl)
          PROVE  rpc[r] = "fill" /\ result'[r] = result[r]
      BY <1>1, <1>4, <3>4 DEF Hit, Miss, CacheTypeOK
    <3>5. ASSUME NEW s \in Reader, Fill(s)
          PROVE  rpc[r] = "fill" /\ result'[r] = result[r]
      BY <1>1, <1>4, <3>5 DEF Fill, CacheTypeOK
    <3>6. CASE \/ \E w \in Writer : Write(w) \/ ListKeys(w) \/ Invalidate(w) \/ EndTransaction(w)
               \/ (\E k \in Template : Forget({k})) \/ Forget(Template)
               \/ Tick
      BY <3>2, <3>6 DEF Write, ListKeys, Invalidate, EndTransaction, Forget, Tick
    <3> QED BY <3>1, <3>2, <3>3, <3>4, <3>5, <3>6 DEF CacheNext, cacheVars
  <2>2. CASE rpc[r] = "fill" /\ result'[r] = result[r]
    BY <1>2, <1>4, <2>2
  <2>3. CASE shows = db' /\ read = now' /\ now' \in Nat
    BY <2>3 DEF Reads
  <2> QED BY <2>1, <2>2, <2>3
<1> QED
  BY <1>1, <1>3, <1>4 DEF ReadInv, Reads

(* A hit answers a call with an entry that is not past its lifetime.        *)
LEMMA ServedInTime ==
  ASSUME ReadInv, [CacheNext]_cacheVars, NEW r \in Reader, rpc[r] = "new", rpc'[r] = "done"
  PROVE  \E i \in Entries(Key(ask'[r].query)) :
           store[i].ttl # 0 =>
             \A w \in db \ result'[r].shows :
               now - since[w] <= store[i].ttl + (store[i].stored - store[i].read)
<1>0. CacheTypeOK
  BY DEF ReadInv
<1>1. PICK q \in Query, ttl \in Ttls : Hit(r, q, ttl)
  <2>1. CASE UNCHANGED rpc
    BY <2>1
  <2>2. ASSUME NEW s \in Reader, ReadDb(s) \/ Fill(s) PROVE FALSE
    BY <1>0, <2>2 DEF ReadDb, Fill, CacheTypeOK
  <2>3. ASSUME NEW s \in Reader, NEW q \in Query, NEW ttl \in Ttls, Miss(s, q, ttl) PROVE FALSE
    BY <1>0, <2>3 DEF Miss, CacheTypeOK
  <2>4. ASSUME NEW s \in Reader, NEW q \in Query, NEW ttl \in Ttls, Hit(s, q, ttl)
        PROVE  Hit(r, q, ttl)
    <3>1. s = r
      BY <1>0, <2>4 DEF Hit, CacheTypeOK
    <3> QED BY <2>4, <3>1
  <2>5. CASE \/ \E w \in Writer : Write(w) \/ ListKeys(w) \/ Invalidate(w) \/ EndTransaction(w)
             \/ (\E k \in Template : Forget({k})) \/ Forget(Template)
             \/ Tick
    BY <2>1, <2>5 DEF Write, ListKeys, Invalidate, EndTransaction, Forget, Tick
  <2> QED BY <2>1, <2>2, <2>3, <2>4, <2>5 DEF CacheNext, cacheVars
<1>2. ask'[r].query = q
  BY <1>0, <1>1 DEF Hit, CacheTypeOK
<1>3. PICK i \in Entries(Key(q)) :
        /\ ~Past(store[i])
        /\ result' = [result EXCEPT ![r] =
             [query |-> store[i].query, shows |-> store[i].shows, read |-> store[i].read]]
  BY <1>1 DEF Hit
<1>4. result'[r].shows = store[i].shows
  BY <1>0, <1>3 DEF CacheTypeOK
<1>5. i \in DOMAIN store /\ store[i] \in CacheEntry
  BY <1>0, <1>3 DEF Entries, CacheTypeOK
<1>6. Reads(store[i].shows, store[i].read)
  BY <1>5 DEF ReadInv, Holds
<1>7. /\ store[i].stored \in Nat /\ store[i].read \in Nat /\ store[i].ttl \in Nat /\ now \in Nat
      /\ \A w \in db : since[w] \in Nat
  <2>1. store[i].stored \in 0..MaxTime /\ store[i].read \in 0..MaxTime /\ store[i].ttl \in Ttls
    BY <1>5 DEF CacheEntry
  <2>2. now \in 0..MaxTime /\ \A w \in db : since[w] \in 0..MaxTime
    BY <1>0 DEF CacheTypeOK
  <2> QED BY <2>1, <2>2, Times
<1>8. store[i].ttl # 0 => now <= store[i].stored + store[i].ttl
  BY <1>3, <1>7 DEF Past
<1>9. ASSUME store[i].ttl # 0, NEW w \in db \ result'[r].shows
      PROVE  now - since[w] <= store[i].ttl + (store[i].stored - store[i].read)
  <2>1. store[i].read <= since[w]
    BY <1>4, <1>6, <1>9 DEF Reads
  <2> QED BY <1>7, <1>8, <1>9, <2>1
<1> QED
  BY <1>2, <1>3, <1>9

(* What no invalidation removes is served no longer than its lifetime and   *)
(* the time its read took to be stored.                                     *)
THEOREM StaleForAWhile == CacheSpec => StaleForLifetimeOnly
<1>1. CacheInit => ReadInv
  BY InitType DEF CacheInit, ReadInv, Holds
<1>2. ReadInv /\ [CacheNext]_cacheVars =>
        [\A r \in Reader : rpc[r] = "new" /\ rpc'[r] = "done" =>
           \E i \in Entries(Key(ask'[r].query)) :
             store[i].ttl # 0 =>
               \A w \in db \ result'[r].shows :
                 now - since[w] <= store[i].ttl + (store[i].stored - store[i].read)]_cacheVars
  BY ServedInTime
<1> QED
  BY <1>1, <1>2, StepReads, PTL DEF CacheSpec, StaleForLifetimeOnly

-----------------------------------------------------------------------------
(* Whose answer a call gets.                                                *)

OwnInv ==
  /\ CacheTypeOK
  /\ \A e : Holds(store, e) => e.key = Key(e.query)
  /\ \A r \in Reader : rpc[r] \in {"new", "read"} => result[r].query = Absent
  /\ OwnAnswer

LEMMA StepOwn ==
  ASSUME \A p, q \in Param : p = q
  PROVE  OwnInv /\ [CacheNext]_cacheVars => OwnInv'
<1> SUFFICES ASSUME OwnInv, [CacheNext]_cacheVars PROVE OwnInv'
  OBVIOUS
<1>0. CacheTypeOK /\ CacheTypeOK'
  BY StepType DEF OwnInv
<1>1. \A e : Holds(store', e) => e.key = Key(e.query)
  BY <1>0, StoreStep DEF OwnInv, Filled
<1> DEFINE Asked == /\ \A r \in Reader : rpc[r] \in {"new", "read"} => result[r].query = Absent
                    /\ OwnAnswer
<1>2. CASE UNCHANGED <<rpc, ask, result>>
  BY <1>0, <1>1, <1>2 DEF OwnInv, OwnAnswer
<1>3. ASSUME NEW r \in Reader, NEW q \in Query, NEW ttl \in Ttls, Hit(r, q, ttl) PROVE Asked'
  <2>1. PICK i \in Entries(Key(q)) :
          result' = [result EXCEPT ![r] =
            [query |-> store[i].query, shows |-> store[i].shows, read |-> store[i].read]]
    BY <1>3 DEF Hit
  <2>2. i \in DOMAIN store /\ store[i].key = Key(q) /\ store[i].query \in Query
    <3>1. i \in DOMAIN store /\ store[i].key = Key(q)
      BY <2>1 DEF Entries
    <3>2. store[i] \in CacheEntry
      BY <1>0, <3>1 DEF CacheTypeOK
    <3> QED BY <3>1, <3>2 DEF CacheEntry
  <2>3. Key(store[i].query) = Key(q)
    BY <2>2 DEF OwnInv, Holds
  <2>4. store[i].query = q
    BY <2>2, <2>3 DEF Key, Query
  <2>5. /\ \A s \in Reader : s # r => /\ rpc'[s] = rpc[s] /\ ask'[s] = ask[s]
                                      /\ result'[s] = result[s]
        /\ rpc'[r] = "done" /\ ask'[r].query = q /\ result'[r].query = store[i].query
    BY <1>0, <1>3, <2>1 DEF Hit, CacheTypeOK
  <2> QED BY <2>4, <2>5 DEF OwnInv, OwnAnswer
<1>4. ASSUME NEW r \in Reader, NEW q \in Query, NEW ttl \in Ttls, Miss(r, q, ttl) PROVE Asked'
  BY <1>0, <1>4 DEF Miss, CacheTypeOK, OwnInv, OwnAnswer
<1>5. ASSUME NEW r \in Reader, ReadDb(r) PROVE Asked'
  <2>1. /\ rpc[r] = "read" /\ result[r].query = Absent /\ ask' = ask
        /\ \A s \in Reader : s # r => rpc'[s] = rpc[s] /\ result'[s] = result[s]
    BY <1>0, <1>5 DEF ReadDb, CacheTypeOK, OwnInv
  <2>2. \/ rpc'[r] = "fill" /\ result'[r].query = ask[r].query
        \/ rpc'[r] = "done" /\ result'[r] = result[r]
    BY <1>0, <1>5 DEF ReadDb, CacheTypeOK
  <2> QED BY <1>0, <2>1, <2>2 DEF OwnInv, OwnAnswer
<1>6. ASSUME NEW r \in Reader, Fill(r) PROVE Asked'
  BY <1>0, <1>6 DEF Fill, CacheTypeOK, OwnInv, OwnAnswer
<1>7. CASE \/ \E w \in Writer : Write(w) \/ ListKeys(w) \/ Invalidate(w) \/ EndTransaction(w)
           \/ (\E k \in Template : Forget({k})) \/ Forget(Template)
           \/ Tick
  BY <1>2, <1>7 DEF Write, ListKeys, Invalidate, EndTransaction, Forget, Tick
<1> QED
  BY <1>0, <1>1, <1>2, <1>3, <1>4, <1>5, <1>6, <1>7 DEF CacheNext, cacheVars, OwnInv

(* If a SQL text comes with one list of values only, a call gets the answer *)
(* to its own query: the values the key lacks are the only way to get       *)
(* another's, whatever is stored, evicted or invalidated in between.        *)
THEOREM OwnWithoutValues == (\A p, q \in Param : p = q) => (CacheSpec => []OwnAnswer)
<1> SUFFICES ASSUME \A p, q \in Param : p = q PROVE CacheSpec => []OwnAnswer
  OBVIOUS
<1>1. CacheInit => OwnInv
  BY InitType DEF CacheInit, OwnInv, Holds, OwnAnswer, NoResult
<1>2. OwnInv => OwnAnswer
  BY DEF OwnInv
<1> QED
  BY <1>1, <1>2, StepOwn, PTL DEF CacheSpec
=============================================================================
