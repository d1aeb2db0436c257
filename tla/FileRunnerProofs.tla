-------------------------- MODULE FileRunnerProofs --------------------------
(***************************************************************************)
(* Proofs about FileRunner, for any projects, files of other branches,       *)
(* databases, programs and calls.                                            *)
(***************************************************************************)
EXTENDS FileRunner, Integers, FiniteSetTheorems, WellFoundedInduction, TLAPS

(* Induction over the naturals, from the library's theorem that < is well   *)
(* founded.                                                                 *)
LEMMA Induction ==
  ASSUME NEW S \in SUBSET Nat, 0 \in S, \A n \in S : n + 1 \in S
  PROVE  S = Nat
<1> SUFFICES ASSUME Nat \ S # {} PROVE FALSE
  OBVIOUS
<1> DEFINE R == OpToRel(<, Nat)
<1>1. IsWellFoundedOn(R, Nat)
  BY NatLessThanWellFounded
<1>2. \A i, j \in Nat : i < j => <<i, j>> \in R
  BY DEF OpToRel
<1> HIDE DEF R
<1>3. PICK n \in Nat \ S : \A m \in Nat \ S : ~(<<m, n>> \in R)
  <2>1. Nat \ S \subseteq Nat
    OBVIOUS
  <2> QED BY <1>1, <2>1, WFMin
<1>4. n - 1 \in Nat /\ n - 1 < n /\ (n - 1) + 1 = n
  BY <1>3
<1>5. n - 1 \in S
  BY <1>2, <1>3, <1>4
<1> QED
  BY <1>4, <1>5

-----------------------------------------------------------------------------
(* Lists of lists.  FlattenSeq is a recursive function: it exists, and what *)
(* it makes is the lists one after another.                                 *)

\* s stands in r after the first `off` elements.
Block(r, off, s) ==
  /\ off \in Nat
  /\ off + Len(s) <= Len(r)
  /\ \A j \in 1..Len(s) : r[off + j] = s[j]

\* r is the first n of these lists, one after another.
Joined(r, seqs, n) ==
  /\ \A i \in 1..n : \E off \in Nat :
       Block(r, off, seqs[i]) /\ ((\A j \in 1..(i - 1) : seqs[j] = <<>>) => off = 0)
  /\ \A k \in 1..Len(r) : \E i \in 1..n, off \in Nat :
       Block(r, off, seqs[i]) /\ k \in (off + 1)..(off + Len(seqs[i]))

Flat(seqs, f, i) == IF i = 1 THEN seqs[i] ELSE f[i - 1] \o seqs[i]

LEMMA JoinMore ==
  ASSUME NEW S, NEW seqs \in Seq(Seq(S)), NEW n \in 1..Len(seqs), n > 1,
         NEW r \in Seq(S), Joined(r, seqs, n - 1)
  PROVE  Joined(r \o seqs[n], seqs, n)
<1> DEFINE t == seqs[n]
           q == r \o t
<1>0. n \in Nat /\ n - 1 \in Nat /\ \A i \in 1..n : seqs[i] \in Seq(S)
  OBVIOUS
<1>1. t \in Seq(S) /\ q \in Seq(S) /\ Len(r) \in Nat /\ Len(t) \in Nat /\ Len(q) = Len(r) + Len(t)
      /\ (\A j \in 1..Len(r) : q[j] = r[j]) /\ (\A j \in 1..Len(t) : q[Len(r) + j] = t[j])
  BY <1>0
<1> HIDE DEF t, q
<1>2. ASSUME NEW s \in Seq(S), NEW off, Block(r, off, s) PROVE Block(q, off, s)
  <2>1. Len(s) \in Nat /\ off \in Nat
    BY <1>2 DEF Block
  <2>2. \A j \in 1..Len(s) : off + j \in 1..Len(r)
    BY <1>1, <1>2, <2>1 DEF Block
  <2>3. off + Len(s) <= Len(q)
    BY <1>1, <1>2, <2>1 DEF Block
  <2>4. \A j \in 1..Len(s) : q[off + j] = r[off + j] /\ r[off + j] = s[j]
    BY <1>1, <1>2, <2>2 DEF Block
  <2> QED BY <2>1, <2>3, <2>4 DEF Block
<1>3. Block(q, Len(r), t)
  BY <1>1 DEF Block
<1>4. (\A j \in 1..(n - 1) : seqs[j] = <<>>) => Len(r) = 0
  <2> SUFFICES ASSUME \A j \in 1..(n - 1) : seqs[j] = <<>>, Len(r) # 0 PROVE FALSE
    OBVIOUS
  <2>1. 1 \in 1..Len(r)
    BY <1>1
  <2>2. PICK i \in 1..(n - 1) : \E off \in Nat :
          Block(r, off, seqs[i]) /\ 1 \in (off + 1)..(off + Len(seqs[i]))
    BY <2>1 DEF Joined
  <2>3. Len(seqs[i]) = 0
    OBVIOUS
  <2> QED BY <2>2, <2>3
<1>5. \A i \in 1..n : \E off \in Nat :
        Block(q, off, seqs[i]) /\ ((\A j \in 1..(i - 1) : seqs[j] = <<>>) => off = 0)
  <2> TAKE i \in 1..n
  <2>1. CASE i = n
    BY <2>1, <1>1, <1>3, <1>4 DEF t
  <2>2. CASE i # n
    <3>1. i \in 1..(n - 1) /\ seqs[i] \in Seq(S)
      BY <2>2, <1>0
    <3>2. PICK off \in Nat : Block(r, off, seqs[i]) /\ ((\A j \in 1..(i - 1) : seqs[j] = <<>>) => off = 0)
      BY <3>1 DEF Joined
    <3> QED BY <3>1, <3>2, <1>2
  <2> QED BY <2>1, <2>2
<1>6. \A k \in 1..Len(q) : \E i \in 1..n, off \in Nat :
        Block(q, off, seqs[i]) /\ k \in (off + 1)..(off + Len(seqs[i]))
  <2> TAKE k \in 1..Len(q)
  <2>1. CASE k \in 1..Len(r)
    <3>1. PICK i \in 1..(n - 1), off \in Nat : Block(r, off, seqs[i]) /\ k \in (off + 1)..(off + Len(seqs[i]))
      BY <2>1 DEF Joined
    <3>2. i \in 1..n /\ seqs[i] \in Seq(S)
      BY <1>0
    <3> QED BY <3>1, <3>2, <1>2
  <2>2. CASE k \notin 1..Len(r)
    <3>1. k \in (Len(r) + 1)..(Len(r) + Len(t)) /\ n \in 1..n
      BY <2>2, <1>0, <1>1
    <3> QED BY <3>1, <1>1, <1>3 DEF t
  <2> QED BY <2>1, <2>2
<1> QED
  BY <1>5, <1>6 DEF Joined, q, t

FlatOf(seqs, m, f) == f = [i \in 1..m |-> Flat(seqs, f, i)]

LEMMA FlatExists == ASSUME NEW seqs PROVE \A m \in Nat : \E f : FlatOf(seqs, m, f)
<1> DEFINE S == {m \in Nat : \E f : FlatOf(seqs, m, f)}
<1>1. 0 \in S
  <2> DEFINE f == [i \in 1..0 |-> << >>]
  <2>1. f = [i \in 1..0 |-> Flat(seqs, f, i)]
    OBVIOUS
  <2>2. FlatOf(seqs, 0, f)
    BY <2>1 DEF FlatOf
  <2> QED BY <2>2
<1>2. ASSUME NEW m \in S PROVE m + 1 \in S
  <2>1. PICK f : FlatOf(seqs, m, f)
    OBVIOUS
  <2> DEFINE g == [i \in 1..(m + 1) |-> IF i = m + 1 THEN Flat(seqs, f, i) ELSE f[i]]
  <2>2. m \in Nat
    OBVIOUS
  <2>3. ASSUME NEW i \in 1..(m + 1) PROVE g[i] = Flat(seqs, g, i)
    <3>1. Flat(seqs, g, i) = Flat(seqs, f, i)
      <4>1. CASE i = 1
        BY <4>1 DEF Flat
      <4>2. CASE i # 1
        <5>1. i - 1 \in 1..(m + 1) /\ i - 1 # m + 1
          BY <4>2, <2>2
        <5> QED BY <5>1, <4>2 DEF Flat
      <4> QED BY <4>1, <4>2
    <3>2. CASE i = m + 1
      BY <3>1, <3>2
    <3>3. CASE i # m + 1
      <4>1. i \in 1..m
        BY <3>3, <2>2
      <4>2. f[i] = Flat(seqs, f, i)
        BY <4>1, <2>1 DEF FlatOf
      <4> QED BY <4>2, <3>1, <3>3
    <3> QED BY <3>2, <3>3
  <2>4. g = [i \in 1..(m + 1) |-> Flat(seqs, g, i)]
    BY <2>3
  <2>5. FlatOf(seqs, m + 1, g)
    BY <2>4 DEF FlatOf
  <2> QED BY <2>5, <2>2
<1> HIDE DEF S
<1>3. S = Nat
  BY <1>1, <1>2, Induction DEF S
<1> QED
  BY <1>3 DEF S

LEMMA FlatIs ==
  ASSUME NEW S, NEW seqs \in Seq(Seq(S))
  PROVE  FlattenSeq(seqs) \in Seq(S) /\ Joined(FlattenSeq(seqs), seqs, Len(seqs))
<1>1. CASE Len(seqs) = 0
  <2>1. FlattenSeq(seqs) = seqs
    BY <1>1 DEF FlattenSeq
  <2> QED BY <1>1, <2>1 DEF Joined
<1>2. CASE Len(seqs) # 0
  <2> DEFINE N == Len(seqs)
             f == CHOOSE g : FlatOf(seqs, N, g)
  <2>1. N \in Nat /\ N > 0 /\ \A i \in 1..N : seqs[i] \in Seq(S)
    BY <1>2
  <2>2. FlatOf(seqs, N, f)
    BY <2>1, FlatExists
  <2>3. FlattenSeq(seqs) = f[N]
    BY <1>2 DEF FlattenSeq, FlatOf, Flat
  <2> HIDE DEF f
  <2>4. \A i \in 1..N : f[i] = Flat(seqs, f, i)
    BY <2>2 DEF FlatOf
  <2> HIDE DEF N
  <2> DEFINE Of(n) == f[n] \in Seq(S) /\ Joined(f[n], seqs, n)
             I == {n \in Nat : n + 1 <= N => Of(n + 1)}
  <2>5. 0 \in I
    <3>1. f[1] = seqs[1] /\ 1 \in 1..N
      BY <2>1, <2>4 DEF Flat
    <3>2. Block(seqs[1], 0, seqs[1])
      BY <2>1 DEF Block
    <3>3. Joined(seqs[1], seqs, 1)
      <4>1. \A i \in 1..1 : i = 1
        OBVIOUS
      <4>2. 1 \in 1..1 /\ 0 \in Nat /\ Len(seqs[1]) \in Nat
        BY <2>1
      <4>3. \A k \in 1..Len(seqs[1]) : k \in (0 + 1)..(0 + Len(seqs[1]))
        BY <4>2
      <4> QED BY <3>2, <4>1, <4>2, <4>3 DEF Joined
    <3> QED BY <3>1, <3>3, <2>1
  <2>6. ASSUME NEW n \in I PROVE n + 1 \in I
    <3> SUFFICES ASSUME n + 2 <= N PROVE Of(n + 2)
      OBVIOUS
    <3>1. n \in Nat /\ Of(n + 1) /\ n + 2 \in 1..N /\ n + 2 > 1 /\ (n + 2) - 1 = n + 1
      BY <2>1
    <3>2. f[n + 2] = f[n + 1] \o seqs[n + 2]
      <4>1. f[n + 2] = Flat(seqs, f, n + 2)
        BY <3>1, <2>4
      <4>2. n + 2 # 1
        BY <3>1
      <4>3. Flat(seqs, f, n + 2) = f[(n + 2) - 1] \o seqs[n + 2]
        BY <4>2 DEF Flat
      <4> QED BY <4>1, <4>3, <3>1
    <3>3. f[n + 1] \in Seq(S) /\ Joined(f[n + 1], seqs, (n + 2) - 1)
      BY <3>1
    <3>4. f[n + 2] \in Seq(S)
      BY <3>1, <3>2, <3>3, <2>1
    <3>5. Joined(f[n + 1] \o seqs[n + 2], seqs, n + 2)
      BY <3>1, <3>3, JoinMore DEF N
    <3> QED BY <3>2, <3>4, <3>5
  <2> HIDE DEF I
  <2>7. I = Nat
    BY <2>5, <2>6, Induction DEF I
  <2>8. N - 1 \in Nat /\ (N - 1) + 1 = N
    BY <2>1
  <2>9. Of(N)
    BY <2>7, <2>8 DEF I
  <2> QED BY <2>9, <2>3 DEF N
<1> QED BY <1>1, <1>2

-----------------------------------------------------------------------------
(* Lists.                                                                   *)

LEMMA ListIs ==
  ASSUME NEW s, IsList(s)
  PROVE  /\ Len(s) \in Nat /\ DOMAIN s = 1..Len(s)
         /\ s = [i \in 1..Len(s) |-> s[i]]
         /\ \A x : x \in Range(s) <=> \E i \in 1..Len(s) : s[i] = x
BY DEF IsList, Range

LEMMA FunctionIsList ==
  ASSUME NEW n \in Nat, NEW g, g = [i \in 1..n |-> g[i]]
  PROVE  IsList(g) /\ g \o <<>> = g /\ Len(g) = n /\ DOMAIN g = 1..n
<1>1. g \in [1..n -> Range(g)]
  BY DEF Range
<1>2. g \in Seq(Range(g)) /\ Len(g) = n
  BY <1>1
<1>3. g \o <<>> = g
  BY <1>2
<1> QED BY <1>2, <1>3 DEF IsList

LEMMA NoElements == IsList(<<>>)
BY DEF IsList, Range

LEMMA TupleIsList == ASSUME NEW x PROVE IsList(<<x>>) /\ Range(<<x>>) = {x} /\ Len(<<x>>) = 1
BY DEF IsList, Range

LEMMA SeqIsList == ASSUME NEW S, NEW s \in Seq(S) PROVE IsList(s)
BY DEF IsList, Range

LEMMA PairIsList == ASSUME NEW x, NEW y PROVE IsList(<<x, y>>) /\ Len(<<x, y>>) = 2
BY DEF IsList, Range

(* The concatenation of two lists.                                          *)
LEMMA JoinLists ==
  ASSUME NEW s, IsList(s), NEW t, IsList(t)
  PROVE  /\ IsList(s \o t) /\ Len(s \o t) = Len(s) + Len(t)
         /\ Range(s \o t) = Range(s) \cup Range(t)
         /\ \A i \in 1..Len(s) : (s \o t)[i] = s[i]
         /\ \A i \in 1..Len(t) : (s \o t)[Len(s) + i] = t[i]
<1> DEFINE S == Range(s) \cup Range(t)
<1>1. s \in Seq(S) /\ t \in Seq(S) /\ Len(s) \in Nat /\ Len(t) \in Nat
  BY DEF IsList
<1>2. s \o t \in Seq(S) /\ Len(s \o t) = Len(s) + Len(t) /\ DOMAIN (s \o t) = 1..(Len(s) + Len(t))
      /\ (\A i \in 1..Len(s) : (s \o t)[i] = s[i])
      /\ (\A i \in 1..Len(t) : (s \o t)[Len(s) + i] = t[i])
  BY <1>1
<1>3. ASSUME NEW x \in S PROVE x \in Range(s \o t)
  <2>1. CASE x \in Range(s)
    <3>1. PICK i \in 1..Len(s) : s[i] = x
      BY <2>1, ListIs
    <3>2. i \in DOMAIN (s \o t)
      BY <1>1, <1>2
    <3> QED BY <3>1, <3>2, <1>2 DEF Range
  <2>2. CASE x \in Range(t)
    <3>1. PICK i \in 1..Len(t) : t[i] = x
      BY <2>2, ListIs
    <3>2. Len(s) + i \in DOMAIN (s \o t)
      BY <1>1, <1>2
    <3> QED BY <3>1, <3>2, <1>2 DEF Range
  <2> QED BY <2>1, <2>2
<1>4. ASSUME NEW k \in 1..(Len(s) + Len(t)) PROVE (s \o t)[k] \in S
  BY <1>2, <1>4
<1>5. Range(s \o t) = S
  BY <1>2, <1>3, <1>4 DEF Range
<1>6. IsList(s \o t)
  <2> HIDE DEF S
  <2> QED BY <1>5, <1>2 DEF IsList
<1> QED BY <1>2, <1>5, <1>6

(* A list of lists, joined: each is found in it as a block, and everything  *)
(* in it is found in one of them.                                           *)
LEMMA FlatList ==
  ASSUME NEW n \in Nat, NEW g, g = [i \in 1..n |-> g[i]], \A i \in 1..n : IsList(g[i])
  PROVE  /\ IsList(FlattenSeq(g \o <<>>))
         /\ Joined(FlattenSeq(g \o <<>>), g, n)
         /\ Range(FlattenSeq(g \o <<>>)) = UNION {Range(g[i]) : i \in 1..n}
<1> DEFINE S == UNION {Range(g[i]) : i \in 1..n}
           r == FlattenSeq(g)
<1>1. g \o <<>> = g /\ Len(g) = n
  BY FunctionIsList
<1>2. g \in Seq(Seq(S))
  <2>1. ASSUME NEW i \in 1..n PROVE g[i] \in Seq(S)
    <3>1. Range(g[i]) \subseteq S
      OBVIOUS
    <3>2. g[i] \in Seq(Range(g[i]))
      BY DEF IsList
    <3> HIDE DEF S
    <3> QED BY <3>1, <3>2
  <2> HIDE DEF S
  <2>2. g \in [1..n -> Seq(S)]
    BY <2>1
  <2> QED BY <2>2
<1>3. r \in Seq(S) /\ Joined(r, g, n)
  <2> HIDE DEF S
  <2> QED BY <1>1, <1>2, FlatIs
<1> HIDE DEF r
<1>4. Len(r) \in Nat /\ DOMAIN r = 1..Len(r)
  BY <1>3
<1>5. ASSUME NEW x \in S PROVE x \in Range(r)
  <2>1. PICK i \in 1..n : x \in Range(g[i])
    OBVIOUS
  <2>2. PICK j \in 1..Len(g[i]) : g[i][j] = x
    BY <2>1, ListIs
  <2>3. PICK off \in Nat : Block(r, off, g[i])
    BY <1>3 DEF Joined
  <2>4. Len(g[i]) \in Nat
    BY ListIs
  <2>5. off + j \in 1..Len(r) /\ r[off + j] = x
    BY <1>4, <2>2, <2>3, <2>4 DEF Block
  <2> QED BY <2>5, <1>4 DEF Range
<1>6. Range(r) \subseteq S
  <2> HIDE DEF S
  <2> QED BY <1>3, <1>4 DEF Range
<1>7. Range(r) = S
  BY <1>5, <1>6
<1>8. IsList(r)
  BY <1>3, <1>7 DEF IsList
<1> QED BY <1>1, <1>3, <1>7, <1>8 DEF r

(* What Select takes of a list: those it tests true of, the first of them   *)
(* first.                                                                   *)
Picked(s, C) == FlattenSeq([i \in DOMAIN s |-> IF i \in C THEN <<s[i]>> ELSE <<>>] \o <<>>)

LEMMA Selected ==
  ASSUME NEW s, IsList(s), NEW C, NEW r, r = Picked(s, C)
  PROVE  /\ IsList(r)
         /\ Range(r) = {s[i] : i \in {j \in DOMAIN s : j \in C}}
         /\ r # <<>> => \E i \in DOMAIN s :
              i \in C /\ r[1] = s[i] /\ \A j \in 1..(i - 1) : j \notin C
<1> DEFINE g == [i \in 1..Len(s) |-> IF i \in C THEN <<s[i]>> ELSE <<>>]
<1>1. Len(s) \in Nat /\ DOMAIN s = 1..Len(s)
  BY ListIs
<1>2. \A i \in 1..Len(s) : /\ IsList(g[i])
                           /\ i \in C => g[i] = <<s[i]>> /\ Range(g[i]) = {s[i]} /\ Len(g[i]) = 1
                           /\ i \notin C => g[i] = <<>> /\ Range(g[i]) = {} /\ Len(g[i]) = 0
  BY NoElements, TupleIsList DEF Range
<1>3. g = [i \in 1..Len(s) |-> g[i]] /\ r = FlattenSeq(g \o <<>>)
  BY <1>1 DEF Picked
<1> HIDE DEF g
<1>4. IsList(r) /\ Joined(r, g, Len(s)) /\ Range(r) = UNION {Range(g[i]) : i \in 1..Len(s)}
  <2>1. \A i \in 1..Len(s) : IsList(g[i])
    BY <1>2
  <2>2. g = [i \in 1..Len(s) |-> g[i]]
    BY <1>3
  <2>3. /\ IsList(FlattenSeq(g \o <<>>)) /\ Joined(FlattenSeq(g \o <<>>), g, Len(s))
        /\ Range(FlattenSeq(g \o <<>>)) = UNION {Range(g[i]) : i \in 1..Len(s)}
    BY <1>1, <2>1, <2>2, FlatList
  <2>4. r = FlattenSeq(g \o <<>>)
    BY <1>3
  <2> QED BY <2>3, <2>4, Zenon
<1>5. Range(r) = {s[i] : i \in {j \in DOMAIN s : j \in C}}
  <2>1. ASSUME NEW x \in Range(r) PROVE \E i \in 1..Len(s) : i \in C /\ x = s[i]
    <3>1. PICK i \in 1..Len(s) : x \in Range(g[i])
      BY <2>1, <1>4
    <3>2. i \in C /\ Range(g[i]) = {s[i]}
      BY <1>2, <3>1
    <3> QED BY <3>1, <3>2
  <2>2. ASSUME NEW i \in 1..Len(s), i \in C PROVE s[i] \in Range(r)
    BY <2>2, <1>2, <1>4
  <2> QED BY <2>1, <2>2, <1>1
<1>6. ASSUME r # <<>> PROVE \E i \in DOMAIN s : i \in C /\ r[1] = s[i] /\ \A j \in 1..(i - 1) : j \notin C
  <2>1. 1 \in 1..Len(r)
    BY <1>4, <1>6 DEF IsList
  <2>2. PICK k \in 1..Len(s), off \in Nat : Block(r, off, g[k]) /\ 1 \in (off + 1)..(off + Len(g[k]))
    BY <1>4, <2>1 DEF Joined
  <2>3. k \in C
    BY <1>2, <2>2
  <2> DEFINE T == {j \in 1..Len(s) : j \in C}
  <2>4. PICK i \in T : \A j \in T : i <= j
    <3>1. \E i \in T : \A j \in T : ~(j < i)
      <4>1. T \subseteq Nat /\ T # {}
        BY <2>3
      <4>2. PICK i \in T : \A j \in T : ~(<<j, i>> \in OpToRel(<, Nat))
        BY <4>1, NatLessThanWellFounded, WFMin
      <4>3. \A j \in T : j < i => <<j, i>> \in OpToRel(<, Nat)
        BY <4>1 DEF OpToRel
      <4> QED BY <4>2, <4>3
    <3> QED BY <3>1, <1>1
  <2>5. i \in 1..Len(s) /\ i \in C /\ \A j \in 1..(i - 1) : j \notin C
    BY <2>4, <1>1
  <2>6. \A j \in 1..(i - 1) : g[j] = <<>>
    BY <2>5, <1>1, <1>2
  <2>7. Block(r, 0, g[i])
    BY <2>5, <2>6, <1>4 DEF Joined
  <2>8. r[0 + 1] = g[i][1] /\ g[i][1] = s[i]
    BY <2>5, <2>7, <1>2 DEF Block
  <2>9. r[1] = s[i] /\ i \in DOMAIN s
    BY <2>5, <2>8, <1>1
  <2> QED BY <2>5, <2>9
<1> QED BY <1>4, <1>5, <1>6

-----------------------------------------------------------------------------
(* What a run is made of.                                                   *)

(* The files a run takes: unrecorded and readable ones, in their order.     *)
LEMMA Pendings ==
  ASSUME IsList(files), NEW a
  PROVE  /\ IsList(Pending(a))
         /\ Range(Pending(a)) = {f \in Range(files) : f.stem \notin ledger[a] /\ f.readable}
         /\ Pending(a) # <<>> => \E i \in DOMAIN files :
              /\ files[i].stem \notin ledger[a] /\ files[i].readable /\ Pending(a)[1] = files[i]
              /\ \A j \in 1..(i - 1) : ~(files[j].stem \notin ledger[a] /\ files[j].readable)
<1> DEFINE C == {i \in DOMAIN files : files[i].stem \notin ledger[a] /\ files[i].readable}
<1>1. Pending(a) = Picked(files, C)
  <2>1. [i \in DOMAIN files |-> IF i \in C THEN <<files[i]>> ELSE <<>>]
        = [i \in DOMAIN files |-> IF files[i].stem \notin ledger[a] /\ files[i].readable
                                  THEN <<files[i]>> ELSE <<>>]
    OBVIOUS
  <2> QED BY <2>1 DEF Pending, Select, Collect, MapTo, Picked
<1>2. \A i \in DOMAIN files : i \in C <=> files[i].stem \notin ledger[a] /\ files[i].readable
  OBVIOUS
<1> HIDE DEF C
<1> DEFINE r == Pending(a)
<1>3. /\ IsList(r)
      /\ Range(r) = {files[i] : i \in {j \in DOMAIN files : j \in C}}
      /\ r # <<>> => \E i \in DOMAIN files :
           i \in C /\ r[1] = files[i] /\ \A j \in 1..(i - 1) : j \notin C
  BY <1>1, Selected
<1>4. Range(r) = {f \in Range(files) : f.stem \notin ledger[a] /\ f.readable}
  BY <1>2, <1>3 DEF Range
<1>5. \A i \in DOMAIN files : \A j \in 1..(i - 1) : j \in DOMAIN files
  BY ListIs
<1> QED BY <1>2, <1>3, <1>4, <1>5

Gen(a, schema) == [backend |-> Backend[a], schema |-> schema]

LEMMA GenIs ==
  ASSUME NEW a \in Alias, NEW schema, NEW own
  PROVE  /\ In(Gen(a, schema), own).backend = Backend[a]
         /\ Backend[a] \in {PG, MY, LITE}
         /\ Backend[a] # PG => Qn(In(Gen(a, schema), own)) = ""
BY BackendAssumption DEF Gen, In, Qn, Alias

LEMMA BackendsDiffer == PG # MY /\ PG # LITE /\ MY # LITE
BY DEF PG, MY, LITE

(* What an altered column becomes is a list of statements.                  *)
LEMMA AlterIsList ==
  ASSUME NEW gen, gen.backend \in {PG, MY, LITE}, NEW table, NEW old, NEW new
  PROVE  IsList(AlterColumn(gen, table, old, new))
<1> DEFINE col == <<ColumnSql(new, gen.backend, FALSE)>>
           Set(part, differs) ==
             IF differs THEN <<Statement("alter_column", gen, table, col, part)>> ELSE <<>>
<1>1. ASSUME NEW part, NEW differs \in BOOLEAN PROVE IsList(Set(part, differs))
  BY TupleIsList, NoElements
<1> HIDE DEF Set
<1>2. IsList(Set("type", old.type # new.type)) /\ IsList(Set("null", old.null # new.null))
      /\ IsList(Set("default", old.default # new.default))
  BY <1>1
<1>3. IsList(Set("type", old.type # new.type) \o Set("null", old.null # new.null))
  BY <1>2, JoinLists
<1>4. IsList(Set("type", old.type # new.type) \o Set("null", old.null # new.null)
             \o Set("default", old.default # new.default))
  BY <1>2, <1>3, JoinLists
<1>5. CASE gen.backend = PG
  BY <1>4, <1>5, BackendsDiffer DEF AlterColumn, Set
<1>6. CASE gen.backend = MY
  BY <1>6, BackendsDiffer, TupleIsList DEF AlterColumn
<1>7. CASE gen.backend = LITE
  BY <1>7, BackendsDiffer, TupleIsList DEF AlterColumn
<1> QED BY <1>5, <1>6, <1>7

LEMMA SqlIsList ==
  ASSUME NEW a \in Alias, NEW schema, NEW own, NEW op, op.kind \in OperationKinds
  PROVE  IsList(OperationToSql(In(Gen(a, schema), own), op))
<1> DEFINE gen == In(Gen(a, schema), own)
<1>1. gen.backend \in {PG, MY, LITE}
  BY GenIs, Zenon
<1> HIDE DEF gen
<1>2. IsList(CreateSchema(gen, op.schema)) /\ IsList(AlterColumn(gen, op.table, op.columns[1], op.columns[2]))
  <2>1. IsList(AlterColumn(gen, op.table, op.columns[1], op.columns[2]))
    BY <1>1, AlterIsList
  <2>2. CASE gen.backend = PG /\ op.schema # ""
    <3> DEFINE s == [Statement("create_schema", gen, "", <<>>, "") EXCEPT !.schema = op.schema]
    <3>1. CreateSchema(gen, op.schema) = <<s>>
      BY <2>2 DEF CreateSchema
    <3> HIDE DEF s
    <3>2. IsList(<<s>>)
      BY TupleIsList
    <3> QED BY <2>1, <3>1, <3>2, Zenon
  <2>3. CASE ~(gen.backend = PG /\ op.schema # "")
    <3>1. CreateSchema(gen, op.schema) = <<>>
      BY <2>3 DEF CreateSchema
    <3> QED BY <2>1, <3>1, NoElements, Zenon
  <2> QED BY <2>1, <2>2, <2>3
<1>3. CASE op.kind = "CreateSchema"
  BY <1>2, <1>3 DEF OperationToSql, gen
<1>4. CASE op.kind = "AlterField"
  BY <1>2, <1>4 DEF OperationToSql, gen
<1>5. CASE op.kind \in {"CreateTable", "AddField", "RemoveField"}
  BY <1>5, TupleIsList DEF OperationToSql, gen
<1>6. CASE op.kind \in {"CreateIndex", "DeleteIndex", "RunSQL"}
  BY <1>6, TupleIsList DEF OperationToSql, gen
<1> QED BY <1>3, <1>4, <1>5, <1>6 DEF OperationKinds

-----------------------------------------------------------------------------
(* What a run does for one file.                                            *)

IsFile(f) ==
  /\ IsList(f.ops)
  /\ \A op \in Range(f.ops) :
       op.kind \in OperationKinds /\ IsList(op.columns) /\ (op.kind = "AddField" => DOMAIN op.columns = {1})

\* The operations of a file a run takes, and their statements.
Meant(f, a, relevant) == {op \in Range(f.ops) : relevant => Relevant(op, a)}
SqlOf(op, a, schema, relevant) == OperationToSql(In(Gen(a, schema), SchemaFor(op, relevant)), op)
Statements(f, a, schema, relevant) ==
  UNION {Range(SqlOf(op, a, schema, relevant)) : op \in Meant(f, a, relevant)}

\* The work on a file: the statements of its operations, then its record.
IsWork(r, f, a, schema, relevant) ==
  /\ IsList(r) /\ Len(r) >= 1 /\ r[Len(r)] = Note(f.stem)
  /\ \A k \in 1..(Len(r) - 1) : \E s \in Statements(f, a, schema, relevant) : r[k] = Sql(s, f.stem)
  /\ \A s \in Statements(f, a, schema, relevant) : \E k \in 1..(Len(r) - 1) : r[k] = Sql(s, f.stem)

Taken(f, a, relevant) == Select(f.ops, LAMBDA op : relevant => Relevant(op, a))

LEMMA MeantOps ==
  ASSUME NEW f, IsFile(f), NEW a, NEW relevant \in BOOLEAN
  PROVE  IsList(Taken(f, a, relevant)) /\ Range(Taken(f, a, relevant)) = Meant(f, a, relevant)
<1> DEFINE r == Taken(f, a, relevant)
<1> DEFINE C == {i \in DOMAIN f.ops : relevant => Relevant(f.ops[i], a)}
<1>1. r = Picked(f.ops, C)
  <2>1. [i \in DOMAIN f.ops |-> IF i \in C THEN <<f.ops[i]>> ELSE <<>>]
        = [i \in DOMAIN f.ops |-> IF relevant => Relevant(f.ops[i], a) THEN <<f.ops[i]>> ELSE <<>>]
    OBVIOUS
  <2> QED BY <2>1 DEF Taken, Select, Collect, MapTo, Picked
<1>2. \A i \in DOMAIN f.ops : i \in C <=> (relevant => Relevant(f.ops[i], a))
  OBVIOUS
<1> HIDE DEF C
<1>3. IsList(r) /\ Range(r) = {f.ops[i] : i \in {j \in DOMAIN f.ops : j \in C}}
  BY <1>1, Selected DEF IsFile
<1> QED BY <1>2, <1>3 DEF Meant, Range

LEMMA WorkIs ==
  ASSUME NEW f, IsFile(f), NEW a \in Alias, NEW schema, NEW relevant \in BOOLEAN
  PROVE  IsWork(FileItems(f, a, schema, relevant), f, a, schema, relevant)
<1> DEFINE ops == Taken(f, a, relevant)
           g == [i \in 1..Len(ops) |-> SqlOf(ops[i], a, schema, relevant)]
           sqls == FlattenSeq(g \o <<>>)
           items == [i \in 1..Len(sqls) |-> Sql(sqls[i], f.stem)]
<1>1. IsList(ops) /\ Range(ops) = Meant(f, a, relevant)
  BY MeantOps
<1>2. FileItems(f, a, schema, relevant)
      = MapTo(Collect(ops, LAMBDA op : SqlOf(op, a, schema, relevant)), LAMBDA s : Sql(s, f.stem))
        \o <<Note(f.stem)>>
  BY DEF FileItems, FileSql, SqlOf, Gen, Taken
<1> HIDE DEF ops
<1>3. Len(ops) \in Nat /\ DOMAIN ops = 1..Len(ops) /\ \A i \in 1..Len(ops) : ops[i] \in Meant(f, a, relevant)
  BY <1>1, ListIs DEF Range
<1>4. \A i \in 1..Len(ops) : IsList(g[i])
  BY <1>3, SqlIsList DEF Meant, IsFile, SqlOf
<1>5. Collect(ops, LAMBDA op : SqlOf(op, a, schema, relevant)) = sqls
  BY <1>3 DEF Collect, MapTo
<1>6. g = [i \in 1..Len(ops) |-> g[i]]
  OBVIOUS
<1>7. IsList(sqls) /\ Range(sqls) = UNION {Range(g[i]) : i \in 1..Len(ops)}
  <2> HIDE DEF g
  <2> QED BY <1>3, <1>4, <1>6, FlatList
<1>8. UNION {Range(g[i]) : i \in 1..Len(ops)} = Statements(f, a, schema, relevant)
  <2>1. ASSUME NEW x, NEW i \in 1..Len(ops), x \in Range(g[i]) PROVE x \in Statements(f, a, schema, relevant)
    BY <1>3, <2>1 DEF Statements
  <2>2. ASSUME NEW op \in Meant(f, a, relevant), NEW x \in Range(SqlOf(op, a, schema, relevant))
        PROVE  x \in UNION {Range(g[i]) : i \in 1..Len(ops)}
    <3>1. PICK i \in 1..Len(ops) : ops[i] = op
      BY <1>1, <1>3 DEF Range
    <3> QED BY <3>1
  <2> QED BY <2>1, <2>2 DEF Statements
<1> HIDE DEF sqls
<1>9. Len(sqls) \in Nat /\ DOMAIN sqls = 1..Len(sqls) /\ Range(sqls) = Statements(f, a, schema, relevant)
  BY <1>7, <1>8, ListIs
<1>10. items = [i \in 1..Len(sqls) |-> items[i]]
  OBVIOUS
<1>11. IsList(items) /\ items \o <<>> = items /\ Len(items) = Len(sqls) /\ DOMAIN items = 1..Len(sqls)
  <2> HIDE DEF items
  <2> QED BY <1>9, <1>10, FunctionIsList
<1>12. MapTo(sqls, LAMBDA s : Sql(s, f.stem)) = items
  BY <1>9, <1>11 DEF MapTo
<1>13. \A k \in 1..Len(sqls) : items[k] = Sql(sqls[k], f.stem) /\ sqls[k] \in Statements(f, a, schema, relevant)
  BY <1>9 DEF Range
<1>14. \A s \in Statements(f, a, schema, relevant) : \E k \in 1..Len(sqls) : items[k] = Sql(s, f.stem)
  BY <1>9 DEF Range
<1> HIDE DEF items
<1> DEFINE r == items \o <<Note(f.stem)>>
<1>15. /\ IsList(r) /\ Len(r) = Len(sqls) + 1
       /\ \A i \in 1..Len(sqls) : r[i] = items[i]
       /\ r[Len(sqls) + 1] = Note(f.stem)
  <2>1. IsList(<<Note(f.stem)>>) /\ Len(<<Note(f.stem)>>) = 1 /\ 1 \in 1..1 /\ <<Note(f.stem)>>[1] = Note(f.stem)
    BY TupleIsList
  <2> QED BY <2>1, <1>11, JoinLists
<1>16. FileItems(f, a, schema, relevant) = r
  BY <1>2, <1>5, <1>12
<1> HIDE DEF r
<1>17. IsWork(r, f, a, schema, relevant)
  BY <1>9, <1>13, <1>14, <1>15 DEF IsWork
<1> QED BY <1>16, <1>17

(* The work on all files a run takes: each piece of it is the work on one   *)
(* file, and up to the first record it is the work on the first file.       *)
LEMMA TodoIs ==
  ASSUME IsList(files), \A f \in Range(files) : IsFile(f), NEW a \in Alias, NEW schema
  PROVE  /\ IsList(FileTodo(a, schema))
         /\ \A k \in 1..Len(FileTodo(a, schema)) :
              \E f \in Range(Pending(a)), off \in Nat : \E w :
                /\ IsWork(w, f, a, schema, TRUE)
                /\ Block(FileTodo(a, schema), off, w)
                /\ k \in (off + 1)..(off + Len(w))
         /\ \A k \in 1..Len(FileTodo(a, schema)) :
              /\ Pending(a) # <<>>
              /\ (/\ \A j \in 1..(k - 1) : FileTodo(a, schema)[j].do # "record"
                  /\ FileTodo(a, schema)[k].do = "sql") =>
                    FileTodo(a, schema)[k].by = Pending(a)[1].stem
<1> DEFINE P == Pending(a)
           g == [i \in 1..Len(P) |-> FileItems(P[i], a, schema, TRUE)]
           r == FlattenSeq(g \o <<>>)
<1>1. IsList(P) /\ \A f \in Range(P) : f \in Range(files) /\ IsFile(f)
  BY Pendings
<1>2. FileTodo(a, schema) = Collect(P, LAMBDA f : FileItems(f, a, schema, TRUE))
  BY DEF FileTodo
<1> HIDE DEF P
<1>3. Len(P) \in Nat /\ DOMAIN P = 1..Len(P) /\ \A i \in 1..Len(P) : P[i] \in Range(P) /\ IsFile(P[i])
  BY <1>1, ListIs
<1>4. \A i \in 1..Len(P) : IsWork(g[i], P[i], a, schema, TRUE)
  BY <1>3, WorkIs
<1>5. FileTodo(a, schema) = r
  BY <1>2, <1>3 DEF Collect, MapTo
<1>6. g = [i \in 1..Len(P) |-> g[i]]
  OBVIOUS
<1> HIDE DEF g
<1>7. \A i \in 1..Len(P) : IsList(g[i]) /\ Len(g[i]) \in Nat /\ Len(g[i]) >= 1 /\ g[i] # <<>>
  <2> TAKE i \in 1..Len(P)
  <2>1. IsList(g[i]) /\ Len(g[i]) >= 1
    BY <1>4 DEF IsWork
  <2>2. Len(<<>>) = 0
    OBVIOUS
  <2> QED BY <2>1, <2>2, ListIs
<1>8. IsList(r) /\ Joined(r, g, Len(P))
  BY <1>3, <1>6, <1>7, FlatList
<1> HIDE DEF r
<1>9. Len(r) \in Nat
  BY <1>8, ListIs
<1>10. ASSUME NEW k \in 1..Len(r)
       PROVE  \E f \in Range(P), off \in Nat : \E w :
                IsWork(w, f, a, schema, TRUE) /\ Block(r, off, w) /\ k \in (off + 1)..(off + Len(w))
  <2>1. PICK i \in 1..Len(P), off \in Nat : Block(r, off, g[i]) /\ k \in (off + 1)..(off + Len(g[i]))
    BY <1>8 DEF Joined
  <2> QED BY <2>1, <1>3, <1>4
<1>11. ASSUME NEW k \in 1..Len(r), \A j \in 1..(k - 1) : r[j].do # "record", r[k].do = "sql"
       PROVE  r[k].by = P[1].stem
  <2>1. 1 \in 1..Len(P)
    <3>1. PICK i \in 1..Len(P), off \in Nat : k \in (off + 1)..(off + Len(g[i]))
      BY <1>8 DEF Joined
    <3> QED BY <3>1, <1>3
  <2>2. Block(r, 0, g[1])
    <3>1. \A j \in 1..(1 - 1) : g[j] = <<>>
      OBVIOUS
    <3> QED BY <1>8, <2>1, <3>1 DEF Joined
  <2> DEFINE w == g[1]
             L == Len(w)
  <2>3. IsWork(w, P[1], a, schema, TRUE) /\ L \in Nat /\ L >= 1
    BY <1>4, <1>7, <2>1
  <2> HIDE DEF w
  <2>4. \A j \in 1..L : r[j] = w[j]
    <3>1. \A j \in 1..L : r[0 + j] = w[j]
      BY <2>2 DEF Block, w
    <3> QED BY <3>1, <2>3
  <2>5. r[L] = Note(P[1].stem) /\ r[L].do = "record"
    BY <2>3, <2>4 DEF IsWork, Note
  <2>6. k \in 1..(L - 1)
    <3>1. k # L
      BY <2>5, <1>11
    <3>2. ~(L < k)
      <4>1. L < k => L \in 1..(k - 1)
        BY <2>3, <1>9
      <4> QED BY <4>1, <2>5, <1>11
    <3> QED BY <3>1, <3>2, <2>3, <1>9
  <2>7. PICK s \in Statements(P[1], a, schema, TRUE) : w[k] = Sql(s, P[1].stem)
    BY <2>3, <2>6 DEF IsWork
  <2> QED BY <2>3, <2>4, <2>6, <2>7 DEF Sql
<1>12. \A k \in 1..Len(r) : P # <<>>
  <2> SUFFICES ASSUME NEW k \in 1..Len(r) PROVE P # <<>>
    OBVIOUS
  <2>1. PICK i \in 1..Len(P) : TRUE
    BY <1>8 DEF Joined
  <2>2. Len(<<>>) = 0
    OBVIOUS
  <2> QED BY <1>3, <2>1, <2>2
<1> QED
  <2>1. FileTodo(a, schema) = r /\ Pending(a) = P
    BY <1>5 DEF P
  <2> QED BY <2>1, <1>8, <1>10, <1>11, <1>12

-----------------------------------------------------------------------------
(* What makemigrations writes.                                              *)

LEMMA MapIsList ==
  ASSUME NEW s, IsList(s), NEW g, g = [i \in DOMAIN s |-> g[i]]
  PROVE  /\ IsList(g \o <<>>) /\ Len(g \o <<>>) = Len(s)
         /\ \A i \in 1..Len(s) : (g \o <<>>)[i] = g[i]
BY ListIs, FunctionIsList

LEMMA OfKindIsList ==
  ASSUME NEW changes, IsList(changes), NEW kind
  PROVE  IsList(OfKind(changes, kind))
<1> DEFINE C == {i \in DOMAIN changes : changes[i].kind = kind}
<1>1. OfKind(changes, kind) = Picked(changes, C)
  <2>1. [i \in DOMAIN changes |-> IF i \in C THEN <<changes[i]>> ELSE <<>>]
        = [i \in DOMAIN changes |-> IF changes[i].kind = kind THEN <<changes[i]>> ELSE <<>>]
    OBVIOUS
  <2> QED BY <2>1 DEF OfKind, Select, Collect, MapTo, Picked
<1> QED BY <1>1, Selected

LEMMA ColumnsForIsList ==
  ASSUME NEW changes, IsList(changes), NEW table
  PROVE  IsList(ColumnsFor(changes, table))
<1> DEFINE adds == OfKind(changes, "AddColumn")
           own == Select(adds, LAMBDA c : c.table = table)
           C == {i \in DOMAIN adds : adds[i].table = table}
<1>1. IsList(adds)
  BY OfKindIsList
<1>2. ColumnsFor(changes, table) = MapTo(own, LAMBDA c : c.column)
  BY DEF ColumnsFor
<1> HIDE DEF adds
<1>3. own = Picked(adds, C)
  <2>1. [i \in DOMAIN adds |-> IF i \in C THEN <<adds[i]>> ELSE <<>>]
        = [i \in DOMAIN adds |-> IF adds[i].table = table THEN <<adds[i]>> ELSE <<>>]
    OBVIOUS
  <2> QED BY <2>1 DEF Select, Collect, MapTo, Picked
<1> HIDE DEF own
<1>4. IsList(own)
  BY <1>1, <1>3, Selected
<1>5. IsList(MapTo(own, LAMBDA c : c.column))
  BY <1>4, MapIsList DEF MapTo
<1> QED BY <1>2, <1>5

LEMMA PlainAddsIsList ==
  ASSUME NEW changes, IsList(changes)
  PROVE  IsList(PlainAdds(changes))
<1> DEFINE adds == OfKind(changes, "AddColumn")
           fresh == NewTables(changes)
           C == {i \in DOMAIN adds : adds[i].table \notin fresh}
<1>1. IsList(adds)
  BY OfKindIsList
<1>2. PlainAdds(changes) = Select(adds, LAMBDA c : c.table \notin fresh)
  BY DEF PlainAdds
<1> HIDE DEF adds, fresh
<1>3. Select(adds, LAMBDA c : c.table \notin fresh) = Picked(adds, C)
  <2>1. [i \in DOMAIN adds |-> IF i \in C THEN <<adds[i]>> ELSE <<>>]
        = [i \in DOMAIN adds |-> IF adds[i].table \notin fresh THEN <<adds[i]>> ELSE <<>>]
    OBVIOUS
  <2> QED BY <2>1 DEF Select, Collect, MapTo, Picked
<1> QED BY <1>1, <1>2, <1>3, Selected

(* Names enough for the schemas of a state.                                 *)
LEMMA SchemasAreList ==
  ASSUME NEW target, IsList(target), NEW S \in SUBSET SchemasOf(target)
  PROVE  IsList(SetToSeq(S))
<1> DEFINE n == Len(target)
           f == [i \in 1..n |-> target[i].schema]
<1>1. n \in Nat /\ DOMAIN target = 1..n
  BY ListIs
<1>2. f \in Surjection(1..n, SchemasOf(target))
  BY <1>1 DEF Surjection, SchemasOf
<1>3. IsFiniteSet(1..n)
  BY <1>1, FS_Interval
<1>4. IsFiniteSet(S)
  BY <1>2, <1>3, FS_Surjection, FS_Subset
<1>5. Cardinality(S) \in Nat /\ ExistsBijection(1..Cardinality(S), S)
  BY <1>4, FS_CardinalityType
<1>6. \E g \in [1..Cardinality(S) -> S] : IsInjective(g)
  BY <1>5 DEF ExistsBijection, Bijection, Injection
<1>7. SetToSeq(S) \in [1..Cardinality(S) -> S]
  BY <1>6 DEF SetToSeq
<1>8. SetToSeq(S) = [i \in 1..Cardinality(S) |-> SetToSeq(S)[i]]
  BY <1>7
<1> QED BY <1>5, <1>8, FunctionIsList

\* The tables of a target have lists of columns.
IsTarget(target) == IsList(target) /\ \A t \in Range(target) : IsList(t.columns)

LEMMA PickedTarget ==
  ASSUME NEW target, IsTarget(target), NEW C
  PROVE  IsTarget(Picked(target, C))
<1>1. IsList(Picked(target, C)) /\ Range(Picked(target, C)) = {target[i] : i \in {j \in DOMAIN target : j \in C}}
  BY Selected DEF IsTarget
<1> QED BY <1>1 DEF IsTarget, Range

\* The parts of DiffStates by name.
Adds(t, cols) == MapTo(cols, LAMBDA c : Change("AddColumn", t, c, NoColumn))
Missing(current, t) == Select(t.columns, LAMBDA c : ~HasColumn(Find(current, t), c.name))
Altered(current, t) ==
  Select(t.columns, LAMBDA c : /\ HasColumn(Find(current, t), c.name)
                               /\ ColumnOf(Find(current, t), c.name) # c)
Alters(current, t) ==
  MapTo(Altered(current, t), LAMBDA c : Change("AlterColumn", t, c, ColumnOf(Find(current, t), c.name)))

LEMMA AddsAreList ==
  ASSUME NEW t, NEW cols, IsList(cols)
  PROVE  IsList(Adds(t, cols))
BY MapIsList DEF MapTo, Adds

LEMMA MissingIsList ==
  ASSUME NEW current, NEW t, IsList(t.columns)
  PROVE  IsList(Missing(current, t))
<1> DEFINE cols == t.columns
           C == {i \in DOMAIN cols : ~HasColumn(Find(current, t), cols[i].name)}
<1>1. Missing(current, t) = Picked(cols, C)
  <2>1. [i \in DOMAIN cols |-> IF i \in C THEN <<cols[i]>> ELSE <<>>]
        = [i \in DOMAIN cols |-> IF ~HasColumn(Find(current, t), cols[i].name) THEN <<cols[i]>> ELSE <<>>]
    OBVIOUS
  <2> QED BY <2>1 DEF Missing, Select, Collect, MapTo, Picked
<1>2. IsList(cols)
  OBVIOUS
<1> HIDE DEF C, cols
<1>3. IsList(Picked(cols, C))
  BY <1>2, Selected
<1> QED BY <1>1, <1>3

LEMMA AlteredIsList ==
  ASSUME NEW current, NEW t, IsList(t.columns)
  PROVE  IsList(Altered(current, t)) /\ IsList(Alters(current, t))
<1> DEFINE cols == t.columns
           old == Find(current, t)
           C == {i \in DOMAIN cols : HasColumn(old, cols[i].name) /\ ColumnOf(old, cols[i].name) # cols[i]}
<1>1. Altered(current, t) = Picked(cols, C)
  <2>1. [i \in DOMAIN cols |-> IF i \in C THEN <<cols[i]>> ELSE <<>>]
        = [i \in DOMAIN cols |->
             IF HasColumn(old, cols[i].name) /\ ColumnOf(old, cols[i].name) # cols[i]
             THEN <<cols[i]>> ELSE <<>>]
    OBVIOUS
  <2> QED BY <2>1 DEF Altered, Select, Collect, MapTo, Picked
<1>2. IsList(cols)
  OBVIOUS
<1> HIDE DEF C, cols
<1>3. IsList(Altered(current, t))
  BY <1>1, <1>2, Selected
<1>4. IsList(Alters(current, t))
  BY <1>3, MapIsList DEF MapTo, Alters
<1> QED BY <1>3, <1>4

(* The difference of two states is a list of changes.                       *)
LEMMA DiffIsList ==
  ASSUME NEW current, NEW target, IsTarget(target)
  PROVE  IsList(DiffStates(current, target))
<1> DEFINE new     == Select(target, LAMBDA t : ~Knows(current, t))
           known   == Select(target, LAMBDA t : Knows(current, t))
           schemas == SetToSeq(SchemasOf(target) \ (SchemasOf(current) \cup {""}))
           g1 == [i \in DOMAIN new |-> Adds(new[i], new[i].columns)]
           g2 == [i \in DOMAIN known |-> Adds(known[i], Missing(current, known[i]))]
           g3 == [i \in DOMAIN known |-> Alters(current, known[i])]
           p1 == MapTo(schemas, LAMBDA s : Change("CreateSchema", [name |-> "", schema |-> s], NoColumn, NoColumn))
           p2 == MapTo(new, LAMBDA t : Change("CreateTable", t, NoColumn, NoColumn))
<1>1. IsTarget(new)
  <2> DEFINE C == {i \in DOMAIN target : ~Knows(current, target[i])}
  <2>1. new = Picked(target, C)
    <3>1. [i \in DOMAIN target |-> IF i \in C THEN <<target[i]>> ELSE <<>>]
          = [i \in DOMAIN target |-> IF ~Knows(current, target[i]) THEN <<target[i]>> ELSE <<>>]
      OBVIOUS
    <3> QED BY <3>1 DEF Select, Collect, MapTo, Picked
  <2> HIDE DEF C, new
  <2> QED BY <2>1, PickedTarget
<1>2. IsTarget(known)
  <2> DEFINE C == {i \in DOMAIN target : Knows(current, target[i])}
  <2>1. known = Picked(target, C)
    <3>1. [i \in DOMAIN target |-> IF i \in C THEN <<target[i]>> ELSE <<>>]
          = [i \in DOMAIN target |-> IF Knows(current, target[i]) THEN <<target[i]>> ELSE <<>>]
      OBVIOUS
    <3> QED BY <3>1 DEF Select, Collect, MapTo, Picked
  <2> HIDE DEF C, known
  <2> QED BY <2>1, PickedTarget
<1>3. IsList(schemas)
  BY SchemasAreList DEF IsTarget
<1> HIDE DEF schemas, new, known
<1>4. IsList(p1)
  BY <1>3, MapIsList DEF MapTo
<1>5. IsList(p2)
  BY <1>1, MapIsList DEF MapTo, IsTarget
<1>6. \A i \in DOMAIN new : IsList(g1[i])
  BY <1>1, AddsAreList DEF IsTarget, Range
<1>7. \A i \in DOMAIN known : IsList(g2[i])
  <2> TAKE i \in DOMAIN known
  <2>1. IsList(known[i].columns)
    BY <1>2 DEF IsTarget, Range
  <2>2. IsList(Missing(current, known[i]))
    BY <2>1, MissingIsList
  <2> QED BY <2>2, AddsAreList
<1>8. \A i \in DOMAIN known : IsList(g3[i])
  <2> TAKE i \in DOMAIN known
  <2>1. IsList(known[i].columns)
    BY <1>2 DEF IsTarget, Range
  <2> QED BY <2>1, AlteredIsList
<1>9. g1 = [i \in DOMAIN new |-> g1[i]] /\ g2 = [i \in DOMAIN known |-> g2[i]] /\ g3 = [i \in DOMAIN known |-> g3[i]]
  OBVIOUS
<1>10. DiffStates(current, target)
       = p1 \o p2 \o FlattenSeq(g1 \o <<>>) \o FlattenSeq(g2 \o <<>>) \o FlattenSeq(g3 \o <<>>)
  BY DEF DiffStates, Collect, MapTo, Adds, Missing, Altered, Alters, new, known, schemas
<1>11. DOMAIN new = 1..Len(new) /\ Len(new) \in Nat /\ DOMAIN known = 1..Len(known) /\ Len(known) \in Nat
  BY <1>1, <1>2, ListIs DEF IsTarget
<1> HIDE DEF g1, g2, g3, p1, p2
<1>12. IsList(FlattenSeq(g1 \o <<>>)) /\ IsList(FlattenSeq(g2 \o <<>>)) /\ IsList(FlattenSeq(g3 \o <<>>))
  BY <1>6, <1>7, <1>8, <1>9, <1>11, FlatList
<1> DEFINE f1 == FlattenSeq(g1 \o <<>>)
           f2 == FlattenSeq(g2 \o <<>>)
           f3 == FlattenSeq(g3 \o <<>>)
<1>13. IsList(f1) /\ IsList(f2) /\ IsList(f3) /\ DiffStates(current, target) = p1 \o p2 \o f1 \o f2 \o f3
  BY <1>10, <1>12
<1> HIDE DEF f1, f2, f3
<1>14. IsList(p1 \o p2)
  BY <1>4, <1>5, JoinLists
<1>15. IsList(p1 \o p2 \o f1)
  BY <1>13, <1>14, JoinLists
<1>16. IsList(p1 \o p2 \o f1 \o f2)
  BY <1>13, <1>15, JoinLists
<1>17. IsList(p1 \o p2 \o f1 \o f2 \o f3)
  BY <1>13, <1>16, JoinLists
<1> QED BY <1>13, <1>17

(* The operations of a change list: each is of a kind there is, a column    *)
(* added comes alone, and a new table has the columns for its name.         *)
Ops(changes, entries) == ChangesToOperations(changes, entries)

LEMMA OpsAre ==
  ASSUME NEW changes, IsList(changes), NEW entries
  PROVE  /\ IsList(Ops(changes, entries))
         /\ \A op \in Range(Ops(changes, entries)) :
              /\ op.kind \in OperationKinds
              /\ IsList(op.columns)
              /\ op.kind = "AddField" => DOMAIN op.columns = {1}
              /\ op.kind = "CreateTable" => op.columns = ColumnsFor(changes, op.table)
              /\ op.kind = "AlterField" => \E i : i \in DOMAIN OfKind(changes, "AlterColumn")
<1> DEFINE Of(table) == DatabaseOf(entries, table)
           s1 == OfKind(changes, "CreateSchema")
           s2 == OfKind(changes, "CreateTable")
           s3 == PlainAdds(changes)
           s4 == OfKind(changes, "AlterColumn")
           g1 == [i \in DOMAIN s1 |-> Operation("CreateSchema", "", s1[i].schema, <<>>, "")]
           g2 == [i \in DOMAIN s2 |-> Operation("CreateTable", s2[i].table, s2[i].schema,
                                                ColumnsFor(changes, s2[i].table), Of(s2[i].table))]
           g3 == [i \in DOMAIN s3 |-> Operation("AddField", s3[i].table, s3[i].schema,
                                                <<s3[i].column>>, Of(s3[i].table))]
           g4 == [i \in DOMAIN s4 |-> Operation("AlterField", s4[i].table, s4[i].schema,
                                                <<s4[i].old, s4[i].column>>, Of(s4[i].table))]
           q1 == g1 \o <<>>
           q2 == g2 \o <<>>
           q3 == g3 \o <<>>
           q4 == g4 \o <<>>
<1>1. IsList(s1) /\ IsList(s2) /\ IsList(s3) /\ IsList(s4) /\ \A x : IsList(ColumnsFor(changes, x))
  BY OfKindIsList, PlainAddsIsList, ColumnsForIsList
<1>2. Ops(changes, entries) = q1 \o q2 \o q3 \o q4
  BY DEF Ops, ChangesToOperations, MapTo
<1> HIDE DEF s1, s2, s3, s4, Of
<1>3. /\ \A i \in DOMAIN s1 : g1[i].kind = "CreateSchema" /\ IsList(g1[i].columns)
      /\ \A i \in DOMAIN s2 : /\ g2[i].kind = "CreateTable" /\ IsList(g2[i].columns)
                              /\ g2[i].columns = ColumnsFor(changes, g2[i].table)
      /\ \A i \in DOMAIN s3 : g3[i].kind = "AddField" /\ DOMAIN g3[i].columns = {1} /\ IsList(g3[i].columns)
      /\ \A i \in DOMAIN s4 : g4[i].kind = "AlterField" /\ IsList(g4[i].columns)
  <2>1. \A x : DOMAIN <<x>> = {1} /\ IsList(<<x>>)
    <3>1. \A x : DOMAIN <<x>> = {1}
      OBVIOUS
    <3> QED BY <3>1, TupleIsList, Zenon
  <2>2. \A kind, table, schema, columns, database :
          /\ Operation(kind, table, schema, columns, database).kind = kind
          /\ Operation(kind, table, schema, columns, database).table = table
          /\ Operation(kind, table, schema, columns, database).columns = columns
    BY DEF Operation
  <2>3. IsList(<<>>) /\ \A x, y : IsList(<<x, y>>)
    BY NoElements, PairIsList
  <2>4. /\ \A i \in DOMAIN s1 : g1[i].kind = "CreateSchema" /\ g1[i].columns = <<>>
        /\ \A i \in DOMAIN s2 : /\ g2[i].kind = "CreateTable"
                                /\ g2[i].columns = ColumnsFor(changes, g2[i].table)
        /\ \A i \in DOMAIN s3 : g3[i].kind = "AddField" /\ g3[i].columns = <<s3[i].column>>
        /\ \A i \in DOMAIN s4 : g4[i].kind = "AlterField" /\ g4[i].columns = <<s4[i].old, s4[i].column>>
    <3>1. \A i \in DOMAIN s1 : g1[i].kind = "CreateSchema" /\ g1[i].columns = <<>>
      <4>1. \A i \in DOMAIN s1 : \E t, x, d : g1[i] = Operation("CreateSchema", t, x, <<>>, d)
        BY Zenon
      <4> HIDE DEF g1
      <4> QED BY <2>2, <4>1
    <3>2. \A i \in DOMAIN s2 : g2[i].kind = "CreateTable" /\ g2[i].columns = ColumnsFor(changes, g2[i].table)
      BY <2>2
    <3>3. \A i \in DOMAIN s3 : g3[i].kind = "AddField" /\ g3[i].columns = <<s3[i].column>>
      BY <2>2
    <3>4. \A i \in DOMAIN s4 : g4[i].kind = "AlterField" /\ g4[i].columns = <<s4[i].old, s4[i].column>>
      BY <2>2
    <3> QED BY <3>1, <3>2, <3>3, <3>4, Zenon
  <2> HIDE DEF g1, g2, g3, g4
  <2>5. \A i \in DOMAIN s1 : g1[i].kind = "CreateSchema" /\ IsList(g1[i].columns)
    BY <2>3, <2>4, Zenon
  <2>6. \A i \in DOMAIN s2 : /\ g2[i].kind = "CreateTable" /\ IsList(g2[i].columns)
                             /\ g2[i].columns = ColumnsFor(changes, g2[i].table)
    <3>1. \A x : IsList(ColumnsFor(changes, x))
      BY <1>1
    <3> QED BY <3>1, <2>4, Zenon
  <2>7. \A i \in DOMAIN s3 : g3[i].kind = "AddField" /\ DOMAIN g3[i].columns = {1} /\ IsList(g3[i].columns)
    <3> TAKE i \in DOMAIN s3
    <3>1. g3[i].kind = "AddField" /\ g3[i].columns = <<s3[i].column>>
      BY <2>4, Zenon
    <3>2. DOMAIN <<s3[i].column>> = {1} /\ IsList(<<s3[i].column>>)
      BY <2>1, Zenon
    <3> QED BY <3>1, <3>2, Zenon
  <2>8. \A i \in DOMAIN s4 : g4[i].kind = "AlterField" /\ IsList(g4[i].columns)
    <3>1. \A x, y : IsList(<<x, y>>)
      BY <2>3
    <3>2. \A i \in DOMAIN s4 : g4[i].kind = "AlterField" /\ g4[i].columns = <<s4[i].old, s4[i].column>>
      BY <2>4
    <3> QED BY <3>1, <3>2, Zenon
  <2> QED BY <2>5, <2>6, <2>7, <2>8, Zenon
<1>4. /\ g1 = [i \in DOMAIN s1 |-> g1[i]] /\ g2 = [i \in DOMAIN s2 |-> g2[i]]
      /\ g3 = [i \in DOMAIN s3 |-> g3[i]] /\ g4 = [i \in DOMAIN s4 |-> g4[i]]
  OBVIOUS
<1> HIDE DEF g1, g2, g3, g4
<1>5. /\ IsList(q1) /\ IsList(q2) /\ IsList(q3) /\ IsList(q4)
      /\ \A x \in Range(q1) : \E i \in DOMAIN s1 : x = g1[i]
      /\ \A x \in Range(q2) : \E i \in DOMAIN s2 : x = g2[i]
      /\ \A x \in Range(q3) : \E i \in DOMAIN s3 : x = g3[i]
      /\ \A x \in Range(q4) : \E i \in DOMAIN s4 : x = g4[i]
  <2>1. ASSUME NEW s, IsList(s), NEW g, g = [i \in DOMAIN s |-> g[i]]
        PROVE  IsList(g \o <<>>) /\ \A x \in Range(g \o <<>>) : \E i \in DOMAIN s : x = g[i]
    <3>1. /\ IsList(g \o <<>>) /\ Len(g \o <<>>) = Len(s)
          /\ \A i \in 1..Len(s) : (g \o <<>>)[i] = g[i]
      BY <2>1, MapIsList
    <3>2. DOMAIN s = 1..Len(s)
      BY <2>1, ListIs
    <3>3. \A x \in Range(g \o <<>>) : \E i \in 1..Len(s) : (g \o <<>>)[i] = x
      BY <3>1, ListIs
    <3> QED BY <3>1, <3>2, <3>3
  <2> QED BY <1>1, <1>4, <2>1
<1> HIDE DEF q1, q2, q3, q4
<1>6. IsList(q1 \o q2) /\ Range(q1 \o q2) = Range(q1) \cup Range(q2)
  BY <1>5, JoinLists
<1>7. IsList(q1 \o q2 \o q3) /\ Range(q1 \o q2 \o q3) = Range(q1) \cup Range(q2) \cup Range(q3)
  BY <1>5, <1>6, JoinLists
<1>8. /\ IsList(q1 \o q2 \o q3 \o q4)
      /\ Range(q1 \o q2 \o q3 \o q4) = Range(q1) \cup Range(q2) \cup Range(q3) \cup Range(q4)
  BY <1>5, <1>7, JoinLists
<1>9. ASSUME NEW op \in Range(Ops(changes, entries))
      PROVE  /\ op.kind \in OperationKinds
             /\ IsList(op.columns)
             /\ op.kind = "AddField" => DOMAIN op.columns = {1}
             /\ op.kind = "CreateTable" => op.columns = ColumnsFor(changes, op.table)
             /\ op.kind = "AlterField" => \E i : i \in DOMAIN s4
  <2>1. CASE op \in Range(q1)
    BY <2>1, <1>3, <1>5 DEF OperationKinds
  <2>2. CASE op \in Range(q2)
    BY <2>2, <1>3, <1>5 DEF OperationKinds
  <2>3. CASE op \in Range(q3)
    BY <2>3, <1>3, <1>5 DEF OperationKinds
  <2>4. CASE op \in Range(q4)
    BY <2>4, <1>3, <1>5 DEF OperationKinds
  <2> QED BY <1>2, <1>8, <2>1, <2>2, <2>3, <2>4
<1> QED BY <1>2, <1>8, <1>9 DEF s4

(* A written file.                                                          *)
IsEntry(e) ==
  /\ e = [table |-> e.table, database |-> e.database, schema |-> e.schema, columns |-> e.columns]
  /\ IsList(e.columns)
AreEntries(entries) == IsList(entries) /\ \A e \in Range(entries) : IsEntry(e)

LEMMA TargetIs ==
  ASSUME NEW entries, AreEntries(entries)
  PROVE  IsTarget(BuildTarget(entries))
<1> DEFINE g == [i \in DOMAIN entries |->
                   [name |-> entries[i].table, schema |-> entries[i].schema, columns |-> entries[i].columns]]
<1>1. BuildTarget(entries) = g \o <<>>
  BY DEF BuildTarget, MapTo
<1>2. g = [i \in DOMAIN entries |-> g[i]] /\ \A i \in DOMAIN entries : g[i].columns = entries[i].columns
  OBVIOUS
<1> HIDE DEF g
<1>3. IsList(entries) /\ \A i \in 1..Len(entries) : IsList(entries[i].columns) /\ i \in DOMAIN entries
  BY ListIs DEF AreEntries, IsEntry, Range
<1>4. IsList(g \o <<>>) /\ Len(g \o <<>>) = Len(entries) /\ \A i \in 1..Len(entries) : (g \o <<>>)[i] = g[i]
  BY <1>2, <1>3, MapIsList
<1>5. \A t \in Range(g \o <<>>) : \E i \in 1..Len(entries) : t = g[i]
  BY <1>4, ListIs
<1>6. \A t \in Range(g \o <<>>) : IsList(t.columns)
  BY <1>2, <1>3, <1>5
<1> QED BY <1>1, <1>4, <1>6 DEF IsTarget

Placed(e, schema) == IF e.schema = "" THEN [e EXCEPT !.schema = schema] ELSE e

LEMMA PlacedIsEntry ==
  ASSUME NEW e, IsEntry(e), NEW schema
  PROVE  IsEntry(Placed(e, schema))
<1>1. [e EXCEPT !.schema = schema]
        = [table |-> e.table, database |-> e.database, schema |-> schema, columns |-> e.columns]
  BY DEF IsEntry
<1>2. IsEntry([table |-> e.table, database |-> e.database, schema |-> schema, columns |-> e.columns])
  BY DEF IsEntry
<1>3. IsEntry([e EXCEPT !.schema = schema])
  BY <1>1, <1>2, Zenon
<1> QED BY <1>3, Zenon DEF Placed

LEMMA CapturedAre ==
  ASSUME AreEntries(Entries), NEW schema
  PROVE  AreEntries(Captured(schema))
<1> DEFINE E == Entries
           g == [i \in DOMAIN E |-> Placed(E[i], schema)]
<1>1. Captured(schema) = g \o <<>>
  BY Zenon DEF Captured, MapTo, Placed
<1>2. IsList(E) /\ \A i \in 1..Len(E) : IsEntry(E[i]) /\ i \in DOMAIN E
  BY ListIs DEF AreEntries, Range
<1> HIDE DEF E
<1>3. g = [i \in DOMAIN E |-> g[i]]
  OBVIOUS
<1>4. \A i \in 1..Len(E) : IsEntry(g[i])
  BY <1>2, PlacedIsEntry
<1> HIDE DEF g
<1>5. IsList(g \o <<>>) /\ Len(g \o <<>>) = Len(E) /\ \A i \in 1..Len(E) : (g \o <<>>)[i] = g[i]
  BY <1>2, <1>3, MapIsList
<1>6. \A e \in Range(g \o <<>>) : \E i \in 1..Len(E) : e = g[i]
  BY <1>5, ListIs
<1> QED BY <1>1, <1>4, <1>5, <1>6 DEF AreEntries

-----------------------------------------------------------------------------
(* What is on disk, in the databases and under way.                         *)

\* Files there can be: no stem is the mark of a live run.
AreFiles(fs) == IsList(fs) /\ \A f \in Range(fs) : IsFile(f) /\ f.stem # <<"live">>

NewFile(fs, ops) == MigrationFile(<<NextNumber(fs)>> \o SlugOf(ops), ops, TRUE)

\* The columns of a new table are the same wherever the file creates it.
SameShape(f) ==
  \A o1, o2 \in Range(f.ops) :
    o1.kind = "CreateTable" /\ o2.kind = "CreateTable" /\ o1.table = o2.table => o1.columns = o2.columns

(* A file that is written is such a file.                                   *)
LEMMA StemIsNotLive ==
  ASSUME NEW n, NEW ops
  PROVE  <<n>> \o SlugOf(ops) # <<"live">>
<1> DEFINE last == ops[1].columns[Len(ops[1].columns)].name
           kind == ops[1].kind
           table == ops[1].table
           named == kind \in {"AddField", "AlterField", "RemoveField"}
<1>1. SlugOf(ops) = <<kind, table>> \o IF named THEN <<last>> ELSE <<>>
  BY Zenon DEF SlugOf
<1> HIDE DEF last, kind, table, named
<1> DEFINE head == <<kind, table>>
           name == <<last>>
<1>a. SlugOf(ops) = head \o name \/ SlugOf(ops) = head \o <<>>
  BY <1>1
<1>2. /\ IsList(head) /\ Len(head) = 2 /\ IsList(name) /\ IsList(<<n>>) /\ Len(<<n>>) = 1 /\ Len(name) = 1
      /\ IsList(<<>>) /\ Len(<<>>) = 0
  BY PairIsList, TupleIsList, NoElements
<1> HIDE DEF head, name
<1>3. IsList(SlugOf(ops)) /\ Len(SlugOf(ops)) \in {2, 3}
  <2>1. IsList(head \o name) /\ Len(head \o name) = Len(head) + Len(name)
    BY <1>2, JoinLists
  <2>2. IsList(head \o <<>>) /\ Len(head \o <<>>) = Len(head) + Len(<<>>)
    BY <1>2, JoinLists
  <2>3. 2 + 1 = 3 /\ 2 + 0 = 2
    OBVIOUS
  <2> QED BY <1>a, <1>2, <2>1, <2>2, <2>3, Zenon
<1> HIDE DEF kind
<1>4. Len(<<n>> \o SlugOf(ops)) \in {3, 4}
  <2> DEFINE slug == SlugOf(ops)
             number == <<n>>
  <2>1. IsList(slug) /\ IsList(number) /\ Len(number) = 1 /\ Len(slug) \in {2, 3}
    BY <1>2, <1>3
  <2> HIDE DEF slug, number
  <2>2. Len(number \o slug) = Len(number) + Len(slug)
    BY <2>1, JoinLists
  <2>3. Len(number \o slug) \in {3, 4}
    <3>1. 1 + 2 = 3 /\ 1 + 3 = 4
      OBVIOUS
    <3> QED BY <2>1, <2>2, <3>1, Zenon
  <2> QED BY <2>3 DEF slug, number
<1>5. \A s : Len(s) \in {3, 4} => s # <<"live">>
  <2>1. Len(<<"live">>) = 1
    OBVIOUS
  <2> QED BY <2>1
<1> QED BY <1>4, <1>5

LEMMA DetectIsFile ==
  ASSUME NEW entries, AreEntries(entries), NEW old, NEW fs
  PROVE  LET f == NewFile(fs, Detect(old, entries))
         IN IsFile(f) /\ f.stem # <<"live">> /\ f.readable = TRUE /\ SameShape(f)
<1> DEFINE ops == Detect(old, entries)
           stem == <<NextNumber(fs)>> \o SlugOf(ops)
           f == NewFile(fs, ops)
<1>1. IsList(DiffStates(BuildCurrent(old), BuildTarget(entries)))
  BY TargetIs, DiffIsList
<1>2. ops = Ops(DiffStates(BuildCurrent(old), BuildTarget(entries)), entries)
  BY Zenon DEF Detect, Ops
<1>3. /\ IsList(ops)
      /\ \A op \in Range(ops) :
           op.kind \in OperationKinds /\ IsList(op.columns) /\ (op.kind = "AddField" => DOMAIN op.columns = {1})
  BY <1>1, <1>2, OpsAre
<1>a. \A o1, o2 \in Range(ops) :
        o1.kind = "CreateTable" /\ o2.kind = "CreateTable" /\ o1.table = o2.table => o1.columns = o2.columns
  BY <1>1, <1>2, OpsAre
<1> HIDE DEF ops
<1>4. stem # <<"live">>
  BY StemIsNotLive
<1> HIDE DEF stem
<1>5. f = [stem |-> stem, ops |-> ops, readable |-> TRUE]
  BY Zenon DEF NewFile, MigrationFile, stem
<1> HIDE DEF f
<1>6. f.stem = stem /\ f.ops = ops /\ f.readable = TRUE
  BY <1>5
<1>7. IsFile(f)
  BY <1>3, <1>6 DEF IsFile
<1>8. SameShape(f)
  BY <1>a, <1>6 DEF SameShape
<1> QED BY <1>4, <1>6, <1>7, <1>8 DEF f, ops

LEMMA EntriesAre ==
  ASSUME project \in Projects, version \in 1..Len(project)
  PROVE  AreEntries(Entries)
<1>1. IsList(project) /\ \A entries \in Range(project) : AreEntries(entries)
  BY ProjectAssumption DEF AreEntries, IsEntry
<1>2. project[version] \in Range(project)
  BY <1>1, ListIs
<1> QED BY <1>1, <1>2 DEF Entries

(* A file among files, at their end or where it arrives.                    *)
LEMMA FilesAppended ==
  ASSUME NEW fs, IsList(fs), NEW f
  PROVE  /\ IsList(Append(fs, f)) /\ Len(Append(fs, f)) = Len(fs) + 1
         /\ Range(Append(fs, f)) = Range(fs) \cup {f}
         /\ \A j \in 1..Len(fs) : Append(fs, f)[j] = fs[j]
         /\ Append(fs, f)[Len(fs) + 1] = f
<1>1. fs \in Seq(Range(fs) \cup {f})
  BY DEF IsList, Range
<1>2. Append(fs, f) \in Seq(Range(fs) \cup {f}) /\ Len(Append(fs, f)) = Len(fs) + 1
      /\ (\A j \in 1..Len(fs) : Append(fs, f)[j] = fs[j]) /\ Append(fs, f)[Len(fs) + 1] = f
  BY <1>1
<1>3. DOMAIN fs = 1..Len(fs) /\ Len(fs) \in Nat /\ DOMAIN Append(fs, f) = 1..(Len(fs) + 1)
  BY <1>1, <1>2
<1>4. Range(Append(fs, f)) = Range(fs) \cup {f}
  <2> DEFINE g == Append(fs, f)
  <2>1. \A x \in Range(g) : x \in Range(fs) \cup {f}
    BY <1>2, <1>3 DEF Range
  <2>2. \A x \in Range(fs) \cup {f} : x \in Range(g)
    <3> HIDE DEF g
    <3>1. f \in Range(g)
      BY <1>2, <1>3 DEF Range, g
    <3>2. ASSUME NEW x \in Range(fs) PROVE x \in Range(g)
      <4>1. PICK j \in 1..Len(fs) : fs[j] = x
        BY <3>2, <1>3 DEF Range
      <4>2. j \in DOMAIN g /\ g[j] = x
        BY <4>1, <1>2, <1>3 DEF g
      <4> QED BY <4>2 DEF Range
    <3> QED BY <3>1, <3>2
  <2> QED BY <2>1, <2>2
<1>5. IsList(Append(fs, f))
  BY <1>2, <1>3, <1>4 DEF IsList
<1> QED BY <1>2, <1>4, <1>5

LEMMA FilesInserted ==
  ASSUME NEW fs, IsList(fs), NEW f, NEW i \in 1..(Len(fs) + 1)
  PROVE  /\ IsList(InsertAt(fs, i, f)) /\ Len(InsertAt(fs, i, f)) = Len(fs) + 1
         /\ Range(InsertAt(fs, i, f)) = Range(fs) \cup {f}
         /\ \A j \in 1..(i - 1) : InsertAt(fs, i, f)[j] = fs[j]
         /\ InsertAt(fs, i, f)[i] = f
         /\ \A j \in (i + 1)..(Len(fs) + 1) : InsertAt(fs, i, f)[j] = fs[j - 1]
<1> DEFINE front == SubSeq(fs, 1, i - 1)
           back == SubSeq(fs, i, Len(fs))
           g == InsertAt(fs, i, f)
<1>1. Len(fs) \in Nat /\ DOMAIN fs = 1..Len(fs) /\ fs \in Seq(Range(fs))
  BY ListIs DEF IsList
<1>2. /\ front \in Seq(Range(fs)) /\ Len(front) = i - 1 /\ \A j \in 1..(i - 1) : front[j] = fs[j]
      /\ back \in Seq(Range(fs)) /\ Len(back) = Len(fs) - i + 1 /\ \A j \in 1..(Len(fs) - i + 1) : back[j] = fs[i + j - 1]
  BY <1>1
<1>3. g = front \o <<f>> \o back
  BY DEF InsertAt
<1> HIDE DEF front, back, g
<1>4. IsList(front) /\ IsList(back) /\ IsList(<<f>>) /\ Len(<<f>>) = 1 /\ <<f>>[1] = f
  BY <1>2, TupleIsList, SeqIsList
<1> DEFINE h == front \o <<f>>
<1>5. IsList(h) /\ Len(h) = i /\ (\A j \in 1..(i - 1) : h[j] = fs[j])
  BY <1>1, <1>2, <1>4, JoinLists
<1>6. h[i] = f
  <2>1. h[Len(front) + 1] = <<f>>[1]
    BY <1>4, JoinLists
  <2> QED BY <2>1, <1>2, <1>4
<1> HIDE DEF h
<1>7. g = h \o back
  BY <1>3 DEF h
<1>8. /\ IsList(g) /\ Len(g) = Len(fs) + 1 /\ (\A j \in 1..i : g[j] = h[j])
      /\ \A j \in 1..(Len(fs) - i + 1) : g[i + j] = back[j]
  <2>1. /\ IsList(g) /\ Len(g) = Len(h) + Len(back) /\ (\A j \in 1..Len(h) : g[j] = h[j])
        /\ \A j \in 1..Len(back) : g[Len(h) + j] = back[j]
    <3>1. /\ IsList(h \o back) /\ Len(h \o back) = Len(h) + Len(back)
          /\ (\A j \in 1..Len(h) : (h \o back)[j] = h[j])
          /\ \A j \in 1..Len(back) : (h \o back)[Len(h) + j] = back[j]
      <4>1. IsList(h) /\ IsList(back)
        BY <1>4, <1>5
      <4>2. IsList(h \o back) /\ Len(h \o back) = Len(h) + Len(back)
        BY <4>1, JoinLists, Zenon
      <4>3. \A j \in 1..Len(h) : (h \o back)[j] = h[j]
        BY <4>1, JoinLists
      <4>4. \A j \in 1..Len(back) : (h \o back)[Len(h) + j] = back[j]
        BY <4>1, JoinLists
      <4> QED BY <4>2, <4>3, <4>4, Zenon
    <3> QED BY <1>7, <3>1
  <2> QED BY <1>1, <1>2, <1>5, <2>1
<1>9. ASSUME NEW j \in (i + 1)..(Len(fs) + 1) PROVE g[j] = fs[j - 1]
  <2>1. j - i \in 1..(Len(fs) - i + 1) /\ j = i + (j - i) /\ i + (j - i) - 1 = j - 1
    BY <1>1
  <2>2. g[i + (j - i)] = back[j - i]
    BY <2>1, <1>8
  <2>3. back[j - i] = fs[i + (j - i) - 1]
    BY <2>1, <1>2
  <2> QED BY <2>1, <2>2, <2>3
<1>10. (\A j \in 1..(i - 1) : g[j] = fs[j]) /\ g[i] = f
  BY <1>1, <1>5, <1>6, <1>8
<1>11. Range(g) = Range(fs) \cup {f}
  <2>1. DOMAIN g = 1..(Len(fs) + 1)
    BY <1>8, ListIs
  <2>2. \A x \in Range(g) : x \in Range(fs) \cup {f}
    BY <1>1, <1>9, <1>10, <2>1 DEF Range
  <2>3. ASSUME NEW x \in Range(fs) PROVE x \in Range(g)
    <3>1. PICK j \in 1..Len(fs) : fs[j] = x
      BY <1>1 DEF Range
    <3>2. CASE j < i
      BY <3>1, <3>2, <1>1, <1>10, <2>1 DEF Range
    <3>3. CASE j >= i
      <4>1. j + 1 \in (i + 1)..(Len(fs) + 1) /\ j + 1 - 1 = j
        BY <3>3, <1>1
      <4>2. g[j + 1] = x /\ j + 1 \in DOMAIN g
        BY <4>1, <3>1, <1>9, <2>1
      <4> QED BY <4>2 DEF Range
    <3> QED BY <3>2, <3>3, <1>1
  <2>4. f \in Range(g)
    BY <1>10, <2>1 DEF Range
  <2> QED BY <2>2, <2>3, <2>4
<1> QED BY <1>8, <1>9, <1>10, <1>11 DEF g

-----------------------------------------------------------------------------
(* The database of a statement.                                             *)

IsTable(t) == t = [name |-> t.name, schema |-> t.schema, by |-> t.by, columns |-> t.columns]
IsDatabase(db) ==
  /\ db = [schemas |-> db.schemas, tables |-> db.tables, indexes |-> db.indexes]
  /\ \A t \in db.tables : IsTable(t)

\* What becomes of the columns of a table.
AddedTo(cols, s) == Append(cols, Kept(s.columns[1], ""))
DroppedFrom(cols, s) == Select(cols, LAMBDA c : c.name # s.columns[1].name)
AlteredIn(cols, s) == MapTo(cols, LAMBDA c : Changing(c, s))
MadeBy(s, schema, by) ==
  [name |-> s.table, schema |-> schema, by |-> by, columns |-> MapTo(s.columns, LAMBDA c : Kept(c, s.clause))]

\* Columns of the statement's table that replace those it has.
With(t, cols) == [t EXCEPT !.columns = cols]
TableAt(backend, db, s) == Named(db, Home(backend, s.schema), s.table)

LEMMA WithIs ==
  ASSUME NEW t, IsTable(t), NEW cols
  PROVE  /\ IsTable(With(t, cols)) /\ With(t, cols).name = t.name /\ With(t, cols).schema = t.schema
         /\ With(t, cols).by = t.by /\ With(t, cols).columns = cols
<1>1. With(t, cols) = [name |-> t.name, schema |-> t.schema, by |-> t.by, columns |-> cols]
  BY DEF With, IsTable
<1> QED BY <1>1 DEF IsTable

LEMMA ExecuteIs ==
  ASSUME NEW backend, NEW db, NEW s, NEW by
  PROVE  LET at == TableAt(backend, db, s)
             new == Execute(backend, db, s, by)
         IN \/ new = db \/ (\E x : new = [db EXCEPT !.schemas = x]) \/ (\E x : new = [db EXCEPT !.indexes = x])
            \/ /\ s.kind = "create_table" /\ at = {}
               /\ new = [db EXCEPT !.tables = @ \cup {MadeBy(s, Home(backend, s.schema), by)}]
            \/ /\ s.kind = "add_column"
               /\ new = [db EXCEPT !.tables = (@ \ at) \cup {With(t, AddedTo(t.columns, s)) : t \in at}]
            \/ /\ s.kind = "drop_column"
               /\ new = [db EXCEPT !.tables = (@ \ at) \cup {With(t, DroppedFrom(t.columns, s)) : t \in at}]
            \/ /\ s.kind = "alter_column"
               /\ new = [db EXCEPT !.tables = (@ \ at) \cup {With(t, AlteredIn(t.columns, s)) : t \in at}]
<1> DEFINE at == TableAt(backend, db, s)
           new == Execute(backend, db, s, by)
<1>1. CASE s.kind = "create_schema"
  BY <1>1, Zenon DEF Execute
<1>2. CASE s.kind = "create_table"
  BY <1>2, Zenon DEF Execute, MadeBy, TableAt
<1>3. CASE s.kind = "add_column"
  BY <1>3, Zenon DEF Execute, AddedTo, With, TableAt
<1>4. CASE s.kind = "drop_column"
  BY <1>4, Zenon DEF Execute, DroppedFrom, With, TableAt
<1>5. CASE s.kind = "alter_column"
  BY <1>5, Zenon DEF Execute, AlteredIn, With, TableAt
<1>6. CASE s.kind = "create_index"
  BY <1>6, Zenon DEF Execute
<1>7. CASE s.kind = "drop_index"
  BY <1>7, Zenon DEF Execute
<1>8. CASE s.kind \notin {"create_schema", "create_table", "add_column", "drop_column", "alter_column",
                          "create_index", "drop_index"}
  BY <1>8, Zenon DEF Execute
<1> QED BY <1>1, <1>2, <1>3, <1>4, <1>5, <1>6, <1>7, <1>8, Zenon

(* A statement keeps a table whose it is, or makes one of the run's own.    *)
LEMMA ExecuteMakers ==
  ASSUME NEW backend, NEW db, IsDatabase(db), NEW s, NEW by
  PROVE  /\ IsDatabase(Execute(backend, db, s, by))
         /\ \A t \in Execute(backend, db, s, by).tables :
              t.by = by \/ \E u \in db.tables : u.by = t.by
<1> DEFINE at == TableAt(backend, db, s)
           new == Execute(backend, db, s, by)
           Good(d) == IsDatabase(d) /\ \A t \in d.tables : t.by = by \/ \E u \in db.tables : u.by = t.by
<1>1. at \subseteq db.tables
  BY DEF TableAt, Named
<1>2. ASSUME NEW x PROVE Good([db EXCEPT !.schemas = x]) /\ Good([db EXCEPT !.indexes = x])
  <2>1. /\ [db EXCEPT !.schemas = x] = [schemas |-> x, tables |-> db.tables, indexes |-> db.indexes]
        /\ [db EXCEPT !.indexes = x] = [schemas |-> db.schemas, tables |-> db.tables, indexes |-> x]
    BY DEF IsDatabase
  <2> QED BY <2>1 DEF IsDatabase
<1>3. ASSUME NEW T, \A t \in T : IsTable(t) /\ (t.by = by \/ \E u \in db.tables : u.by = t.by)
      PROVE  Good([db EXCEPT !.tables = T])
  <2>1. [db EXCEPT !.tables = T] = [schemas |-> db.schemas, tables |-> T, indexes |-> db.indexes]
    BY DEF IsDatabase
  <2> QED BY <1>3, <2>1 DEF IsDatabase
<1>4. Good(db)
  BY DEF IsDatabase
<1>6. \A schema : IsTable(MadeBy(s, schema, by)) /\ MadeBy(s, schema, by).by = by
  BY DEF IsTable, MadeBy
<1>7. Good([db EXCEPT !.tables = @ \cup {MadeBy(s, Home(backend, s.schema), by)}])
  <2>1. \A t \in db.tables \cup {MadeBy(s, Home(backend, s.schema), by)} :
          IsTable(t) /\ (t.by = by \/ \E u \in db.tables : u.by = t.by)
    BY <1>6 DEF IsDatabase
  <2>2. Good([db EXCEPT !.tables = db.tables \cup {MadeBy(s, Home(backend, s.schema), by)}])
    BY <1>3, <2>1
  <2> QED BY <2>2
<1> DEFINE T1 == (db.tables \ at) \cup {With(t, AddedTo(t.columns, s)) : t \in at}
           T2 == (db.tables \ at) \cup {With(t, DroppedFrom(t.columns, s)) : t \in at}
           T3 == (db.tables \ at) \cup {With(t, AlteredIn(t.columns, s)) : t \in at}
<1>8. \A t \in T1 \cup T2 \cup T3 : IsTable(t) /\ (t.by = by \/ \E u \in db.tables : u.by = t.by)
  BY <1>1, WithIs DEF IsDatabase
<1> HIDE DEF T1, T2, T3, Good, at
<1>9. Good([db EXCEPT !.tables = T1]) /\ Good([db EXCEPT !.tables = T2]) /\ Good([db EXCEPT !.tables = T3])
  BY <1>3, <1>8
<1>10. \/ new = db \/ (\E x : new = [db EXCEPT !.schemas = x]) \/ (\E x : new = [db EXCEPT !.indexes = x])
       \/ new = [db EXCEPT !.tables = @ \cup {MadeBy(s, Home(backend, s.schema), by)}]
       \/ new = [db EXCEPT !.tables = T1] \/ new = [db EXCEPT !.tables = T2] \/ new = [db EXCEPT !.tables = T3]
  BY ExecuteIs DEF at, T1, T2, T3
<1> HIDE DEF new
<1>11. Good(new)
  BY <1>2, <1>4, <1>7, <1>9, <1>10
<1> QED BY <1>11 DEF Good, new

-----------------------------------------------------------------------------
(* The work of a live run.                                                  *)

LEMMA TargetOfSchema ==
  ASSUME AreEntries(Entries), NEW schema
  PROVE  IsTarget(Target(schema))
<1> DEFINE target == BuildTarget(Entries)
           g == [i \in DOMAIN target |-> [target[i] EXCEPT !.schema = schema]]
           plain == [i \in DOMAIN Entries |-> [name |-> Entries[i].table, schema |-> Entries[i].schema,
                                               columns |-> Entries[i].columns]]
<1>1. Target(schema) = g \o <<>>
  BY DEF Target, MapTo
<1>2. IsTarget(target)
  BY TargetIs
<1>3. \A i \in DOMAIN target : g[i].columns = target[i].columns
  <2>1. target = plain \o <<>>
    BY DEF BuildTarget, MapTo
  <2>2. IsList(Entries) /\ DOMAIN Entries = 1..Len(Entries)
    BY ListIs DEF AreEntries
  <2>3. plain = [i \in DOMAIN Entries |-> plain[i]]
    OBVIOUS
  <2>4. \A i \in DOMAIN plain : plain[i] = [name |-> Entries[i].table, schema |-> Entries[i].schema,
                                            columns |-> Entries[i].columns]
    OBVIOUS
  <2>5. DOMAIN plain = DOMAIN Entries
    OBVIOUS
  <2> HIDE DEF plain, target
  <2>6. IsList(target) /\ Len(target) = Len(Entries) /\ \A i \in 1..Len(Entries) : target[i] = plain[i]
    BY <2>1, <2>2, <2>3, MapIsList
  <2>7. DOMAIN target = 1..Len(Entries)
    BY <2>6, ListIs
  <2> QED BY <2>2, <2>4, <2>5, <2>6, <2>7
<1>4. g = [i \in DOMAIN target |-> g[i]]
  OBVIOUS
<1> HIDE DEF g, target
<1>5. IsList(target) /\ DOMAIN target = 1..Len(target) /\ \A i \in DOMAIN target : IsList(target[i].columns)
  BY <1>2, ListIs DEF IsTarget, Range
<1>6. IsList(g \o <<>>) /\ Len(g \o <<>>) = Len(target) /\ \A i \in 1..Len(target) : (g \o <<>>)[i] = g[i]
  BY <1>4, <1>5, MapIsList
<1>7. \A t \in Range(g \o <<>>) : \E i \in DOMAIN target : t = g[i]
  BY <1>5, <1>6, ListIs
<1> QED BY <1>1, <1>3, <1>5, <1>6, <1>7 DEF IsTarget

(* On SQLite a difference creates tables and adds columns, no more.         *)
Created(gen, changes, c) ==
  IF ColumnsFor(changes, c.table) = <<>> THEN <<>>
  ELSE <<CreateTable(In(gen, c.schema), c.table, ColumnsFor(changes, c.table))>>

NoSchema == ""

AreColumns(cols) == IsList(cols) /\ \A i \in DOMAIN cols : IsColumn(cols[i])

IsLiteStatement(s) ==
  /\ s.kind \notin {"drop_column", "alter_column"}
  /\ s.kind \in {"create_table", "add_column"} => s.schema = NoSchema /\ AreColumns(s.columns)
  /\ s.kind = "add_column" => Len(s.columns) = 1

(* A column keeps its name, in a statement and in a table.                  *)
LEMMA ColumnIs ==
  ASSUME NEW n, NEW t, NEW x, NEW k, NEW u, NEW d
  PROVE  IsColumn(Column(n, t, x, k, u, d)) /\ Column(n, t, x, k, u, d).name = n
BY DEF IsColumn, Column

LEMMA ColumnSqlIs ==
  ASSUME NEW c, NEW backend, NEW key
  PROVE  IsColumn(ColumnSql(c, backend, key)) /\ ColumnSql(c, backend, key).name = c.name
<1>1. \E t, x, k, u, d : ColumnSql(c, backend, key) = Column(c.name, t, x, k, u, d)
  BY Zenon DEF ColumnSql
<1> QED BY <1>1, ColumnIs

LEMMA KeptIs ==
  ASSUME NEW c, IsColumn(c), NEW key
  PROVE  IsColumn(Kept(c, key)) /\ Kept(c, key).name = c.name
<1>1. \/ \E t, x, k, u, d : Kept(c, key) = Column(c.name, t, x, k, u, d)
      \/ \E k, x : Kept(c, key) = [c EXCEPT !.pk = k, !.null = x]
  BY Zenon DEF Kept
<1>2. ASSUME NEW k, NEW x
      PROVE  [c EXCEPT !.pk = k, !.null = x] = Column(c.name, c.type, x, k, c.unique, c.default)
  <2>1. [c EXCEPT !.pk = k] = [name |-> c.name, type |-> c.type, null |-> c.null, pk |-> k,
                               unique |-> c.unique, default |-> c.default]
    BY DEF IsColumn
  <2> DEFINE d == [name |-> c.name, type |-> c.type, null |-> c.null, pk |-> k,
                   unique |-> c.unique, default |-> c.default]
  <2>2. [d EXCEPT !.null = x] = [name |-> c.name, type |-> c.type, null |-> x, pk |-> k,
                                 unique |-> c.unique, default |-> c.default]
    OBVIOUS
  <2>3. [c EXCEPT !.pk = k, !.null = x] = [[c EXCEPT !.pk = k] EXCEPT !.null = x]
    OBVIOUS
  <2> QED BY <2>1, <2>2, <2>3, Zenon DEF Column
<1>3. ASSUME NEW k, NEW x, Kept(c, key) = [c EXCEPT !.pk = k, !.null = x]
      PROVE  IsColumn(Kept(c, key)) /\ Kept(c, key).name = c.name
  <2>1. Kept(c, key) = Column(c.name, c.type, x, k, c.unique, c.default)
    BY <1>2, <1>3
  <2> QED BY <2>1, ColumnIs
<1>4. ASSUME NEW t, NEW x, NEW k, NEW u, NEW d, Kept(c, key) = Column(c.name, t, x, k, u, d)
      PROVE  IsColumn(Kept(c, key)) /\ Kept(c, key).name = c.name
  BY <1>4, ColumnIs
<1> QED BY <1>1, <1>3, <1>4, Zenon

LEMMA NamesOfMap ==
  ASSUME NEW cols, IsList(cols), NEW g, g = [i \in DOMAIN cols |-> g[i]],
         \A i \in DOMAIN cols : IsColumn(g[i]) /\ g[i].name = cols[i].name
  PROVE  AreColumns(g \o <<>>) /\ Names(g \o <<>>) = Names(cols)
<1> DEFINE h == g \o <<>>
<1>1. /\ IsList(h) /\ Len(h) = Len(cols) /\ \A i \in 1..Len(cols) : h[i] = g[i]
      /\ DOMAIN h = 1..Len(cols) /\ DOMAIN cols = 1..Len(cols)
  BY MapIsList, ListIs
<1> HIDE DEF h
<1> QED BY <1>1 DEF AreColumns, Names, h

(* The statements that create a table and add a column on SQLite.           *)
LEMMA StatementIs ==
  ASSUME NEW kind, NEW gen, NEW table, NEW cols, NEW clause
  PROVE  LET s == Statement(kind, gen, table, cols, clause)
         IN s.kind = kind /\ s.schema = Qn(gen) /\ s.table = table /\ s.columns = cols
BY DEF Statement

LEMMA CreateIs ==
  ASSUME NEW a \in Alias, Backend[a] = LITE, NEW schema, NEW own, NEW table, NEW cols, IsList(cols)
  PROVE  LET s == CreateTable(In(Gen(a, schema), own), table, cols)
         IN /\ s.kind = "create_table" /\ s.table = table /\ Names(s.columns) = Names(cols)
            /\ IsLiteStatement(s)
<1> DEFINE gen == In(Gen(a, schema), own)
           g == [i \in DOMAIN cols |-> ColumnSql(cols[i], gen.backend, TRUE)]
           s == CreateTable(gen, table, cols)
<1>1. Qn(gen) = NoSchema
  BY GenIs, BackendsDiffer, Zenon DEF NoSchema
<1> HIDE DEF gen
<1>2. \E clause : s = Statement("create_table", gen, table, g \o <<>>, clause)
  BY Zenon DEF CreateTable, MapTo
<1>3. g = [i \in DOMAIN cols |-> g[i]] /\ \A i \in DOMAIN cols : IsColumn(g[i]) /\ g[i].name = cols[i].name
  BY ColumnSqlIs
<1> HIDE DEF g, s
<1>4. AreColumns(g \o <<>>) /\ Names(g \o <<>>) = Names(cols)
  BY <1>3, NamesOfMap
<1>5. s.kind = "create_table" /\ s.schema = NoSchema /\ s.table = table /\ s.columns = g \o <<>>
  BY <1>1, <1>2, StatementIs
<1>6. IsLiteStatement(s)
  BY <1>4, <1>5 DEF IsLiteStatement
<1> QED BY <1>4, <1>5, <1>6 DEF s, gen

LEMMA AddIs ==
  ASSUME NEW a \in Alias, Backend[a] = LITE, NEW schema, NEW own, NEW table, NEW c
  PROVE  LET s == AddColumn(In(Gen(a, schema), own), table, c)
         IN /\ s.kind = "add_column" /\ s.table = table /\ Names(s.columns) = {c.name}
            /\ IsLiteStatement(s)
<1> DEFINE gen == In(Gen(a, schema), own)
           col == ColumnSql(c, gen.backend, FALSE)
           s == AddColumn(gen, table, c)
<1>1. Qn(gen) = NoSchema
  BY GenIs, BackendsDiffer, Zenon DEF NoSchema
<1> HIDE DEF gen
<1>2. \E clause : s = Statement("add_column", gen, table, <<col>>, clause)
  BY Zenon DEF AddColumn
<1>3. IsColumn(col) /\ col.name = c.name
  BY ColumnSqlIs
<1> HIDE DEF col, s
<1>4. AreColumns(<<col>>) /\ Names(<<col>>) = {c.name} /\ Len(<<col>>) = 1
  <2>1. IsList(<<col>>) /\ Len(<<col>>) = 1
    BY TupleIsList
  <2>2. DOMAIN <<col>> = {1} /\ <<col>>[1] = col
    OBVIOUS
  <2> QED BY <1>3, <2>1, <2>2 DEF AreColumns, Names
<1>5. s.kind = "add_column" /\ s.schema = NoSchema /\ s.table = table /\ s.columns = <<col>>
  BY <1>1, <1>2, StatementIs
<1>6. IsLiteStatement(s)
  BY <1>4, <1>5 DEF IsLiteStatement
<1> QED BY <1>4, <1>5, <1>6 DEF s, gen

LEMMA LiteStatements ==
  ASSUME NEW a \in Alias, Backend[a] = LITE, NEW schema, NEW own, NEW table
  PROVE  /\ \A cols : IsList(cols) => IsLiteStatement(CreateTable(In(Gen(a, schema), own), table, cols))
         /\ \A c : IsLiteStatement(AddColumn(In(Gen(a, schema), own), table, c))
BY CreateIs, AddIs

LEMMA GenerateIs ==
  ASSUME NEW a \in Alias, NEW schema, NEW changes, IsList(changes)
  PROVE  /\ IsList(Generate(Gen(a, schema), changes))
         /\ Backend[a] = LITE => \A s \in Range(Generate(Gen(a, schema), changes)) : IsLiteStatement(s)
<1> DEFINE gen == Gen(a, schema)
           s1 == OfKind(changes, "CreateSchema")
           s2 == OfKind(changes, "CreateTable")
           s3 == PlainAdds(changes)
           s4 == OfKind(changes, "AlterColumn")
           g1 == [i \in DOMAIN s1 |-> CreateSchema(gen, s1[i].schema)]
           g2 == [i \in DOMAIN s2 |-> Created(gen, changes, s2[i])]
           g3 == [i \in DOMAIN s3 |-> AddColumn(In(gen, s3[i].schema), s3[i].table, s3[i].column)]
           g4 == [i \in DOMAIN s4 |-> AlterColumn(In(gen, s4[i].schema), s4[i].table, s4[i].old, s4[i].column)]
           f1 == FlattenSeq(g1 \o <<>>)
           f2 == FlattenSeq(g2 \o <<>>)
           q3 == g3 \o <<>>
           f4 == IF Backend[a] = LITE THEN <<>> ELSE FlattenSeq(g4 \o <<>>)
<1>1. Generate(gen, changes) = f1 \o f2 \o q3 \o f4
  <2>1. gen.backend = Backend[a]
    BY DEF Gen
  <2> QED BY <2>1, Zenon DEF Generate, Created, Collect, MapTo
<1>2. IsList(s1) /\ IsList(s2) /\ IsList(s3) /\ IsList(s4)
  BY OfKindIsList, PlainAddsIsList
<1>3. /\ DOMAIN s1 = 1..Len(s1) /\ Len(s1) \in Nat /\ DOMAIN s2 = 1..Len(s2) /\ Len(s2) \in Nat
      /\ DOMAIN s4 = 1..Len(s4) /\ Len(s4) \in Nat /\ DOMAIN s3 = 1..Len(s3) /\ Len(s3) \in Nat
  BY <1>2, ListIs
<1> HIDE DEF s1, s2, s3, s4
<1>4. \A x : \/ CreateSchema(gen, x) = <<>>
             \/ Backend[a] # LITE /\ \E s : CreateSchema(gen, x) = <<s>>
  <2>1. gen.backend = PG \/ gen.backend # PG
    OBVIOUS
  <2>2. gen.backend = Backend[a]
    BY DEF Gen
  <2>3. PG # LITE
    BY BackendsDiffer
  <2> HIDE DEF gen
  <2> QED BY <2>1, <2>2, <2>3, Zenon DEF CreateSchema
<1>5. \A i \in 1..Len(s1) : IsList(g1[i]) /\ (Backend[a] = LITE => Range(g1[i]) = {})
  BY <1>3, <1>4, NoElements, TupleIsList DEF Range
<1>6. \A i \in 1..Len(s2) :
        IsList(g2[i]) /\ (Backend[a] = LITE => \A s \in Range(g2[i]) : IsLiteStatement(s))
  <2> TAKE i \in 1..Len(s2)
  <2> DEFINE cols == ColumnsFor(changes, s2[i].table)
             made == CreateTable(In(gen, s2[i].schema), s2[i].table, cols)
  <2>1. g2[i] = <<>> \/ g2[i] = <<made>>
    BY <1>3, Zenon DEF Created
  <2>2. Backend[a] = LITE => IsLiteStatement(made)
    BY ColumnsForIsList, LiteStatements
  <2> HIDE DEF made, g2
  <2>3. IsList(<<>>) /\ Range(<<>>) = {} /\ IsList(<<made>>) /\ Range(<<made>>) = {made}
    BY NoElements, TupleIsList DEF Range
  <2>4. CASE g2[i] = <<>>
    BY <2>3, <2>4
  <2>5. CASE g2[i] = <<made>>
    BY <2>2, <2>3, <2>5
  <2> QED BY <2>1, <2>4, <2>5
<1>7. \A i \in 1..Len(s3) : Backend[a] = LITE => IsLiteStatement(g3[i])
  BY <1>3, LiteStatements
<1>8. \A i \in 1..Len(s4) : IsList(g4[i])
  <2> TAKE i \in 1..Len(s4)
  <2> DEFINE own == In(gen, s4[i].schema)
             altered == AlterColumn(own, s4[i].table, s4[i].old, s4[i].column)
  <2>1. own.backend \in {PG, MY, LITE}
    <3>1. \A x : In(gen, x).backend = Backend[a] /\ Backend[a] \in {PG, MY, LITE}
      BY GenIs, Zenon
    <3> HIDE DEF gen
    <3> QED BY <3>1
  <2>2. g4[i] = altered
    BY <1>3
  <2> HIDE DEF own, g4
  <2>3. IsList(altered)
    BY <2>1, AlterIsList
  <2> QED BY <2>2, <2>3
<1>9. /\ g1 = [i \in DOMAIN s1 |-> g1[i]] /\ g2 = [i \in DOMAIN s2 |-> g2[i]]
      /\ g3 = [i \in DOMAIN s3 |-> g3[i]] /\ g4 = [i \in DOMAIN s4 |-> g4[i]]
  OBVIOUS
<1> HIDE DEF g1, g2, g3, g4
<1>10. /\ IsList(f1) /\ Range(f1) = UNION {Range(g1[i]) : i \in 1..Len(s1)}
       /\ IsList(f2) /\ Range(f2) = UNION {Range(g2[i]) : i \in 1..Len(s2)}
  BY <1>3, <1>5, <1>6, <1>9, FlatList
<1>11. IsList(q3) /\ Len(q3) = Len(s3) /\ \A i \in 1..Len(s3) : q3[i] = g3[i]
  BY <1>2, <1>9, MapIsList
<1>12. IsList(f4) /\ (Backend[a] = LITE => Range(f4) = {})
  <2>1. IsList(FlattenSeq(g4 \o <<>>))
    BY <1>3, <1>8, <1>9, FlatList
  <2> QED BY <2>1, NoElements DEF Range
<1>13. Backend[a] = LITE => /\ \A s \in Range(f1) : IsLiteStatement(s)
                            /\ \A s \in Range(f2) : IsLiteStatement(s)
                            /\ \A s \in Range(q3) : IsLiteStatement(s)
                            /\ \A s \in Range(f4) : IsLiteStatement(s)
  <2>1. \A s \in Range(q3) : \E i \in 1..Len(s3) : s = g3[i]
    BY <1>11, ListIs
  <2> HIDE DEF f1, f2, q3, f4
  <2> QED BY <1>5, <1>6, <1>7, <1>10, <1>12, <2>1
<1> HIDE DEF f1, f2, q3, f4
<1>14. IsList(f1 \o f2) /\ Range(f1 \o f2) = Range(f1) \cup Range(f2)
  BY <1>10, JoinLists
<1>15. IsList(f1 \o f2 \o q3) /\ Range(f1 \o f2 \o q3) = Range(f1) \cup Range(f2) \cup Range(q3)
  BY <1>11, <1>14, JoinLists
<1>16. /\ IsList(f1 \o f2 \o q3 \o f4)
       /\ Range(f1 \o f2 \o q3 \o f4) = Range(f1) \cup Range(f2) \cup Range(q3) \cup Range(f4)
  BY <1>12, <1>15, JoinLists
<1> QED BY <1>1, <1>13, <1>16

\* The statements of a live run.
LiveWork(a, schema) == MapTo(LiveStatements(a, schema), LAMBDA s : Sql(s, <<"live">>))

LEMMA LiveWorkIs ==
  ASSUME AreEntries(Entries), NEW a \in Alias, NEW schema
  PROVE  /\ IsList(LiveWork(a, schema))
         /\ \A k \in 1..Len(LiveWork(a, schema)) : \E s :
              /\ LiveWork(a, schema)[k] = Sql(s, <<"live">>)
              /\ Backend[a] = LITE => IsLiteStatement(s)
<1> DEFINE L == LiveStatements(a, schema)
           g == [i \in DOMAIN L |-> Sql(L[i], <<"live">>)]
<1>1. LiveWork(a, schema) = g \o <<>>
  BY DEF LiveWork, MapTo
<1>2. IsList(LiveChanges(a, schema))
  BY TargetOfSchema, DiffIsList DEF LiveChanges
<1>3. IsList(L) /\ (Backend[a] = LITE => \A s \in Range(L) : IsLiteStatement(s))
  BY <1>2, GenerateIs DEF LiveStatements, Gen
<1>4. g = [i \in DOMAIN L |-> g[i]] /\ \A i \in DOMAIN L : g[i] = Sql(L[i], <<"live">>)
  OBVIOUS
<1> HIDE DEF g, L
<1>5. /\ IsList(g \o <<>>) /\ Len(g \o <<>>) = Len(L) /\ \A i \in 1..Len(L) : (g \o <<>>)[i] = g[i]
      /\ DOMAIN L = 1..Len(L) /\ \A i \in 1..Len(L) : L[i] \in Range(L)
  BY <1>3, <1>4, MapIsList, ListIs
<1> QED BY <1>1, <1>3, <1>4, <1>5

-----------------------------------------------------------------------------
(* The states there are.                                                    *)

IsRun(r) ==
  /\ r = [running |-> r.running, alias |-> r.alias, todo |-> r.todo]
  /\ r.running \in BOOLEAN
  /\ r.running => r.alias \in Alias /\ IsList(r.todo)

\* Every variable has its type, and off SQLite nothing is recorded.
FileTypes ==
  /\ project \in Projects /\ version \in 1..Len(project)
  /\ AreFiles(files)
  /\ dbs = [a \in Alias |-> dbs[a]] /\ \A a \in Alias : IsDatabase(dbs[a])
  /\ ledger = [a \in Alias |-> ledger[a]] /\ \A a \in Alias : Backend[a] # LITE => ledger[a] = {}
  /\ runs = [p \in Process |-> runs[p]] /\ \A p \in Process : IsRun(runs[p])
  /\ budget = [arrivals |-> budget.arrivals, starts |-> budget.starts]
  /\ budget.arrivals \in Nat /\ budget.starts \in Nat

First(fs, i) == i \in DOMAIN fs /\ fs[i].readable /\ \A j \in 1..(i - 1) : ~fs[j].readable

LEMMA FirstIsOne ==
  ASSUME NEW fs, IsList(fs), NEW i, First(fs, i), NEW j, First(fs, j)
  PROVE  i = j
<1>1. i \in Nat /\ j \in Nat /\ i >= 1 /\ j >= 1
  BY ListIs DEF First
<1>2. ~(i < j) /\ ~(j < i)
  BY <1>1 DEF First
<1> QED BY <1>1, <1>2

(* The files after a run has started: with [A] there is one.                *)
FilesOf(c) == IF Generates(c) THEN Written(files, Detect(files, Captured(c.schema))) ELSE files

LEMMA WrittenIs ==
  ASSUME AreFiles(files), NEW entries, AreEntries(entries)
  PROVE  /\ AreFiles(Written(files, Detect(files, entries)))
         /\ \E f : /\ IsFile(f) /\ f.stem # <<"live">> /\ f.readable = TRUE /\ SameShape(f)
                  /\ Written(files, Detect(files, entries)) = Append(files, f)
<1> DEFINE ops == Detect(files, entries)
           f == NewFile(files, ops)
<1>1. IsFile(f) /\ f.stem # <<"live">> /\ f.readable = TRUE /\ SameShape(f)
  BY DetectIsFile
<1>2. Written(files, ops) = Append(files, f)
  BY Zenon DEF Written, NewFile
<1> HIDE DEF f, ops
<1>3. IsList(Append(files, f)) /\ Range(Append(files, f)) = Range(files) \cup {f}
  BY FilesAppended DEF AreFiles
<1>4. AreFiles(Append(files, f))
  BY <1>1, <1>3 DEF AreFiles
<1> QED BY <1>1, <1>2, <1>4 DEF ops

LEMMA FilesOfStart ==
  ASSUME FileTypes, NEW c \in Calls
  PROVE  /\ AreFiles(FilesOf(c))
         /\ Generates(c) =>
              \E f : /\ IsFile(f) /\ f.stem # <<"live">> /\ f.readable = TRUE /\ SameShape(f)
                     /\ files = <<>> /\ Range(FilesOf(c)) = {f}
                     /\ FilesOf(c)[1] = f /\ First(FilesOf(c), 1)
<1> DEFINE ops == Detect(files, Captured(c.schema))
<1>1. AreEntries(Captured(c.schema)) /\ AreFiles(files)
  BY EntriesAre, CapturedAre DEF FileTypes
<1>2. AreFiles(Written(files, ops))
  BY <1>1, WrittenIs
<1>3. PICK f : /\ IsFile(f) /\ f.stem # <<"live">> /\ f.readable = TRUE /\ SameShape(f)
               /\ Written(files, ops) = Append(files, f)
  BY <1>1, WrittenIs
<1> HIDE DEF ops
<1>4. /\ IsList(Append(files, f)) /\ Len(Append(files, f)) = Len(files) + 1
      /\ Append(files, f)[Len(files) + 1] = f /\ Range(Append(files, f)) = Range(files) \cup {f}
  BY FilesAppended DEF FileTypes, AreFiles
<1>6. ASSUME Generates(c)
      PROVE  files = <<>> /\ FilesOf(c) = Append(files, f)
  BY <1>3, <1>6, Zenon DEF Generates, FilesOf, ops
<1>7. ASSUME Generates(c)
      PROVE  FilesOf(c)[1] = f /\ First(FilesOf(c), 1)
  <2>1. Len(files) = 0
    BY <1>6, <1>7
  <2>2. Append(files, f)[1] = f /\ Len(Append(files, f)) = 1 /\ DOMAIN Append(files, f) = 1..1
    BY <1>4, <2>1, ListIs
  <2>3. FilesOf(c)[1] = f /\ 1 \in DOMAIN FilesOf(c)
    BY <1>6, <1>7, <2>2
  <2> QED BY <1>3, <2>3 DEF First
<1>8. AreFiles(FilesOf(c))
  BY <1>1, <1>2, Zenon DEF FilesOf, ops
<1>9. ASSUME Generates(c)
      PROVE  Range(FilesOf(c)) = {f}
  <2>1. Range(<<>>) = {}
    BY DEF Range
  <2>2. files = <<>> /\ FilesOf(c) = Append(files, f)
    BY <1>6, <1>9
  <2>3. Range(FilesOf(c)) = {} \cup {f}
    BY <1>4, <2>1, <2>2, Zenon
  <2> QED BY <2>3
<1> QED BY <1>3, <1>6, <1>7, <1>8, <1>9

(* What a run does up to the first file it would record.                    *)
InFront(todo, k) == todo[k].do = "sql" /\ \A j \in 1..(k - 1) : todo[j].do # "record"

LEMMA SqlIs ==
  ASSUME NEW s, NEW by
  PROVE  Sql(s, by).do = "sql" /\ Sql(s, by).statement = s /\ Sql(s, by).by = by /\ Note(by).do = "record" /\ Note(by).stem = by
BY DEF Sql, Note

LEMMA FrontOfTodo ==
  ASSUME FileTypes, NEW c \in Calls
  PROVE  /\ IsList(Todo(c))
         /\ Backend[c.alias] # LITE => \A k \in 1..Len(Todo(c)) : InFront(Todo(c), k) =>
              \/ Todo(c)[k].by = <<"live">>
              \/ \E i : First(FilesOf(c), i) /\ Todo(c)[k].by = FilesOf(c)[i].stem
<1> DEFINE items == Todo(c)
           none == ""
           f == FilesOf(c)[1]
           a == c.alias
<1>1. a \in Alias
  BY CallsAssumption DEF Alias
<1>2. \/ IsLive(c) /\ items = LiveWork(a, c.schema)
      \/ ~IsLive(c) /\ files # <<>> /\ items = FileTodo(a, c.schema) /\ ~Generates(c)
      \/ Generates(c) /\ items = FileItems(f, a, none, FALSE)
      \/ items = <<>>
  BY Zenon DEF Todo, LiveWork, FilesOf, Generates
<1> HIDE DEF items, none, f, a
<1>3. ASSUME items = LiveWork(a, c.schema)
      PROVE  IsList(items) /\ \A k \in 1..Len(items) : items[k].by = <<"live">>
  BY <1>1, <1>3, EntriesAre, LiveWorkIs, SqlIs DEF FileTypes
<1>4. ASSUME files # <<>>, items = FileTodo(a, c.schema), ~Generates(c)
      PROVE  /\ IsList(items)
             /\ Backend[a] # LITE => \A k \in 1..Len(items) : InFront(items, k) =>
                  \E i : First(FilesOf(c), i) /\ items[k].by = FilesOf(c)[i].stem
  <2>1. IsList(files) /\ \A g \in Range(files) : IsFile(g)
    BY DEF FileTypes, AreFiles
  <2>2. /\ IsList(items)
        /\ \A k \in 1..Len(items) : Pending(a) # <<>> /\ (InFront(items, k) => items[k].by = Pending(a)[1].stem)
    BY <1>1, <1>4, <2>1, TodoIs DEF InFront
  <2>3. ASSUME Backend[a] # LITE, Pending(a) # <<>>
        PROVE  \E i : First(files, i) /\ Pending(a)[1] = files[i]
    <3>1. ledger[a] = {}
      BY <1>1, <2>3 DEF FileTypes
    <3> QED BY <2>1, <2>3, <3>1, Pendings DEF First
  <2>4. FilesOf(c) = files
    BY <1>4, Zenon DEF FilesOf
  <2> QED BY <2>2, <2>3, <2>4
<1>5. ASSUME Generates(c), items = FileItems(f, a, none, FALSE)
      PROVE  IsList(items) /\ \A k \in 1..Len(items) : InFront(items, k) =>
               First(FilesOf(c), 1) /\ items[k].by = FilesOf(c)[1].stem
  <2>1. IsFile(f) /\ First(FilesOf(c), 1)
    BY <1>5, FilesOfStart DEF f
  <2>2. IsWork(items, f, a, none, FALSE)
    BY <1>1, <1>5, <2>1, WorkIs
  <2>3. IsList(items) /\ items[Len(items)].do = "record"
        /\ \A k \in 1..(Len(items) - 1) : items[k].by = f.stem
    <3>1. /\ IsList(items) /\ items[Len(items)] = Note(f.stem)
          /\ \A k \in 1..(Len(items) - 1) : \E s : items[k] = Sql(s, f.stem)
      BY <2>2 DEF IsWork
    <3>2. \A s : Sql(s, f.stem).by = f.stem /\ Note(f.stem).do = "record"
      BY SqlIs
    <3> QED BY <3>1, <3>2
  <2>4. \A k \in 1..Len(items) : k \in 1..(Len(items) - 1) \/ k = Len(items)
    BY <2>3, ListIs
  <2> QED BY <2>1, <2>3, <2>4 DEF InFront, f
<1>6. ASSUME items = <<>> PROVE IsList(items) /\ \A k \in 1..Len(items) : FALSE
  BY <1>6, NoElements
<1> QED BY <1>2, <1>3, <1>4, <1>5, <1>6 DEF items, a

-----------------------------------------------------------------------------
(* The types hold.                                                          *)

LEMMA InitTypes == Init => FileTypes
<1> SUFFICES ASSUME Init PROVE FileTypes
  OBVIOUS
<1> USE DEF Init
<1>1. project \in Projects /\ version \in 1..Len(project)
  <2>1. IsList(project) /\ project # <<>>
    BY ProjectAssumption
  <2> QED BY <2>1 DEF IsList
<1>2. AreFiles(files)
  BY NoElements DEF AreFiles, Range
<1>3. \A b : IsDatabase(EmptyDatabase(b))
  <2>1. \A x : IsDatabase([schemas |-> x, tables |-> {}, indexes |-> {}])
    BY DEF IsDatabase
  <2> QED BY <2>1, Zenon DEF EmptyDatabase
<1>4. dbs = [a \in Alias |-> dbs[a]] /\ \A a \in Alias : IsDatabase(dbs[a])
  BY <1>3
<1>5. ledger = [a \in Alias |-> ledger[a]] /\ \A a \in Alias : ledger[a] = {}
  OBVIOUS
<1>6. IsRun(NoRun)
  <2>1. \A x : IsRun([running |-> FALSE, alias |-> x, todo |-> <<>>])
    BY DEF IsRun
  <2> QED BY <2>1, Zenon DEF NoRun
<1>7. runs = [p \in Process |-> runs[p]] /\ \A p \in Process : IsRun(runs[p])
  BY <1>6
<1>8. /\ budget = [arrivals |-> budget.arrivals, starts |-> budget.starts]
      /\ budget.arrivals \in Nat /\ budget.starts \in Nat
  OBVIOUS
<1> QED BY <1>1, <1>2, <1>4, <1>5, <1>7, <1>8, Zenon DEF FileTypes

LEMMA NoRunIs == IsRun(NoRun) /\ ~NoRun.running
<1>1. \A x : IsRun([running |-> FALSE, alias |-> x, todo |-> <<>>]) /\ ~[running |-> FALSE, alias |-> x, todo |-> <<>>].running
  BY DEF IsRun
<1> QED BY <1>1, Zenon DEF NoRun

LEMMA TailIs ==
  ASSUME NEW s, IsList(s), s # <<>>
  PROVE  /\ Len(s) >= 1 /\ Head(s) = s[1] /\ IsList(Tail(s)) /\ Len(Tail(s)) = Len(s) - 1
         /\ \A k \in 1..Len(Tail(s)) : k + 1 \in 1..Len(s) /\ Tail(s)[k] = s[k + 1]
<1>1. s \in Seq(Range(s))
  BY DEF IsList
<1>2. Len(s) >= 1 /\ Head(s) = s[1] /\ Tail(s) \in Seq(Range(s)) /\ Len(Tail(s)) = Len(s) - 1
      /\ \A k \in 1..Len(Tail(s)) : k + 1 \in 1..Len(s) /\ Tail(s)[k] = s[k + 1]
  BY <1>1
<1> QED BY <1>2, SeqIsList

LEMMA AdvanceIs ==
  ASSUME FileTypes, NEW p \in Process, Doing(p), Advance(p)
  PROVE  /\ At(p) \in Alias /\ IsRun(runs'[p]) /\ runs'[p].running = runs[p].running
         /\ runs'[p].alias = runs[p].alias /\ runs'[p].todo = Tail(runs[p].todo)
         /\ runs' = [q \in Process |-> runs'[q]] /\ \A q \in Process : q # p => runs'[q] = runs[q]
<1>1. IsRun(runs[p]) /\ runs = [q \in Process |-> runs[q]] /\ runs[p].running
  BY DEF FileTypes, Doing
<1>2. runs'[p] = [running |-> runs[p].running, alias |-> runs[p].alias, todo |-> Tail(runs[p].todo)]
  BY <1>1 DEF Advance, IsRun
<1>3. runs' = [q \in Process |-> runs'[q]] /\ \A q \in Process : q # p => runs'[q] = runs[q]
  BY <1>1 DEF Advance
<1>4. IsList(Tail(runs[p].todo)) /\ At(p) \in Alias
  BY <1>1, TailIs DEF IsRun, Doing, At
<1>5. IsRun(runs'[p])
  <2>1. \A running \in BOOLEAN, alias \in Alias : \A todo : IsList(todo) =>
          IsRun([running |-> running, alias |-> alias, todo |-> todo])
    BY DEF IsRun
  <2>2. runs[p].running \in BOOLEAN /\ runs[p].alias \in Alias
    BY <1>1, <1>4 DEF IsRun, At
  <2> QED BY <1>2, <1>4, <2>1, <2>2
<1> QED BY <1>2, <1>3, <1>4, <1>5

LEMMA EndsIs ==
  ASSUME FileTypes, NEW p \in Process, Ends(p)
  PROVE  /\ IsRun(runs'[p]) /\ ~runs'[p].running
         /\ runs' = [q \in Process |-> runs'[q]] /\ \A q \in Process : q # p => runs'[q] = runs[q]
<1>1. runs = [q \in Process |-> runs[q]]
  BY DEF FileTypes
<1>2. runs' = [runs EXCEPT ![p] = NoRun]
  BY DEF Ends
<1>3. runs'[p] = NoRun /\ runs' = [q \in Process |-> runs'[q]] /\ \A q \in Process : q # p => runs'[q] = runs[q]
  BY <1>1, <1>2
<1> QED BY <1>3, NoRunIs

LEMMA RunsTyped ==
  ASSUME FileTypes, NEW p \in Process, IsRun(runs'[p]),
         runs' = [q \in Process |-> runs'[q]], \A q \in Process : q # p => runs'[q] = runs[q]
  PROVE  runs' = [q \in Process |-> runs'[q]] /\ \A q \in Process : IsRun(runs'[q])
BY DEF FileTypes

LEMMA StartIs ==
  ASSUME FileTypes, NEW p \in Process, NEW c \in Calls, Start(p, c)
  PROVE  /\ runs' = [q \in Process |-> runs'[q]] /\ \A q \in Process : IsRun(runs'[q])
         /\ \A q \in Process : q # p => runs'[q] = runs[q]
         /\ c.alias \in Alias
         /\ \/ runs'[p] = runs[p] /\ files' = files
            \/ /\ Tracks(c.alias) /\ files' = FilesOf(c)
               /\ runs'[p].alias = c.alias /\ (runs'[p].todo = <<>> \/ runs'[p].todo = Todo(c))
         /\ budget' = [arrivals |-> budget.arrivals, starts |-> budget.starts + 1]
<1> DEFINE todo == IF c.dry THEN <<>> ELSE Todo(c)
           new == [running |-> TRUE, alias |-> c.alias, todo |-> todo]
<1>1. \/ Tracks(c.alias) /\ runs' = [runs EXCEPT ![p] = new] /\ files' = FilesOf(c)
      \/ runs' = runs /\ files' = files
  BY Zenon DEF Start, FilesOf
<1>2. budget' = [budget EXCEPT !.starts = @ + 1]
  BY Zenon DEF Start
<1>3. budget' = [arrivals |-> budget.arrivals, starts |-> budget.starts + 1]
  BY <1>2 DEF FileTypes
<1>4. c.alias \in Alias
  BY CallsAssumption DEF Alias
<1>5. IsList(todo) /\ (todo = <<>> \/ todo = Todo(c))
  BY NoElements, FrontOfTodo
<1> HIDE DEF todo
<1>6. IsRun(new) /\ new.alias = c.alias /\ new.todo = todo
  BY <1>4, <1>5 DEF IsRun
<1> HIDE DEF new
<1>7. runs = [q \in Process |-> runs[q]] /\ \A q \in Process : IsRun(runs[q])
  BY DEF FileTypes
<1>8. CASE Tracks(c.alias) /\ runs' = [runs EXCEPT ![p] = new] /\ files' = FilesOf(c)
  <2>1. runs'[p] = new /\ (\A q \in Process : q # p => runs'[q] = runs[q]) /\ runs' = [q \in Process |-> runs'[q]]
    BY <1>7, <1>8
  <2> QED BY <1>3, <1>4, <1>5, <1>6, <1>7, <1>8, <2>1
<1>9. CASE runs' = runs /\ files' = files
  BY <1>3, <1>4, <1>7, <1>9
<1> QED BY <1>1, <1>8, <1>9

LEMMA NextTypes ==
  ASSUME FileTypes, [Next]_vars
  PROVE  FileTypes'
<1> DEFINE Project(pr, v) == pr \in Projects /\ v \in 1..Len(pr)
           Dbs(d) == d = [a \in Alias |-> d[a]] /\ \A a \in Alias : IsDatabase(d[a])
           Ledger(l) == l = [a \in Alias |-> l[a]] /\ \A a \in Alias : Backend[a] # LITE => l[a] = {}
           Runs(r) == r = [q \in Process |-> r[q]] /\ \A q \in Process : IsRun(r[q])
           Budget(b) == /\ b = [arrivals |-> b.arrivals, starts |-> b.starts]
                        /\ b.arrivals \in Nat /\ b.starts \in Nat
<1>1. /\ Project(project, version) /\ AreFiles(files) /\ Dbs(dbs) /\ Ledger(ledger)
      /\ Runs(runs) /\ Budget(budget)
  BY DEF FileTypes
<1>2. SUFFICES /\ Project(project', version') /\ AreFiles(files') /\ Dbs(dbs') /\ Ledger(ledger')
               /\ Runs(runs') /\ Budget(budget')
  BY DEF FileTypes
<1>3. CASE Evolve
  <2>1. Project(project', version')
    <3>1. IsList(project)
      BY <1>1, ProjectAssumption
    <3> QED BY <1>1, <1>3, <3>1, ListIs DEF Evolve
  <2> HIDE DEF Project, Dbs, Ledger, Runs, Budget
  <2> QED BY <1>1, <1>3, <2>1 DEF Evolve
<1>4. CASE MakeMigrations
  <2>1. AreFiles(files')
    BY <1>1, <1>4, EntriesAre, WrittenIs DEF MakeMigrations
  <2> HIDE DEF Project, Dbs, Ledger, Runs, Budget
  <2> QED BY <1>1, <1>4, <2>1 DEF MakeMigrations
<1>5. ASSUME NEW f \in Branches, Arrive(f)
      PROVE  /\ Project(project', version') /\ AreFiles(files') /\ Dbs(dbs') /\ Ledger(ledger')
             /\ Runs(runs') /\ Budget(budget')
  <2>1. IsFile(f) /\ f.stem # <<"live">>
    BY BranchAssumption DEF IsFile
  <2>2. PICK i \in 1..(Len(files) + 1) : files' = InsertAt(files, i, f)
    BY <1>5 DEF Arrive, Places
  <2>3. AreFiles(files')
    BY <1>1, <2>1, <2>2, FilesInserted DEF AreFiles
  <2>4. Budget(budget')
    <3>1. budget' = [arrivals |-> budget.arrivals + 1, starts |-> budget.starts]
      BY <1>1, <1>5 DEF Arrive
    <3> QED BY <1>1, <3>1
  <2> HIDE DEF Project, Dbs, Ledger, Runs, Budget
  <2> QED BY <1>1, <1>5, <2>3, <2>4 DEF Arrive
<1>6. ASSUME NEW p \in Process, NEW c \in Calls, Start(p, c)
      PROVE  /\ Project(project', version') /\ AreFiles(files') /\ Dbs(dbs') /\ Ledger(ledger')
             /\ Runs(runs') /\ Budget(budget')
  <2>1. Runs(runs')
    BY <1>6, StartIs
  <2>2. AreFiles(files')
    BY <1>1, <1>6, StartIs, FilesOfStart
  <2>3. Budget(budget')
    <3>1. budget' = [arrivals |-> budget.arrivals, starts |-> budget.starts + 1]
      BY <1>6, StartIs
    <3> QED BY <1>1, <3>1
  <2>4. UNCHANGED <<project, version, dbs, ledger>>
    BY <1>6, Zenon DEF Start
  <2> HIDE DEF Project, Dbs, Ledger, Runs, Budget
  <2> QED BY <1>1, <2>1, <2>2, <2>3, <2>4
<1>7. ASSUME NEW p \in Process, Step(p)
      PROVE  /\ Project(project', version') /\ AreFiles(files') /\ Dbs(dbs') /\ Ledger(ledger')
             /\ Runs(runs') /\ Budget(budget')
  <2> DEFINE item == Head(runs[p].todo)
  <2>1. Doing(p) /\ UNCHANGED <<project, version, files, ledger, budget>>
    BY <1>7 DEF Step
  <2>2. CASE /\ dbs' = [dbs EXCEPT ![At(p)] = Execute(Backend[At(p)], @, item.statement, item.by)]
             /\ Advance(p)
    <3>1. Runs(runs')
      BY <2>1, <2>2, AdvanceIs, RunsTyped
    <3>2. Dbs(dbs')
      <4>1. At(p) \in Alias
        BY <2>1, <2>2, AdvanceIs
      <4> DEFINE new == Execute(Backend[At(p)], dbs[At(p)], item.statement, item.by)
      <4>2. IsDatabase(new)
        BY <1>1, <4>1, ExecuteMakers
      <4>3. dbs' = [dbs EXCEPT ![At(p)] = new]
        BY <2>2
      <4> HIDE DEF new
      <4> QED BY <1>1, <4>1, <4>2, <4>3
    <3> HIDE DEF Project, Dbs, Ledger, Runs, Budget
    <3> QED BY <1>1, <2>1, <3>1, <3>2
  <2>3. CASE Ends(p) /\ UNCHANGED dbs
    <3>1. Runs(runs')
      BY <2>3, EndsIs, RunsTyped
    <3> HIDE DEF Project, Dbs, Ledger, Runs, Budget
    <3> QED BY <1>1, <2>1, <2>3, <3>1
  <2> QED BY <1>7, <2>2, <2>3 DEF Step
<1>8. ASSUME NEW p \in Process, RecordMigration(p)
      PROVE  /\ Project(project', version') /\ AreFiles(files') /\ Dbs(dbs') /\ Ledger(ledger')
             /\ Runs(runs') /\ Budget(budget')
  <2>1. Doing(p) /\ UNCHANGED <<project, version, files, dbs, budget>>
    BY <1>8 DEF RecordMigration
  <2>2. CASE Backend[At(p)] = LITE /\ Advance(p) /\ \E x : ledger' = [ledger EXCEPT ![At(p)] = x]
    <3>1. Runs(runs')
      BY <2>1, <2>2, AdvanceIs, RunsTyped
    <3>2. Ledger(ledger')
      BY <1>1, <2>2
    <3> HIDE DEF Project, Dbs, Ledger, Runs, Budget
    <3> QED BY <1>1, <2>1, <3>1, <3>2
  <2>3. CASE Ends(p) /\ UNCHANGED ledger
    <3>1. Runs(runs')
      BY <2>3, EndsIs, RunsTyped
    <3> HIDE DEF Project, Dbs, Ledger, Runs, Budget
    <3> QED BY <1>1, <2>1, <2>3, <3>1
  <2> QED BY <1>8, <2>2, <2>3 DEF RecordMigration
<1>9. ASSUME NEW p \in Process, Stop(p) \/ Finish(p)
      PROVE  /\ Project(project', version') /\ AreFiles(files') /\ Dbs(dbs') /\ Ledger(ledger')
             /\ Runs(runs') /\ Budget(budget')
  <2>1. Ends(p) /\ UNCHANGED <<project, version, files, dbs, ledger, budget>>
    BY <1>9 DEF Stop, Finish
  <2>2. Runs(runs')
    BY <2>1, EndsIs, RunsTyped
  <2> HIDE DEF Project, Dbs, Ledger, Runs, Budget
  <2> QED BY <1>1, <2>1, <2>2
<1>10. CASE UNCHANGED vars
  <2>1. UNCHANGED <<project, version, files, dbs, ledger, runs, budget>>
    BY <1>10 DEF vars
  <2> HIDE DEF Project, Dbs, Ledger, Runs, Budget
  <2> QED BY <1>1, <2>1
<1> QED BY <1>3, <1>4, <1>5, <1>6, <1>7, <1>8, <1>9, <1>10 DEF Next

-----------------------------------------------------------------------------
(* Off SQLite the tables come from the first files there were.              *)

\* What a run can reach, and what is in a database, of those stems.
Ahead(todo, S) ==
  \A k \in 1..Len(todo) : InFront(todo, k) => todo[k].by \in S \cup {<<"live">>}
Makers(tables, S) == \A t \in tables : t.by \in S \cup {<<"live">>}

\* S has the first file there is, and grew by one with every file that arrived.
Reach(S) ==
  /\ IsFiniteSet(S)
  /\ Cardinality(S) <= budget.arrivals + (IF \E i : First(files, i) THEN 1 ELSE 0)
  /\ \A i : First(files, i) => files[i].stem \in S
  /\ \A a \in Alias : Backend[a] # LITE => Makers(dbs[a].tables, S)
  /\ \A p \in Process : runs[p].running /\ Backend[runs[p].alias] # LITE => Ahead(runs[p].todo, S)

LEMMA AddOne ==
  ASSUME NEW S, IsFiniteSet(S), NEW n \in Nat, Cardinality(S) <= n, NEW x
  PROVE  IsFiniteSet(S \cup {x}) /\ Cardinality(S \cup {x}) <= n + 1
<1>1. Cardinality(S) \in Nat
  BY FS_CardinalityType
<1>2. IsFiniteSet(S \cup {x}) /\ (Cardinality(S \cup {x}) = Cardinality(S) \/ Cardinality(S \cup {x}) = Cardinality(S) + 1)
  BY FS_AddElement
<1> QED BY <1>1, <1>2

LEMMA InitReach == Init => Reach({})
<1> SUFFICES ASSUME Init PROVE Reach({})
  OBVIOUS
<1>1. budget.arrivals = 0 /\ files = <<>>
  BY DEF Init
<1>2. ~\E i : First(files, i)
  BY <1>1 DEF First
<1>3. IsFiniteSet({}) /\ Cardinality({}) = 0
  BY FS_EmptySet
<1>4. \A a \in Alias : dbs[a].tables = {}
  <2>1. \A b : EmptyDatabase(b).tables = {}
    BY Zenon DEF EmptyDatabase
  <2> QED BY <2>1 DEF Init
<1>5. \A p \in Process : ~runs[p].running
  BY NoRunIs DEF Init
<1> QED BY <1>1, <1>2, <1>3, <1>4, <1>5 DEF Reach, Makers

(* The set of a step that adds a file, whatever comes first after it.       *)
LEMMA NextSet ==
  ASSUME FileTypes, FileTypes', NEW S, Reach(S),
         \/ budget'.arrivals = budget.arrivals + 1
         \/ budget'.arrivals = budget.arrivals /\ ~\E i : First(files, i)
         \/ budget'.arrivals = budget.arrivals /\ \E i : First(files, i) /\ First(files', i) /\ files'[i] = files[i]
  PROVE  \E T : /\ S \subseteq T /\ IsFiniteSet(T)
                /\ Cardinality(T) <= budget'.arrivals + (IF \E i : First(files', i) THEN 1 ELSE 0)
                /\ \A i : First(files', i) => files'[i].stem \in T
<1>1. IsList(files) /\ IsList(files') /\ budget.arrivals \in Nat /\ budget'.arrivals \in Nat
  BY DEF FileTypes, AreFiles
<1>2. /\ IsFiniteSet(S) /\ Cardinality(S) \in Nat
      /\ Cardinality(S) <= budget.arrivals + (IF \E i : First(files, i) THEN 1 ELSE 0)
      /\ \A i : First(files, i) => files[i].stem \in S
  BY FS_CardinalityType DEF Reach
<1>3. CASE \E i : First(files, i) /\ First(files', i) /\ files'[i] = files[i]
  <2>1. PICK i : First(files, i) /\ First(files', i) /\ files'[i] = files[i]
    BY <1>3
  <2>2. \A j : First(files', j) => files'[j].stem \in S
    BY <1>1, <1>2, <2>1, FirstIsOne
  <2>3. budget'.arrivals >= budget.arrivals
    BY <1>1
  <2>4. Cardinality(S) <= budget'.arrivals + 1
    BY <1>1, <1>2, <2>3
  <2> QED BY <1>2, <2>1, <2>2, <2>4
<1>4. CASE /\ ~\E i : First(files', i)
           /\ budget'.arrivals = budget.arrivals + 1 \/ ~\E i : First(files, i)
  <2>1. Cardinality(S) <= budget'.arrivals
    BY <1>1, <1>2, <1>4
  <2> QED BY <1>1, <1>2, <1>4, <2>1
<1>5. CASE /\ \E i : First(files', i)
           /\ budget'.arrivals = budget.arrivals + 1 \/ ~\E i : First(files, i)
  <2>1. PICK i : First(files', i)
    BY <1>5
  <2>2. Cardinality(S) <= budget'.arrivals
    BY <1>1, <1>2, <1>5
  <2> DEFINE T == S \cup {files'[i].stem}
  <2>3. IsFiniteSet(T) /\ Cardinality(T) <= budget'.arrivals + 1
    BY <1>1, <1>2, <2>2, AddOne
  <2>4. \A j : First(files', j) => files'[j].stem \in T
    BY <1>1, <2>1, FirstIsOne
  <2> HIDE DEF T
  <2>5. S \subseteq T
    BY DEF T
  <2> QED BY <2>1, <2>3, <2>4, <2>5
<1> QED BY <1>3, <1>4, <1>5

LEMMA FrontGrows ==
  ASSUME NEW todo, NEW S, NEW T, S \subseteq T, Ahead(todo, S)
  PROVE  Ahead(todo, T)
BY DEF Ahead

(* What is done is taken off the front.                                     *)
LEMMA FrontAdvances ==
  ASSUME NEW todo, IsList(todo), todo # <<>>, NEW S, Ahead(todo, S), Head(todo).do = "sql"
  PROVE  Ahead(Tail(todo), S) /\ Head(todo).by \in S \cup {<<"live">>}
<1>1. /\ Len(todo) >= 1 /\ Len(todo) \in Nat /\ Head(todo) = todo[1] /\ Len(Tail(todo)) = Len(todo) - 1
      /\ \A k \in 1..Len(Tail(todo)) : k + 1 \in 1..Len(todo) /\ Tail(todo)[k] = todo[k + 1]
  BY TailIs, ListIs
<1>2. Head(todo).by \in S \cup {<<"live">>}
  BY <1>1 DEF Ahead, InFront
<1>3. ASSUME NEW k \in 1..Len(Tail(todo)), InFront(Tail(todo), k)
      PROVE  Tail(todo)[k].by \in S \cup {<<"live">>}
  <2>1. todo[k + 1].do = "sql" /\ k + 1 \in 1..Len(todo) /\ k \in Nat
    BY <1>1, <1>3 DEF InFront
  <2>2. ASSUME NEW j \in 1..k PROVE todo[j].do # "record"
    <3>1. CASE j = 1
      BY <1>1, <3>1
    <3>2. CASE j > 1
      <4>1. j - 1 \in 1..(k - 1) /\ j - 1 + 1 = j
        BY <3>2, <2>1
      <4>2. j - 1 \in 1..Len(Tail(todo))
        BY <4>1, <1>1
      <4> QED BY <4>1, <4>2, <1>1, <1>3 DEF InFront
    <3> QED BY <3>1, <3>2, <2>1
  <2>3. InFront(todo, k + 1)
    BY <2>1, <2>2 DEF InFront
  <2> QED BY <1>1, <2>1, <2>3 DEF Ahead
<1> QED BY <1>2, <1>3 DEF Ahead

(* A step that leaves the files and the arrivals.                           *)
LEMMA SameSet ==
  ASSUME NEW S, Reach(S), UNCHANGED files, budget'.arrivals = budget.arrivals,
         \A a \in Alias : Backend[a] # LITE => Makers(dbs'[a].tables, S),
         \A p \in Process : runs'[p].running /\ Backend[runs'[p].alias] # LITE => Ahead(runs'[p].todo, S)
  PROVE  Reach(S)'
BY DEF Reach, Makers, Ahead

LEMMA NextReach ==
  ASSUME FileTypes, FileTypes', [Next]_vars, NEW S, Reach(S)
  PROVE  \E T : Reach(T)'
<1>1. /\ \A a \in Alias : Backend[a] # LITE => Makers(dbs[a].tables, S)
      /\ \A p \in Process : runs[p].running /\ Backend[runs[p].alias] # LITE => Ahead(runs[p].todo, S)
      /\ \A i : First(files, i) => files[i].stem \in S
  BY DEF Reach
<1>2. IsList(files) /\ IsList(files')
  BY DEF FileTypes, AreFiles
<1>3. ASSUME NEW T, S \subseteq T, IsFiniteSet(T),
             Cardinality(T) <= budget'.arrivals + (IF \E i : First(files', i) THEN 1 ELSE 0),
             \A i : First(files', i) => files'[i].stem \in T,
             dbs' = dbs,
             \A p \in Process : runs'[p].running /\ Backend[runs'[p].alias] # LITE => Ahead(runs'[p].todo, T)
      PROVE  Reach(T)'
  <2>1. \A a \in Alias : Backend[a] # LITE => Makers(dbs'[a].tables, T)
    BY <1>1, <1>3 DEF Makers
  <2> QED BY <1>3, <2>1 DEF Reach, Makers, Ahead
<1>4. CASE MakeMigrations
  <2>1. PICK f : f.readable = TRUE /\ files' = Append(files, f)
    BY <1>4, EntriesAre, WrittenIs DEF MakeMigrations, FileTypes
  <2>2. UNCHANGED <<dbs, runs, budget>>
    BY <1>4 DEF MakeMigrations
  <2>3. ASSUME NEW i, First(files, i) PROVE First(files', i) /\ files'[i] = files[i]
    <3>1. /\ DOMAIN files = 1..Len(files) /\ Len(files) \in Nat /\ DOMAIN files' = 1..(Len(files) + 1)
          /\ \A j \in 1..Len(files) : files'[j] = files[j]
      BY <1>2, <2>1, FilesAppended, ListIs
    <3> QED BY <2>3, <3>1 DEF First
  <2>4. PICK T : /\ S \subseteq T /\ IsFiniteSet(T)
                 /\ Cardinality(T) <= budget'.arrivals + (IF \E i : First(files', i) THEN 1 ELSE 0)
                 /\ \A i : First(files', i) => files'[i].stem \in T
    BY <2>2, <2>3, NextSet
  <2>5. \A p \in Process : runs'[p].running /\ Backend[runs'[p].alias] # LITE => Ahead(runs'[p].todo, T)
    BY <1>1, <2>2, <2>4, FrontGrows
  <2> QED BY <1>3, <2>2, <2>4, <2>5
<1>5. ASSUME NEW f \in Branches, Arrive(f) PROVE \E T : Reach(T)'
  <2>1. UNCHANGED <<dbs, runs>> /\ budget'.arrivals = budget.arrivals + 1
    BY <1>5 DEF Arrive, FileTypes
  <2>2. PICK T : /\ S \subseteq T /\ IsFiniteSet(T)
                 /\ Cardinality(T) <= budget'.arrivals + (IF \E i : First(files', i) THEN 1 ELSE 0)
                 /\ \A i : First(files', i) => files'[i].stem \in T
    BY <2>1, NextSet
  <2>3. \A p \in Process : runs'[p].running /\ Backend[runs'[p].alias] # LITE => Ahead(runs'[p].todo, T)
    BY <1>1, <2>1, <2>2, FrontGrows
  <2> QED BY <1>3, <2>1, <2>2, <2>3
<1>6. ASSUME NEW p \in Process, NEW c \in Calls, Start(p, c) PROVE \E T : Reach(T)'
  <2>1. UNCHANGED dbs /\ budget'.arrivals = budget.arrivals
    <3>1. UNCHANGED dbs
      BY <1>6, Zenon DEF Start
    <3> QED BY <1>6, <3>1, StartIs
  <2>2. files' = files \/ (files' = FilesOf(c) /\ (files = <<>> \/ FilesOf(c) = files))
    <3>1. files = <<>> \/ FilesOf(c) = files
      BY Zenon DEF FilesOf, Generates
    <3> QED BY <1>6, <3>1, StartIs
  <2>3. \/ ~\E i : First(files, i)
        \/ \E i : First(files, i) /\ First(files', i) /\ files'[i] = files[i]
    <3>1. files = <<>> => ~\E i : First(files, i)
      BY DEF First
    <3> QED BY <2>2, <3>1
  <2>4. PICK T : /\ S \subseteq T /\ IsFiniteSet(T)
                 /\ Cardinality(T) <= budget'.arrivals + (IF \E i : First(files', i) THEN 1 ELSE 0)
                 /\ \A i : First(files', i) => files'[i].stem \in T
    BY <2>1, <2>3, NextSet
  <2>5. ASSUME NEW q \in Process, runs'[q].running, Backend[runs'[q].alias] # LITE
        PROVE  Ahead(runs'[q].todo, T)
    <3>1. CASE runs'[q] = runs[q]
      BY <1>1, <2>4, <2>5, <3>1, FrontGrows
    <3>2. CASE runs'[q] # runs[q]
      <4>1. /\ q = p /\ files' = FilesOf(c) /\ runs'[p].alias = c.alias
            /\ runs'[p].todo = <<>> \/ runs'[p].todo = Todo(c)
        BY <1>6, <3>2, StartIs
      <4>2. CASE runs'[p].todo = <<>>
        BY <4>1, <4>2 DEF Ahead
      <4>3. CASE runs'[p].todo = Todo(c)
        <5>1. \A k \in 1..Len(Todo(c)) : InFront(Todo(c), k) =>
                \/ Todo(c)[k].by = <<"live">>
                \/ \E i : First(files', i) /\ Todo(c)[k].by = files'[i].stem
          BY <2>5, <4>1, FrontOfTodo
        <5> QED BY <2>4, <4>1, <4>3, <5>1 DEF Ahead
      <4> QED BY <4>1, <4>2, <4>3
    <3> QED BY <3>1, <3>2
  <2> QED BY <1>3, <2>1, <2>4, <2>5
<1>7. ASSUME NEW p \in Process, Ends(p), UNCHANGED <<files, budget, dbs>>
      PROVE  Reach(S)'
  <2>1. \A q \in Process : runs'[q].running => q # p /\ runs'[q] = runs[q]
    BY <1>7, EndsIs
  <2> QED BY <1>1, <1>7, <2>1, SameSet
<1>8. ASSUME NEW p \in Process, Step(p) PROVE \E T : Reach(T)'
  <2> DEFINE a == At(p)
             todo == runs[p].todo
             item == Head(todo)
             new == Execute(Backend[a], dbs[a], item.statement, item.by)
  <2>1. Doing(p) /\ item.do = "sql" /\ UNCHANGED <<files, budget>>
    BY <1>8 DEF Step
  <2>2. CASE Ends(p) /\ UNCHANGED dbs
    BY <1>7, <2>1, <2>2
  <2>3. CASE dbs' = [dbs EXCEPT ![a] = new] /\ Advance(p)
    <3>1. /\ a \in Alias /\ runs'[p].alias = a /\ runs'[p].todo = Tail(todo)
          /\ runs[p].running /\ \A q \in Process : q # p => runs'[q] = runs[q]
      BY <2>1, <2>3, AdvanceIs DEF Doing, At
    <3>2. IsList(todo) /\ todo # <<>> /\ IsDatabase(dbs[a]) /\ a = runs[p].alias
      BY <2>1, <3>1 DEF FileTypes, IsRun, Doing, At
    <3>3. Backend[a] # LITE => Ahead(Tail(todo), S) /\ item.by \in S \cup {<<"live">>}
      BY <1>1, <2>1, <3>1, <3>2, FrontAdvances
    <3>4. \A t \in new.tables : t.by = item.by \/ \E u \in dbs[a].tables : u.by = t.by
      BY <3>2, ExecuteMakers
    <3> HIDE DEF new
    <3>5. Backend[a] # LITE => Makers(new.tables, S)
      BY <1>1, <3>1, <3>3, <3>4 DEF Makers
    <3>6. \A b \in Alias : dbs'[b] = IF b = a THEN new ELSE dbs[b]
      BY <2>3 DEF FileTypes
    <3>7. \A b \in Alias : Backend[b] # LITE => Makers(dbs'[b].tables, S)
      BY <1>1, <3>5, <3>6
    <3>8. \A q \in Process : runs'[q].running /\ Backend[runs'[q].alias] # LITE => Ahead(runs'[q].todo, S)
      BY <1>1, <3>1, <3>3
    <3> QED BY <2>1, <3>7, <3>8, SameSet
  <2> QED BY <1>8, <2>2, <2>3 DEF Step
<1>9. ASSUME NEW p \in Process, RecordMigration(p) PROVE \E T : Reach(T)'
  <2>1. Doing(p) /\ UNCHANGED <<files, budget, dbs>>
    BY <1>9 DEF RecordMigration
  <2>2. CASE Ends(p)
    BY <1>7, <2>1, <2>2
  <2>3. CASE Backend[At(p)] = LITE /\ Advance(p)
    <3>1. runs'[p].alias = At(p) /\ \A q \in Process : q # p => runs'[q] = runs[q]
      BY <2>1, <2>3, AdvanceIs DEF At
    <3>2. \A q \in Process : runs'[q].running /\ Backend[runs'[q].alias] # LITE => Ahead(runs'[q].todo, S)
      BY <1>1, <2>3, <3>1
    <3> QED BY <1>1, <2>1, <3>2, SameSet
  <2> QED BY <1>9, <2>2, <2>3 DEF RecordMigration
<1>10. ASSUME NEW p \in Process, Stop(p) \/ Finish(p) PROVE \E T : Reach(T)'
  <2>1. Ends(p) /\ UNCHANGED <<files, budget, dbs>>
    BY <1>10 DEF Stop, Finish
  <2> QED BY <1>7, <2>1
<1>11. CASE Evolve \/ UNCHANGED vars
  <2>1. UNCHANGED <<files, budget, dbs, runs>>
    BY <1>11 DEF Evolve, vars
  <2> QED BY <1>1, <2>1, SameSet
<1> QED BY <1>4, <1>5, <1>6, <1>8, <1>9, <1>10, <1>11 DEF Next

(* Off SQLite the first file alone is in effect: besides what live runs       *)
(* make, the tables of a database come from at most one file, and one more    *)
(* for each file that arrived.  What is kept is a set of stems: it has that    *)
(* of the first readable file, and those of all tables and of everything a    *)
(* run may still do before it would record a file, which ends it.             *)
THEOREM FirstFileAlone == Spec => []OnlyFirstFileReaches
<1>1. Init => FileTypes /\ \E S : Reach(S)
  BY InitTypes, InitReach
<1>2. (FileTypes /\ \E S : Reach(S)) /\ [Next]_vars => (FileTypes /\ \E S : Reach(S))'
  <2> SUFFICES ASSUME FileTypes, NEW S, Reach(S), [Next]_vars
               PROVE  FileTypes' /\ \E T : Reach(T)'
    OBVIOUS
  <2> QED BY NextTypes, NextReach
<1>3. (FileTypes /\ \E S : Reach(S)) => OnlyFirstFileReaches
  <2> SUFFICES ASSUME FileTypes, NEW S, Reach(S), NEW a \in Alias, Backend[a] # LITE
               PROVE  Cardinality({t.by : t \in dbs[a].tables} \ {<<"live">>}) <= 1 + budget.arrivals
    BY DEF OnlyFirstFileReaches
  <2> DEFINE by == {t.by : t \in dbs[a].tables} \ {<<"live">>}
  <2>1. by \subseteq S
    BY DEF Reach, Makers
  <2>2. /\ IsFiniteSet(S) /\ Cardinality(S) \in Nat /\ budget.arrivals \in Nat
        /\ Cardinality(S) <= budget.arrivals + 1
    BY FS_CardinalityType DEF Reach, FileTypes
  <2> HIDE DEF by
  <2>3. IsFiniteSet(by) /\ Cardinality(by) <= Cardinality(S) /\ Cardinality(by) \in Nat
    BY <2>1, <2>2, FS_Subset, FS_CardinalityType
  <2>4. Cardinality(by) <= 1 + budget.arrivals
    BY <2>2, <2>3
  <2> QED BY <2>4 DEF by
<1> QED BY <1>1, <1>2, <1>3, PTL DEF Spec

-----------------------------------------------------------------------------
(* On SQLite what a file says is in effect when the file is recorded.       *)

\* Of the tables a file may make in a database, those of this name have these
\* columns; the table is a live run's, or some file's that it has the shape of.
Shaped(f, a, table, names) ==
  \A op \in Range(f.ops) :
    op.kind = "CreateTable" /\ Relevant(op, a) /\ op.table = table => Names(op.columns) \subseteq names
Owned(fs, a, by, table, names) ==
  by = <<"live">> \/ \E f \in Range(fs) : f.stem = by /\ Shaped(f, a, table, names)
LiteTable(fs, a, t) ==
  t.schema = NoSchema /\ IsList(t.columns) /\ Owned(fs, a, t.by, t.name, Names(t.columns))

\* What a file says to a database, and what answers to it.
Wanted(f, a) == {op \in Range(f.ops) : op.kind \in {"CreateTable", "AddField"} /\ Relevant(op, a)}
InEffect(tables, op) ==
  \E t \in tables : t.name = op.table /\ (op.kind = "AddField" => Names(op.columns) \subseteq Names(t.columns))
Makes(s, op) ==
  /\ s.table = op.table
  /\ op.kind = "CreateTable" => s.kind = "create_table"
  /\ op.kind = "AddField" => s.kind = "add_column" /\ Names(op.columns) \subseteq Names(s.columns)

\* The work of a run: every statement is one SQLite can take, and before a
\* record come the statements for whatever of its file is not in effect.
LiteSql(fs, a, item) ==
  /\ IsLiteStatement(item.statement)
  /\ item.statement.kind = "create_table" =>
       Owned(fs, a, item.by, item.statement.table, Names(item.statement.columns))
Promised(fs, a, tables, todo, k) ==
  \E f \in Range(fs) :
    /\ f.stem = todo[k].stem
    /\ \A op \in Wanted(f, a) :
         \/ InEffect(tables, op)
         \/ \E j \in 1..(k - 1) : todo[j].do = "sql" /\ Makes(todo[j].statement, op)
LiteTodo(fs, a, tables, todo) ==
  \A k \in 1..Len(todo) :
    /\ todo[k].do = "sql" => LiteSql(fs, a, todo[k])
    /\ todo[k].do = "record" => Promised(fs, a, tables, todo, k)
LiteLedger(fs, a, tables, stems) ==
  \A stem \in stems : \E f \in Range(fs) : f.stem = stem /\ \A op \in Wanted(f, a) : InEffect(tables, op)

Lite ==
  \A a \in Alias : Backend[a] = LITE =>
    /\ \A t \in dbs[a].tables : LiteTable(files, a, t)
    /\ LiteLedger(files, a, dbs[a].tables, ledger[a])
    /\ \A p \in Process : runs[p].running /\ runs[p].alias = a => LiteTodo(files, a, dbs[a].tables, runs[p].todo)

(* All of it stays true while files come and tables grow.                   *)
Grown(old, new) ==
  \A t \in old : \E u \in new : u.name = t.name /\ Names(t.columns) \subseteq Names(u.columns)

LEMMA GrownKeeps ==
  ASSUME NEW old, NEW new, Grown(old, new), NEW op, InEffect(old, op)
  PROVE  InEffect(new, op)
BY DEF Grown, InEffect

LEMMA OwnedKeeps ==
  ASSUME NEW fs, NEW gs, Range(fs) \subseteq Range(gs), NEW a, NEW by, NEW table,
         NEW names, NEW more, names \subseteq more, Owned(fs, a, by, table, names)
  PROVE  Owned(gs, a, by, table, more)
BY DEF Owned, Shaped

LEMMA LedgerKeeps ==
  ASSUME NEW fs, NEW gs, Range(fs) \subseteq Range(gs), NEW a, NEW old, NEW new, Grown(old, new),
         NEW stems, LiteLedger(fs, a, old, stems)
  PROVE  LiteLedger(gs, a, new, stems)
BY GrownKeeps DEF LiteLedger

LEMMA TodoKeeps ==
  ASSUME NEW fs, NEW gs, Range(fs) \subseteq Range(gs), NEW a, NEW old, NEW new, Grown(old, new),
         NEW todo, LiteTodo(fs, a, old, todo)
  PROVE  LiteTodo(gs, a, new, todo)
<1> SUFFICES ASSUME NEW k \in 1..Len(todo)
             PROVE  /\ todo[k].do = "sql" => LiteSql(gs, a, todo[k])
                    /\ todo[k].do = "record" => Promised(gs, a, new, todo, k)
  BY DEF LiteTodo
<1>1. todo[k].do = "sql" => LiteSql(gs, a, todo[k])
  BY OwnedKeeps DEF LiteTodo, LiteSql
<1>2. ASSUME todo[k].do = "record" PROVE Promised(gs, a, new, todo, k)
  <2>1. Promised(fs, a, old, todo, k)
    BY <1>2 DEF LiteTodo
  <2> QED BY <2>1, GrownKeeps DEF Promised
<1> QED BY <1>1, <1>2

(* A statement in an SQLite database.                                       *)
LEMMA AddedIs ==
  ASSUME NEW cols, IsList(cols), NEW s, AreColumns(s.columns), Len(s.columns) = 1
  PROVE  IsList(AddedTo(cols, s)) /\ Names(AddedTo(cols, s)) = Names(cols) \cup Names(s.columns)
<1> DEFINE none == ""
           c == s.columns[1]
           k == Kept(c, none)
<1>1. AddedTo(cols, s) = Append(cols, k)
  BY Zenon DEF AddedTo
<1> HIDE DEF none
<1>2. DOMAIN s.columns = {1} /\ IsColumn(c)
  BY ListIs DEF AreColumns
<1>3. k.name = c.name
  BY <1>2, KeptIs
<1>4. Names(s.columns) = {c.name}
  BY <1>2 DEF Names
<1> HIDE DEF k, c
<1>5. /\ IsList(Append(cols, k)) /\ Len(Append(cols, k)) = Len(cols) + 1
      /\ (\A j \in 1..Len(cols) : Append(cols, k)[j] = cols[j]) /\ Append(cols, k)[Len(cols) + 1] = k
  BY FilesAppended
<1> DEFINE g == Append(cols, k)
<1>6. DOMAIN g = 1..(Len(cols) + 1) /\ DOMAIN cols = 1..Len(cols) /\ Len(cols) \in Nat
  BY <1>5, ListIs
<1>7. IsList(g) /\ (\A j \in 1..Len(cols) : g[j] = cols[j]) /\ g[Len(cols) + 1] = k
  BY <1>5
<1> HIDE DEF g
<1>8. Names(g) = Names(cols) \cup {k.name}
  <2>1. \A j \in DOMAIN g : g[j].name \in Names(cols) \cup {k.name}
    BY <1>6, <1>7 DEF Names
  <2>2. \A j \in DOMAIN cols : j \in DOMAIN g /\ g[j] = cols[j]
    BY <1>6, <1>7
  <2>3. Len(cols) + 1 \in DOMAIN g
    BY <1>6
  <2> QED BY <1>7, <2>1, <2>2, <2>3 DEF Names
<1> QED BY <1>1, <1>3, <1>4, <1>7, <1>8 DEF g

LEMMA MadeIs ==
  ASSUME NEW s, AreColumns(s.columns), NEW schema, NEW by
  PROVE  LET t == MadeBy(s, schema, by)
         IN /\ t.name = s.table /\ t.schema = schema /\ t.by = by
            /\ IsList(t.columns) /\ Names(t.columns) = Names(s.columns)
<1> DEFINE t == MadeBy(s, schema, by)
           g == [i \in DOMAIN s.columns |-> Kept(s.columns[i], s.clause)]
<1>1. t.name = s.table /\ t.schema = schema /\ t.by = by /\ t.columns = g \o <<>>
  BY DEF MadeBy, MapTo
<1>2. /\ IsList(s.columns) /\ g = [i \in DOMAIN s.columns |-> g[i]]
      /\ \A i \in DOMAIN s.columns : IsColumn(g[i]) /\ g[i].name = s.columns[i].name
  BY KeptIs DEF AreColumns
<1> HIDE DEF g
<1>3. AreColumns(g \o <<>>) /\ Names(g \o <<>>) = Names(s.columns)
  BY <1>2, NamesOfMap
<1> QED BY <1>1, <1>3 DEF AreColumns

LEMMA LiteExecute ==
  ASSUME NEW fs, NEW a, NEW db, IsDatabase(db), \A t \in db.tables : LiteTable(fs, a, t),
         NEW s, IsLiteStatement(s), Accepts(LITE, db, s), NEW by,
         s.kind = "create_table" => Owned(fs, a, by, s.table, Names(s.columns))
  PROVE  LET new == Execute(LITE, db, s, by)
         IN /\ \A t \in new.tables : LiteTable(fs, a, t)
            /\ Grown(db.tables, new.tables)
            /\ \A op : op.kind \in {"CreateTable", "AddField"} /\ Makes(s, op) => InEffect(new.tables, op)
<1> DEFINE at == TableAt(LITE, db, s)
           new == Execute(LITE, db, s, by)
           made == MadeBy(s, NoSchema, by)
           Add(t) == With(t, AddedTo(t.columns, s))
           more == (db.tables \ at) \cup {Add(t) : t \in at}
<1>1. /\ db = [schemas |-> db.schemas, tables |-> db.tables, indexes |-> db.indexes]
      /\ \A t \in db.tables : IsTable(t) /\ LiteTable(fs, a, t)
  BY DEF IsDatabase
<1>2. s.kind \in {"create_table", "add_column"} => /\ Home(LITE, s.schema) = NoSchema
                                                   /\ at = {t \in db.tables : t.name = s.table}
  <2>1. ASSUME s.kind \in {"create_table", "add_column"}
        PROVE  Home(LITE, s.schema) = NoSchema
    <3>1. s.schema = NoSchema
      BY <2>1 DEF IsLiteStatement
    <3> QED BY <3>1, BackendsDiffer, Zenon DEF Home
  <2>2. at = {t \in db.tables : t.schema = Home(LITE, s.schema) /\ t.name = s.table}
    BY Zenon DEF TableAt, Named
  <2> QED BY <1>1, <2>1, <2>2 DEF LiteTable
<1>3. /\ s.kind = "create_table" /\ at # {} => new = db
      /\ s.kind = "add_column" => at # {}
  <2>1. s.kind = "create_table" /\ at # {} => new = db
    BY Zenon DEF Execute, TableAt
  <2>2. s.kind = "add_column" => at # {}
    BY Zenon DEF Accepts, TableAt
  <2> QED BY <2>1, <2>2
<1>4. /\ s.kind = "create_table" /\ at = {} => new = [db EXCEPT !.tables = @ \cup {made}]
      /\ s.kind = "add_column" => new = [db EXCEPT !.tables = more]
      /\ s.kind \notin {"create_table", "add_column"} =>
           new = db \/ (\E x : new = [db EXCEPT !.schemas = x]) \/ (\E x : new = [db EXCEPT !.indexes = x])
  <2>1. ASSUME s.kind = "create_table", at = {}
        PROVE  new = [db EXCEPT !.tables = @ \cup {made}]
    <3>1. new = [db EXCEPT !.tables = @ \cup {MadeBy(s, Home(LITE, s.schema), by)}]
      BY <2>1, Zenon DEF Execute, MadeBy, TableAt
    <3> QED BY <1>2, <2>1, <3>1
  <2>2. ASSUME s.kind = "add_column"
        PROVE  new = [db EXCEPT !.tables = more]
    BY <2>2, Zenon DEF Execute, AddedTo, With, TableAt
  <2>3. s.kind \notin {"drop_column", "alter_column"}
    BY DEF IsLiteStatement
  <2> HIDE DEF new
  <2>4. ASSUME s.kind \notin {"create_table", "add_column"}
        PROVE  new = db \/ (\E x : new = [db EXCEPT !.schemas = x]) \/ (\E x : new = [db EXCEPT !.indexes = x])
    BY <2>3, <2>4, ExecuteIs DEF new
  <2> QED BY <2>1, <2>2, <2>4
<1> HIDE DEF new, made, more
<1>5. /\ s.kind = "create_table" /\ at = {} => new.tables = db.tables \cup {made}
      /\ s.kind = "create_table" /\ at # {} => new.tables = db.tables
      /\ s.kind = "add_column" => new.tables = more
      /\ s.kind \notin {"create_table", "add_column"} => new.tables = db.tables
  <2>1. \A x : /\ [db EXCEPT !.tables = x].tables = x /\ [db EXCEPT !.schemas = x].tables = db.tables
               /\ [db EXCEPT !.indexes = x].tables = db.tables
    BY <1>1
  <2>2. [db EXCEPT !.tables = @ \cup {made}] = [db EXCEPT !.tables = db.tables \cup {made}]
    OBVIOUS
  <2> QED BY <1>3, <1>4, <2>1, <2>2
<1>6. Grown(db.tables, db.tables)
  BY DEF Grown
<1>7. CASE s.kind = "create_table" /\ at = {}
  <2>1. /\ made.name = s.table /\ made.schema = NoSchema /\ made.by = by
        /\ IsList(made.columns) /\ Names(made.columns) = Names(s.columns)
    BY <1>7, MadeIs DEF IsLiteStatement, made
  <2>2. LiteTable(fs, a, made)
    BY <1>7, <2>1 DEF LiteTable
  <2>3. Grown(db.tables, new.tables)
    BY <1>5, <1>7 DEF Grown
  <2>4. \A op : op.kind \in {"CreateTable", "AddField"} /\ Makes(s, op) => InEffect(new.tables, op)
    BY <1>5, <1>7, <2>1 DEF Makes, InEffect
  <2> QED BY <1>1, <1>5, <1>7, <2>2, <2>3, <2>4 DEF new
<1>8. CASE s.kind = "create_table" /\ at # {}
  <2>1. new.tables = db.tables
    BY <1>5, <1>8
  <2>2. \A op : op.kind \in {"CreateTable", "AddField"} /\ Makes(s, op) => InEffect(new.tables, op)
    BY <1>2, <1>8, <2>1 DEF Makes, InEffect
  <2> QED BY <1>1, <1>6, <2>1, <2>2 DEF new
<1>9. CASE s.kind = "add_column"
  <2>1. AreColumns(s.columns) /\ Len(s.columns) = 1 /\ at \subseteq db.tables /\ at # {}
    BY <1>2, <1>3, <1>9 DEF IsLiteStatement
  <2>2. ASSUME NEW t \in at
        PROVE  /\ LiteTable(fs, a, Add(t)) /\ Add(t).name = t.name
               /\ Names(Add(t).columns) = Names(t.columns) \cup Names(s.columns)
    <3>1. IsTable(t) /\ LiteTable(fs, a, t)
      BY <1>1, <2>1
    <3>2. IsList(AddedTo(t.columns, s)) /\ Names(AddedTo(t.columns, s)) = Names(t.columns) \cup Names(s.columns)
      BY <2>1, <3>1, AddedIs DEF LiteTable
    <3>3. /\ Add(t).name = t.name /\ Add(t).schema = t.schema /\ Add(t).by = t.by
          /\ Add(t).columns = AddedTo(t.columns, s)
      BY <3>1, WithIs
    <3> HIDE DEF Add
    <3>4. LiteTable(fs, a, Add(t))
      BY <3>1, <3>2, <3>3, OwnedKeeps DEF LiteTable
    <3> QED BY <3>2, <3>3, <3>4
  <2> HIDE DEF Add
  <2>3. new.tables = (db.tables \ at) \cup {Add(t) : t \in at}
    BY <1>5, <1>9 DEF more
  <2>4. \A t \in new.tables : LiteTable(fs, a, t)
    BY <1>1, <2>2, <2>3
  <2>5. Grown(db.tables, new.tables)
    BY <2>2, <2>3 DEF Grown
  <2>6. ASSUME NEW op, op.kind \in {"CreateTable", "AddField"}, Makes(s, op)
        PROVE  InEffect(new.tables, op)
    <3>1. PICK t \in at : t.name = s.table
      BY <1>2, <1>9, <2>1
    <3>2. Add(t) \in new.tables /\ Add(t).name = s.table /\ Names(s.columns) \subseteq Names(Add(t).columns)
      BY <2>2, <2>3, <3>1
    <3> QED BY <1>9, <2>6, <3>2 DEF Makes, InEffect
  <2> QED BY <2>4, <2>5, <2>6 DEF new
<1>10. CASE s.kind \notin {"create_table", "add_column"}
  <2>1. new.tables = db.tables
    BY <1>5, <1>10
  <2>2. \A op : op.kind \in {"CreateTable", "AddField"} => ~Makes(s, op)
    BY <1>10 DEF Makes
  <2> QED BY <1>1, <1>6, <2>1, <2>2 DEF new
<1> QED BY <1>7, <1>8, <1>9, <1>10

(* The work of a run on SQLite.                                             *)
IsOp(op) ==
  op.kind \in OperationKinds /\ IsList(op.columns) /\ (op.kind = "AddField" => DOMAIN op.columns = {1})

LEMMA OperationLite ==
  ASSUME NEW a \in Alias, Backend[a] = LITE, NEW schema, NEW own, NEW op, IsOp(op)
  PROVE  /\ \A s \in Range(OperationToSql(In(Gen(a, schema), own), op)) :
              /\ IsLiteStatement(s)
              /\ s.kind = "create_table" =>
                   op.kind = "CreateTable" /\ s.table = op.table /\ Names(s.columns) = Names(op.columns)
         /\ op.kind \in {"CreateTable", "AddField"} =>
              \E s \in Range(OperationToSql(In(Gen(a, schema), own), op)) : Makes(s, op)
<1> DEFINE gen == In(Gen(a, schema), own)
           sqls == OperationToSql(gen, op)
           create == CreateTable(gen, op.table, op.columns)
           add == AddColumn(gen, op.table, op.columns[1])
<1>1. \A x : Range(<<x>>) = {x}
  BY TupleIsList
<1>2. gen.backend = LITE /\ LITE # PG /\ LITE # MY
  <2>1. gen.backend = Backend[a]
    <3>1. \A x : In(Gen(a, schema), x).backend = Backend[a]
      BY GenIs, Zenon
    <3> QED BY <3>1, Zenon
  <2>2. LITE # PG /\ LITE # MY
    BY BackendsDiffer, Zenon
  <2> QED BY <2>1, <2>2, Zenon
<1>3. CASE op.kind = "CreateTable"
  <2>1. sqls = <<create>>
    BY <1>3, Zenon DEF OperationToSql
  <2>2. /\ create.kind = "create_table" /\ create.table = op.table
        /\ Names(create.columns) = Names(op.columns) /\ IsLiteStatement(create)
    BY CreateIs DEF IsOp
  <2> HIDE DEF create, sqls
  <2>3. Makes(create, op)
    BY <1>3, <2>2 DEF Makes
  <2>4. Range(sqls) = {create}
    BY <1>1, <2>1
  <2> QED BY <1>3, <2>2, <2>3, <2>4 DEF sqls
<1>4. CASE op.kind = "AddField"
  <2>1. sqls = <<add>>
    BY <1>4, Zenon DEF OperationToSql
  <2>2. /\ add.kind = "add_column" /\ add.table = op.table
        /\ Names(add.columns) = {op.columns[1].name} /\ IsLiteStatement(add)
    BY AddIs
  <2>3. Names(op.columns) = {op.columns[1].name}
    BY <1>4 DEF IsOp, Names
  <2> HIDE DEF add, sqls
  <2>4. Makes(add, op)
    BY <1>4, <2>2, <2>3 DEF Makes
  <2>5. Range(sqls) = {add}
    BY <1>1, <2>1
  <2> QED BY <1>4, <2>2, <2>4, <2>5 DEF sqls
<1>5. ASSUME \A s \in Range(sqls) : s.kind \in {"comment", "create_index", "drop_index", "raw"},
             op.kind \notin {"CreateTable", "AddField"}
      PROVE  /\ \A s \in Range(sqls) :
                  /\ IsLiteStatement(s)
                  /\ s.kind = "create_table" =>
                       op.kind = "CreateTable" /\ s.table = op.table /\ Names(s.columns) = Names(op.columns)
             /\ op.kind \in {"CreateTable", "AddField"} => \E s \in Range(sqls) : Makes(s, op)
  <2> HIDE DEF sqls
  <2> QED BY <1>5 DEF IsLiteStatement
<1>6. \A kind, table, cols, clause, x :
        /\ Statement(kind, gen, table, cols, clause).kind = kind
        /\ [Statement(kind, gen, table, cols, clause) EXCEPT !.schema = x].kind = kind
  <2> HIDE DEF gen
  <2> QED BY DEF Statement
<1>7. CASE op.kind = "CreateSchema"
  <2>1. sqls = <<>>
    <3> HIDE DEF gen
    <3>1. sqls = CreateSchema(gen, op.schema)
      BY <1>7, Zenon DEF OperationToSql, gen
    <3> QED BY <1>2, <3>1, Zenon DEF CreateSchema
  <2> HIDE DEF sqls
  <2>2. Range(sqls) = {}
    BY <2>1 DEF Range
  <2> QED BY <1>5, <1>7, <2>2 DEF sqls
<1>8. CASE op.kind = "RemoveField"
  <2> DEFINE s == DropColumn(gen, op.table, op.columns[1])
  <2>1. sqls = <<s>>
    BY <1>8, Zenon DEF OperationToSql
  <2>2. \E table, cols, clause : s = Statement("comment", gen, table, cols, clause)
    BY <1>2, Zenon DEF DropColumn
  <2> HIDE DEF s, sqls, gen
  <2>3. s.kind = "comment" /\ Range(sqls) = {s}
    BY <1>1, <1>6, <2>1, <2>2
  <2> QED BY <1>5, <1>8, <2>3 DEF sqls, gen
<1>9. CASE op.kind = "AlterField"
  <2> DEFINE alter == AlterColumn(gen, op.table, op.columns[1], op.columns[2])
  <2>1. sqls = alter
    BY <1>9, Zenon DEF OperationToSql
  <2>2. \E table, cols, clause : alter = <<Statement("comment", gen, table, cols, clause)>>
    <3> HIDE DEF gen
    <3> QED BY <1>2, Zenon DEF AlterColumn
  <2> HIDE DEF alter, sqls, gen
  <2>3. \A s \in Range(sqls) : s.kind = "comment"
    BY <1>1, <1>6, <2>1, <2>2
  <2> QED BY <1>5, <1>9, <2>3 DEF sqls, gen
<1>10. CASE op.kind = "CreateIndex"
  <2> DEFINE s == Statement("create_index", gen, op.table, op.columns, op.columns[1].name)
  <2>1. sqls = <<s>>
    BY <1>10, Zenon DEF OperationToSql
  <2>2. s.kind = "create_index"
    BY <1>6
  <2> HIDE DEF s, sqls
  <2>3. Range(sqls) = {s}
    BY <1>1, <2>1
  <2> QED BY <1>5, <1>10, <2>2, <2>3 DEF sqls
<1>11. CASE op.kind = "DeleteIndex"
  <2> DEFINE s == DropIndex(gen, op.table, op.columns[1].name)
  <2>1. sqls = <<s>>
    BY <1>11, Zenon DEF OperationToSql
  <2>2. \E table, cols, clause, x : s = [Statement("drop_index", gen, table, cols, clause) EXCEPT !.schema = x]
    BY Zenon DEF DropIndex
  <2> HIDE DEF s, sqls, gen
  <2>3. s.kind = "drop_index" /\ Range(sqls) = {s}
    BY <1>1, <1>6, <2>1, <2>2
  <2> QED BY <1>5, <1>11, <2>3 DEF sqls, gen
<1>12. CASE op.kind = "RunSQL"
  <2>1. \E table, cols, clause : sqls = <<Statement("raw", gen, table, cols, clause)>>
    BY <1>12, Zenon DEF OperationToSql
  <2> HIDE DEF sqls, gen
  <2>2. \A s \in Range(sqls) : s.kind = "raw"
    BY <1>1, <1>6, <2>1
  <2> QED BY <1>5, <1>12, <2>2 DEF sqls, gen
<1> QED BY <1>3, <1>4, <1>7, <1>8, <1>9, <1>10, <1>11, <1>12, Zenon DEF IsOp, OperationKinds

\* What a run takes of a file has the shape of what concerns the database.
WorkShape(f, a, relevant) ==
  \A o1 \in Meant(f, a, relevant), o2 \in Range(f.ops) :
    (/\ o1.kind = "CreateTable" /\ o2.kind = "CreateTable"
     /\ o1.table = o2.table /\ Relevant(o2, a)) => Names(o2.columns) \subseteq Names(o1.columns)

LEMMA LiteWork ==
  ASSUME NEW a \in Alias, Backend[a] = LITE, NEW schema, NEW relevant, NEW f, IsFile(f), WorkShape(f, a, relevant),
         NEW fs, f \in Range(fs), NEW w, IsWork(w, f, a, schema, relevant)
  PROVE  LiteTodo(fs, a, {}, w)
<1> DEFINE sqls == Statements(f, a, schema, relevant)
<1>1. /\ w[Len(w)] = Note(f.stem) /\ Len(w) \in Nat /\ Len(w) >= 1
      /\ \A k \in 1..(Len(w) - 1) : \E s \in sqls : w[k] = Sql(s, f.stem)
      /\ \A s \in sqls : \E k \in 1..(Len(w) - 1) : w[k] = Sql(s, f.stem)
  BY ListIs DEF IsWork
<1>2. \A op \in Meant(f, a, relevant) : IsOp(op) /\ op \in Range(f.ops)
  BY DEF IsFile, IsOp, Meant
<1>3. \A s \in sqls : \E op \in Meant(f, a, relevant) : s \in Range(SqlOf(op, a, schema, relevant))
  BY DEF Statements
<1>4. ASSUME NEW s \in sqls PROVE LiteSql(fs, a, Sql(s, f.stem))
  <2>1. PICK op \in Meant(f, a, relevant) : s \in Range(SqlOf(op, a, schema, relevant))
    BY <1>3
  <2>2. /\ IsLiteStatement(s)
        /\ s.kind = "create_table" =>
             op.kind = "CreateTable" /\ s.table = op.table /\ Names(s.columns) = Names(op.columns)
    BY <1>2, <2>1, OperationLite DEF SqlOf
  <2>3. ASSUME s.kind = "create_table"
        PROVE  Owned(fs, a, f.stem, s.table, Names(s.columns))
    <3>1. op.kind = "CreateTable" /\ s.table = op.table /\ Names(s.columns) = Names(op.columns)
      BY <2>2, <2>3
    <3>2. Shaped(f, a, s.table, Names(s.columns))
      BY <3>1 DEF WorkShape, Shaped
    <3> QED BY <3>2 DEF Owned
  <2>4. Sql(s, f.stem).statement = s /\ Sql(s, f.stem).by = f.stem
    BY SqlIs
  <2> QED BY <2>2, <2>3, <2>4 DEF LiteSql
<1>5. ASSUME NEW op \in Wanted(f, a)
      PROVE  \E k \in 1..(Len(w) - 1) : w[k].do = "sql" /\ Makes(w[k].statement, op)
  <2>1. op \in Meant(f, a, relevant) /\ op.kind \in {"CreateTable", "AddField"}
    BY DEF Wanted, Meant
  <2>2. PICK s \in Range(SqlOf(op, a, schema, relevant)) : Makes(s, op)
    BY <1>2, <2>1, OperationLite DEF SqlOf
  <2>3. s \in sqls
    BY <2>1, <2>2 DEF Statements
  <2>4. PICK k \in 1..(Len(w) - 1) : w[k] = Sql(s, f.stem)
    BY <1>1, <2>3
  <2>5. w[k].do = "sql" /\ w[k].statement = s
    BY <2>4, SqlIs
  <2> QED BY <2>2, <2>5
<1> HIDE DEF sqls
<1>6. ASSUME NEW k \in 1..Len(w)
      PROVE  /\ w[k].do = "sql" => LiteSql(fs, a, w[k])
             /\ w[k].do = "record" => Promised(fs, a, {}, w, k)
  <2>1. CASE k = Len(w)
    <3>1. w[k].do = "record" /\ w[k].stem = f.stem
      BY <1>1, <2>1, SqlIs
    <3>2. Promised(fs, a, {}, w, k)
      BY <1>5, <2>1, <3>1 DEF Promised
    <3> QED BY <3>1, <3>2
  <2>2. CASE k # Len(w)
    <3>1. k \in 1..(Len(w) - 1)
      BY <1>1, <2>2
    <3>2. PICK s \in sqls : w[k] = Sql(s, f.stem)
      BY <1>1, <3>1
    <3>3. w[k].do = "sql" /\ LiteSql(fs, a, w[k])
      BY <1>4, <3>2, SqlIs
    <3> QED BY <3>3
  <2> QED BY <2>1, <2>2
<1> QED BY <1>6 DEF LiteTodo

(* A list in which every place is in the work on some file.                 *)
LEMMA LiteBlocks ==
  ASSUME NEW fs, NEW a, NEW todo,
         \A k \in 1..Len(todo) : \E off \in Nat : \E w :
           /\ IsList(w) /\ LiteTodo(fs, a, {}, w) /\ Block(todo, off, w)
           /\ k \in (off + 1)..(off + Len(w))
  PROVE  LiteTodo(fs, a, {}, todo)
<1> SUFFICES ASSUME NEW k \in 1..Len(todo)
             PROVE  /\ todo[k].do = "sql" => LiteSql(fs, a, todo[k])
                    /\ todo[k].do = "record" => Promised(fs, a, {}, todo, k)
  BY DEF LiteTodo
<1>1. PICK off \in Nat : \E w : /\ IsList(w) /\ LiteTodo(fs, a, {}, w) /\ Block(todo, off, w)
                                /\ k \in (off + 1)..(off + Len(w))
  OBVIOUS
<1>2. PICK w : IsList(w) /\ LiteTodo(fs, a, {}, w) /\ Block(todo, off, w) /\ k \in (off + 1)..(off + Len(w))
  BY <1>1
<1> DEFINE i == k - off
<1>3. i \in 1..Len(w) /\ off + i = k /\ Len(w) \in Nat
  BY <1>2, ListIs
<1> HIDE DEF i
<1>4. todo[k] = w[i] /\ \A j \in 1..(i - 1) : todo[off + j] = w[j] /\ off + j \in 1..(k - 1)
  <2>1. \A j \in 1..Len(w) : todo[off + j] = w[j]
    BY <1>2 DEF Block
  <2>2. \A j \in 1..(i - 1) : j \in 1..Len(w) /\ off + j \in 1..(k - 1)
    BY <1>3
  <2>3. todo[off + i] = w[i]
    BY <1>3, <2>1
  <2> QED BY <1>3, <2>1, <2>2, <2>3
<1>5. /\ w[i].do = "sql" => LiteSql(fs, a, w[i])
      /\ w[i].do = "record" => Promised(fs, a, {}, w, i)
  BY <1>2, <1>3 DEF LiteTodo
<1>6. ASSUME Promised(fs, a, {}, w, i) PROVE Promised(fs, a, {}, todo, k)
  <2>1. PICK f \in Range(fs) :
          /\ f.stem = w[i].stem
          /\ \A op \in Wanted(f, a) : InEffect({}, op) \/ \E j \in 1..(i - 1) : w[j].do = "sql" /\ Makes(w[j].statement, op)
    BY <1>6 DEF Promised
  <2>2. ASSUME NEW op \in Wanted(f, a)
        PROVE  InEffect({}, op) \/ \E j \in 1..(k - 1) : todo[j].do = "sql" /\ Makes(todo[j].statement, op)
    BY <1>4, <2>1
  <2> QED BY <1>4, <2>1, <2>2 DEF Promised
<1> QED BY <1>4, <1>5, <1>6

\* A file that keeps its promise, as those of Branches are taken to be: what
\* it creates for a database it creates with the same columns everywhere.
OneShape(f) ==
  \A o1, o2 \in Range(f.ops), a \in Alias :
    (/\ o1.kind = "CreateTable" /\ o2.kind = "CreateTable" /\ o1.table = o2.table
     /\ Relevant(o1, a) /\ Relevant(o2, a)) => Names(o1.columns) = Names(o2.columns)

LEMMA LiteStart ==
  ASSUME FileTypes, \A f \in Range(files) : OneShape(f), NEW c \in Calls, Backend[c.alias] = LITE
  PROVE  LiteTodo(FilesOf(c), c.alias, {}, Todo(c))
<1> DEFINE items == Todo(c)
           none == ""
           f == FilesOf(c)[1]
           a == c.alias
<1>1. a \in Alias
  BY CallsAssumption DEF Alias
<1>2. \/ IsLive(c) /\ items = LiveWork(a, c.schema)
      \/ ~IsLive(c) /\ files # <<>> /\ items = FileTodo(a, c.schema) /\ ~Generates(c)
      \/ Generates(c) /\ items = FileItems(f, a, none, FALSE)
      \/ items = <<>>
  BY Zenon DEF Todo, LiveWork, FilesOf, Generates
<1> HIDE DEF items, none, f, a
<1>3. ASSUME items = LiveWork(a, c.schema)
      PROVE  LiteTodo(FilesOf(c), a, {}, items)
  <2>1. \A k \in 1..Len(items) : \E s : items[k] = Sql(s, <<"live">>) /\ IsLiteStatement(s)
    BY <1>1, <1>3, EntriesAre, LiveWorkIs DEF FileTypes, a
  <2>2. ASSUME NEW k \in 1..Len(items)
        PROVE  items[k].do = "sql" /\ LiteSql(FilesOf(c), a, items[k])
    <3>1. PICK s : items[k] = Sql(s, <<"live">>) /\ IsLiteStatement(s)
      BY <2>1
    <3>2. items[k].do = "sql" /\ items[k].statement = s /\ items[k].by = <<"live">>
      BY <3>1, SqlIs
    <3> QED BY <3>1, <3>2 DEF LiteSql, Owned
  <2> QED BY <2>2 DEF LiteTodo
<1>4. ASSUME items = FileTodo(a, c.schema), ~Generates(c)
      PROVE  LiteTodo(FilesOf(c), a, {}, items)
  <2>1. IsList(files) /\ \A g \in Range(files) : IsFile(g)
    BY DEF FileTypes, AreFiles
  <2>2. FilesOf(c) = files
    BY <1>4, Zenon DEF FilesOf
  <2>3. \A g \in Range(Pending(a)) : g \in Range(files)
    BY <2>1, Pendings
  <2>4. ASSUME NEW k \in 1..Len(items)
        PROVE  \E off \in Nat : \E w : /\ IsList(w) /\ LiteTodo(files, a, {}, w) /\ Block(items, off, w)
                                       /\ k \in (off + 1)..(off + Len(w))
    <3>1. PICK g \in Range(Pending(a)), off \in Nat : \E w :
            IsWork(w, g, a, c.schema, TRUE) /\ Block(items, off, w) /\ k \in (off + 1)..(off + Len(w))
      BY <1>1, <1>4, <2>1, <2>4, TodoIs
    <3>2. PICK w : IsWork(w, g, a, c.schema, TRUE) /\ Block(items, off, w) /\ k \in (off + 1)..(off + Len(w))
      BY <3>1
    <3>3. g \in Range(files) /\ IsFile(g) /\ OneShape(g)
      BY <2>1, <2>3
    <3>4. WorkShape(g, a, TRUE)
      BY <1>1, <3>3 DEF WorkShape, OneShape, Meant
    <3>5. LiteTodo(files, a, {}, w)
      BY <1>1, <3>2, <3>3, <3>4, LiteWork DEF a
    <3>6. IsList(w)
      BY <3>2 DEF IsWork
    <3> QED BY <3>2, <3>5, <3>6
  <2>5. LiteTodo(files, a, {}, items)
    BY <2>4, LiteBlocks
  <2> QED BY <2>2, <2>5
<1>5. ASSUME Generates(c), items = FileItems(f, a, none, FALSE)
      PROVE  LiteTodo(FilesOf(c), a, {}, items)
  <2>1. IsFile(f) /\ First(FilesOf(c), 1) /\ SameShape(f)
    BY <1>5, FilesOfStart DEF f
  <2>2. f \in Range(FilesOf(c))
    BY <2>1 DEF f, First, Range
  <2>3. IsWork(items, f, a, none, FALSE)
    BY <1>1, <1>5, <2>1, WorkIs
  <2>4. WorkShape(f, a, FALSE)
    BY <2>1 DEF WorkShape, SameShape, Meant
  <2> QED BY <1>1, <2>1, <2>2, <2>3, <2>4, LiteWork DEF a
<1>6. ASSUME items = <<>> PROVE LiteTodo(FilesOf(c), a, {}, items)
  BY <1>6 DEF LiteTodo
<1> QED BY <1>2, <1>3, <1>4, <1>5, <1>6 DEF items, a

FileShapes == \A f \in Range(files) : OneShape(f)
BranchShapes == \A f \in Branches : OneShape(f)

LEMMA SameIsOne == ASSUME NEW f, SameShape(f) PROVE OneShape(f)
BY DEF SameShape, OneShape

LEMMA FilesGrow ==
  ASSUME FileTypes, FileShapes, BranchShapes, [Next]_vars
  PROVE  Range(files) \subseteq Range(files') /\ FileShapes'
<1>1. CASE MakeMigrations
  <2>1. PICK f : SameShape(f) /\ files' = Append(files, f)
    BY <1>1, EntriesAre, WrittenIs DEF MakeMigrations, FileTypes
  <2>2. Range(files') = Range(files) \cup {f}
    BY <2>1, FilesAppended DEF FileTypes, AreFiles
  <2> QED BY <2>1, <2>2, SameIsOne DEF FileShapes
<1>2. ASSUME NEW f \in Branches, Arrive(f)
      PROVE  Range(files) \subseteq Range(files') /\ FileShapes'
  <2>1. PICK i \in 1..(Len(files) + 1) : files' = InsertAt(files, i, f)
    BY <1>2 DEF Arrive, Places
  <2>2. Range(files') = Range(files) \cup {f}
    BY <2>1, FilesInserted DEF FileTypes, AreFiles
  <2> QED BY <2>2 DEF FileShapes, BranchShapes
<1>3. ASSUME NEW p \in Process, NEW c \in Calls, Start(p, c)
      PROVE  Range(files) \subseteq Range(files') /\ FileShapes'
  <2>1. files' = files \/ files' = FilesOf(c)
    BY <1>3, StartIs
  <2>2. CASE files' = files
    BY <2>2 DEF FileShapes
  <2>3. CASE Generates(c) /\ files' = FilesOf(c)
    <3>1. PICK f : SameShape(f) /\ files = <<>> /\ Range(FilesOf(c)) = {f}
      BY <2>3, FilesOfStart
    <3>2. Range(files) = {}
      BY <3>1 DEF Range
    <3>3. Range(files') = {f}
      BY <2>3, <3>1
    <3> QED BY <3>1, <3>2, <3>3, SameIsOne DEF FileShapes
  <2>4. ~Generates(c) => FilesOf(c) = files
    BY Zenon DEF FilesOf
  <2> QED BY <2>1, <2>2, <2>3, <2>4
<1>4. ASSUME UNCHANGED files
      PROVE  Range(files) \subseteq Range(files') /\ FileShapes'
  BY <1>4 DEF FileShapes
<1>5. ASSUME NEW p \in Process, Step(p) \/ RecordMigration(p) \/ Stop(p) \/ Finish(p)
      PROVE  UNCHANGED files
  BY <1>5 DEF Step, RecordMigration, Stop, Finish
<1>6. CASE Evolve \/ UNCHANGED vars
  <2>1. UNCHANGED files
    BY <1>6 DEF Evolve, vars
  <2> QED BY <2>1, <1>4
<1> QED BY <1>1, <1>2, <1>3, <1>4, <1>5, <1>6 DEF Next

(* A step that keeps the tables or lets them grow.                          *)
LEMMA LiteKeeps ==
  ASSUME Lite, Range(files) \subseteq Range(files'),
         \A a \in Alias : Backend[a] = LITE =>
           /\ Grown(dbs[a].tables, dbs'[a].tables)
           /\ \A t \in dbs'[a].tables : t \in dbs[a].tables \/ LiteTable(files', a, t)
           /\ ledger'[a] = ledger[a] \/ LiteLedger(files', a, dbs'[a].tables, ledger'[a])
           /\ \A q \in Process :
                \/ runs'[q] = runs[q] \/ ~runs'[q].running
                \/ runs'[q].alias = a => LiteTodo(files', a, dbs'[a].tables, runs'[q].todo)
  PROVE  Lite'
<1> SUFFICES ASSUME NEW a \in Alias, Backend[a] = LITE
             PROVE  /\ \A t \in dbs'[a].tables : LiteTable(files', a, t)
                    /\ LiteLedger(files', a, dbs'[a].tables, ledger'[a])
                    /\ \A q \in Process : runs'[q].running /\ runs'[q].alias = a =>
                         LiteTodo(files', a, dbs'[a].tables, runs'[q].todo)
  BY DEF Lite, LiteTable, LiteLedger, LiteTodo, LiteSql, Promised, Owned
<1>1. /\ \A t \in dbs[a].tables : LiteTable(files, a, t)
      /\ LiteLedger(files, a, dbs[a].tables, ledger[a])
      /\ \A q \in Process : runs[q].running /\ runs[q].alias = a => LiteTodo(files, a, dbs[a].tables, runs[q].todo)
  BY DEF Lite
<1>2. \A t \in dbs[a].tables : LiteTable(files', a, t)
  BY <1>1, OwnedKeeps DEF LiteTable
<1>3. LiteLedger(files', a, dbs'[a].tables, ledger[a])
  BY <1>1, LedgerKeeps
<1>4. ASSUME NEW q \in Process, runs'[q].running, runs'[q].alias = a
      PROVE  LiteTodo(files', a, dbs'[a].tables, runs'[q].todo)
  <2>1. CASE runs'[q] = runs[q]
    <3>1. LiteTodo(files, a, dbs[a].tables, runs[q].todo)
      BY <1>1, <1>4, <2>1
    <3> QED BY <2>1, <3>1, TodoKeeps
  <2> QED BY <1>4, <2>1
<1> QED BY <1>2, <1>3, <1>4

LEMMA LiteAdvances ==
  ASSUME NEW fs, NEW a, NEW old, NEW new, Grown(old, new), NEW todo, IsList(todo), todo # <<>>,
         LiteTodo(fs, a, old, todo),
         Head(todo).do = "sql" => \A op : op.kind \in {"CreateTable", "AddField"} /\ Makes(Head(todo).statement, op) =>
                                    InEffect(new, op)
  PROVE  LiteTodo(fs, a, new, Tail(todo))
<1>1. /\ Len(todo) >= 1 /\ Len(todo) \in Nat /\ Head(todo) = todo[1] /\ Len(Tail(todo)) = Len(todo) - 1
      /\ \A k \in 1..Len(Tail(todo)) : k + 1 \in 1..Len(todo) /\ Tail(todo)[k] = todo[k + 1]
  BY TailIs, ListIs
<1> SUFFICES ASSUME NEW k \in 1..Len(Tail(todo))
             PROVE  /\ Tail(todo)[k].do = "sql" => LiteSql(fs, a, Tail(todo)[k])
                    /\ Tail(todo)[k].do = "record" => Promised(fs, a, new, Tail(todo), k)
  BY DEF LiteTodo
<1>2. k + 1 \in 1..Len(todo) /\ Tail(todo)[k] = todo[k + 1] /\ k \in Nat
  BY <1>1
<1>3. Tail(todo)[k].do = "sql" => LiteSql(fs, a, Tail(todo)[k])
  BY <1>2 DEF LiteTodo
<1>4. ASSUME Tail(todo)[k].do = "record" PROVE Promised(fs, a, new, Tail(todo), k)
  <2>1. Promised(fs, a, old, todo, k + 1)
    BY <1>2, <1>4 DEF LiteTodo
  <2>2. PICK f \in Range(fs) :
          /\ f.stem = todo[k + 1].stem
          /\ \A op \in Wanted(f, a) :
               InEffect(old, op) \/ \E j \in 1..((k + 1) - 1) : todo[j].do = "sql" /\ Makes(todo[j].statement, op)
    BY <2>1 DEF Promised
  <2>3. ASSUME NEW op \in Wanted(f, a)
        PROVE  \/ InEffect(new, op)
               \/ \E j \in 1..(k - 1) : Tail(todo)[j].do = "sql" /\ Makes(Tail(todo)[j].statement, op)
    <3>1. CASE InEffect(old, op)
      BY <3>1, GrownKeeps
    <3>2. CASE \E j \in 1..((k + 1) - 1) : todo[j].do = "sql" /\ Makes(todo[j].statement, op)
      <4>1. PICK j \in 1..k : todo[j].do = "sql" /\ Makes(todo[j].statement, op)
        BY <1>2, <3>2
      <4>2. CASE j = 1
        BY <1>1, <4>1, <4>2 DEF Wanted
      <4>3. CASE j > 1
        <5>1. j - 1 \in 1..(k - 1) /\ j - 1 + 1 = j /\ j - 1 \in 1..Len(Tail(todo))
          BY <1>1, <1>2, <4>3
        <5>2. Tail(todo)[j - 1] = todo[j]
          BY <1>1, <5>1
        <5> QED BY <4>1, <5>1, <5>2
      <4> QED BY <1>2, <4>2, <4>3
    <3> QED BY <2>2, <3>1, <3>2
  <2> QED BY <1>2, <2>2, <2>3 DEF Promised
<1> QED BY <1>3, <1>4

LEMMA InitLite == Init => FileShapes /\ Lite
<1> SUFFICES ASSUME Init PROVE FileShapes /\ Lite
  OBVIOUS
<1>1. FileShapes
  BY DEF Init, FileShapes, Range
<1>2. \A a \in Alias : dbs[a].tables = {}
  <2>1. \A b : EmptyDatabase(b).tables = {}
    BY Zenon DEF EmptyDatabase
  <2> QED BY <2>1 DEF Init
<1>3. \A a \in Alias : ledger[a] = {}
  BY DEF Init
<1>4. \A p \in Process : ~runs[p].running
  BY NoRunIs DEF Init
<1> QED BY <1>1, <1>2, <1>3, <1>4 DEF Lite, LiteLedger

LEMMA NextLite ==
  ASSUME FileTypes, FileShapes, BranchShapes, Lite, [Next]_vars
  PROVE  Lite'
<1>1. Range(files) \subseteq Range(files')
  BY FilesGrow
<1>2. \A x : Grown(x, x) /\ Grown({}, x)
  BY DEF Grown
<1>3. CASE UNCHANGED <<dbs, ledger, runs>>
  BY <1>1, <1>2, <1>3, LiteKeeps
<1>4. ASSUME NEW p \in Process, NEW c \in Calls, Start(p, c) PROVE Lite'
  <2>1. UNCHANGED <<dbs, ledger>>
    BY <1>4, Zenon DEF Start
  <2>2. ASSUME NEW a \in Alias, Backend[a] = LITE, NEW q \in Process, runs'[q] # runs[q], runs'[q].alias = a
        PROVE  LiteTodo(files', a, dbs'[a].tables, runs'[q].todo)
    <3>1. /\ q = p /\ files' = FilesOf(c) /\ runs'[p].alias = c.alias
          /\ runs'[p].todo = <<>> \/ runs'[p].todo = Todo(c)
      BY <1>4, <2>2, StartIs
    <3>2. CASE runs'[p].todo = <<>>
      BY <3>1, <3>2 DEF LiteTodo
    <3>3. CASE runs'[p].todo = Todo(c)
      <4>1. LiteTodo(files', a, {}, Todo(c))
        BY <2>2, <3>1, LiteStart DEF FileShapes
      <4> QED BY <1>2, <3>1, <3>3, <4>1, TodoKeeps
    <3> QED BY <3>1, <3>2, <3>3
  <2> QED BY <1>1, <1>2, <2>1, <2>2, LiteKeeps
<1>5. ASSUME NEW p \in Process, Ends(p), UNCHANGED <<dbs, ledger>> PROVE Lite'
  <2>1. \A q \in Process : runs'[q] = runs[q] \/ ~runs'[q].running
    BY <1>5, EndsIs
  <2> QED BY <1>1, <1>2, <1>5, <2>1, LiteKeeps
<1>6. ASSUME NEW p \in Process, Step(p) PROVE Lite'
  <2> DEFINE a == At(p)
             todo == runs[p].todo
             item == Head(todo)
             s == item.statement
             new == Execute(Backend[a], dbs[a], s, item.by)
  <2>1. Doing(p) /\ item.do = "sql" /\ UNCHANGED <<files, ledger>>
    BY <1>6 DEF Step
  <2>2. CASE Ends(p) /\ UNCHANGED dbs
    BY <1>5, <2>1, <2>2
  <2>3. CASE Accepts(Backend[a], dbs[a], s) /\ dbs' = [dbs EXCEPT ![a] = new] /\ Advance(p)
    <3>1. /\ a \in Alias /\ runs'[p].alias = a /\ runs'[p].todo = Tail(todo)
          /\ runs[p].running /\ \A q \in Process : q # p => runs'[q] = runs[q]
      BY <2>1, <2>3, AdvanceIs DEF Doing, At
    <3>2. IsList(todo) /\ todo # <<>> /\ IsDatabase(dbs[a]) /\ a = runs[p].alias
      BY <2>1, <3>1 DEF FileTypes, IsRun, Doing, At
    <3>3. ASSUME Backend[a] = LITE
          PROVE  /\ \A t \in new.tables : LiteTable(files, a, t)
                 /\ Grown(dbs[a].tables, new.tables)
                 /\ LiteTodo(files, a, new.tables, Tail(todo))
      <4>1. /\ \A t \in dbs[a].tables : LiteTable(files, a, t)
            /\ LiteTodo(files, a, dbs[a].tables, todo)
        BY <3>1, <3>2, <3>3 DEF Lite
      <4>2. 1 \in 1..Len(todo) /\ item = todo[1]
        BY <3>2, TailIs
      <4>3. LiteSql(files, a, item)
        BY <2>1, <4>1, <4>2 DEF LiteTodo
      <4>4. /\ IsLiteStatement(s)
            /\ s.kind = "create_table" => Owned(files, a, item.by, s.table, Names(s.columns))
        BY <4>3 DEF LiteSql
      <4>5. Accepts(LITE, dbs[a], s) /\ new = Execute(LITE, dbs[a], s, item.by)
        BY <2>3, <3>3
      <4> HIDE DEF new, s
      <4>6. /\ \A t \in new.tables : LiteTable(files, a, t)
            /\ Grown(dbs[a].tables, new.tables)
            /\ \A op : op.kind \in {"CreateTable", "AddField"} /\ Makes(s, op) => InEffect(new.tables, op)
        BY <3>2, <4>1, <4>4, <4>5, LiteExecute
      <4>7. LiteTodo(files, a, new.tables, Tail(todo))
        BY <3>2, <4>1, <4>6, LiteAdvances DEF s
      <4> QED BY <4>6, <4>7
    <3> HIDE DEF new
    <3>4. \A b \in Alias : dbs'[b] = IF b = a THEN new ELSE dbs[b]
      BY <2>3 DEF FileTypes
    <3>5. ASSUME NEW b \in Alias, Backend[b] = LITE
          PROVE  /\ Grown(dbs[b].tables, dbs'[b].tables)
                 /\ \A t \in dbs'[b].tables : t \in dbs[b].tables \/ LiteTable(files', b, t)
                 /\ ledger'[b] = ledger[b]
                 /\ \A q \in Process :
                      \/ runs'[q] = runs[q]
                      \/ runs'[q].alias = b => LiteTodo(files', b, dbs'[b].tables, runs'[q].todo)
      <4>1. CASE b = a
        BY <2>1, <3>1, <3>3, <3>4, <3>5, <4>1
      <4>2. CASE b # a
        BY <1>2, <2>1, <3>1, <3>4, <4>2
      <4> QED BY <4>1, <4>2
    <3> QED BY <1>1, <3>5, LiteKeeps
  <2> QED BY <1>6, <2>2, <2>3 DEF Step
<1>7. ASSUME NEW p \in Process, RecordMigration(p) PROVE Lite'
  <2> DEFINE a == At(p)
             todo == runs[p].todo
             item == Head(todo)
  <2>1. Doing(p) /\ item.do = "record" /\ UNCHANGED <<files, dbs>>
    BY <1>7 DEF RecordMigration
  <2>2. CASE Ends(p) /\ UNCHANGED ledger
    BY <1>5, <2>1, <2>2
  <2>3. CASE Backend[a] = LITE /\ ledger' = [ledger EXCEPT ![a] = @ \cup {item.stem}] /\ Advance(p)
    <3>1. /\ a \in Alias /\ runs'[p].alias = a /\ runs'[p].todo = Tail(todo)
          /\ runs[p].running /\ \A q \in Process : q # p => runs'[q] = runs[q]
      BY <2>1, <2>3, AdvanceIs DEF Doing, At
    <3>2. IsList(todo) /\ todo # <<>> /\ a = runs[p].alias
      BY <2>1, <3>1 DEF FileTypes, IsRun, Doing, At
    <3>3. /\ LiteLedger(files, a, dbs[a].tables, ledger[a])
          /\ LiteTodo(files, a, dbs[a].tables, todo)
      BY <2>3, <3>1, <3>2 DEF Lite
    <3>4. 1 \in 1..Len(todo) /\ item = todo[1]
      BY <3>2, TailIs
    <3>5. Promised(files, a, dbs[a].tables, todo, 1)
      BY <2>1, <3>3, <3>4 DEF LiteTodo
    <3>6. \E f \in Range(files) : f.stem = item.stem /\ \A op \in Wanted(f, a) : InEffect(dbs[a].tables, op)
      <4>1. PICK f \in Range(files) :
              /\ f.stem = todo[1].stem
              /\ \A op \in Wanted(f, a) :
                   InEffect(dbs[a].tables, op) \/ \E j \in 1..(1 - 1) : todo[j].do = "sql" /\ Makes(todo[j].statement, op)
        BY <3>5 DEF Promised
      <4>2. ~\E j \in 1..(1 - 1) : TRUE
        OBVIOUS
      <4> QED BY <3>4, <4>1, <4>2
    <3>7. LiteLedger(files, a, dbs[a].tables, ledger[a] \cup {item.stem})
      BY <3>3, <3>6 DEF LiteLedger
    <3>8. LiteTodo(files, a, dbs[a].tables, Tail(todo))
      BY <1>2, <2>1, <3>2, <3>3, LiteAdvances
    <3>9. \A b \in Alias : ledger'[b] = IF b = a THEN ledger[a] \cup {item.stem} ELSE ledger[b]
      BY <2>3 DEF FileTypes
    <3>10. ASSUME NEW b \in Alias, Backend[b] = LITE
           PROVE  /\ Grown(dbs[b].tables, dbs'[b].tables)
                  /\ \A t \in dbs'[b].tables : t \in dbs[b].tables
                  /\ ledger'[b] = ledger[b] \/ LiteLedger(files', b, dbs'[b].tables, ledger'[b])
                  /\ \A q \in Process :
                       \/ runs'[q] = runs[q]
                       \/ runs'[q].alias = b => LiteTodo(files', b, dbs'[b].tables, runs'[q].todo)
      <4>1. CASE b = a
        BY <1>2, <2>1, <3>1, <3>7, <3>8, <3>9, <4>1
      <4>2. CASE b # a
        BY <1>2, <2>1, <3>1, <3>9, <4>2
      <4> QED BY <4>1, <4>2
    <3> QED BY <1>1, <3>10, LiteKeeps
  <2> QED BY <1>7, <2>2, <2>3 DEF RecordMigration
<1>8. ASSUME NEW p \in Process, Stop(p) \/ Finish(p) PROVE Lite'
  BY <1>5, <1>8 DEF Stop, Finish
<1>9. CASE Evolve \/ MakeMigrations \/ (\E f \in Branches : Arrive(f)) \/ UNCHANGED vars
  <2>1. UNCHANGED <<dbs, ledger, runs>>
    BY <1>9 DEF Evolve, MakeMigrations, Arrive, vars
  <2> QED BY <1>3, <2>1
<1> QED BY <1>4, <1>6, <1>7, <1>8, <1>9 DEF Next

LEMMA NoQualifier ==
  ASSUME NEW a \in Alias, Backend[a] = LITE, NEW schema, NEW own
  PROVE  Qn(In(Gen(a, schema), own)) = NoSchema
  BY GenIs, BackendsDiffer, Zenon DEF NoSchema

(* Of a file that is recorded for a database every column it creates or adds  *)
(* is there, whatever stopped or ran beside the run that recorded it.  Two     *)
(* runs may take turns on one file, so what is kept is not how far a run got:   *)
(* a record is preceded, in the work of every run, by a statement for whatever *)
(* is not in effect yet, and what is in effect stays so.                       *)
THEOREM AppliedStays ==
  ASSUME \A f \in Branches : OneShape(f)
  PROVE  Spec => []AppliedMeansPresent
<1>1. Init => FileTypes /\ FileShapes /\ Lite
  BY InitTypes, InitLite
<1>2. FileTypes /\ FileShapes /\ Lite /\ [Next]_vars => (FileTypes /\ FileShapes /\ Lite)'
  BY NextTypes, FilesGrow, NextLite DEF BranchShapes
<1>3. FileTypes /\ FileShapes /\ Lite => AppliedMeansPresent
  <2> SUFFICES ASSUME FileTypes, Lite, NEW a \in Alias, NEW f \in Range(files),
                      f.stem \in ledger[a], f.readable, \A g \in Range(files) : g.stem = f.stem => g = f,
                      NEW op \in Range(f.ops), op.kind \in {"CreateTable", "AddField"}, Relevant(op, a)
               PROVE  \E t \in TablesAt(a, Gen(a, NoSchema), op) :
                        op.kind = "AddField" \/ t.by = f.stem => Names(op.columns) \subseteq Names(t.columns)
    BY Zenon DEF AppliedMeansPresent, Gen, NoSchema
  <2>1. Backend[a] = LITE
    BY DEF FileTypes
  <2>2. /\ \A t \in dbs[a].tables : LiteTable(files, a, t)
        /\ LiteLedger(files, a, dbs[a].tables, ledger[a])
    BY <2>1 DEF Lite
  <2>3. PICK g \in Range(files) : g.stem = f.stem /\ \A o \in Wanted(g, a) : InEffect(dbs[a].tables, o)
    BY <2>2 DEF LiteLedger
  <2>4. g = f /\ op \in Wanted(f, a)
    BY <2>3 DEF Wanted
  <2>5. PICK t \in dbs[a].tables :
          t.name = op.table /\ (op.kind = "AddField" => Names(op.columns) \subseteq Names(t.columns))
    BY <2>3, <2>4 DEF InEffect
  <2>6. t.schema = NoSchema /\ Owned(files, a, t.by, t.name, Names(t.columns))
    BY <2>2 DEF LiteTable
  <2>7. f.stem # <<"live">>
    BY DEF FileTypes, AreFiles
  <2>8. ASSUME t.by = f.stem
        PROVE  op.kind = "CreateTable" => Names(op.columns) \subseteq Names(t.columns)
    <3>1. Shaped(f, a, t.name, Names(t.columns))
      BY <2>6, <2>7, <2>8 DEF Owned
    <3> QED BY <2>5, <3>1 DEF Shaped
  <2>9. t \in TablesAt(a, Gen(a, NoSchema), op)
    <3>1. Qn(In(Gen(a, NoSchema), op.schema)) = NoSchema
      BY <2>1, NoQualifier
    <3>2. Home(Backend[a], NoSchema) = NoSchema
      BY <2>1, BackendsDiffer, Zenon DEF Home
    <3>3. TablesAt(a, Gen(a, NoSchema), op) = {u \in dbs[a].tables : u.schema = NoSchema /\ u.name = op.table}
      BY <3>1, <3>2, Zenon DEF TablesAt, Named
    <3> QED BY <2>5, <2>6, <3>3
  <2> QED BY <2>5, <2>8, <2>9
<1> QED BY <1>1, <1>2, <1>3, PTL DEF Spec

-----------------------------------------------------------------------------
(* On PostgreSQL a generated key stays generated, unless something known     *)
(* changed the default of its column.                                       *)

\* What may have changed the default: a live difference of the table's schema
\* among those in d, or a file among fs that says so.
Excused(fs, d, a, schema, table, name) ==
  \/ <<a, schema>> \in d
  \/ \E f \in Range(fs) : f.readable /\ AltersDefault(f, [name |-> table, schema |-> schema], name)

\* A new table names its key, if at all, among the columns that are generated.
Keyed(s) ==
  /\ AreColumns(s.columns) /\ \A i \in DOMAIN s.columns : s.columns[i].pk = FALSE
  /\ s.clause # "" => \E i \in DOMAIN s.columns :
                        s.columns[i].name = s.clause /\ s.columns[i].type = "BIGSERIAL"
KeySql(fs, d, a, s) ==
  /\ s.kind = "create_table" => Keyed(s)
  /\ s.kind = "add_column" => IsColumn(s.columns[1]) /\ s.columns[1].pk = FALSE
  /\ s.kind = "alter_column" =>
       /\ s.clause \in {"type", "null", "default"}
       /\ s.clause = "default" => Excused(fs, d, a, Home(PG, s.schema), s.table, s.columns[1].name)

Generated(c) == c.pk => c.default = "nextval"
KeyColumn(fs, d, a, t, c) == IsColumn(c) /\ (Generated(c) \/ Excused(fs, d, a, t.schema, t.name, c.name))
KeyTable(fs, d, a, t) == IsList(t.columns) /\ \A c \in Range(t.columns) : KeyColumn(fs, d, a, t, c)

(* Excuses last while files come and differences are taken.                 *)
LEMMA ExcusedKeeps ==
  ASSUME NEW fs, NEW gs, Range(fs) \subseteq Range(gs), NEW d, NEW e, d \subseteq e,
         NEW a, NEW schema, NEW table, NEW name, Excused(fs, d, a, schema, table, name)
  PROVE  Excused(gs, e, a, schema, table, name)
BY DEF Excused

LEMMA KeysKeep ==
  ASSUME NEW fs, NEW gs, Range(fs) \subseteq Range(gs), NEW d, NEW e, d \subseteq e, NEW a
  PROVE  /\ \A s : KeySql(fs, d, a, s) => KeySql(gs, e, a, s)
         /\ \A t : KeyTable(fs, d, a, t) => KeyTable(gs, e, a, t)
<1>1. \A schema, table, name : Excused(fs, d, a, schema, table, name) => Excused(gs, e, a, schema, table, name)
  BY ExcusedKeeps
<1> QED BY <1>1 DEF KeySql, KeyTable, KeyColumn

(* The first index of a list that passes a test.                            *)
LEMMA LeastIs ==
  ASSUME NEW I \in SUBSET Nat, I # {}
  PROVE  Min(I) \in I
<1> DEFINE R == OpToRel(<, Nat)
<1>1. IsWellFoundedOn(R, Nat)
  BY NatLessThanWellFounded
<1>2. \A i, j \in Nat : i < j => <<i, j>> \in R
  BY DEF OpToRel
<1> HIDE DEF R
<1>3. PICK n \in I : \A m \in I : ~(<<m, n>> \in R)
  BY <1>1, WFMin
<1>4. ASSUME NEW m \in I PROVE n <= m
  <2>1. n \in Nat /\ m \in Nat /\ ~(m < n)
    BY <1>2, <1>3
  <2> QED BY <2>1
<1>5. Min(I) = CHOOSE x \in I : \A y \in I : x <= y
  BY DEF Min
<1> QED BY <1>3, <1>4, <1>5

(* Columns as many as their names have each a name of their own.            *)
LEMMA NamesDiffer ==
  ASSUME NEW cols, IsList(cols), Cardinality(Names(cols)) = Len(cols)
  PROVE  \A i, j \in DOMAIN cols : cols[i].name = cols[j].name => i = j
<1> DEFINE n == Len(cols)
           f == [i \in 1..n |-> cols[i].name]
           S == Names(cols)
<1>1. n \in Nat /\ DOMAIN cols = 1..n
  BY ListIs
<1>2. S = {cols[i].name : i \in 1..n}
  BY <1>1 DEF Names
<1>3. f \in Surjection(1..n, S)
  BY <1>1, <1>2 DEF Surjection
<1>4. IsFiniteSet(1..n) /\ Cardinality(1..n) = n
  <2>1. 1 \in Int /\ n \in Int
    BY <1>1
  <2>2. IsFiniteSet(1..n) /\ Cardinality(1..n) = IF 1 > n THEN 0 ELSE n - 1 + 1
    <3> HIDE DEF n
    <3> QED BY <2>1, FS_Interval
  <2> QED BY <1>1, <2>2
<1>5. Cardinality(1..n) = Cardinality(S)
  BY <1>4
<1> HIDE DEF f, S
<1>6. f \in Injection(1..n, S)
  BY <1>3, <1>4, <1>5, FS_SurjSameCardinalityImpliesInj
<1>7. \A i, j \in 1..n : f[i] = f[j] => i = j
  BY <1>6 DEF Injection, IsInjective
<1> QED BY <1>1, <1>7 DEF f

(* The column a server keeps for a plain definition.                        *)
LEMMA KeptKey ==
  ASSUME NEW c, IsColumn(c), c.pk = FALSE, NEW key
  PROVE  /\ IsColumn(Kept(c, key)) /\ Kept(c, key).name = c.name
         /\ Kept(c, key).pk => key # "" /\ c.name = key
         /\ c.type = "BIGSERIAL" => Kept(c, key).default = "nextval"
<1> DEFINE named == key # "" /\ c.name = key
           next == "nextval"
           serial == "BIGSERIAL"
           big == "BIGINT"
<1>1. CASE c.type = serial
  <2>1. Kept(c, key) = Column(c.name, big, FALSE, named, FALSE, next)
    BY <1>1, Zenon DEF Kept
  <2> HIDE DEF named, next, serial, big
  <2>2. Kept(c, key).pk = named /\ Kept(c, key).default = next
    BY <2>1 DEF Column
  <2> QED BY <2>2, KeptIs DEF named, next, serial
<1>2. CASE c.type # serial
  <2>1. Kept(c, key) = [c EXCEPT !.pk = named, !.null = @ /\ ~named]
    BY <1>2, Zenon DEF Kept
  <2> HIDE DEF named
  <2>2. \E x : Kept(c, key) = [c EXCEPT !.pk = named, !.null = x]
    BY <2>1
  <2>3. PICK x : Kept(c, key) = [c EXCEPT !.pk = named, !.null = x]
    BY <2>2
  <2>4. c = [name |-> c.name, type |-> c.type, null |-> c.null, pk |-> c.pk,
             unique |-> c.unique, default |-> c.default]
    BY DEF IsColumn
  <2>5. Kept(c, key).pk = named
    BY <2>3, <2>4
  <2> QED BY <1>2, <2>5, KeptIs DEF named
<1> QED BY <1>1, <1>2

(* What a statement does to the columns of its table.                       *)
LEMMA KeyMade ==
  ASSUME NEW fs, NEW d, NEW a, NEW s, Keyed(s), Cardinality(Names(s.columns)) = Len(s.columns),
         NEW schema, NEW by
  PROVE  KeyTable(fs, d, a, MadeBy(s, schema, by))
<1> DEFINE cols == s.columns
           key == s.clause
           g == [i \in DOMAIN cols |-> Kept(cols[i], key)]
           t == MadeBy(s, schema, by)
<1>1. IsList(cols) /\ DOMAIN cols = 1..Len(cols)
      /\ \A i \in DOMAIN cols : IsColumn(cols[i]) /\ cols[i].pk = FALSE
  BY ListIs DEF Keyed, AreColumns
<1>2. \A i, j \in DOMAIN cols : cols[i].name = cols[j].name => i = j
  BY <1>1, NamesDiffer
<1>3. key # "" => \E i \in DOMAIN cols : cols[i].name = key /\ cols[i].type = "BIGSERIAL"
  BY DEF Keyed
<1>4. t.columns = g \o <<>>
  <2>1. t.columns = MapTo(cols, LAMBDA c : Kept(c, key))
    BY DEF MadeBy
  <2> QED BY <2>1, Zenon DEF MapTo
<1> HIDE DEF t
<1>5. g = [i \in DOMAIN cols |-> g[i]] /\ \A i \in DOMAIN cols : g[i] = Kept(cols[i], key)
  OBVIOUS
<1> HIDE DEF g, cols, key
<1>6. ASSUME NEW i \in DOMAIN cols PROVE IsColumn(g[i]) /\ Generated(g[i])
  <2>1. /\ IsColumn(g[i])
        /\ g[i].pk => key # "" /\ cols[i].name = key
        /\ cols[i].type = "BIGSERIAL" => g[i].default = "nextval"
    <3> DEFINE c == cols[i]
    <3>1. IsColumn(c) /\ c.pk = FALSE /\ g[i] = Kept(c, key)
      BY <1>1, <1>5
    <3> HIDE DEF c
    <3>2. /\ IsColumn(Kept(c, key)) /\ (Kept(c, key).pk => key # "" /\ c.name = key)
          /\ c.type = "BIGSERIAL" => Kept(c, key).default = "nextval"
      BY <3>1, KeptKey
    <3> QED BY <3>1, <3>2 DEF c
  <2>2. ASSUME g[i].pk PROVE cols[i].type = "BIGSERIAL"
    BY <1>2, <1>3, <2>1, <2>2
  <2> QED BY <2>1, <2>2 DEF Generated
<1>7. /\ IsList(g \o <<>>) /\ Len(g \o <<>>) = Len(cols)
      /\ \A i \in 1..Len(cols) : (g \o <<>>)[i] = g[i]
  BY <1>1, <1>5, MapIsList
<1>8. \A c \in Range(g \o <<>>) : \E i \in 1..Len(cols) : c = g[i]
  BY <1>7, ListIs
<1>9. \A c \in Range(g \o <<>>) : KeyColumn(fs, d, a, t, c)
  BY <1>1, <1>6, <1>8 DEF KeyColumn
<1> QED BY <1>4, <1>7, <1>9 DEF KeyTable, t

LEMMA KeyAdded ==
  ASSUME NEW fs, NEW d, NEW a, NEW t, IsTable(t), KeyTable(fs, d, a, t),
         NEW s, IsColumn(s.columns[1]), s.columns[1].pk = FALSE
  PROVE  KeyTable(fs, d, a, With(t, AddedTo(t.columns, s)))
<1> DEFINE none == ""
           k == Kept(s.columns[1], none)
           u == With(t, AddedTo(t.columns, s))
<1>1. AddedTo(t.columns, s) = Append(t.columns, k)
  BY Zenon DEF AddedTo
<1>2. IsColumn(k) /\ Generated(k)
  <2> HIDE DEF k
  <2>1. IsColumn(k) /\ (k.pk => none # "")
    BY KeptKey DEF k
  <2> QED BY <2>1 DEF Generated
<1> HIDE DEF k
<1>3. IsList(Append(t.columns, k)) /\ Range(Append(t.columns, k)) = Range(t.columns) \cup {k}
  BY FilesAppended DEF KeyTable
<1>4. u.columns = Append(t.columns, k) /\ u.name = t.name /\ u.schema = t.schema
  BY <1>1, WithIs
<1> HIDE DEF u
<1>5. \A c \in Range(u.columns) : KeyColumn(fs, d, a, u, c)
  BY <1>2, <1>3, <1>4 DEF KeyTable, KeyColumn
<1> QED BY <1>3, <1>4, <1>5 DEF KeyTable, u

LEMMA KeyDropped ==
  ASSUME NEW fs, NEW d, NEW a, NEW t, IsTable(t), KeyTable(fs, d, a, t), NEW s
  PROVE  KeyTable(fs, d, a, With(t, DroppedFrom(t.columns, s)))
<1> DEFINE cols == t.columns
           C == {i \in DOMAIN cols : cols[i].name # s.columns[1].name}
           u == With(t, DroppedFrom(cols, s))
<1>1. DroppedFrom(cols, s) = Picked(cols, C)
  <2>1. [i \in DOMAIN cols |-> IF i \in C THEN <<cols[i]>> ELSE <<>>]
        = [i \in DOMAIN cols |-> IF cols[i].name # s.columns[1].name THEN <<cols[i]>> ELSE <<>>]
    OBVIOUS
  <2> QED BY <2>1 DEF DroppedFrom, Select, Collect, MapTo, Picked
<1>2. u.columns = DroppedFrom(cols, s) /\ u.name = t.name /\ u.schema = t.schema
  BY WithIs
<1> HIDE DEF u, C
<1>3. IsList(cols) /\ \A c \in Range(cols) : KeyColumn(fs, d, a, t, c)
  BY DEF KeyTable
<1> HIDE DEF cols
<1>4. IsList(Picked(cols, C)) /\ Range(Picked(cols, C)) = {cols[i] : i \in {j \in DOMAIN cols : j \in C}}
  BY <1>3, Selected
<1>5. \A c \in Range(u.columns) : KeyColumn(fs, d, a, u, c)
  <2>1. \A c \in Range(u.columns) : c \in Range(cols)
    BY <1>1, <1>2, <1>4 DEF Range
  <2> QED BY <1>2, <1>3, <2>1 DEF KeyColumn
<1> QED BY <1>1, <1>2, <1>4, <1>5 DEF KeyTable, u, cols

LEMMA ChangingIs ==
  ASSUME NEW c, IsColumn(c), NEW s, s.clause \in {"type", "null", "default"}
  PROVE  /\ IsColumn(Changing(c, s)) /\ Changing(c, s).name = c.name /\ Changing(c, s).pk = c.pk
         /\ s.clause # "default" \/ c.name # s.columns[1].name => Changing(c, s).default = c.default
<1> DEFINE x == s.columns[1]
<1>1. /\ [c EXCEPT !.type = x.type] = Column(c.name, x.type, c.null, c.pk, c.unique, c.default)
      /\ [c EXCEPT !.null = x.null] = Column(c.name, c.type, x.null, c.pk, c.unique, c.default)
      /\ [c EXCEPT !.default = x.default] = Column(c.name, c.type, c.null, c.pk, c.unique, x.default)
  BY DEF IsColumn, Column
<1>2. \A t, n, e : LET r == Column(c.name, t, n, c.pk, c.unique, e)
                   IN IsColumn(r) /\ r.name = c.name /\ r.pk = c.pk /\ r.default = e
  BY DEF IsColumn, Column
<1>3. CASE c.name # x.name
  <2>1. Changing(c, s) = c
    BY <1>3, Zenon DEF Changing
  <2> QED BY <2>1
<1>4. CASE c.name = x.name /\ s.clause = "type"
  <2>1. Changing(c, s) = [c EXCEPT !.type = x.type]
    BY <1>4, Zenon DEF Changing
  <2> QED BY <1>1, <1>2, <1>4, <2>1
<1>5. CASE c.name = x.name /\ s.clause = "null"
  <2>1. Changing(c, s) = [c EXCEPT !.null = x.null]
    BY <1>5, Zenon DEF Changing
  <2> QED BY <1>1, <1>2, <1>5, <2>1
<1>6. CASE c.name = x.name /\ s.clause = "default"
  <2>1. Changing(c, s) = [c EXCEPT !.default = x.default]
    BY <1>6, Zenon DEF Changing
  <2> QED BY <1>1, <1>2, <1>6, <2>1
<1> QED BY <1>3, <1>4, <1>5, <1>6

LEMMA KeyAltered ==
  ASSUME NEW fs, NEW d, NEW a, NEW t, IsTable(t), KeyTable(fs, d, a, t),
         NEW s, s.clause \in {"type", "null", "default"},
         s.clause = "default" => Excused(fs, d, a, t.schema, t.name, s.columns[1].name)
  PROVE  KeyTable(fs, d, a, With(t, AlteredIn(t.columns, s)))
<1> DEFINE cols == t.columns
           g == [i \in DOMAIN cols |-> Changing(cols[i], s)]
           u == With(t, AlteredIn(cols, s))
<1>1. AlteredIn(cols, s) = g \o <<>>
  BY Zenon DEF AlteredIn, MapTo
<1>2. u.columns = AlteredIn(cols, s) /\ u.name = t.name /\ u.schema = t.schema
  BY WithIs
<1>3. g = [i \in DOMAIN cols |-> g[i]] /\ \A i \in DOMAIN cols : g[i] = Changing(cols[i], s)
  OBVIOUS
<1> HIDE DEF u, g
<1>4. IsList(cols) /\ DOMAIN cols = 1..Len(cols) /\ \A i \in DOMAIN cols : KeyColumn(fs, d, a, t, cols[i])
  BY ListIs DEF KeyTable, Range
<1> HIDE DEF cols
<1>5. /\ IsList(g \o <<>>) /\ Len(g \o <<>>) = Len(cols)
      /\ \A i \in 1..Len(cols) : (g \o <<>>)[i] = g[i]
  BY <1>3, <1>4, MapIsList
<1>6. \A c \in Range(g \o <<>>) : \E i \in 1..Len(cols) : c = g[i]
  BY <1>5, ListIs
<1>7. ASSUME NEW i \in DOMAIN cols PROVE KeyColumn(fs, d, a, u, g[i])
  <2> DEFINE c == cols[i]
             new == Changing(c, s)
  <2>1. IsColumn(c) /\ (Generated(c) \/ Excused(fs, d, a, t.schema, t.name, c.name))
    BY <1>4 DEF KeyColumn
  <2>2. /\ IsColumn(new) /\ new.name = c.name /\ new.pk = c.pk
        /\ s.clause # "default" \/ c.name # s.columns[1].name => new.default = c.default
    BY <2>1, ChangingIs
  <2> HIDE DEF c, new
  <2>3. Generated(new) \/ Excused(fs, d, a, t.schema, t.name, new.name)
    BY <2>1, <2>2 DEF Generated
  <2>4. g[i] = new
    BY <1>3 DEF new, c
  <2> QED BY <1>2, <2>2, <2>3, <2>4 DEF KeyColumn
<1>8. \A c \in Range(u.columns) : KeyColumn(fs, d, a, u, c)
  BY <1>1, <1>2, <1>4, <1>6, <1>7
<1> QED BY <1>1, <1>2, <1>5, <1>8 DEF KeyTable, u, cols

(* A statement a PostgreSQL database accepts.                               *)
LEMMA KeyExecute ==
  ASSUME NEW fs, NEW d, NEW a, NEW db, IsDatabase(db), IsFiniteSet(db.tables),
         \A t \in db.tables : KeyTable(fs, d, a, t),
         NEW s, KeySql(fs, d, a, s), Accepts(PG, db, s), NEW by
  PROVE  LET new == Execute(PG, db, s, by)
         IN IsFiniteSet(new.tables) /\ \A t \in new.tables : KeyTable(fs, d, a, t)
<1> DEFINE at == TableAt(PG, db, s)
           new == Execute(PG, db, s, by)
           made == MadeBy(s, Home(PG, s.schema), by)
           T1 == (db.tables \ at) \cup {With(t, AddedTo(t.columns, s)) : t \in at}
           T2 == (db.tables \ at) \cup {With(t, DroppedFrom(t.columns, s)) : t \in at}
           T3 == (db.tables \ at) \cup {With(t, AlteredIn(t.columns, s)) : t \in at}
           Good(T) == IsFiniteSet(T) /\ \A t \in T : KeyTable(fs, d, a, t)
<1>1. /\ at \subseteq db.tables /\ IsFiniteSet(at) /\ IsFiniteSet(db.tables \ at)
      /\ \A t \in at : t.schema = Home(PG, s.schema) /\ t.name = s.table
  <2>1. at \subseteq db.tables /\ \A t \in at : t.schema = Home(PG, s.schema) /\ t.name = s.table
    BY DEF TableAt, Named
  <2> HIDE DEF at
  <2>2. IsFiniteSet(at) /\ IsFiniteSet(db.tables \ at)
    BY <2>1, FS_Subset
  <2> QED BY <2>1, <2>2
<1>2. db = [schemas |-> db.schemas, tables |-> db.tables, indexes |-> db.indexes] /\ \A t \in db.tables : IsTable(t)
  BY DEF IsDatabase
<1>3. ASSUME NEW g, NEW T, T = (db.tables \ at) \cup {g[t] : t \in at} PROVE IsFiniteSet(T)
  <2> DEFINE f == [t \in at |-> g[t]]
             S == {g[t] : t \in at}
  <2>1. f \in Surjection(at, S)
    BY DEF Surjection
  <2> HIDE DEF f, S
  <2>2. IsFiniteSet(S)
    BY <1>1, <2>1, FS_Surjection
  <2>3. IsFiniteSet((db.tables \ at) \cup S)
    BY <1>1, <2>2, FS_Union
  <2> QED BY <1>3, <2>3 DEF S
<1> HIDE DEF at
<1>4. ASSUME s.kind = "create_table", at = {} PROVE Good(db.tables \cup {made})
  <2>1. Cardinality(Names(s.columns)) = Len(s.columns)
    BY <1>4, Zenon DEF Accepts, at, TableAt
  <2>2. KeyTable(fs, d, a, made)
    BY <1>4, <2>1, KeyMade DEF KeySql
  <2>3. IsFiniteSet(db.tables \cup {made})
    BY FS_AddElement
  <2> QED BY <2>2, <2>3
<1>5. ASSUME s.kind = "add_column" PROVE Good(T1)
  <2>1. \A t \in at : KeyTable(fs, d, a, With(t, AddedTo(t.columns, s)))
    BY <1>1, <1>2, <1>5, KeyAdded DEF KeySql
  <2> DEFINE g == [t \in at |-> With(t, AddedTo(t.columns, s))]
  <2>2. T1 = (db.tables \ at) \cup {g[t] : t \in at}
    OBVIOUS
  <2> HIDE DEF g
  <2>3. IsFiniteSet(T1)
    BY <1>3, <2>2
  <2> QED BY <2>1, <2>3
<1>6. Good(T2)
  <2>1. \A t \in at : KeyTable(fs, d, a, With(t, DroppedFrom(t.columns, s)))
    BY <1>1, <1>2, KeyDropped
  <2> DEFINE g == [t \in at |-> With(t, DroppedFrom(t.columns, s))]
  <2>2. T2 = (db.tables \ at) \cup {g[t] : t \in at}
    OBVIOUS
  <2> HIDE DEF g
  <2>3. IsFiniteSet(T2)
    BY <1>3, <2>2
  <2> QED BY <2>1, <2>3
<1>7. ASSUME s.kind = "alter_column" PROVE Good(T3)
  <2>1. \A t \in at : KeyTable(fs, d, a, With(t, AlteredIn(t.columns, s)))
    BY <1>1, <1>2, <1>7, KeyAltered DEF KeySql
  <2> DEFINE g == [t \in at |-> With(t, AlteredIn(t.columns, s))]
  <2>2. T3 = (db.tables \ at) \cup {g[t] : t \in at}
    OBVIOUS
  <2> HIDE DEF g
  <2>3. IsFiniteSet(T3)
    BY <1>3, <2>2
  <2> QED BY <2>1, <2>3
<1>8. \/ new = db \/ (\E x : new = [db EXCEPT !.schemas = x]) \/ (\E x : new = [db EXCEPT !.indexes = x])
      \/ s.kind = "create_table" /\ at = {} /\ new = [db EXCEPT !.tables = @ \cup {made}]
      \/ s.kind = "add_column" /\ new = [db EXCEPT !.tables = T1]
      \/ s.kind = "drop_column" /\ new = [db EXCEPT !.tables = T2]
      \/ s.kind = "alter_column" /\ new = [db EXCEPT !.tables = T3]
  BY ExecuteIs DEF at
<1>9. \A x : /\ [db EXCEPT !.schemas = x].tables = db.tables /\ [db EXCEPT !.indexes = x].tables = db.tables
             /\ [db EXCEPT !.tables = x].tables = x
  BY <1>2
<1> HIDE DEF new, made, T1, T2, T3
<1>10. \/ new.tables = db.tables
       \/ s.kind = "create_table" /\ at = {} /\ new.tables = db.tables \cup {made}
       \/ s.kind = "add_column" /\ new.tables = T1
       \/ new.tables = T2
       \/ s.kind = "alter_column" /\ new.tables = T3
  BY <1>8, <1>9
<1>11. Good(db.tables)
  OBVIOUS
<1> HIDE DEF Good
<1>12. Good(new.tables)
  BY <1>4, <1>5, <1>6, <1>7, <1>10, <1>11
<1> QED BY <1>12 DEF Good, new

(* The statements the generator writes for PostgreSQL.                      *)
LEMMA SqlColumnIs ==
  ASSUME NEW c, NEW gen, gen.backend = PG, NEW key \in BOOLEAN
  PROVE  LET x == ColumnSql(c, gen.backend, key)
         IN /\ IsColumn(x) /\ x.name = c.name /\ x.pk = FALSE
            /\ key /\ c.pk => x.type = "BIGSERIAL"
<1> DEFINE x == ColumnSql(c, gen.backend, key)
           none == ""
           serial == "BIGSERIAL"
<1>1. CASE key /\ c.pk
  <2>1. \E lite : x = Column(c.name, serial, TRUE, lite, FALSE, none) /\ lite = (gen.backend = LITE)
    BY <1>1, BackendsDiffer, Zenon DEF ColumnSql
  <2> HIDE DEF x, none
  <2>2. x.type = serial /\ x.pk = FALSE
    <3>1. PICK lite : x = Column(c.name, serial, TRUE, lite, FALSE, none) /\ lite = (gen.backend = LITE)
      BY <2>1
    <3>2. x.type = serial /\ x.pk = lite
      <4> HIDE DEF serial
      <4> QED BY <3>1 DEF Column
    <3> QED BY <3>1, <3>2, BackendsDiffer
  <2> QED BY <2>2, ColumnSqlIs DEF x
<1>2. CASE ~(key /\ c.pk)
  <2>1. \E t, n, u, d : x = Column(c.name, t, n, FALSE, u, d)
    BY <1>2, Zenon DEF ColumnSql
  <2> HIDE DEF x
  <2>2. x.pk = FALSE
    BY <2>1 DEF Column
  <2> QED BY <1>2, <2>2, ColumnSqlIs DEF x
<1> QED BY <1>1, <1>2

LEMMA KeyCreate ==
  ASSUME NEW gen, gen.backend = PG, NEW table, NEW cols, IsList(cols)
  PROVE  Keyed(CreateTable(gen, table, cols)) /\ CreateTable(gen, table, cols).kind = "create_table"
<1> DEFINE I == {i \in 1..Len(cols) : cols[i].pk}
           key == SelectInSeq(cols, LAMBDA c : c.pk)
           g == [i \in DOMAIN cols |-> ColumnSql(cols[i], gen.backend, TRUE)]
           none == ""
           clause == IF key = 0 \/ gen.backend = LITE THEN none ELSE cols[key].name
           s == CreateTable(gen, table, cols)
<1>1. Len(cols) \in Nat /\ DOMAIN cols = 1..Len(cols)
  BY ListIs
<1>2. key = IF I # {} THEN Min(I) ELSE 0
  BY Zenon DEF SelectInSeq
<1>3. s = Statement("create_table", gen, table, g \o <<>>, clause)
  BY Zenon DEF CreateTable, MapTo
<1>4. I \in SUBSET Nat
  BY <1>1
<1>5. \A i \in I : i \in DOMAIN cols /\ cols[i].pk
  BY <1>1
<1> HIDE DEF I, key
<1>6. clause # none => key \in DOMAIN cols /\ cols[key].pk /\ clause = cols[key].name
  BY <1>2, <1>4, <1>5, LeastIs
<1> HIDE DEF clause, none, s
<1>7. s.kind = "create_table" /\ s.columns = g \o <<>> /\ s.clause = clause
  BY <1>3 DEF Statement
<1>8. g = [i \in DOMAIN cols |-> g[i]] /\ \A i \in DOMAIN cols : g[i] = ColumnSql(cols[i], gen.backend, TRUE)
  OBVIOUS
<1> HIDE DEF g
<1>9. \A i \in DOMAIN cols : /\ IsColumn(g[i]) /\ g[i].name = cols[i].name /\ g[i].pk = FALSE
                             /\ cols[i].pk => g[i].type = "BIGSERIAL"
  <2> TAKE i \in DOMAIN cols
  <2> DEFINE c == cols[i]
             x == ColumnSql(c, gen.backend, TRUE)
  <2>1. IsColumn(x) /\ x.name = c.name /\ x.pk = FALSE /\ (c.pk => x.type = "BIGSERIAL")
    <3> HIDE DEF c
    <3> QED BY SqlColumnIs
  <2>2. g[i] = x
    BY <1>8
  <2> QED BY <2>1, <2>2
<1> DEFINE h == g \o <<>>
<1>10. IsList(h) /\ Len(h) = Len(cols) /\ \A i \in 1..Len(cols) : h[i] = g[i]
  BY <1>8, MapIsList
<1>11. DOMAIN h = DOMAIN cols
  BY <1>1, <1>10, ListIs
<1>12. s.columns = h
  BY <1>7
<1> HIDE DEF h
<1>13. \A i \in DOMAIN h : /\ IsColumn(h[i]) /\ h[i].name = cols[i].name /\ h[i].pk = FALSE
                           /\ cols[i].pk => h[i].type = "BIGSERIAL"
  BY <1>1, <1>9, <1>10, <1>11
<1>14. AreColumns(h)
  BY <1>10, <1>13 DEF AreColumns
<1>15. clause # none => \E i \in DOMAIN h : h[i].name = clause /\ h[i].type = "BIGSERIAL"
  BY <1>6, <1>11, <1>13
<1>16. Keyed(s)
  BY <1>7, <1>12, <1>13, <1>14, <1>15 DEF Keyed, none
<1> QED BY <1>7, <1>16 DEF s

LEMMA KeyAdd ==
  ASSUME NEW gen, gen.backend = PG, NEW table, NEW c
  PROVE  LET s == AddColumn(gen, table, c)
         IN s.kind = "add_column" /\ IsColumn(s.columns[1]) /\ s.columns[1].pk = FALSE
<1> DEFINE x == ColumnSql(c, gen.backend, FALSE)
           s == AddColumn(gen, table, c)
<1>1. \E clause : s = Statement("add_column", gen, table, <<x>>, clause)
  BY Zenon DEF AddColumn
<1>2. IsColumn(x) /\ x.pk = FALSE
  BY SqlColumnIs
<1> HIDE DEF x, s
<1>3. s.kind = "add_column" /\ s.columns[1] = x
  BY <1>1 DEF Statement
<1> QED BY <1>2, <1>3 DEF s

\* What AlterColumn says of a column.
Alteration(s, gen, table, old, new) ==
  /\ s.kind = "alter_column" /\ s.schema = Qn(gen) /\ s.table = table /\ s.columns[1].name = new.name
  /\ s.clause \in {"type", "null", "default"}
  /\ s.clause = "default" => old.default # new.default

LEMMA KeyAlter ==
  ASSUME NEW gen, gen.backend = PG, NEW table, NEW old, NEW new
  PROVE  /\ IsList(AlterColumn(gen, table, old, new))
         /\ \A s \in Range(AlterColumn(gen, table, old, new)) : Alteration(s, gen, table, old, new)
<1> DEFINE col == <<ColumnSql(new, gen.backend, FALSE)>>
           Set(part, differs) ==
             IF differs THEN <<Statement("alter_column", gen, table, col, part)>> ELSE <<>>
           Good(q) == IsList(q) /\ \A s \in Range(q) : Alteration(s, gen, table, old, new)
<1>1. col[1].name = new.name
  BY ColumnSqlIs
<1> HIDE DEF col
<1>2. ASSUME NEW part \in {"type", "null", "default"}, NEW differs \in BOOLEAN,
             part = "default" /\ differs => old.default # new.default
      PROVE  Good(Set(part, differs))
  <2>1. CASE differs
    <3> DEFINE s == Statement("alter_column", gen, table, col, part)
    <3>1. s.kind = "alter_column" /\ s.schema = Qn(gen) /\ s.table = table /\ s.columns = col /\ s.clause = part
      BY DEF Statement
    <3>2. Set(part, differs) = <<s>>
      BY <2>1
    <3> HIDE DEF s, Set
    <3>3. Alteration(s, gen, table, old, new)
      BY <1>1, <1>2, <2>1, <3>1 DEF Alteration
    <3>4. IsList(<<s>>) /\ Range(<<s>>) = {s}
      BY TupleIsList
    <3> QED BY <3>2, <3>3, <3>4
  <2>2. CASE ~differs
    <3>1. Set(part, differs) = <<>>
      BY <2>2
    <3> HIDE DEF Set
    <3>2. IsList(<<>>) /\ Range(<<>>) = {}
      BY NoElements DEF Range
    <3> QED BY <3>1, <3>2
  <2> QED BY <2>1, <2>2
<1>3. ASSUME NEW q, NEW r, Good(q), Good(r) PROVE Good(q \o r)
  <2>1. IsList(q \o r) /\ Range(q \o r) = Range(q) \cup Range(r)
    BY <1>3, JoinLists
  <2> QED BY <1>3, <2>1
<1> DEFINE q1 == Set("type", old.type # new.type)
           q2 == Set("null", old.null # new.null)
           q3 == Set("default", old.default # new.default)
<1>4. AlterColumn(gen, table, old, new) = q1 \o q2 \o q3
  <2>1. gen.backend # MY /\ gen.backend # LITE
    BY BackendsDiffer
  <2> QED BY <2>1, Zenon DEF AlterColumn, col
<1> HIDE DEF Good, Set
<1>5. Good(q1) /\ Good(q2) /\ Good(q3)
  BY <1>2
<1> HIDE DEF q1, q2, q3
<1>6. Good(q1 \o q2)
  BY <1>3, <1>5
<1>7. Good(q1 \o q2 \o q3)
  BY <1>3, <1>5, <1>6
<1> QED BY <1>4, <1>7 DEF Good

(* The statements of an operation of a file that is read.                   *)
LEMMA KeyOperation ==
  ASSUME NEW a \in Alias, Backend[a] = PG, NEW schema, NEW fs, NEW f \in Range(fs), f.readable,
         NEW op \in Range(f.ops), IsOp(op), NEW d,
         NEW own, op.kind = "AlterField" => own = op.schema
  PROVE  \A s \in Range(OperationToSql(In(Gen(a, schema), own), op)) : KeySql(fs, d, a, s)
<1> DEFINE gen == In(Gen(a, schema), own)
           sqls == OperationToSql(gen, op)
           none == ""
<1>1. \A x : Range(<<x>>) = {x}
  BY TupleIsList
<1>2. gen.backend = PG /\ (own # none => Qn(gen) = own)
  <2>1. gen.backend = PG
    BY GenIs, Zenon
  <2>2. ASSUME own # none PROVE gen.schema = own
    <3>1. gen = [Gen(a, schema) EXCEPT !.schema = own]
      BY <2>2, Zenon DEF In
    <3> QED BY <3>1 DEF Gen
  <2> HIDE DEF gen
  <2> QED BY <2>1, <2>2, Zenon DEF Qn
<1>3. ASSUME \A s \in Range(sqls) : s.kind \notin {"create_table", "add_column", "alter_column"}
      PROVE  \A s \in Range(sqls) : KeySql(fs, d, a, s)
  <2> HIDE DEF sqls
  <2> QED BY <1>3 DEF KeySql
<1>4. \A kind, table, cols, clause, x :
        /\ Statement(kind, gen, table, cols, clause).kind = kind
        /\ [Statement(kind, gen, table, cols, clause) EXCEPT !.schema = x].kind = kind
  <2> HIDE DEF gen
  <2> QED BY DEF Statement
<1>5. CASE op.kind = "CreateTable"
  <2> DEFINE s == CreateTable(gen, op.table, op.columns)
  <2>1. sqls = <<s>>
    BY <1>5, Zenon DEF OperationToSql
  <2>2. Keyed(s) /\ s.kind = "create_table"
    <3> HIDE DEF gen
    <3> QED BY <1>2, KeyCreate DEF IsOp
  <2> HIDE DEF s, sqls
  <2>3. Range(sqls) = {s}
    BY <1>1, <2>1
  <2> QED BY <2>2, <2>3 DEF KeySql, sqls
<1>6. CASE op.kind = "AddField"
  <2> DEFINE s == AddColumn(gen, op.table, op.columns[1])
  <2>1. sqls = <<s>>
    BY <1>6, Zenon DEF OperationToSql
  <2>2. s.kind = "add_column" /\ IsColumn(s.columns[1]) /\ s.columns[1].pk = FALSE
    <3> DEFINE c == op.columns[1]
    <3> HIDE DEF gen, c
    <3>1. LET r == AddColumn(gen, op.table, c)
          IN r.kind = "add_column" /\ IsColumn(r.columns[1]) /\ r.columns[1].pk = FALSE
      BY <1>2, KeyAdd
    <3> QED BY <3>1 DEF c
  <2> HIDE DEF s, sqls
  <2>3. Range(sqls) = {s}
    BY <1>1, <2>1
  <2> QED BY <2>2, <2>3 DEF KeySql, sqls
<1>7. CASE op.kind = "AlterField"
  <2> DEFINE old == op.columns[1]
             new == op.columns[2]
  <2>1. sqls = AlterColumn(gen, op.table, old, new)
    BY <1>7, Zenon DEF OperationToSql
  <2>2. \A s \in Range(sqls) : Alteration(s, gen, op.table, old, new)
    <3> HIDE DEF gen, sqls, old, new
    <3> QED BY <1>2, <2>1, KeyAlter
  <2> HIDE DEF sqls
  <2>3. ASSUME NEW s \in Range(sqls) PROVE KeySql(fs, d, a, s)
    <3> HIDE DEF gen, old, new
    <3>1. Alteration(s, gen, op.table, old, new)
      BY <2>2
    <3>2. own = none \/ own = Home(PG, s.schema)
      <4>1. ASSUME own # none PROVE s.schema = own /\ Home(PG, own) = own
        <5>1. s.schema = own
          BY <1>2, <3>1, <4>1 DEF Alteration
        <5> QED BY <4>1, <5>1, Zenon DEF Home
      <4> QED BY <4>1
    <3>3. ASSUME s.clause = "default"
          PROVE  AltersDefault(f, [name |-> s.table, schema |-> Home(PG, s.schema)], s.columns[1].name)
      <4>1. old.default # new.default /\ s.table = op.table /\ s.columns[1].name = new.name
        BY <3>1, <3>3 DEF Alteration
      <4> DEFINE t == [name |-> s.table, schema |-> Home(PG, s.schema)]
      <4>2. t.name = s.table /\ t.schema = Home(PG, s.schema)
        OBVIOUS
      <4> HIDE DEF t
      <4>3. op.kind = "AlterField" /\ op.table = t.name /\ op.schema \in {"", t.schema}
        BY <1>7, <3>2, <4>1, <4>2 DEF none
      <4>4. op.columns[2].name = s.columns[1].name /\ op.columns[1].default # op.columns[2].default
        BY <4>1 DEF old, new
      <4>5. AltersDefault(f, t, s.columns[1].name)
        BY <4>3, <4>4 DEF AltersDefault
      <4> QED BY <4>5 DEF t
    <3>4. s.clause = "default" => Excused(fs, d, a, Home(PG, s.schema), s.table, s.columns[1].name)
      BY <3>3 DEF Excused
    <3>5. s.kind = "alter_column" /\ s.clause \in {"type", "null", "default"}
      BY <3>1 DEF Alteration
    <3> QED BY <3>4, <3>5 DEF KeySql
  <2> QED BY <2>3 DEF sqls
<1>8. CASE op.kind = "CreateSchema"
  <2>1. sqls = CreateSchema(gen, op.schema)
    BY <1>8, Zenon DEF OperationToSql
  <2>2. \/ sqls = <<>>
        \/ \E table, cols, clause, x : sqls = <<[Statement("create_schema", gen, table, cols, clause) EXCEPT !.schema = x]>>
    <3> HIDE DEF gen, sqls
    <3> QED BY <2>1, Zenon DEF CreateSchema
  <2> HIDE DEF sqls, gen
  <2>3. \A s \in Range(sqls) : s.kind = "create_schema"
    <3>1. CASE sqls = <<>>
      BY <3>1 DEF Range
    <3>2. CASE sqls # <<>>
      <4>1. PICK table, cols, clause, x :
              sqls = <<[Statement("create_schema", gen, table, cols, clause) EXCEPT !.schema = x]>>
        BY <2>2, <3>2
      <4> DEFINE s == [Statement("create_schema", gen, table, cols, clause) EXCEPT !.schema = x]
      <4>2. sqls = <<s>> /\ s.kind = "create_schema"
        BY <1>4, <4>1
      <4> HIDE DEF s
      <4>3. Range(sqls) = {s}
        BY <1>1, <4>2
      <4> QED BY <4>2, <4>3
    <3> QED BY <3>1, <3>2
  <2> QED BY <1>3, <2>3 DEF sqls, gen
<1>9. CASE op.kind = "RemoveField"
  <2>1. \E kind \in {"comment", "drop_column"} : \E table, cols, clause :
          sqls = <<Statement(kind, gen, table, cols, clause)>>
    <3>1. sqls = <<DropColumn(gen, op.table, op.columns[1])>>
      BY <1>9, Zenon DEF OperationToSql
    <3> HIDE DEF gen, sqls
    <3> QED BY <3>1, Zenon DEF DropColumn
  <2> HIDE DEF sqls, gen
  <2>2. \A s \in Range(sqls) : s.kind \in {"comment", "drop_column"}
    BY <1>1, <1>4, <2>1
  <2> QED BY <1>3, <2>2 DEF sqls, gen
<1>10. CASE op.kind \in {"CreateIndex", "RunSQL"}
  <2>1. \E kind \in {"create_index", "raw"} : \E table, cols, clause :
          sqls = <<Statement(kind, gen, table, cols, clause)>>
    BY <1>10, Zenon DEF OperationToSql
  <2> HIDE DEF sqls, gen
  <2>2. \A s \in Range(sqls) : s.kind \in {"create_index", "raw"}
    BY <1>1, <1>4, <2>1
  <2> QED BY <1>3, <2>2 DEF sqls, gen
<1>11. CASE op.kind = "DeleteIndex"
  <2> DEFINE s == DropIndex(gen, op.table, op.columns[1].name)
  <2>1. sqls = <<s>>
    BY <1>11, Zenon DEF OperationToSql
  <2>2. \E table, cols, clause, x : s = [Statement("drop_index", gen, table, cols, clause) EXCEPT !.schema = x]
    BY Zenon DEF DropIndex
  <2> HIDE DEF s, sqls, gen
  <2>3. s.kind = "drop_index" /\ Range(sqls) = {s}
    BY <1>1, <1>4, <2>1, <2>2
  <2> QED BY <1>3, <2>3 DEF sqls, gen
<1> QED BY <1>5, <1>6, <1>7, <1>8, <1>9, <1>10, <1>11, Zenon DEF IsOp, OperationKinds

(* What a live difference changes of a column it changes in a table that was *)
(* introspected.                                                            *)
LEMMA MapRange ==
  ASSUME NEW s, IsList(s), NEW g, g = [i \in DOMAIN s |-> g[i]]
  PROVE  IsList(g \o <<>>) /\ \A x \in Range(g \o <<>>) : \E i \in DOMAIN s : x = g[i]
<1>1. IsList(g \o <<>>) /\ Len(g \o <<>>) = Len(s) /\ (\A i \in 1..Len(s) : (g \o <<>>)[i] = g[i])
      /\ DOMAIN s = 1..Len(s)
  BY MapIsList, ListIs
<1> DEFINE h == g \o <<>>
<1> HIDE DEF h
<1>2. \A x : x \in Range(h) <=> \E i \in 1..Len(h) : h[i] = x
  BY <1>1, ListIs DEF h
<1> QED BY <1>1, <1>2 DEF h

LEMMA SelectRange ==
  ASSUME NEW s, IsList(s), NEW C, NEW r, r = Picked(s, C)
  PROVE  IsList(r) /\ \A x \in Range(r) : \E i \in DOMAIN s : i \in C /\ x = s[i]
BY Selected

\* A change of a column is one of a table of the target that is known.
OfKnown(current, target, c) ==
  c.kind = "AlterColumn" => \E t \in Range(target) : Knows(current, t) /\ c.schema = t.schema
AllOfKnown(current, target, q) == IsList(q) /\ \A c \in Range(q) : OfKnown(current, target, c)

LEMMA OtherChanges ==
  ASSUME NEW current, NEW target, NEW s, IsList(s), NEW g, g = [i \in DOMAIN s |-> g[i]],
         \A i \in DOMAIN s : g[i].kind # "AlterColumn"
  PROVE  AllOfKnown(current, target, g \o <<>>)
<1>1. IsList(g \o <<>>) /\ \A x \in Range(g \o <<>>) : \E i \in DOMAIN s : x = g[i]
  BY MapRange
<1> QED BY <1>1 DEF AllOfKnown, OfKnown

LEMMA KnownFlat ==
  ASSUME NEW current, NEW target, NEW s, IsList(s), NEW g, g = [i \in DOMAIN s |-> g[i]],
         \A i \in DOMAIN s : AllOfKnown(current, target, g[i])
  PROVE  AllOfKnown(current, target, FlattenSeq(g \o <<>>))
<1>1. DOMAIN s = 1..Len(s) /\ Len(s) \in Nat
  BY ListIs
<1> DEFINE r == FlattenSeq(g \o <<>>)
<1>2. IsList(r) /\ Range(r) = UNION {Range(g[i]) : i \in 1..Len(s)}
  BY <1>1, FlatList DEF AllOfKnown
<1> HIDE DEF r
<1>3. AllOfKnown(current, target, r)
  BY <1>1, <1>2 DEF AllOfKnown
<1> QED BY <1>3 DEF r

LEMMA KnownJoin ==
  ASSUME NEW current, NEW target, NEW q, NEW r, AllOfKnown(current, target, q), AllOfKnown(current, target, r)
  PROVE  AllOfKnown(current, target, q \o r)
<1>1. IsList(q \o r) /\ Range(q \o r) = Range(q) \cup Range(r)
  BY JoinLists DEF AllOfKnown
<1> QED BY <1>1 DEF AllOfKnown

LEMMA ChangeIs ==
  ASSUME NEW kind, NEW t, NEW column, NEW old
  PROVE  Change(kind, t, column, old).kind = kind /\ Change(kind, t, column, old).schema = t.schema
BY DEF Change

LEMMA AddsKnown ==
  ASSUME NEW current, NEW target, NEW t, NEW cols, IsList(cols)
  PROVE  AllOfKnown(current, target, Adds(t, cols))
<1> DEFINE g == [i \in DOMAIN cols |-> Change("AddColumn", t, cols[i], NoColumn)]
<1>1. Adds(t, cols) = g \o <<>>
  BY Zenon DEF Adds, MapTo
<1>2. g = [i \in DOMAIN cols |-> g[i]] /\ \A i \in DOMAIN cols : g[i].kind = "AddColumn"
  BY ChangeIs
<1> HIDE DEF g
<1>3. AllOfKnown(current, target, g \o <<>>)
  BY <1>2, OtherChanges
<1> QED BY <1>1, <1>3

LEMMA AltersKnown ==
  ASSUME NEW current, NEW target, NEW t \in Range(target), IsList(t.columns), Knows(current, t)
  PROVE  AllOfKnown(current, target, Alters(current, t))
<1> DEFINE cols == Altered(current, t)
           g == [i \in DOMAIN cols |-> Change("AlterColumn", t, cols[i], ColumnOf(Find(current, t), cols[i].name))]
<1>1. Alters(current, t) = g \o <<>>
  BY Zenon DEF Alters, MapTo
<1>2. IsList(cols)
  BY AlteredIsList
<1>3. g = [i \in DOMAIN cols |-> g[i]] /\ \A i \in DOMAIN cols : g[i].schema = t.schema
  BY ChangeIs
<1> HIDE DEF g, cols
<1>4. IsList(g \o <<>>) /\ \A x \in Range(g \o <<>>) : \E i \in DOMAIN cols : x = g[i]
  BY <1>2, <1>3, MapRange
<1>5. AllOfKnown(current, target, g \o <<>>)
  BY <1>3, <1>4 DEF AllOfKnown, OfKnown
<1> QED BY <1>1, <1>5

LEMMA DiffKnown ==
  ASSUME NEW current, NEW target, IsTarget(target)
  PROVE  AllOfKnown(current, target, DiffStates(current, target))
<1> DEFINE new     == Select(target, LAMBDA t : ~Knows(current, t))
           known   == Select(target, LAMBDA t : Knows(current, t))
           schemas == SetToSeq(SchemasOf(target) \ (SchemasOf(current) \cup {""}))
           g1 == [i \in DOMAIN new |-> Adds(new[i], new[i].columns)]
           g2 == [i \in DOMAIN known |-> Adds(known[i], Missing(current, known[i]))]
           g3 == [i \in DOMAIN known |-> Alters(current, known[i])]
           c1 == [i \in DOMAIN schemas |->
                    Change("CreateSchema", [name |-> "", schema |-> schemas[i]], NoColumn, NoColumn)]
           c2 == [i \in DOMAIN new |-> Change("CreateTable", new[i], NoColumn, NoColumn)]
           All(q) == AllOfKnown(current, target, q)
<1>1. DiffStates(current, target)
       = (c1 \o <<>>) \o (c2 \o <<>>) \o FlattenSeq(g1 \o <<>>) \o FlattenSeq(g2 \o <<>>) \o FlattenSeq(g3 \o <<>>)
  BY DEF DiffStates, Collect, MapTo, Adds, Missing, Altered, Alters, new, known, schemas
<1>2. IsList(new) /\ \A i \in DOMAIN new : IsList(new[i].columns)
  <2> DEFINE C == {i \in DOMAIN target : ~Knows(current, target[i])}
  <2>1. new = Picked(target, C)
    <3>1. [i \in DOMAIN target |-> IF i \in C THEN <<target[i]>> ELSE <<>>]
          = [i \in DOMAIN target |-> IF ~Knows(current, target[i]) THEN <<target[i]>> ELSE <<>>]
      OBVIOUS
    <3> QED BY <3>1 DEF Select, Collect, MapTo, Picked
  <2> HIDE DEF C, new
  <2>2. IsTarget(new)
    BY <2>1, PickedTarget
  <2> QED BY <2>2 DEF IsTarget, Range
<1>3. IsList(known) /\ \A i \in DOMAIN known : /\ IsList(known[i].columns)
                                               /\ Knows(current, known[i]) /\ known[i] \in Range(target)
  <2> DEFINE C == {i \in DOMAIN target : Knows(current, target[i])}
  <2>1. known = Picked(target, C)
    <3>1. [i \in DOMAIN target |-> IF i \in C THEN <<target[i]>> ELSE <<>>]
          = [i \in DOMAIN target |-> IF Knows(current, target[i]) THEN <<target[i]>> ELSE <<>>]
      OBVIOUS
    <3> QED BY <3>1 DEF Select, Collect, MapTo, Picked
  <2>2. \A i \in C : Knows(current, target[i])
    OBVIOUS
  <2> HIDE DEF C, known
  <2>3. IsTarget(known)
    BY <2>1, PickedTarget
  <2>4. \A x \in Range(known) : \E i \in DOMAIN target : i \in C /\ x = target[i]
    BY <2>1, SelectRange DEF IsTarget
  <2>5. \A i \in DOMAIN known : known[i] \in Range(known)
    BY DEF Range
  <2>6. \A i \in DOMAIN target : target[i] \in Range(target)
    BY DEF Range
  <2> QED BY <2>2, <2>3, <2>4, <2>5, <2>6 DEF IsTarget
<1>4. IsList(schemas)
  BY SchemasAreList DEF IsTarget
<1> HIDE DEF schemas, new, known
<1>5. All(c1 \o <<>>)
  <2>1. c1 = [i \in DOMAIN schemas |-> c1[i]]
    OBVIOUS
  <2>2. ASSUME NEW i \in DOMAIN schemas PROVE c1[i].kind # "AlterColumn"
    <3> DEFINE t == [name |-> "", schema |-> schemas[i]]
    <3>1. c1[i] = Change("CreateSchema", t, NoColumn, NoColumn)
      OBVIOUS
    <3> HIDE DEF t, c1
    <3>2. c1[i].kind = "CreateSchema"
      BY <3>1, ChangeIs
    <3> QED BY <3>2
  <2> HIDE DEF c1
  <2> QED BY <1>4, <2>1, <2>2, OtherChanges
<1>6. All(c2 \o <<>>)
  <2>1. c2 = [i \in DOMAIN new |-> c2[i]] /\ \A i \in DOMAIN new : c2[i].kind = "CreateTable"
    BY ChangeIs
  <2> HIDE DEF c2
  <2>2. \A i \in DOMAIN new : c2[i].kind # "AlterColumn"
    BY <2>1
  <2> QED BY <1>2, <2>1, <2>2, OtherChanges
<1>7. \A i \in DOMAIN new : All(g1[i])
  BY <1>2, AddsKnown
<1>8. \A i \in DOMAIN known : All(g2[i])
  <2> TAKE i \in DOMAIN known
  <2>1. IsList(Missing(current, known[i]))
    BY <1>3, MissingIsList
  <2> QED BY <2>1, AddsKnown
<1>9. \A i \in DOMAIN known : All(g3[i])
  BY <1>3, AltersKnown
<1>10. g1 = [i \in DOMAIN new |-> g1[i]] /\ g2 = [i \in DOMAIN known |-> g2[i]] /\ g3 = [i \in DOMAIN known |-> g3[i]]
  OBVIOUS
<1> HIDE DEF g1, g2, g3, c1, c2
<1>11. All(FlattenSeq(g1 \o <<>>)) /\ All(FlattenSeq(g2 \o <<>>)) /\ All(FlattenSeq(g3 \o <<>>))
  BY <1>2, <1>3, <1>7, <1>8, <1>9, <1>10, KnownFlat
<1> DEFINE p1 == c1 \o <<>>
           p2 == c2 \o <<>>
           f1 == FlattenSeq(g1 \o <<>>)
           f2 == FlattenSeq(g2 \o <<>>)
           f3 == FlattenSeq(g3 \o <<>>)
<1>12. /\ All(p1) /\ All(p2) /\ All(f1) /\ All(f2) /\ All(f3)
       /\ DiffStates(current, target) = p1 \o p2 \o f1 \o f2 \o f3
  BY <1>1, <1>5, <1>6, <1>11
<1> HIDE DEF p1, p2, f1, f2, f3
<1>13. All(p1 \o p2)
  BY <1>12, KnownJoin
<1>14. All(p1 \o p2 \o f1)
  BY <1>12, <1>13, KnownJoin
<1>15. All(p1 \o p2 \o f1 \o f2)
  BY <1>12, <1>14, KnownJoin
<1>16. All(p1 \o p2 \o f1 \o f2 \o f3)
  BY <1>12, <1>15, KnownJoin
<1> QED BY <1>12, <1>16

(* The statements PostgreSQL is given for changes, where every change of a   *)
(* column is one of a schema d allows.                                      *)
AllKey(fs, d, a, q) == IsList(q) /\ \A s \in Range(q) : KeySql(fs, d, a, s)

LEMMA KeyFlat ==
  ASSUME NEW fs, NEW d, NEW a, NEW s, IsList(s), NEW g, g = [i \in DOMAIN s |-> g[i]],
         \A i \in DOMAIN s : AllKey(fs, d, a, g[i])
  PROVE  AllKey(fs, d, a, FlattenSeq(g \o <<>>))
<1>1. DOMAIN s = 1..Len(s) /\ Len(s) \in Nat
  BY ListIs
<1> DEFINE r == FlattenSeq(g \o <<>>)
<1>2. IsList(r) /\ Range(r) = UNION {Range(g[i]) : i \in 1..Len(s)}
  BY <1>1, FlatList DEF AllKey
<1> HIDE DEF r
<1>3. AllKey(fs, d, a, r)
  BY <1>1, <1>2 DEF AllKey
<1> QED BY <1>3 DEF r

LEMMA KeyJoin ==
  ASSUME NEW fs, NEW d, NEW a, NEW q, NEW r, AllKey(fs, d, a, q), AllKey(fs, d, a, r)
  PROVE  AllKey(fs, d, a, q \o r)
<1>1. IsList(q \o r) /\ Range(q \o r) = Range(q) \cup Range(r)
  BY JoinLists DEF AllKey
<1> QED BY <1>1 DEF AllKey

LEMMA KeyOne ==
  ASSUME NEW fs, NEW d, NEW a
  PROVE  AllKey(fs, d, a, <<>>) /\ \A s : KeySql(fs, d, a, s) => AllKey(fs, d, a, <<s>>)
<1>1. IsList(<<>>) /\ Range(<<>>) = {}
  BY NoElements DEF Range
<1>2. \A s : IsList(<<s>>) /\ Range(<<s>>) = {s}
  BY TupleIsList
<1> QED BY <1>1, <1>2 DEF AllKey

\* The schema of a live run, and what d says of it.
Allowed(d, a, schema, c) == c.kind = "AlterColumn" => c.schema = schema /\ schema # "" /\ <<a, schema>> \in d

LEMMA InIs ==
  ASSUME NEW a \in Alias, Backend[a] = PG, NEW schema, NEW own
  PROVE  In(Gen(a, schema), own).backend = PG /\ (own # "" => Qn(In(Gen(a, schema), own)) = own)
<1> DEFINE gen == In(Gen(a, schema), own)
           none == ""
<1>1. gen.backend = PG
  BY GenIs, Zenon
<1>2. ASSUME own # none PROVE gen.schema = own
  <2>1. gen = [Gen(a, schema) EXCEPT !.schema = own]
    BY <1>2, Zenon DEF In
  <2> QED BY <2>1 DEF Gen
<1> HIDE DEF gen
<1>3. own # none => Qn(gen) = own
  BY <1>1, <1>2, Zenon DEF Qn
<1> QED BY <1>1, <1>3 DEF gen, none

LEMMA InPostgres ==
  ASSUME NEW a \in Alias, Backend[a] = PG, NEW schema
  PROVE  \A own : In(Gen(a, schema), own).backend = PG
<1>1. \A own : In(Gen(a, schema), own).backend = PG /\ (own # "" => Qn(In(Gen(a, schema), own)) = own)
  BY InIs
<1> QED BY <1>1

LEMMA KeyAlterLive ==
  ASSUME NEW a \in Alias, Backend[a] = PG, NEW schema, schema # "", NEW fs, NEW d, <<a, schema>> \in d,
         NEW table, NEW old, NEW new
  PROVE  AllKey(fs, d, a, AlterColumn(In(Gen(a, schema), schema), table, old, new))
<1> DEFINE here == In(Gen(a, schema), schema)
           q == AlterColumn(here, table, old, new)
<1>1. here.backend = PG /\ Qn(here) = schema
  <2>1. \A own : /\ In(Gen(a, schema), own).backend = PG
                 /\ own # "" => Qn(In(Gen(a, schema), own)) = own
    BY InIs
  <2> QED BY <2>1
<1> HIDE DEF here
<1>2. IsList(q) /\ \A s \in Range(q) : Alteration(s, here, table, old, new)
  BY <1>1, KeyAlter
<1>3. Home(PG, schema) = schema
  BY Zenon DEF Home
<1> HIDE DEF q
<1>4. ASSUME NEW s \in Range(q) PROVE KeySql(fs, d, a, s)
  <2>1. s.kind = "alter_column" /\ s.clause \in {"type", "null", "default"} /\ s.schema = schema
    BY <1>1, <1>2 DEF Alteration
  <2>2. Excused(fs, d, a, Home(PG, s.schema), s.table, s.columns[1].name)
    BY <1>3, <2>1 DEF Excused
  <2> QED BY <2>1, <2>2 DEF KeySql
<1>5. AllKey(fs, d, a, q)
  BY <1>2, <1>4 DEF AllKey
<1> QED BY <1>5 DEF q, here

LEMMA KindIs ==
  ASSUME NEW changes, IsList(changes), NEW kind
  PROVE  /\ IsList(OfKind(changes, kind))
         /\ \A i \in DOMAIN OfKind(changes, kind) :
              OfKind(changes, kind)[i] \in Range(changes) /\ OfKind(changes, kind)[i].kind = kind
<1> DEFINE C == {i \in DOMAIN changes : changes[i].kind = kind}
           r == OfKind(changes, kind)
<1>1. r = Picked(changes, C)
  <2>1. [i \in DOMAIN changes |-> IF i \in C THEN <<changes[i]>> ELSE <<>>]
        = [i \in DOMAIN changes |-> IF changes[i].kind = kind THEN <<changes[i]>> ELSE <<>>]
    OBVIOUS
  <2> QED BY <2>1 DEF OfKind, Select, Collect, MapTo, Picked
<1>2. \A i \in C : changes[i].kind = kind /\ changes[i] \in Range(changes)
  BY DEF Range
<1> HIDE DEF C, r
<1>3. IsList(r) /\ \A x \in Range(r) : \E i \in DOMAIN changes : i \in C /\ x = changes[i]
  BY <1>1, SelectRange
<1>4. \A i \in DOMAIN r : r[i] \in Range(r)
  BY DEF Range
<1>5. \A i \in DOMAIN r : r[i] \in Range(changes) /\ r[i].kind = kind
  BY <1>2, <1>3, <1>4
<1> QED BY <1>3, <1>5 DEF r

LEMMA KeyGenerate ==
  ASSUME NEW a \in Alias, Backend[a] = PG, NEW schema, NEW fs, NEW d, NEW changes, IsList(changes),
         \A c \in Range(changes) : Allowed(d, a, schema, c)
  PROVE  AllKey(fs, d, a, Generate(Gen(a, schema), changes))
<1> DEFINE gen == Gen(a, schema)
           s1 == OfKind(changes, "CreateSchema")
           s2 == OfKind(changes, "CreateTable")
           s3 == PlainAdds(changes)
           s4 == OfKind(changes, "AlterColumn")
           g1 == [i \in DOMAIN s1 |-> CreateSchema(gen, s1[i].schema)]
           g2 == [i \in DOMAIN s2 |-> Created(gen, changes, s2[i])]
           g3 == [i \in DOMAIN s3 |-> AddColumn(In(gen, s3[i].schema), s3[i].table, s3[i].column)]
           g4 == [i \in DOMAIN s4 |-> AlterColumn(In(gen, s4[i].schema), s4[i].table, s4[i].old, s4[i].column)]
           f1 == FlattenSeq(g1 \o <<>>)
           f2 == FlattenSeq(g2 \o <<>>)
           q3 == g3 \o <<>>
           f4 == FlattenSeq(g4 \o <<>>)
           Key(q) == AllKey(fs, d, a, q)
<1>1. Generate(gen, changes) = f1 \o f2 \o q3 \o f4
  <2>1. gen.backend # LITE
    BY BackendsDiffer DEF Gen
  <2> QED BY <2>1, Zenon DEF Generate, Created, Collect, MapTo
<1>2. IsList(s1) /\ IsList(s2) /\ IsList(s3) /\ IsList(s4)
  BY OfKindIsList, PlainAddsIsList
<1>3. \A i \in DOMAIN s4 : s4[i].schema = schema /\ schema # "" /\ <<a, schema>> \in d
  <2>1. \A i \in DOMAIN s4 : s4[i] \in Range(changes) /\ s4[i].kind = "AlterColumn"
    BY KindIs, Zenon
  <2> HIDE DEF s4
  <2> QED BY <2>1, Zenon DEF Allowed
<1> HIDE DEF s1, s2, s3, s4
<1>4. \A i \in DOMAIN s1 : Key(g1[i])
  <2> TAKE i \in DOMAIN s1
  <2> DEFINE x == s1[i].schema
             s == [Statement("create_schema", gen, "", <<>>, "") EXCEPT !.schema = x]
  <2>1. g1[i] = <<>> \/ g1[i] = <<s>>
    BY Zenon DEF CreateSchema
  <2>2. s.kind = "create_schema"
    BY DEF Statement
  <2> HIDE DEF s, g1
  <2>3. KeySql(fs, d, a, s)
    BY <2>2 DEF KeySql
  <2> QED BY <2>1, <2>3, KeyOne
<1>5. \A i \in DOMAIN s2 : Key(g2[i])
  <2> TAKE i \in DOMAIN s2
  <2> DEFINE cols == ColumnsFor(changes, s2[i].table)
             own == In(gen, s2[i].schema)
             s == CreateTable(own, s2[i].table, cols)
  <2>1. g2[i] = <<>> \/ g2[i] = <<s>>
    BY Zenon DEF Created
  <2>2. own.backend = PG
    <3>1. \A x : In(gen, x).backend = PG
      BY InPostgres, Zenon
    <3> QED BY <3>1, Zenon
  <2>3. IsList(cols)
    BY ColumnsForIsList
  <2> HIDE DEF own, cols
  <2>4. Keyed(s) /\ s.kind = "create_table"
    BY <2>2, <2>3, KeyCreate
  <2> HIDE DEF s, g2
  <2>5. KeySql(fs, d, a, s)
    BY <2>4 DEF KeySql
  <2> QED BY <2>1, <2>5, KeyOne
<1>6. \A i \in DOMAIN s3 : KeySql(fs, d, a, g3[i])
  <2> TAKE i \in DOMAIN s3
  <2> DEFINE own == In(gen, s3[i].schema)
             c == s3[i].column
             s == AddColumn(own, s3[i].table, c)
  <2>1. own.backend = PG
    <3>1. \A x : In(gen, x).backend = PG
      BY InPostgres, Zenon
    <3> QED BY <3>1, Zenon
  <2>2. g3[i] = s
    OBVIOUS
  <2> HIDE DEF own, c, g3
  <2>3. s.kind = "add_column" /\ IsColumn(s.columns[1]) /\ s.columns[1].pk = FALSE
    BY <2>1, KeyAdd
  <2> HIDE DEF s
  <2>4. KeySql(fs, d, a, s)
    BY <2>3 DEF KeySql
  <2> QED BY <2>2, <2>4
<1>7. \A i \in DOMAIN s4 : Key(g4[i])
  <2> TAKE i \in DOMAIN s4
  <2> DEFINE old == s4[i].old
             new == s4[i].column
             table == s4[i].table
  <2>1. s4[i].schema = schema /\ schema # "" /\ <<a, schema>> \in d
    BY <1>3
  <2>2. g4[i] = AlterColumn(In(gen, schema), table, old, new)
    BY <2>1
  <2> HIDE DEF old, new, table, g4
  <2>3. Key(AlterColumn(In(gen, schema), table, old, new))
    BY <2>1, KeyAlterLive
  <2> QED BY <2>2, <2>3
<1>8. /\ g1 = [i \in DOMAIN s1 |-> g1[i]] /\ g2 = [i \in DOMAIN s2 |-> g2[i]]
      /\ g3 = [i \in DOMAIN s3 |-> g3[i]] /\ g4 = [i \in DOMAIN s4 |-> g4[i]]
  OBVIOUS
<1> HIDE DEF g1, g2, g3, g4
<1>9. Key(f1) /\ Key(f2) /\ Key(f4)
  BY <1>2, <1>4, <1>5, <1>7, <1>8, KeyFlat
<1>10. Key(q3)
  <2>1. IsList(q3) /\ \A x \in Range(q3) : \E i \in DOMAIN s3 : x = g3[i]
    BY <1>2, <1>8, MapRange
  <2> HIDE DEF q3
  <2> QED BY <1>6, <2>1 DEF AllKey
<1> HIDE DEF f1, f2, q3, f4
<1>11. Key(f1 \o f2)
  BY <1>9, KeyJoin
<1>12. Key(f1 \o f2 \o q3)
  BY <1>10, <1>11, KeyJoin
<1>13. Key(f1 \o f2 \o q3 \o f4)
  BY <1>9, <1>12, KeyJoin
<1> QED BY <1>1, <1>13

(* What introspection reports of PostgreSQL is in the schema asked for.     *)
LEMMA IntrospectIs ==
  ASSUME NEW db, IsFiniteSet(db.tables), NEW schema
  PROVE  \A i \in DOMAIN Introspect(PG, db, schema) : Introspect(PG, db, schema)[i].schema = Home(PG, schema)
<1> DEFINE seen == {t \in db.tables : t.schema = Home(PG, schema)}
           q == SetToSeq(seen)
           n == Cardinality(seen)
           Report(c) == [c EXCEPT !.type = ReportedType(PG, @), !.unique = @ /\ PG # LITE]
           g == [i \in DOMAIN q |-> [name |-> q[i].name, schema |-> q[i].schema,
                                     columns |-> MapTo(q[i].columns, Report)]]
           r == Introspect(PG, db, schema)
<1>1. r = g \o <<>>
  BY Zenon DEF Introspect, MapTo
<1>2. \A t \in seen : t.schema = Home(PG, schema)
  OBVIOUS
<1>3. IsFiniteSet(seen)
  BY FS_Subset
<1>4. g = [i \in DOMAIN q |-> g[i]] /\ \A i \in DOMAIN q : g[i].schema = q[i].schema
  OBVIOUS
<1> HIDE DEF g, r, seen
<1>5. n \in Nat /\ ExistsBijection(1..n, seen)
  BY <1>3, FS_CardinalityType
<1>6. \E h \in [1..n -> seen] : IsInjective(h)
  BY <1>5 DEF ExistsBijection, Bijection, Injection
<1>7. q \in [1..n -> seen]
  BY <1>6 DEF SetToSeq
<1>8. q = [i \in 1..n |-> q[i]] /\ DOMAIN q = 1..n /\ \A i \in DOMAIN q : q[i] \in seen
  BY <1>7
<1> HIDE DEF q, n
<1>9. IsList(q)
  BY <1>5, <1>8, FunctionIsList
<1>10. IsList(g \o <<>>) /\ \A x \in Range(g \o <<>>) : \E i \in DOMAIN q : x = g[i]
  BY <1>4, <1>9, MapRange
<1>11. \A i \in DOMAIN r : r[i] \in Range(g \o <<>>)
  BY <1>1 DEF Range
<1> QED BY <1>2, <1>4, <1>8, <1>10, <1>11 DEF r

(* A live run asks for every table in the schema of the runner.             *)
LEMMA TargetSchema ==
  ASSUME AreEntries(Entries), NEW schema
  PROVE  \A t \in Range(Target(schema)) : t.schema = schema
<1> DEFINE target == BuildTarget(Entries)
           plain == [i \in DOMAIN Entries |-> [name |-> Entries[i].table, schema |-> Entries[i].schema,
                                               columns |-> Entries[i].columns]]
           g == [i \in DOMAIN target |-> [target[i] EXCEPT !.schema = schema]]
<1>1. Target(schema) = g \o <<>>
  BY DEF Target, MapTo
<1>2. IsList(target)
  BY TargetIs DEF IsTarget
<1>3. target = plain \o <<>>
  BY DEF BuildTarget, MapTo
<1>4. plain = [i \in DOMAIN Entries |-> plain[i]]
      /\ \A i \in DOMAIN Entries : plain[i] = [name |-> plain[i].name, schema |-> plain[i].schema, columns |-> plain[i].columns]
  OBVIOUS
<1> HIDE DEF plain
<1>5. IsList(Entries)
  BY DEF AreEntries
<1>6. \A t \in Range(plain \o <<>>) : \E i \in DOMAIN Entries : t = plain[i]
  BY <1>4, <1>5, MapRange
<1>7. g = [i \in DOMAIN target |-> g[i]] /\ \A i \in DOMAIN target : g[i] = [target[i] EXCEPT !.schema = schema]
  OBVIOUS
<1> HIDE DEF g, target
<1>8. \A i \in DOMAIN target : target[i] \in Range(plain \o <<>>)
  BY <1>3 DEF Range
<1>9. \A i \in DOMAIN target : g[i].schema = schema
  <2> SUFFICES ASSUME NEW i \in DOMAIN target PROVE g[i].schema = schema
    OBVIOUS
  <2> DEFINE t == target[i]
  <2>1. t = [name |-> t.name, schema |-> t.schema, columns |-> t.columns]
    BY <1>4, <1>6, <1>8
  <2>2. g[i] = [t EXCEPT !.schema = schema]
    BY <1>7
  <2> HIDE DEF t
  <2> QED BY <2>1, <2>2
<1>10. \A t \in Range(g \o <<>>) : \E i \in DOMAIN target : t = g[i]
  BY <1>2, <1>7, MapRange
<1> QED BY <1>1, <1>9, <1>10

(* The changes of a live difference, once it is known that it is taken.     *)
LEMMA LiveAllowed ==
  ASSUME AreEntries(Entries), NEW a \in Alias, Backend[a] = PG, IsFiniteSet(dbs[a].tables), NEW schema, NEW d,
         Introspect(PG, dbs[a], schema) # <<>> => <<a, schema>> \in d
  PROVE  /\ IsList(LiveChanges(a, schema))
         /\ \A c \in Range(LiveChanges(a, schema)) : Allowed(d, a, schema, c)
<1> DEFINE current == Introspect(PG, dbs[a], schema)
           target == Target(schema)
           none == ""
           public == "public"
<1>1. LiveChanges(a, schema) = DiffStates(current, target)
  BY Zenon DEF LiveChanges
<1>2. IsTarget(target) /\ \A t \in Range(target) : t.schema = schema
  BY TargetOfSchema, TargetSchema
<1>3. \A i \in DOMAIN current : current[i].schema = Home(PG, schema)
  BY IntrospectIs
<1>4. schema = Home(PG, schema) => schema # none
  <2>1. none # public
    OBVIOUS
  <2>2. Home(PG, none) = public
    BY Zenon DEF Home
  <2> QED BY <2>1, <2>2
<1>5. current = <<>> => DOMAIN current = {}
  OBVIOUS
<1> HIDE DEF current, target
<1>6. AllOfKnown(current, target, DiffStates(current, target))
  BY <1>2, DiffKnown
<1>7. ASSUME NEW c \in Range(DiffStates(current, target)), c.kind = "AlterColumn"
      PROVE  c.schema = schema /\ schema # none /\ <<a, schema>> \in d
  <2>1. PICK t \in Range(target) : Knows(current, t) /\ c.schema = t.schema
    BY <1>6, <1>7 DEF AllOfKnown, OfKnown
  <2>2. PICK i \in DOMAIN current : current[i].schema = t.schema
    BY <2>1 DEF Knows, Same
  <2>3. schema = Home(PG, schema)
    BY <1>2, <1>3, <2>2
  <2>4. current # <<>>
    BY <1>5, <2>2
  <2>5. <<a, schema>> \in d
    BY <2>4 DEF current
  <2> QED BY <1>2, <1>4, <2>1, <2>3, <2>5
<1> QED BY <1>1, <1>6, <1>7 DEF AllOfKnown, Allowed

-----------------------------------------------------------------------------
(* What a run on PostgreSQL has before it.                                  *)
KeyTodo(fs, d, a, todo) == \A k \in 1..Len(todo) : todo[k].do = "sql" => KeySql(fs, d, a, todo[k].statement)

LEMMA KeyLive ==
  ASSUME AreEntries(Entries), NEW a \in Alias, Backend[a] = PG, IsFiniteSet(dbs[a].tables), NEW schema,
         NEW fs, NEW d, Introspect(PG, dbs[a], schema) # <<>> => <<a, schema>> \in d
  PROVE  KeyTodo(fs, d, a, LiveWork(a, schema))
<1> DEFINE L == LiveStatements(a, schema)
           g == [i \in DOMAIN L |-> Sql(L[i], <<"live">>)]
           w == LiveWork(a, schema)
<1>1. w = g \o <<>>
  BY DEF LiveWork, MapTo
<1>2. IsList(LiveChanges(a, schema)) /\ \A c \in Range(LiveChanges(a, schema)) : Allowed(d, a, schema, c)
  BY LiveAllowed
<1>3. AllKey(fs, d, a, L)
  BY <1>2, KeyGenerate DEF LiveStatements, Gen
<1>4. g = [i \in DOMAIN L |-> g[i]] /\ \A i \in DOMAIN L : g[i].statement = L[i]
  BY SqlIs
<1> HIDE DEF g, L, w
<1>5. /\ IsList(L) /\ DOMAIN L = 1..Len(L) /\ \A i \in DOMAIN L : KeySql(fs, d, a, L[i])
  BY <1>3, ListIs DEF AllKey, Range
<1>6. Len(g \o <<>>) = Len(L) /\ \A i \in 1..Len(L) : (g \o <<>>)[i] = g[i]
  BY <1>4, <1>5, MapIsList
<1>7. \A k \in 1..Len(w) : KeySql(fs, d, a, w[k].statement)
  BY <1>1, <1>4, <1>5, <1>6
<1> QED BY <1>7 DEF KeyTodo, w

LEMMA KeyWork ==
  ASSUME NEW a \in Alias, Backend[a] = PG, NEW schema, NEW relevant, NEW fs, NEW f \in Range(fs),
         IsFile(f), f.readable, NEW d, NEW w, IsWork(w, f, a, schema, relevant),
         relevant \/ \A op \in Range(f.ops) : op.kind # "AlterField"
  PROVE  KeyTodo(fs, d, a, w)
<1> SUFFICES ASSUME NEW k \in 1..Len(w), w[k].do = "sql"
             PROVE  KeySql(fs, d, a, w[k].statement)
  BY DEF KeyTodo
<1>1. k \in 1..(Len(w) - 1)
  <2>1. w[Len(w)].do = "record" /\ Len(w) \in Nat
    BY SqlIs, ListIs DEF IsWork
  <2>2. k # Len(w)
    BY <2>1
  <2> QED BY <2>1, <2>2
<1>2. PICK s \in Statements(f, a, schema, relevant) : w[k] = Sql(s, f.stem)
  BY <1>1 DEF IsWork
<1>3. PICK op \in Meant(f, a, relevant) : s \in Range(SqlOf(op, a, schema, relevant))
  BY <1>2 DEF Statements
<1>4. op \in Range(f.ops) /\ IsOp(op)
  BY <1>3 DEF Meant, IsFile, IsOp
<1>a. op.kind = "AlterField" => SchemaFor(op, relevant) = op.schema
  BY <1>4 DEF SchemaFor
<1>5. KeySql(fs, d, a, s)
  BY <1>3, <1>4, <1>a, KeyOperation DEF SqlOf
<1> QED BY <1>2, <1>5, SqlIs

(* The file [A] writes is the first and alters nothing: before it there is   *)
(* no table.                                                                *)
LEMMA NothingBuilt == BuildCurrent(<<>>) = <<>>
<1> DEFINE Step1(g, i) == IF i = 0 THEN <<>>
                          ELSE IF <<>>[i].readable THEN ApplyOperations(g[i - 1], <<>>[i].ops) ELSE g[i - 1]
           Over(g) == g = [i \in 0..Len(<<>>) |-> Step1(g, i)]
           h == CHOOSE g : Over(g)
<1>1. Over([i \in 0..0 |-> <<>>])
  BY Len(<<>>) = 0
<1>2. Over(h)
  BY <1>1, Zenon
<1>3. BuildCurrent(<<>>) = h[Len(<<>>)]
  BY DEF BuildCurrent
<1> HIDE DEF h
<1>4. h[0] = <<>> /\ Len(<<>>) = 0
  BY <1>2
<1> QED BY <1>3, <1>4

LEMMA FirstAltersNothing ==
  ASSUME FileTypes, NEW c \in Calls, Generates(c)
  PROVE  \A op \in Range(FilesOf(c)[1].ops) : op.kind # "AlterField"
<1> DEFINE entries == Captured(c.schema)
           target == BuildTarget(entries)
           ops == Detect(files, entries)
           none == <<>>
<1>1. files = none /\ AreEntries(entries) /\ IsTarget(target)
  BY FilesOfStart, EntriesAre, CapturedAre, TargetIs DEF FileTypes
<1>2. FilesOf(c)[1].ops = ops
  <2>1. FilesOf(c) = Append(files, NewFile(files, ops))
    BY Zenon DEF FilesOf, Written, NewFile
  <2>2. NewFile(files, ops).ops = ops
    BY DEF NewFile, MigrationFile
  <2> HIDE DEF ops
  <2>3. \A x : Append(<<>>, x)[1] = x
    OBVIOUS
  <2> QED BY <1>1, <2>1, <2>2, <2>3 DEF none
<1> HIDE DEF entries
<1>3. ops = Ops(DiffStates(none, target), entries)
  BY <1>1, NothingBuilt, Zenon DEF Detect, Ops
<1> HIDE DEF target, ops
<1> DEFINE changes == DiffStates(none, target)
<1>4. AllOfKnown(none, target, changes)
  BY <1>1, DiffKnown
<1>5. \A t : ~Knows(none, t)
  BY DEF Knows
<1>6. IsList(changes) /\ \A x \in Range(changes) : x.kind # "AlterColumn"
  BY <1>4, <1>5 DEF AllOfKnown, OfKnown
<1> HIDE DEF changes
<1>7. ~\E i : i \in DOMAIN OfKind(changes, "AlterColumn")
  BY <1>6, KindIs
<1>8. \A op \in Range(ops) : op.kind # "AlterField"
  BY <1>3, <1>6, <1>7, OpsAre DEF changes
<1> QED BY <1>2, <1>8

LEMMA KeyStart ==
  ASSUME FileTypes, NEW c \in Calls, Backend[c.alias] = PG, IsFiniteSet(dbs[c.alias].tables), NEW d,
         IsLive(c) /\ Introspect(PG, dbs[c.alias], c.schema) # <<>> => <<c.alias, c.schema>> \in d
  PROVE  KeyTodo(FilesOf(c), d, c.alias, Todo(c))
<1> DEFINE items == Todo(c)
           none == ""
           f == FilesOf(c)[1]
           a == c.alias
<1>1. a \in Alias
  BY CallsAssumption DEF Alias
<1>2. \/ IsLive(c) /\ items = LiveWork(a, c.schema)
      \/ ~IsLive(c) /\ files # <<>> /\ items = FileTodo(a, c.schema) /\ ~Generates(c)
      \/ Generates(c) /\ items = FileItems(f, a, none, FALSE)
      \/ items = <<>>
  BY Zenon DEF Todo, LiveWork, FilesOf, Generates
<1>3. AreEntries(Entries) /\ IsList(files) /\ \A g \in Range(files) : IsFile(g)
  BY EntriesAre DEF FileTypes, AreFiles
<1> HIDE DEF items, none, f, a
<1>4. ASSUME IsLive(c), items = LiveWork(a, c.schema)
      PROVE  KeyTodo(FilesOf(c), d, a, items)
  <2> DEFINE schema == c.schema
             fs == FilesOf(c)
  <2>1. Introspect(PG, dbs[a], schema) # <<>> => <<a, schema>> \in d
    BY <1>4 DEF a
  <2>2. Backend[a] = PG /\ IsFiniteSet(dbs[a].tables) /\ items = LiveWork(a, schema)
    BY <1>4 DEF a
  <2> HIDE DEF schema, fs
  <2>3. KeyTodo(fs, d, a, items)
    BY <1>1, <1>3, <2>1, <2>2, KeyLive
  <2> QED BY <2>3 DEF fs
<1>5. ASSUME items = FileTodo(a, c.schema), ~Generates(c)
      PROVE  KeyTodo(FilesOf(c), d, a, items)
  <2>1. FilesOf(c) = files
    BY <1>5, Zenon DEF FilesOf
  <2>2. \A g \in Range(Pending(a)) : g \in Range(files) /\ g.readable
    BY <1>3, Pendings
  <2>3. ASSUME NEW k \in 1..Len(items), items[k].do = "sql"
        PROVE  KeySql(files, d, a, items[k].statement)
    <3>1. PICK g \in Range(Pending(a)), off \in Nat : \E w :
            IsWork(w, g, a, c.schema, TRUE) /\ Block(items, off, w) /\ k \in (off + 1)..(off + Len(w))
      BY <1>1, <1>3, <1>5, TodoIs
    <3>2. PICK w : IsWork(w, g, a, c.schema, TRUE) /\ Block(items, off, w) /\ k \in (off + 1)..(off + Len(w))
      BY <3>1
    <3>3. KeyTodo(files, d, a, w)
      BY <1>1, <1>3, <2>2, <3>2, KeyWork DEF a
    <3> DEFINE i == k - off
    <3>4. i \in 1..Len(w) /\ off + i = k
      BY <3>2, ListIs DEF IsWork
    <3> HIDE DEF i
    <3>5. items[k] = w[i]
      BY <3>2, <3>4 DEF Block
    <3> QED BY <2>3, <3>3, <3>4, <3>5 DEF KeyTodo
  <2> QED BY <2>1, <2>3 DEF KeyTodo
<1>6. ASSUME Generates(c), items = FileItems(f, a, none, FALSE)
      PROVE  KeyTodo(FilesOf(c), d, a, items)
  <2>1. IsFile(f) /\ f.readable /\ f \in Range(FilesOf(c))
    BY <1>6, FilesOfStart DEF f
  <2>2. IsWork(items, f, a, none, FALSE)
    BY <1>1, <1>6, <2>1, WorkIs
  <2>3. \A op \in Range(f.ops) : op.kind # "AlterField"
    BY <1>6, FirstAltersNothing DEF f
  <2> QED BY <1>1, <2>1, <2>2, <2>3, KeyWork DEF a
<1>7. ASSUME items = <<>> PROVE KeyTodo(FilesOf(c), d, a, items)
  BY <1>7 DEF KeyTodo
<1> QED BY <1>2, <1>4, <1>5, <1>6, <1>7 DEF items, a

(* The files and the differences there are only grow.                       *)
LEMMA FilesStay ==
  ASSUME FileTypes, [Next]_vars
  PROVE  Range(files) \subseteq Range(files')
<1>1. CASE MakeMigrations
  <2>1. PICK f : files' = Append(files, f)
    BY <1>1, EntriesAre, WrittenIs DEF MakeMigrations, FileTypes
  <2> QED BY <2>1, FilesAppended DEF FileTypes, AreFiles
<1>2. ASSUME NEW f \in Branches, Arrive(f)
      PROVE  Range(files) \subseteq Range(files')
  <2>1. PICK i \in 1..(Len(files) + 1) : files' = InsertAt(files, i, f)
    BY <1>2 DEF Arrive, Places
  <2>2. Range(files') = Range(files) \cup {f}
    BY <2>1, FilesInserted DEF FileTypes, AreFiles
  <2> QED BY <2>2
<1>3. ASSUME NEW p \in Process, NEW c \in Calls, Start(p, c)
      PROVE  Range(files) \subseteq Range(files')
  <2>1. files' = files \/ files' = FilesOf(c)
    BY <1>3, StartIs
  <2>2. CASE files' = files
    BY <2>2
  <2>3. CASE Generates(c) /\ files' = FilesOf(c)
    <3>1. files = <<>>
      BY <2>3, FilesOfStart
    <3>2. Range(files) = {}
      BY <3>1 DEF Range
    <3> QED BY <3>2
  <2>4. ~Generates(c) => FilesOf(c) = files
    BY Zenon DEF FilesOf
  <2> QED BY <2>1, <2>2, <2>3, <2>4
<1>4. ASSUME NEW p \in Process, Step(p) \/ RecordMigration(p) \/ Stop(p) \/ Finish(p)
      PROVE  UNCHANGED files
  BY <1>4 DEF Step, RecordMigration, Stop, Finish
<1>5. CASE Evolve \/ UNCHANGED vars
  BY <1>5 DEF Evolve, vars
<1> QED BY <1>1, <1>2, <1>3, <1>4, <1>5 DEF Next

\* The tables and the work of every PostgreSQL database keep generated keys,
\* but for those with an excuse.
KeyTables(fs, d, a, tables) == IsFiniteSet(tables) /\ \A t \in tables : KeyTable(fs, d, a, t)
Keys ==
  \A a \in Alias : Backend[a] = PG =>
    /\ KeyTables(files, diffed, a, dbs[a].tables)
    /\ \A p \in Process : runs[p].running /\ runs[p].alias = a => KeyTodo(files, diffed, a, runs[p].todo)

LEMMA KeyTail ==
  ASSUME NEW fs, NEW d, NEW a, NEW todo, IsList(todo), todo # <<>>, KeyTodo(fs, d, a, todo)
  PROVE  /\ KeyTodo(fs, d, a, Tail(todo))
         /\ Head(todo).do = "sql" => KeySql(fs, d, a, Head(todo).statement)
<1>1. /\ Len(todo) >= 1 /\ Len(todo) \in Nat /\ Head(todo) = todo[1]
      /\ \A k \in 1..Len(Tail(todo)) : k + 1 \in 1..Len(todo) /\ Tail(todo)[k] = todo[k + 1]
  BY TailIs, ListIs
<1>2. 1 \in 1..Len(todo)
  BY <1>1
<1> QED BY <1>1, <1>2 DEF KeyTodo

(* A step that leaves a database, or brings it to tables as they should be. *)
LEMMA KeysLast ==
  ASSUME Keys, Range(files) \subseteq Range(files'), diffed \subseteq diffed',
         \A a \in Alias : Backend[a] = PG =>
           /\ dbs'[a].tables = dbs[a].tables \/ KeyTables(files', diffed', a, dbs'[a].tables)
           /\ \A q \in Process :
                \/ runs'[q] = runs[q] \/ ~runs'[q].running
                \/ runs'[q].alias = a => KeyTodo(files', diffed', a, runs'[q].todo)
  PROVE  Keys'
<1> SUFFICES ASSUME NEW a \in Alias, Backend[a] = PG
             PROVE  /\ KeyTables(files', diffed', a, dbs'[a].tables)
                    /\ \A q \in Process : runs'[q].running /\ runs'[q].alias = a =>
                         KeyTodo(files', diffed', a, runs'[q].todo)
  BY DEF Keys, KeyTables, KeyTable, KeyColumn, Excused, AltersDefault, KeyTodo, KeySql
<1>1. /\ \A s : KeySql(files, diffed, a, s) => KeySql(files', diffed', a, s)
      /\ \A t : KeyTable(files, diffed, a, t) => KeyTable(files', diffed', a, t)
  BY KeysKeep
<1>2. /\ KeyTables(files, diffed, a, dbs[a].tables)
      /\ \A q \in Process : runs[q].running /\ runs[q].alias = a => KeyTodo(files, diffed, a, runs[q].todo)
  BY DEF Keys
<1>3. KeyTables(files', diffed', a, dbs[a].tables)
  BY <1>1, <1>2 DEF KeyTables
<1>4. \A todo : KeyTodo(files, diffed, a, todo) => KeyTodo(files', diffed', a, todo)
  BY <1>1 DEF KeyTodo
<1>5. ASSUME NEW q \in Process, runs'[q].running, runs'[q].alias = a
      PROVE  KeyTodo(files', diffed', a, runs'[q].todo)
  BY <1>2, <1>4, <1>5
<1> QED BY <1>3, <1>5

LEMMA InitKeys == Init => Keys
<1> SUFFICES ASSUME Init PROVE Keys
  OBVIOUS
<1>1. \A a \in Alias : dbs[a].tables = {}
  <2>1. \A b : EmptyDatabase(b).tables = {}
    BY Zenon DEF EmptyDatabase
  <2> QED BY <2>1 DEF Init
<1>2. \A p \in Process : ~runs[p].running
  BY NoRunIs DEF Init
<1> QED BY <1>1, <1>2, FS_EmptySet DEF Keys, KeyTables

LEMMA StartDiffers ==
  ASSUME NEW p \in Process, NEW c \in Calls, Start(p, c), runs'[p] # runs[p],
         runs'[p].todo # <<>>, FileTypes
  PROVE  /\ diffed \subseteq diffed'
         /\ IsLive(c) /\ Introspect(Backend[c.alias], dbs[c.alias], c.schema) # <<>> =>
              <<c.alias, c.schema>> \in diffed'
<1> DEFINE todo == IF c.dry THEN <<>> ELSE Todo(c)
           new == [running |-> TRUE, alias |-> c.alias, todo |-> todo]
           taken == Introspect(Backend[c.alias], dbs[c.alias], c.schema) # <<>>
<1>1. \/ /\ runs' = [runs EXCEPT ![p] = new]
         /\ diffed' = IF IsLive(c) /\ ~c.dry /\ taken THEN diffed \cup {<<c.alias, c.schema>>} ELSE diffed
      \/ runs' = runs
  BY Zenon DEF Start
<1>2. new.todo = todo /\ (c.dry => todo = <<>>)
  OBVIOUS
<1> HIDE DEF todo, new, taken
<1>3. runs' = [runs EXCEPT ![p] = new] => runs'[p] = new
  BY DEF FileTypes
<1>4. ~c.dry /\ diffed' = IF IsLive(c) /\ ~c.dry /\ taken THEN diffed \cup {<<c.alias, c.schema>>} ELSE diffed
  BY <1>1, <1>2, <1>3
<1> QED BY <1>4 DEF taken

LEMMA DiffedStay ==
  ASSUME [Next]_vars
  PROVE  diffed \subseteq diffed'
<1>1. ASSUME NEW p \in Process, NEW c \in Calls, Start(p, c)
      PROVE  diffed \subseteq diffed'
  <2>1. diffed' = diffed \cup {<<c.alias, c.schema>>} \/ diffed' = diffed
    BY <1>1, Zenon DEF Start
  <2> QED BY <2>1
<1>2. ASSUME NEW p \in Process, Step(p) \/ RecordMigration(p) \/ Stop(p) \/ Finish(p)
      PROVE  UNCHANGED diffed
  BY <1>2 DEF Step, RecordMigration, Stop, Finish
<1>3. CASE Evolve \/ MakeMigrations \/ (\E f \in Branches : Arrive(f)) \/ UNCHANGED vars
  BY <1>3 DEF Evolve, MakeMigrations, Arrive, vars
<1> QED BY <1>1, <1>2, <1>3 DEF Next

LEMMA NextKeys ==
  ASSUME FileTypes, Keys, [Next]_vars
  PROVE  Keys'
<1>1. Range(files) \subseteq Range(files') /\ diffed \subseteq diffed'
  BY FilesStay, DiffedStay
<1>2. CASE UNCHANGED <<dbs, runs>>
  BY <1>1, <1>2, KeysLast
<1>3. ASSUME NEW p \in Process, NEW c \in Calls, Start(p, c) PROVE Keys'
  <2>1. UNCHANGED dbs
    BY <1>3, Zenon DEF Start
  <2>2. ASSUME NEW a \in Alias, Backend[a] = PG, NEW q \in Process, runs'[q] # runs[q], runs'[q].alias = a
        PROVE  KeyTodo(files', diffed', a, runs'[q].todo)
    <3>1. /\ q = p /\ files' = FilesOf(c) /\ runs'[p].alias = c.alias
          /\ runs'[p].todo = <<>> \/ runs'[p].todo = Todo(c)
      BY <1>3, <2>2, StartIs
    <3>2. CASE runs'[p].todo = <<>>
      BY <3>1, <3>2 DEF KeyTodo
    <3>3. CASE runs'[p].todo # <<>>
      <4>1. IsLive(c) /\ Introspect(PG, dbs[c.alias], c.schema) # <<>> => <<c.alias, c.schema>> \in diffed'
        BY <1>3, <2>2, <3>1, <3>3, StartDiffers
      <4>2. Backend[c.alias] = PG /\ IsFiniteSet(dbs[c.alias].tables)
        BY <2>2, <3>1 DEF Keys, KeyTables
      <4>3. KeyTodo(FilesOf(c), diffed', c.alias, Todo(c))
        BY <4>1, <4>2, KeyStart
      <4> QED BY <2>2, <3>1, <3>3, <4>3
    <3> QED BY <3>2, <3>3
  <2> QED BY <1>1, <2>1, <2>2, KeysLast
<1>4. ASSUME NEW p \in Process, Ends(p), UNCHANGED dbs PROVE Keys'
  <2>1. \A q \in Process : runs'[q] = runs[q] \/ ~runs'[q].running
    BY <1>4, EndsIs
  <2> QED BY <1>1, <1>4, <2>1, KeysLast
<1>5. ASSUME NEW p \in Process, Doing(p), Advance(p),
             \/ UNCHANGED dbs
             \/ /\ Head(runs[p].todo).do = "sql"
                /\ Accepts(Backend[At(p)], dbs[At(p)], Head(runs[p].todo).statement)
                /\ dbs' = [dbs EXCEPT ![At(p)] = Execute(Backend[At(p)], @, Head(runs[p].todo).statement,
                                                         Head(runs[p].todo).by)]
      PROVE  Keys'
  <2> DEFINE a == At(p)
             todo == runs[p].todo
             item == Head(todo)
             s == item.statement
             new == Execute(Backend[a], dbs[a], s, item.by)
  <2>1. /\ a \in Alias /\ runs'[p].alias = a /\ runs'[p].todo = Tail(todo)
        /\ runs[p].running /\ \A q \in Process : q # p => runs'[q] = runs[q]
    BY <1>5, AdvanceIs DEF Doing, At
  <2>2. IsList(todo) /\ todo # <<>> /\ IsDatabase(dbs[a]) /\ a = runs[p].alias
    BY <1>5, <2>1 DEF FileTypes, IsRun, Doing, At
  <2>3. ASSUME Backend[a] = PG
        PROVE  /\ KeyTables(files, diffed, a, dbs[a].tables)
               /\ KeyTodo(files, diffed, a, Tail(todo))
               /\ item.do = "sql" => KeySql(files, diffed, a, s)
    <3>1. KeyTables(files, diffed, a, dbs[a].tables) /\ KeyTodo(files, diffed, a, todo)
      BY <2>1, <2>2, <2>3 DEF Keys
    <3> QED BY <2>2, <3>1, KeyTail
  <2>4. ASSUME Backend[a] = PG, item.do = "sql", Accepts(Backend[a], dbs[a], s)
        PROVE  KeyTables(files, diffed, a, new.tables)
    <3>1. Accepts(PG, dbs[a], s) /\ new = Execute(PG, dbs[a], s, item.by)
      BY <2>4
    <3> HIDE DEF new, s, item
    <3>2. IsFiniteSet(new.tables) /\ \A t \in new.tables : KeyTable(files, diffed, a, t)
      BY <2>2, <2>3, <2>4, <3>1, KeyExecute DEF KeyTables
    <3> QED BY <3>2 DEF KeyTables
  <2> HIDE DEF new, s, item
  <2>5. \A b \in Alias : \/ dbs'[b] = dbs[b]
                         \/ /\ b = a /\ item.do = "sql" /\ Accepts(Backend[a], dbs[a], s) /\ dbs'[b] = new
    BY <1>5, <2>1 DEF FileTypes, new, s, item
  <2>6. \A x, y : /\ KeyTables(files, diffed, x, y) => KeyTables(files', diffed', x, y)
                  /\ KeyTodo(files, diffed, x, y) => KeyTodo(files', diffed', x, y)
    <3>1. \A x : /\ \A y : KeySql(files, diffed, x, y) => KeySql(files', diffed', x, y)
                 /\ \A t : KeyTable(files, diffed, x, t) => KeyTable(files', diffed', x, t)
      BY <1>1, KeysKeep
    <3> QED BY <3>1 DEF KeyTables, KeyTodo
  <2>7. ASSUME NEW b \in Alias, Backend[b] = PG
        PROVE  /\ dbs'[b].tables = dbs[b].tables \/ KeyTables(files', diffed', b, dbs'[b].tables)
               /\ \A q \in Process :
                    runs'[q] = runs[q] \/ (runs'[q].alias = b => KeyTodo(files', diffed', b, runs'[q].todo))
    BY <2>1, <2>3, <2>4, <2>5, <2>6, <2>7
  <2> QED BY <1>1, <2>7, KeysLast
<1>6. ASSUME NEW p \in Process, Step(p) PROVE Keys'
  <2>1. Doing(p) /\ Head(runs[p].todo).do = "sql"
    BY <1>6 DEF Step
  <2>2. CASE Ends(p) /\ UNCHANGED dbs
    BY <1>4, <2>2
  <2>3. CASE ~(Ends(p) /\ UNCHANGED dbs)
    <3>1. /\ Accepts(Backend[At(p)], dbs[At(p)], Head(runs[p].todo).statement) /\ Advance(p)
          /\ dbs' = [dbs EXCEPT ![At(p)] = Execute(Backend[At(p)], @, Head(runs[p].todo).statement,
                                                   Head(runs[p].todo).by)]
      BY <1>6, <2>3, Zenon DEF Step
    <3> QED BY <1>5, <2>1, <3>1
  <2> QED BY <2>2, <2>3
<1>7. ASSUME NEW p \in Process, RecordMigration(p) PROVE Keys'
  <2>1. Doing(p) /\ UNCHANGED dbs /\ (Advance(p) \/ Ends(p))
    BY <1>7 DEF RecordMigration
  <2> QED BY <1>4, <1>5, <2>1
<1>8. ASSUME NEW p \in Process, Stop(p) \/ Finish(p) PROVE Keys'
  BY <1>4, <1>8 DEF Stop, Finish
<1>9. CASE Evolve \/ MakeMigrations \/ (\E f \in Branches : Arrive(f)) \/ UNCHANGED vars
  <2>1. UNCHANGED <<dbs, runs>>
    BY <1>9 DEF Evolve, MakeMigrations, Arrive, vars
  <2> QED BY <1>2, <2>1
<1> QED BY <1>3, <1>6, <1>7, <1>8, <1>9 DEF Next

(* A generated key of PostgreSQL stays generated under every run of files   *)
(* and every program's models: a table is made with its key generated, no    *)
(* column is added as a key, and a statement that changes a default comes    *)
(* from a file that says so or from a live difference of that schema.         *)
THEOREM KeysStay == Spec => []KeysStayGenerated
<1>1. Init => FileTypes /\ Keys
  BY InitTypes, InitKeys
<1>2. FileTypes /\ Keys /\ [Next]_vars => (FileTypes /\ Keys)'
  BY NextTypes, NextKeys
<1>3. FileTypes /\ Keys => KeysStayGenerated
  <2> SUFFICES ASSUME FileTypes, Keys, NEW a \in Alias, Backend[a] = PG, NEW t \in dbs[a].tables,
                      NEW c \in Range(t.columns), c.pk, c.default # "nextval"
               PROVE  \/ <<a, t.schema>> \in diffed
                      \/ \E f \in Range(files) : f.readable /\ AltersDefault(f, t, c.name)
    BY Zenon DEF KeysStayGenerated
  <2>1. Excused(files, diffed, a, t.schema, t.name, c.name)
    BY DEF Keys, KeyTables, KeyTable, KeyColumn, Generated
  <2>2. \A f : AltersDefault(f, [name |-> t.name, schema |-> t.schema], c.name) <=> AltersDefault(f, t, c.name)
    BY DEF AltersDefault
  <2> QED BY <2>1, <2>2 DEF Excused
<1> QED BY <1>1, <1>2, <1>3, PTL DEF Spec

-----------------------------------------------------------------------------
(* Detection, element by element.                                           *)

LEMMA ElementIs ==
  ASSUME NEW s, IsList(s)
  PROVE  \A x : x \in Range(s) <=> \E i \in DOMAIN s : x = s[i]
BY DEF Range

LEMMA PickedIs ==
  ASSUME NEW s, IsList(s), NEW C, NEW r, r = Picked(s, C)
  PROVE  IsList(r) /\ \A x : x \in Range(r) <=> \E i \in DOMAIN s : i \in C /\ x = s[i]
BY Selected

LEMMA MappedIs ==
  ASSUME NEW s, IsList(s), NEW g, g = [i \in DOMAIN s |-> g[i]]
  PROVE  IsList(g \o <<>>) /\ \A x : x \in Range(g \o <<>>) <=> \E i \in DOMAIN s : x = g[i]
<1> DEFINE h == g \o <<>>
<1>1. IsList(h) /\ Len(h) = Len(s) /\ (\A i \in 1..Len(s) : h[i] = g[i]) /\ DOMAIN s = 1..Len(s)
  BY MapIsList, ListIs
<1> HIDE DEF h
<1>2. \A x : x \in Range(h) <=> \E i \in 1..Len(h) : h[i] = x
  BY <1>1, ListIs
<1>3. \A x : x \in Range(h) <=> \E i \in DOMAIN s : x = g[i]
  BY <1>1, <1>2
<1> QED BY <1>1, <1>3 DEF h

LEMMA FlattenedIs ==
  ASSUME NEW s, IsList(s), NEW g, g = [i \in DOMAIN s |-> g[i]], \A i \in DOMAIN s : IsList(g[i])
  PROVE  /\ IsList(FlattenSeq(g \o <<>>))
         /\ \A x : x \in Range(FlattenSeq(g \o <<>>)) <=> \E i \in DOMAIN s : x \in Range(g[i])
<1> DEFINE r == FlattenSeq(g \o <<>>)
<1>1. Len(s) \in Nat /\ DOMAIN s = 1..Len(s)
  BY ListIs
<1>2. IsList(r) /\ Range(r) = UNION {Range(g[i]) : i \in 1..Len(s)}
  BY <1>1, FlatList
<1> HIDE DEF r
<1>3. \A x : x \in Range(r) <=> \E i \in DOMAIN s : x \in Range(g[i])
  BY <1>1, <1>2
<1> QED BY <1>2, <1>3 DEF r

\* The tables that are new, and of a known one the columns that are, or changed.
Fresh(current, target) == {t \in Range(target) : ~Knows(current, t)}
Lacks(current, t) == {c \in Range(t.columns) : ~HasColumn(Find(current, t), c.name)}
Differs(current, t) ==
  {c \in Range(t.columns) : HasColumn(Find(current, t), c.name) /\ ColumnOf(Find(current, t), c.name) # c}

IsSchemaChange(current, target, x) ==
  \E s \in SchemasOf(target) \ (SchemasOf(current) \cup {""}) :
    x = Change("CreateSchema", [name |-> "", schema |-> s], NoColumn, NoColumn)
IsTableChange(current, target, x) ==
  \/ \E t \in Fresh(current, target) : x = Change("CreateTable", t, NoColumn, NoColumn)
  \/ \E t \in Fresh(current, target) : \E c \in Range(t.columns) : x = Change("AddColumn", t, c, NoColumn)
  \/ \E t \in Range(target) \ Fresh(current, target) : \E c \in Lacks(current, t) :
       x = Change("AddColumn", t, c, NoColumn)
  \/ \E t \in Range(target) \ Fresh(current, target) : \E c \in Differs(current, t) :
       x = Change("AlterColumn", t, c, ColumnOf(Find(current, t), c.name))

LEMMA AddsIs ==
  ASSUME NEW t, NEW cols, IsList(cols)
  PROVE  /\ IsList(Adds(t, cols))
         /\ \A x : x \in Range(Adds(t, cols)) <=> \E c \in Range(cols) : x = Change("AddColumn", t, c, NoColumn)
<1> DEFINE g == [i \in DOMAIN cols |-> Change("AddColumn", t, cols[i], NoColumn)]
<1>1. Adds(t, cols) = g \o <<>>
  BY Zenon DEF Adds, MapTo
<1>2. g = [i \in DOMAIN cols |-> g[i]] /\ \A i \in DOMAIN cols : g[i] = Change("AddColumn", t, cols[i], NoColumn)
  OBVIOUS
<1> HIDE DEF g
<1>3. IsList(g \o <<>>) /\ \A x : x \in Range(g \o <<>>) <=> \E i \in DOMAIN cols : x = g[i]
  BY <1>2, MappedIs
<1>4. \A c : c \in Range(cols) <=> \E i \in DOMAIN cols : c = cols[i]
  BY ElementIs
<1>5. \A x : x \in Range(g \o <<>>) <=> \E c \in Range(cols) : x = Change("AddColumn", t, c, NoColumn)
  <2>1. ASSUME NEW c \in Range(cols) PROVE Change("AddColumn", t, c, NoColumn) \in Range(g \o <<>>)
    <3>1. PICK i \in DOMAIN cols : c = cols[i]
      BY <1>4
    <3>2. g[i] \in Range(g \o <<>>)
      BY <1>3
    <3> QED BY <1>2, <3>1, <3>2
  <2>2. ASSUME NEW x \in Range(g \o <<>>)
        PROVE  \E c \in Range(cols) : x = Change("AddColumn", t, c, NoColumn)
    <3>1. PICK i \in DOMAIN cols : x = g[i]
      BY <1>3
    <3>2. cols[i] \in Range(cols)
      BY <1>4
    <3> QED BY <1>2, <3>1, <3>2
  <2> QED BY <2>1, <2>2
<1> QED BY <1>1, <1>3, <1>5

LEMMA MissingIs ==
  ASSUME NEW current, NEW t, IsList(t.columns)
  PROVE  IsList(Missing(current, t)) /\ Range(Missing(current, t)) = Lacks(current, t)
<1> DEFINE cols == t.columns
           C == {i \in DOMAIN cols : ~HasColumn(Find(current, t), cols[i].name)}
<1>1. Missing(current, t) = Picked(cols, C)
  <2>1. [i \in DOMAIN cols |-> IF i \in C THEN <<cols[i]>> ELSE <<>>]
        = [i \in DOMAIN cols |-> IF ~HasColumn(Find(current, t), cols[i].name) THEN <<cols[i]>> ELSE <<>>]
    OBVIOUS
  <2> QED BY <2>1 DEF Missing, Select, Collect, MapTo, Picked
<1>2. IsList(cols) /\ \A c : c \in Range(cols) <=> \E i \in DOMAIN cols : c = cols[i]
  BY ElementIs
<1>3. \A i \in DOMAIN cols : i \in C <=> ~HasColumn(Find(current, t), cols[i].name)
  OBVIOUS
<1> HIDE DEF C
<1>4. IsList(Missing(current, t))
      /\ \A x : x \in Range(Missing(current, t)) <=> \E i \in DOMAIN cols : i \in C /\ x = cols[i]
  <2> HIDE DEF cols
  <2> QED BY <1>1, <1>2, PickedIs
<1>5. \A x : x \in Range(Missing(current, t)) <=> x \in Lacks(current, t)
  <2> TAKE x
  <2>1. x \in Lacks(current, t) <=> x \in Range(cols) /\ ~HasColumn(Find(current, t), x.name)
    BY Zenon DEF Lacks
  <2> HIDE DEF cols
  <2> QED BY <1>2, <1>3, <1>4, <2>1, Zenon
<1> QED BY <1>4, <1>5

LEMMA AltersIs ==
  ASSUME NEW current, NEW t, IsList(t.columns)
  PROVE  /\ IsList(Alters(current, t))
         /\ \A x : x \in Range(Alters(current, t)) <=>
              \E c \in Differs(current, t) : x = Change("AlterColumn", t, c, ColumnOf(Find(current, t), c.name))
<1> DEFINE cols == t.columns
           old == Find(current, t)
           C == {i \in DOMAIN cols : HasColumn(old, cols[i].name) /\ ColumnOf(old, cols[i].name) # cols[i]}
           alt == Altered(current, t)
           g == [i \in DOMAIN alt |-> Change("AlterColumn", t, alt[i], ColumnOf(Find(current, t), alt[i].name))]
<1>1. alt = Picked(cols, C)
  <2>1. [i \in DOMAIN cols |-> IF i \in C THEN <<cols[i]>> ELSE <<>>]
        = [i \in DOMAIN cols |->
             IF HasColumn(old, cols[i].name) /\ ColumnOf(old, cols[i].name) # cols[i]
             THEN <<cols[i]>> ELSE <<>>]
    OBVIOUS
  <2> QED BY <2>1 DEF Altered, Select, Collect, MapTo, Picked
<1>2. IsList(cols) /\ \A c : c \in Range(cols) <=> \E i \in DOMAIN cols : c = cols[i]
  BY ElementIs
<1>3. \A i \in DOMAIN cols : i \in C <=> HasColumn(old, cols[i].name) /\ ColumnOf(old, cols[i].name) # cols[i]
  OBVIOUS
<1>4. Alters(current, t) = g \o <<>>
  BY Zenon DEF Alters, MapTo
<1>5. g = [i \in DOMAIN alt |-> g[i]]
      /\ \A i \in DOMAIN alt : g[i] = Change("AlterColumn", t, alt[i], ColumnOf(Find(current, t), alt[i].name))
  OBVIOUS
<1> HIDE DEF C, alt, g
<1>6. IsList(alt) /\ \A x : x \in Range(alt) <=> \E i \in DOMAIN cols : i \in C /\ x = cols[i]
  <2> HIDE DEF cols
  <2> QED BY <1>1, <1>2, PickedIs
<1>7. \A x : x \in Range(alt) <=> x \in Differs(current, t)
  <2> TAKE x
  <2>1. x \in Differs(current, t) <=> x \in Range(cols) /\ HasColumn(old, x.name) /\ ColumnOf(old, x.name) # x
    BY Zenon DEF Differs
  <2> HIDE DEF cols, old
  <2> QED BY <1>2, <1>3, <1>6, <2>1, Zenon
<1>8. IsList(g \o <<>>) /\ \A x : x \in Range(g \o <<>>) <=> \E i \in DOMAIN alt : x = g[i]
  BY <1>5, <1>6, MappedIs
<1>9. \A c : c \in Range(alt) <=> \E i \in DOMAIN alt : c = alt[i]
  BY <1>6, ElementIs
<1>10. \A x : x \in Range(g \o <<>>) <=>
         \E c \in Differs(current, t) : x = Change("AlterColumn", t, c, ColumnOf(Find(current, t), c.name))
  <2>1. ASSUME NEW c \in Differs(current, t)
        PROVE  Change("AlterColumn", t, c, ColumnOf(Find(current, t), c.name)) \in Range(g \o <<>>)
    <3>1. PICK i \in DOMAIN alt : c = alt[i]
      BY <1>7, <1>9
    <3>2. g[i] \in Range(g \o <<>>)
      BY <1>8
    <3> QED BY <1>5, <3>1, <3>2
  <2>2. ASSUME NEW x \in Range(g \o <<>>)
        PROVE  \E c \in Differs(current, t) : x = Change("AlterColumn", t, c, ColumnOf(Find(current, t), c.name))
    <3>1. PICK i \in DOMAIN alt : x = g[i]
      BY <1>8
    <3>2. alt[i] \in Differs(current, t)
      BY <1>7, <1>9
    <3> QED BY <1>5, <3>1, <3>2
  <2> QED BY <2>1, <2>2
<1> QED BY <1>4, <1>8, <1>10

LEMMA SchemaSeqIs ==
  ASSUME NEW target, IsList(target), NEW S \in SUBSET SchemasOf(target)
  PROVE  Range(SetToSeq(S)) \subseteq S
<1> DEFINE n == Len(target)
           f == [i \in 1..n |-> target[i].schema]
<1>1. n \in Nat /\ DOMAIN target = 1..n
  BY ListIs
<1>2. f \in Surjection(1..n, SchemasOf(target))
  BY <1>1 DEF Surjection, SchemasOf
<1>3. IsFiniteSet(1..n)
  BY <1>1, FS_Interval
<1>4. IsFiniteSet(S)
  BY <1>2, <1>3, FS_Surjection, FS_Subset
<1>5. Cardinality(S) \in Nat /\ ExistsBijection(1..Cardinality(S), S)
  BY <1>4, FS_CardinalityType
<1>6. \E g \in [1..Cardinality(S) -> S] : IsInjective(g)
  BY <1>5 DEF ExistsBijection, Bijection, Injection
<1>7. SetToSeq(S) \in [1..Cardinality(S) -> S]
  BY <1>6 DEF SetToSeq
<1> QED BY <1>7 DEF Range

(* The changes of two states are those of tables, and schemas made.         *)
LEMMA DiffIs ==
  ASSUME NEW current, NEW target, IsTarget(target)
  PROVE  /\ IsList(DiffStates(current, target))
         /\ \A x \in Range(DiffStates(current, target)) :
              IsSchemaChange(current, target, x) \/ IsTableChange(current, target, x)
         /\ \A x : IsTableChange(current, target, x) => x \in Range(DiffStates(current, target))
<1> DEFINE new     == Select(target, LAMBDA t : ~Knows(current, t))
           known   == Select(target, LAMBDA t : Knows(current, t))
           fresh   == SchemasOf(target) \ (SchemasOf(current) \cup {""})
           schemas == SetToSeq(fresh)
           g1 == [i \in DOMAIN new |-> Adds(new[i], new[i].columns)]
           g2 == [i \in DOMAIN known |-> Adds(known[i], Missing(current, known[i]))]
           g3 == [i \in DOMAIN known |-> Alters(current, known[i])]
           c1 == [i \in DOMAIN schemas |->
                    Change("CreateSchema", [name |-> "", schema |-> schemas[i]], NoColumn, NoColumn)]
           c2 == [i \in DOMAIN new |-> Change("CreateTable", new[i], NoColumn, NoColumn)]
           D == DiffStates(current, target)
<1>1. D = (c1 \o <<>>) \o (c2 \o <<>>) \o FlattenSeq(g1 \o <<>>) \o FlattenSeq(g2 \o <<>>) \o FlattenSeq(g3 \o <<>>)
  BY DEF DiffStates, Collect, MapTo, Adds, Missing, Altered, Alters, new, known, schemas
<1>2. IsList(target) /\ \A x : x \in Range(target) <=> \E i \in DOMAIN target : x = target[i]
  BY ElementIs DEF IsTarget
<1>3. IsList(new) /\ \A x : x \in Range(new) <=> x \in Fresh(current, target)
  <2> DEFINE C == {i \in DOMAIN target : ~Knows(current, target[i])}
  <2>1. new = Picked(target, C)
    <3>1. [i \in DOMAIN target |-> IF i \in C THEN <<target[i]>> ELSE <<>>]
          = [i \in DOMAIN target |-> IF ~Knows(current, target[i]) THEN <<target[i]>> ELSE <<>>]
      OBVIOUS
    <3> QED BY <3>1 DEF Select, Collect, MapTo, Picked
  <2>2. \A i \in DOMAIN target : i \in C <=> ~Knows(current, target[i])
    OBVIOUS
  <2> HIDE DEF C, new
  <2>3. IsList(new) /\ \A x : x \in Range(new) <=> \E i \in DOMAIN target : i \in C /\ x = target[i]
    BY <1>2, <2>1, PickedIs
  <2>4. ASSUME NEW x \in Range(new) PROVE x \in Fresh(current, target)
    <3>1. PICK i \in DOMAIN target : i \in C /\ x = target[i]
      BY <2>3
    <3>2. x \in Range(target) /\ ~Knows(current, x)
      BY <1>2, <2>2, <3>1
    <3> QED BY <3>2 DEF Fresh
  <2>5. ASSUME NEW x \in Fresh(current, target) PROVE x \in Range(new)
    <3>1. x \in Range(target) /\ ~Knows(current, x)
      BY DEF Fresh
    <3>2. PICK i \in DOMAIN target : x = target[i]
      BY <1>2, <3>1
    <3> QED BY <2>2, <2>3, <3>1, <3>2
  <2> QED BY <2>3, <2>4, <2>5
<1>4. IsList(known) /\ \A x : x \in Range(known) <=> x \in Range(target) \ Fresh(current, target)
  <2> DEFINE C == {i \in DOMAIN target : Knows(current, target[i])}
  <2>1. known = Picked(target, C)
    <3>1. [i \in DOMAIN target |-> IF i \in C THEN <<target[i]>> ELSE <<>>]
          = [i \in DOMAIN target |-> IF Knows(current, target[i]) THEN <<target[i]>> ELSE <<>>]
      OBVIOUS
    <3> QED BY <3>1 DEF Select, Collect, MapTo, Picked
  <2>2. \A i \in DOMAIN target : i \in C <=> Knows(current, target[i])
    OBVIOUS
  <2> HIDE DEF C, known
  <2>3. IsList(known) /\ \A x : x \in Range(known) <=> \E i \in DOMAIN target : i \in C /\ x = target[i]
    BY <1>2, <2>1, PickedIs
  <2>4. ASSUME NEW x \in Range(known) PROVE x \in Range(target) \ Fresh(current, target)
    <3>1. PICK i \in DOMAIN target : i \in C /\ x = target[i]
      BY <2>3
    <3>2. x \in Range(target) /\ Knows(current, x)
      BY <1>2, <2>2, <3>1
    <3> QED BY <3>2 DEF Fresh
  <2>5. ASSUME NEW x \in Range(target) \ Fresh(current, target) PROVE x \in Range(known)
    <3>1. x \in Range(target) /\ Knows(current, x)
      BY DEF Fresh
    <3>2. PICK i \in DOMAIN target : x = target[i]
      BY <1>2, <3>1
    <3> QED BY <2>2, <2>3, <3>1, <3>2
  <2> QED BY <2>3, <2>4, <2>5
<1>5. IsList(schemas) /\ Range(schemas) \subseteq fresh
  <2>1. fresh \in SUBSET SchemasOf(target)
    OBVIOUS
  <2> HIDE DEF fresh
  <2> QED BY <2>1, <1>2, SchemasAreList, SchemaSeqIs
<1>6. /\ \A i \in DOMAIN new : new[i] \in Range(new) /\ IsList(new[i].columns)
      /\ \A i \in DOMAIN known : known[i] \in Range(known) /\ IsList(known[i].columns)
      /\ \A i \in DOMAIN schemas : schemas[i] \in fresh
  <2> HIDE DEF new, known, schemas, fresh
  <2>1. \A t \in Range(target) : IsList(t.columns)
    BY DEF IsTarget
  <2>2. \A x \in Range(new) : x \in Range(target)
    BY <1>3 DEF Fresh
  <2>3. \A x \in Range(known) : x \in Range(target)
    BY <1>4
  <2> QED BY <1>5, <2>1, <2>2, <2>3 DEF Range
<1>7. /\ c1 = [i \in DOMAIN schemas |-> c1[i]] /\ c2 = [i \in DOMAIN new |-> c2[i]]
      /\ g1 = [i \in DOMAIN new |-> g1[i]] /\ g2 = [i \in DOMAIN known |-> g2[i]] /\ g3 = [i \in DOMAIN known |-> g3[i]]
  OBVIOUS
<1>8. /\ \A i \in DOMAIN schemas :
           c1[i] = Change("CreateSchema", [name |-> "", schema |-> schemas[i]], NoColumn, NoColumn)
      /\ \A i \in DOMAIN new : c2[i] = Change("CreateTable", new[i], NoColumn, NoColumn)
      /\ \A i \in DOMAIN new : g1[i] = Adds(new[i], new[i].columns)
      /\ \A i \in DOMAIN known : g2[i] = Adds(known[i], Missing(current, known[i]))
      /\ \A i \in DOMAIN known : g3[i] = Alters(current, known[i])
  <2> HIDE DEF new, known, schemas
  <2> QED OBVIOUS
<1> HIDE DEF c1, c2, g1, g2, g3, new, known, schemas, fresh
<1>9. IsList(c1 \o <<>>) /\ \A x \in Range(c1 \o <<>>) : IsSchemaChange(current, target, x)
  <2>1. IsList(c1 \o <<>>) /\ \A x : x \in Range(c1 \o <<>>) <=> \E i \in DOMAIN schemas : x = c1[i]
    BY <1>5, <1>7, MappedIs
  <2>2. \A i \in DOMAIN schemas : IsSchemaChange(current, target, c1[i])
    BY <1>6, <1>8, Zenon DEF IsSchemaChange, fresh
  <2> QED BY <2>1, <2>2
<1>10. /\ IsList(c2 \o <<>>)
       /\ \A x : x \in Range(c2 \o <<>>) <=>
            \E t \in Fresh(current, target) : x = Change("CreateTable", t, NoColumn, NoColumn)
  <2>1. IsList(c2 \o <<>>) /\ \A x : x \in Range(c2 \o <<>>) <=> \E i \in DOMAIN new : x = c2[i]
    BY <1>3, <1>7, MappedIs
  <2>2. \A t : t \in Fresh(current, target) <=> \E i \in DOMAIN new : t = new[i]
    BY <1>3, ElementIs
  <2>3. ASSUME NEW t \in Fresh(current, target)
        PROVE  Change("CreateTable", t, NoColumn, NoColumn) \in Range(c2 \o <<>>)
    <3>1. PICK i \in DOMAIN new : t = new[i]
      BY <2>2
    <3>2. c2[i] \in Range(c2 \o <<>>)
      BY <2>1
    <3> QED BY <1>8, <3>1, <3>2
  <2>4. ASSUME NEW x \in Range(c2 \o <<>>)
        PROVE  \E t \in Fresh(current, target) : x = Change("CreateTable", t, NoColumn, NoColumn)
    <3>1. PICK i \in DOMAIN new : x = c2[i]
      BY <2>1
    <3>2. new[i] \in Fresh(current, target)
      BY <2>2
    <3> QED BY <1>8, <3>1, <3>2
  <2> QED BY <2>1, <2>3, <2>4
<1>11. /\ IsList(FlattenSeq(g1 \o <<>>))
       /\ \A x : x \in Range(FlattenSeq(g1 \o <<>>)) <=>
            \E t \in Fresh(current, target) : \E c \in Range(t.columns) : x = Change("AddColumn", t, c, NoColumn)
  <2>1. \A i \in DOMAIN new :
          IsList(g1[i]) /\ \A x : x \in Range(g1[i]) <=>
            \E c \in Range(new[i].columns) : x = Change("AddColumn", new[i], c, NoColumn)
    <3> TAKE i \in DOMAIN new
    <3>1. IsList(new[i].columns) /\ g1[i] = Adds(new[i], new[i].columns)
      BY <1>6, <1>8
    <3> QED BY <3>1, AddsIs
  <2>2. IsList(FlattenSeq(g1 \o <<>>))
        /\ \A x : x \in Range(FlattenSeq(g1 \o <<>>)) <=> \E i \in DOMAIN new : x \in Range(g1[i])
    BY <1>3, <1>7, <2>1, FlattenedIs
  <2>3. \A t : t \in Fresh(current, target) <=> \E i \in DOMAIN new : t = new[i]
    BY <1>3, ElementIs
  <2>4. ASSUME NEW t \in Fresh(current, target), NEW c \in Range(t.columns)
        PROVE  Change("AddColumn", t, c, NoColumn) \in Range(FlattenSeq(g1 \o <<>>))
    <3>1. PICK i \in DOMAIN new : t = new[i]
      BY <2>3
    <3>2. Change("AddColumn", t, c, NoColumn) \in Range(g1[i])
      BY <2>1, <3>1
    <3> QED BY <2>2, <3>2
  <2>5. ASSUME NEW x \in Range(FlattenSeq(g1 \o <<>>))
        PROVE  \E t \in Fresh(current, target) : \E c \in Range(t.columns) : x = Change("AddColumn", t, c, NoColumn)
    <3>1. PICK i \in DOMAIN new : x \in Range(g1[i])
      BY <2>2
    <3>2. new[i] \in Fresh(current, target)
      BY <2>3
    <3> QED BY <2>1, <3>1, <3>2
  <2> QED BY <2>2, <2>4, <2>5
<1>12. /\ IsList(FlattenSeq(g2 \o <<>>))
       /\ \A x : x \in Range(FlattenSeq(g2 \o <<>>)) <=>
            \E t \in Range(target) \ Fresh(current, target) : \E c \in Lacks(current, t) :
              x = Change("AddColumn", t, c, NoColumn)
  <2>1. \A i \in DOMAIN known :
          IsList(g2[i]) /\ \A x : x \in Range(g2[i]) <=>
            \E c \in Lacks(current, known[i]) : x = Change("AddColumn", known[i], c, NoColumn)
    <3> TAKE i \in DOMAIN known
    <3>1. IsList(Missing(current, known[i])) /\ Range(Missing(current, known[i])) = Lacks(current, known[i])
      BY <1>6, MissingIs
    <3>2. g2[i] = Adds(known[i], Missing(current, known[i]))
      BY <1>8
    <3> QED BY <3>1, <3>2, AddsIs
  <2>2. IsList(FlattenSeq(g2 \o <<>>))
        /\ \A x : x \in Range(FlattenSeq(g2 \o <<>>)) <=> \E i \in DOMAIN known : x \in Range(g2[i])
    BY <1>4, <1>7, <2>1, FlattenedIs
  <2>3. \A t : t \in Range(target) \ Fresh(current, target) <=> \E i \in DOMAIN known : t = known[i]
    BY <1>4, ElementIs
  <2>4. ASSUME NEW t \in Range(target) \ Fresh(current, target), NEW c \in Lacks(current, t)
        PROVE  Change("AddColumn", t, c, NoColumn) \in Range(FlattenSeq(g2 \o <<>>))
    <3>1. PICK i \in DOMAIN known : t = known[i]
      BY <2>3
    <3>2. Change("AddColumn", t, c, NoColumn) \in Range(g2[i])
      BY <2>1, <3>1
    <3> QED BY <2>2, <3>2
  <2>5. ASSUME NEW x \in Range(FlattenSeq(g2 \o <<>>))
        PROVE  \E t \in Range(target) \ Fresh(current, target) : \E c \in Lacks(current, t) : x = Change("AddColumn", t, c, NoColumn)
    <3>1. PICK i \in DOMAIN known : x \in Range(g2[i])
      BY <2>2
    <3>2. known[i] \in Range(target) \ Fresh(current, target)
      BY <2>3
    <3> QED BY <2>1, <3>1, <3>2
  <2> QED BY <2>2, <2>4, <2>5
<1>13. /\ IsList(FlattenSeq(g3 \o <<>>))
       /\ \A x : x \in Range(FlattenSeq(g3 \o <<>>)) <=>
            \E t \in Range(target) \ Fresh(current, target) : \E c \in Differs(current, t) :
              x = Change("AlterColumn", t, c, ColumnOf(Find(current, t), c.name))
  <2>1. \A i \in DOMAIN known :
          IsList(g3[i]) /\ \A x : x \in Range(g3[i]) <=>
            \E c \in Differs(current, known[i]) :
              x = Change("AlterColumn", known[i], c, ColumnOf(Find(current, known[i]), c.name))
    <3> TAKE i \in DOMAIN known
    <3>1. IsList(known[i].columns) /\ g3[i] = Alters(current, known[i])
      BY <1>6, <1>8
    <3> QED BY <3>1, AltersIs
  <2>2. IsList(FlattenSeq(g3 \o <<>>))
        /\ \A x : x \in Range(FlattenSeq(g3 \o <<>>)) <=> \E i \in DOMAIN known : x \in Range(g3[i])
    BY <1>4, <1>7, <2>1, FlattenedIs
  <2>3. \A t : t \in Range(target) \ Fresh(current, target) <=> \E i \in DOMAIN known : t = known[i]
    BY <1>4, ElementIs
  <2>4. ASSUME NEW t \in Range(target) \ Fresh(current, target), NEW c \in Differs(current, t)
        PROVE  Change("AlterColumn", t, c, ColumnOf(Find(current, t), c.name)) \in Range(FlattenSeq(g3 \o <<>>))
    <3>1. PICK i \in DOMAIN known : t = known[i]
      BY <2>3
    <3>2. Change("AlterColumn", t, c, ColumnOf(Find(current, t), c.name)) \in Range(g3[i])
      BY <2>1, <3>1
    <3> QED BY <2>2, <3>2
  <2>5. ASSUME NEW x \in Range(FlattenSeq(g3 \o <<>>))
        PROVE  \E t \in Range(target) \ Fresh(current, target) : \E c \in Differs(current, t) : x = Change("AlterColumn", t, c, ColumnOf(Find(current, t), c.name))
    <3>1. PICK i \in DOMAIN known : x \in Range(g3[i])
      BY <2>2
    <3>2. known[i] \in Range(target) \ Fresh(current, target)
      BY <2>3
    <3> QED BY <2>1, <3>1, <3>2
  <2> QED BY <2>2, <2>4, <2>5
<1> DEFINE p1 == c1 \o <<>>
           p2 == c2 \o <<>>
           f1 == FlattenSeq(g1 \o <<>>)
           f2 == FlattenSeq(g2 \o <<>>)
           f3 == FlattenSeq(g3 \o <<>>)
<1>14. IsList(p1) /\ IsList(p2) /\ IsList(f1) /\ IsList(f2) /\ IsList(f3) /\ D = p1 \o p2 \o f1 \o f2 \o f3
  BY <1>1, <1>9, <1>10, <1>11, <1>12, <1>13
<1>15. \A x : IsTableChange(current, target, x) <=>
               x \in Range(p2) \/ x \in Range(f1) \/ x \in Range(f2) \/ x \in Range(f3)
  <2> TAKE x
  <2> QED BY <1>10, <1>11, <1>12, <1>13, Zenon DEF IsTableChange
<1>16. \A x \in Range(p1) : IsSchemaChange(current, target, x)
  BY <1>9
<1> HIDE DEF p1, p2, f1, f2, f3, D
<1> DEFINE q2 == p1 \o p2
           q3 == q2 \o f1
           q4 == q3 \o f2
           q5 == q4 \o f3
<1>17. D = q5
  BY <1>14
<1> HIDE DEF q5
<1>18. IsList(q2) /\ Range(q2) = Range(p1) \cup Range(p2)
  BY <1>14, JoinLists, Zenon
<1> HIDE DEF q2
<1>19. IsList(q3) /\ Range(q3) = Range(q2) \cup Range(f1)
  BY <1>14, <1>18, JoinLists, Zenon
<1> HIDE DEF q3
<1>20. IsList(q4) /\ Range(q4) = Range(q3) \cup Range(f2)
  BY <1>14, <1>19, JoinLists, Zenon
<1> HIDE DEF q4
<1>21. IsList(q5) /\ Range(q5) = Range(q4) \cup Range(f3)
  BY <1>14, <1>20, JoinLists, Zenon DEF q5
<1>22. IsList(D) /\ Range(D) = Range(p1) \cup Range(p2) \cup Range(f1) \cup Range(f2) \cup Range(f3)
  BY <1>17, <1>18, <1>19, <1>20, <1>21
<1> QED BY <1>15, <1>16, <1>22 DEF D

LEMMA OfKindIs ==
  ASSUME NEW changes, IsList(changes), NEW kind
  PROVE  /\ IsList(OfKind(changes, kind))
         /\ \A x : x \in Range(OfKind(changes, kind)) <=> x \in Range(changes) /\ x.kind = kind
<1> DEFINE C == {i \in DOMAIN changes : changes[i].kind = kind}
           r == OfKind(changes, kind)
<1>1. r = Picked(changes, C)
  <2>1. [i \in DOMAIN changes |-> IF i \in C THEN <<changes[i]>> ELSE <<>>]
        = [i \in DOMAIN changes |-> IF changes[i].kind = kind THEN <<changes[i]>> ELSE <<>>]
    OBVIOUS
  <2> QED BY <2>1 DEF OfKind, Select, Collect, MapTo, Picked
<1>2. \A i \in DOMAIN changes : i \in C <=> changes[i].kind = kind
  OBVIOUS
<1> HIDE DEF C, r
<1>3. IsList(r) /\ \A x : x \in Range(r) <=> \E i \in DOMAIN changes : i \in C /\ x = changes[i]
  BY <1>1, PickedIs
<1>4. \A x : x \in Range(changes) <=> \E i \in DOMAIN changes : x = changes[i]
  BY ElementIs
<1>5. \A x \in Range(r) : x \in Range(changes) /\ x.kind = kind
  BY <1>2, <1>3, <1>4
<1>6. \A x \in Range(changes) : x.kind = kind => x \in Range(r)
  BY <1>2, <1>3, <1>4
<1> QED BY <1>3, <1>5, <1>6 DEF r

LEMMA NewTablesIs ==
  ASSUME NEW changes, IsList(changes)
  PROVE  \A n : n \in NewTables(changes) <=> \E x \in Range(changes) : x.kind = "CreateTable" /\ n = x.table
<1>1. \A x : x \in Range(OfKind(changes, "CreateTable")) <=> x \in Range(changes) /\ x.kind = "CreateTable"
  BY OfKindIs
<1> QED BY <1>1 DEF NewTables

LEMMA ColumnsForIs ==
  ASSUME NEW changes, IsList(changes), NEW table
  PROVE  /\ IsList(ColumnsFor(changes, table))
         /\ \A c : c \in Range(ColumnsFor(changes, table)) <=>
              \E x \in Range(changes) : x.kind = "AddColumn" /\ x.table = table /\ c = x.column
<1> DEFINE adds == OfKind(changes, "AddColumn")
           own == Select(adds, LAMBDA c : c.table = table)
           C == {i \in DOMAIN adds : adds[i].table = table}
           g == [i \in DOMAIN own |-> own[i].column]
<1>1. IsList(adds) /\ \A x : x \in Range(adds) <=> x \in Range(changes) /\ x.kind = "AddColumn"
  BY OfKindIs
<1>2. ColumnsFor(changes, table) = MapTo(own, LAMBDA c : c.column)
  BY DEF ColumnsFor
<1> HIDE DEF adds
<1>3. own = Picked(adds, C)
  <2>1. [i \in DOMAIN adds |-> IF i \in C THEN <<adds[i]>> ELSE <<>>]
        = [i \in DOMAIN adds |-> IF adds[i].table = table THEN <<adds[i]>> ELSE <<>>]
    OBVIOUS
  <2> QED BY <2>1 DEF Select, Collect, MapTo, Picked
<1>4. \A i \in DOMAIN adds : i \in C <=> adds[i].table = table
  OBVIOUS
<1>5. ColumnsFor(changes, table) = g \o <<>>
  BY <1>2 DEF MapTo
<1>6. g = [i \in DOMAIN own |-> g[i]] /\ \A i \in DOMAIN own : g[i] = own[i].column
  OBVIOUS
<1> HIDE DEF own, C, g
<1>7. IsList(own) /\ \A x : x \in Range(own) <=> \E i \in DOMAIN adds : i \in C /\ x = adds[i]
  BY <1>1, <1>3, PickedIs
<1>8. IsList(g \o <<>>) /\ \A x : x \in Range(g \o <<>>) <=> \E i \in DOMAIN own : x = g[i]
  BY <1>6, <1>7, MappedIs
<1>9. (\A x : x \in Range(own) <=> \E i \in DOMAIN own : x = own[i])
      /\ (\A x : x \in Range(adds) <=> \E i \in DOMAIN adds : x = adds[i])
  BY <1>1, <1>7, ElementIs
<1>10. ASSUME NEW c \in Range(g \o <<>>)
       PROVE  \E x \in Range(changes) : x.kind = "AddColumn" /\ x.table = table /\ c = x.column
  <2>1. PICK i \in DOMAIN own : c = own[i].column
    BY <1>6, <1>8
  <2>2. own[i] \in Range(own)
    BY <1>9
  <2>3. own[i] \in Range(adds) /\ own[i].table = table
    BY <1>4, <1>7, <1>9, <2>2
  <2> QED BY <1>1, <2>1, <2>3
<1>11. ASSUME NEW x \in Range(changes), x.kind = "AddColumn", x.table = table PROVE x.column \in Range(g \o <<>>)
  <2>1. x \in Range(adds)
    BY <1>1, <1>11
  <2>2. x \in Range(own)
    BY <1>4, <1>7, <1>9, <1>11, <2>1
  <2>3. PICK i \in DOMAIN own : x = own[i]
    BY <1>9, <2>2
  <2>4. g[i] \in Range(g \o <<>>)
    BY <1>8
  <2> QED BY <1>6, <2>3, <2>4
<1> QED BY <1>5, <1>8, <1>10, <1>11

LEMMA PlainAddsIs ==
  ASSUME NEW changes, IsList(changes)
  PROVE  /\ IsList(PlainAdds(changes))
         /\ \A x : x \in Range(PlainAdds(changes)) <=>
              x \in Range(changes) /\ x.kind = "AddColumn" /\ x.table \notin NewTables(changes)
<1> DEFINE adds == OfKind(changes, "AddColumn")
           fresh == NewTables(changes)
           C == {i \in DOMAIN adds : adds[i].table \notin fresh}
           r == Select(adds, LAMBDA c : c.table \notin fresh)
<1>1. IsList(adds) /\ \A x : x \in Range(adds) <=> x \in Range(changes) /\ x.kind = "AddColumn"
  BY OfKindIs
<1>2. PlainAdds(changes) = r
  BY DEF PlainAdds
<1> HIDE DEF adds, fresh
<1>3. r = Picked(adds, C)
  <2>1. [i \in DOMAIN adds |-> IF i \in C THEN <<adds[i]>> ELSE <<>>]
        = [i \in DOMAIN adds |-> IF adds[i].table \notin fresh THEN <<adds[i]>> ELSE <<>>]
    OBVIOUS
  <2> QED BY <2>1 DEF Select, Collect, MapTo, Picked
<1>4. \A i \in DOMAIN adds : i \in C <=> adds[i].table \notin fresh
  OBVIOUS
<1> HIDE DEF r, C
<1>5. IsList(r) /\ \A x : x \in Range(r) <=> \E i \in DOMAIN adds : i \in C /\ x = adds[i]
  BY <1>1, <1>3, PickedIs
<1>6. \A x : x \in Range(adds) <=> \E i \in DOMAIN adds : x = adds[i]
  BY <1>1, ElementIs
<1>7. \A x \in Range(r) : x \in Range(changes) /\ x.kind = "AddColumn" /\ x.table \notin fresh
  BY <1>1, <1>4, <1>5, <1>6
<1>8. \A x \in Range(changes) : x.kind = "AddColumn" /\ x.table \notin fresh => x \in Range(r)
  BY <1>1, <1>4, <1>5, <1>6
<1> QED BY <1>2, <1>5, <1>7, <1>8 DEF fresh

\* An operation comes from a change.
OperationOf(changes, entries, c, x) ==
  \/ c.kind = "CreateSchema" /\ x = Operation("CreateSchema", "", c.schema, <<>>, "")
  \/ /\ c.kind = "CreateTable"
     /\ x = Operation("CreateTable", c.table, c.schema, ColumnsFor(changes, c.table), DatabaseOf(entries, c.table))
  \/ /\ c.kind = "AddColumn" /\ c.table \notin NewTables(changes)
     /\ x = Operation("AddField", c.table, c.schema, <<c.column>>, DatabaseOf(entries, c.table))
  \/ /\ c.kind = "AlterColumn"
     /\ x = Operation("AlterField", c.table, c.schema, <<c.old, c.column>>, DatabaseOf(entries, c.table))

LEMMA OperationsAre ==
  ASSUME NEW changes, IsList(changes), NEW entries
  PROVE  /\ IsList(Ops(changes, entries))
         /\ \A x : x \in Range(Ops(changes, entries)) <=> \E c \in Range(changes) : OperationOf(changes, entries, c, x)
<1> DEFINE Of(table) == DatabaseOf(entries, table)
           s1 == OfKind(changes, "CreateSchema")
           s2 == OfKind(changes, "CreateTable")
           s3 == PlainAdds(changes)
           s4 == OfKind(changes, "AlterColumn")
           o1(c) == Operation("CreateSchema", "", c.schema, <<>>, "")
           o2(c) == Operation("CreateTable", c.table, c.schema, ColumnsFor(changes, c.table), Of(c.table))
           o3(c) == Operation("AddField", c.table, c.schema, <<c.column>>, Of(c.table))
           o4(c) == Operation("AlterField", c.table, c.schema, <<c.old, c.column>>, Of(c.table))
           g1 == [i \in DOMAIN s1 |-> o1(s1[i])]
           g2 == [i \in DOMAIN s2 |-> o2(s2[i])]
           g3 == [i \in DOMAIN s3 |-> o3(s3[i])]
           g4 == [i \in DOMAIN s4 |-> o4(s4[i])]
           q1 == g1 \o <<>>
           q2 == g2 \o <<>>
           q3 == g3 \o <<>>
           q4 == g4 \o <<>>
<1>1. /\ IsList(s1) /\ \A c : c \in Range(s1) <=> c \in Range(changes) /\ c.kind = "CreateSchema"
      /\ IsList(s2) /\ \A c : c \in Range(s2) <=> c \in Range(changes) /\ c.kind = "CreateTable"
      /\ IsList(s4) /\ \A c : c \in Range(s4) <=> c \in Range(changes) /\ c.kind = "AlterColumn"
  BY OfKindIs
<1>2. /\ IsList(s3)
      /\ \A c : c \in Range(s3) <=> c \in Range(changes) /\ c.kind = "AddColumn" /\ c.table \notin NewTables(changes)
  BY PlainAddsIs
<1>3. Ops(changes, entries) = q1 \o q2 \o q3 \o q4
  BY DEF Ops, ChangesToOperations, MapTo
<1>4. /\ g1 = [i \in DOMAIN s1 |-> g1[i]] /\ \A i \in DOMAIN s1 : g1[i] = o1(s1[i])
      /\ g2 = [i \in DOMAIN s2 |-> g2[i]] /\ \A i \in DOMAIN s2 : g2[i] = o2(s2[i])
      /\ g3 = [i \in DOMAIN s3 |-> g3[i]] /\ \A i \in DOMAIN s3 : g3[i] = o3(s3[i])
      /\ g4 = [i \in DOMAIN s4 |-> g4[i]] /\ \A i \in DOMAIN s4 : g4[i] = o4(s4[i])
  <2> HIDE DEF s1, s2, s3, s4, o1, o2, o3, o4
  <2> QED OBVIOUS
<1>5. \A c, x : OperationOf(changes, entries, c, x) <=>
        \/ c.kind = "CreateSchema" /\ x = o1(c)
        \/ c.kind = "CreateTable" /\ x = o2(c)
        \/ c.kind = "AddColumn" /\ c.table \notin NewTables(changes) /\ x = o3(c)
        \/ c.kind = "AlterColumn" /\ x = o4(c)
  BY Zenon DEF OperationOf
<1> HIDE DEF s1, s2, s3, s4, g1, g2, g3, g4, Of, o1, o2, o3, o4
<1>6. IsList(q1) /\ \A x : x \in Range(q1) <=> \E c \in Range(s1) : x = o1(c)
  <2>1. IsList(q1) /\ \A x : x \in Range(q1) <=> \E i \in DOMAIN s1 : x = g1[i]
    BY <1>1, <1>4, MappedIs
  <2>2. \A c : c \in Range(s1) <=> \E i \in DOMAIN s1 : c = s1[i]
    BY <1>1, ElementIs
  <2> HIDE DEF q1
  <2>3. \A x \in Range(q1) : \E c \in Range(s1) : x = o1(c)
    BY <1>4, <2>1, <2>2
  <2>4. \A c \in Range(s1) : o1(c) \in Range(q1)
    BY <1>4, <2>1, <2>2
  <2> QED BY <2>1, <2>3, <2>4
<1>7. IsList(q2) /\ \A x : x \in Range(q2) <=> \E c \in Range(s2) : x = o2(c)
  <2>1. IsList(q2) /\ \A x : x \in Range(q2) <=> \E i \in DOMAIN s2 : x = g2[i]
    BY <1>1, <1>4, MappedIs
  <2>2. \A c : c \in Range(s2) <=> \E i \in DOMAIN s2 : c = s2[i]
    BY <1>1, ElementIs
  <2> HIDE DEF q2
  <2>3. \A x \in Range(q2) : \E c \in Range(s2) : x = o2(c)
    BY <1>4, <2>1, <2>2
  <2>4. \A c \in Range(s2) : o2(c) \in Range(q2)
    BY <1>4, <2>1, <2>2
  <2> QED BY <2>1, <2>3, <2>4
<1>8. IsList(q3) /\ \A x : x \in Range(q3) <=> \E c \in Range(s3) : x = o3(c)
  <2>1. IsList(q3) /\ \A x : x \in Range(q3) <=> \E i \in DOMAIN s3 : x = g3[i]
    BY <1>2, <1>4, MappedIs
  <2>2. \A c : c \in Range(s3) <=> \E i \in DOMAIN s3 : c = s3[i]
    BY <1>2, ElementIs
  <2> HIDE DEF q3
  <2>3. \A x \in Range(q3) : \E c \in Range(s3) : x = o3(c)
    BY <1>4, <2>1, <2>2
  <2>4. \A c \in Range(s3) : o3(c) \in Range(q3)
    BY <1>4, <2>1, <2>2
  <2> QED BY <2>1, <2>3, <2>4
<1>9. IsList(q4) /\ \A x : x \in Range(q4) <=> \E c \in Range(s4) : x = o4(c)
  <2>1. IsList(q4) /\ \A x : x \in Range(q4) <=> \E i \in DOMAIN s4 : x = g4[i]
    BY <1>1, <1>4, MappedIs
  <2>2. \A c : c \in Range(s4) <=> \E i \in DOMAIN s4 : c = s4[i]
    BY <1>1, ElementIs
  <2> HIDE DEF q4
  <2>3. \A x \in Range(q4) : \E c \in Range(s4) : x = o4(c)
    BY <1>4, <2>1, <2>2
  <2>4. \A c \in Range(s4) : o4(c) \in Range(q4)
    BY <1>4, <2>1, <2>2
  <2> QED BY <2>1, <2>3, <2>4
<1> HIDE DEF q1, q2, q3, q4
<1>10. IsList(q1 \o q2) /\ Range(q1 \o q2) = Range(q1) \cup Range(q2)
  BY <1>6, <1>7, JoinLists
<1>11. IsList(q1 \o q2 \o q3) /\ Range(q1 \o q2 \o q3) = Range(q1) \cup Range(q2) \cup Range(q3)
  BY <1>8, <1>10, JoinLists
<1>12. /\ IsList(q1 \o q2 \o q3 \o q4)
       /\ Range(q1 \o q2 \o q3 \o q4) = Range(q1) \cup Range(q2) \cup Range(q3) \cup Range(q4)
  BY <1>9, <1>11, JoinLists
<1> DEFINE r == Ops(changes, entries)
<1>13. IsList(r) /\ Range(r) = Range(q1) \cup Range(q2) \cup Range(q3) \cup Range(q4)
  BY <1>3, <1>12
<1> HIDE DEF r
<1>14. ASSUME NEW x \in Range(r) PROVE \E c \in Range(changes) : OperationOf(changes, entries, c, x)
  <2>1. CASE x \in Range(q1)
    BY <2>1, <1>1, <1>5, <1>6
  <2>2. CASE x \in Range(q2)
    BY <2>2, <1>1, <1>5, <1>7
  <2>3. CASE x \in Range(q3)
    BY <2>3, <1>2, <1>5, <1>8
  <2>4. CASE x \in Range(q4)
    BY <2>4, <1>1, <1>5, <1>9
  <2> QED BY <1>13, <1>14, <2>1, <2>2, <2>3, <2>4
<1>15. ASSUME NEW c \in Range(changes), NEW x, OperationOf(changes, entries, c, x) PROVE x \in Range(r)
  <2>1. CASE c.kind = "CreateSchema" /\ x = o1(c)
    BY <2>1, <1>1, <1>6, <1>13
  <2>2. CASE c.kind = "CreateTable" /\ x = o2(c)
    BY <2>2, <1>1, <1>7, <1>13
  <2>3. CASE c.kind = "AddColumn" /\ c.table \notin NewTables(changes) /\ x = o3(c)
    BY <2>3, <1>2, <1>8, <1>13
  <2>4. CASE c.kind = "AlterColumn" /\ x = o4(c)
    BY <2>4, <1>1, <1>9, <1>13
  <2> QED BY <1>5, <1>15, <2>1, <2>2, <2>3, <2>4
<1> QED BY <1>13, <1>14, <1>15 DEF r

LEMMA FlatSteps ==
  ASSUME NEW S, NEW seqs \in Seq(Seq(S)), Len(seqs) # 0
  PROVE  \E f : /\ FlattenSeq(seqs) = f[Len(seqs)] /\ f[1] = seqs[1]
                /\ \A i \in 2..Len(seqs) : f[i] = f[i - 1] \o seqs[i]
<1> DEFINE N == Len(seqs)
           f == CHOOSE g : FlatOf(seqs, N, g)
<1>1. N \in Nat /\ N > 0
  OBVIOUS
<1>2. FlatOf(seqs, N, f)
  BY <1>1, FlatExists
<1>3. FlattenSeq(seqs) = f[N]
  BY DEF FlattenSeq, FlatOf, Flat
<1> HIDE DEF f
<1>4. \A i \in 1..N : f[i] = Flat(seqs, f, i)
  BY <1>2 DEF FlatOf
<1>5. f[1] = seqs[1]
  BY <1>1, <1>4 DEF Flat
<1>6. ASSUME NEW i \in 2..N PROVE f[i] = f[i - 1] \o seqs[i]
  <2>1. i \in 1..N /\ i # 1
    BY <1>1
  <2>2. f[i] = Flat(seqs, f, i)
    BY <1>4, <2>1
  <2> QED BY <2>1, <2>2 DEF Flat
<1> QED BY <1>3, <1>5, <1>6

\* r is what C picks of the first n of s, in order.
InOrder(r, s, n, C, h) ==
  /\ IsList(r)
  /\ \A k \in 1..Len(r) : h[k] \in 1..n /\ h[k] \in C /\ r[k] = s[h[k]]
  /\ \A k, l \in 1..Len(r) : k < l => h[k] < h[l]
  /\ \A i \in 1..n : i \in C => \E k \in 1..Len(r) : h[k] = i

LEMMA OrderMore ==
  ASSUME NEW s, IsList(s), NEW n \in Nat, n + 1 \in 1..Len(s), NEW C, NEW r, NEW h, InOrder(r, s, n, C, h)
  PROVE  \E g : InOrder(r \o (IF n + 1 \in C THEN <<s[n + 1]>> ELSE <<>>), s, n + 1, C, g)
<1>1. CASE n + 1 \notin C
  <2>1. r \o <<>> = r
    BY DEF InOrder, IsList
  <2>2. InOrder(r, s, n + 1, C, h)
    BY <1>1 DEF InOrder
  <2> QED BY <1>1, <2>1, <2>2
<1>2. CASE n + 1 \in C
  <2> DEFINE m == Len(r)
             q == r \o <<s[n + 1]>>
             g == [k \in 1..(m + 1) |-> IF k = m + 1 THEN n + 1 ELSE h[k]]
  <2>1. IsList(q) /\ Len(q) = m + 1 /\ m \in Nat /\ (\A k \in 1..m : q[k] = r[k]) /\ q[m + 1] = s[n + 1]
    <3>1. IsList(<<s[n + 1]>>) /\ Len(<<s[n + 1]>>) = 1 /\ <<s[n + 1]>>[1] = s[n + 1]
      BY TupleIsList
    <3>2. IsList(r) /\ m \in Nat
      BY ListIs DEF InOrder
    <3> QED BY <3>1, <3>2, JoinLists
  <2>2. g[m + 1] = n + 1 /\ \A k \in 1..m : g[k] = h[k] /\ k \in 1..(m + 1) /\ k # m + 1
    BY <2>1
  <2>3. \A k \in 1..m : h[k] \in 1..n /\ h[k] \in C /\ r[k] = s[h[k]]
    BY DEF InOrder
  <2> HIDE DEF q, g
  <2>4. \A k \in 1..(m + 1) : g[k] \in 1..(n + 1) /\ g[k] \in C /\ q[k] = s[g[k]]
    <3> TAKE k \in 1..(m + 1)
    <3>1. CASE k = m + 1
      BY <1>2, <2>1, <2>2, <3>1
    <3>2. CASE k # m + 1
      <4>1. k \in 1..m
        BY <2>1, <3>2
      <4> QED BY <2>1, <2>2, <2>3, <4>1
    <3> QED BY <3>1, <3>2
  <2>5. \A k, l \in 1..(m + 1) : k < l => g[k] < g[l]
    <3> SUFFICES ASSUME NEW k \in 1..(m + 1), NEW l \in 1..(m + 1), k < l PROVE g[k] < g[l]
      OBVIOUS
    <3>1. k \in 1..m
      BY <2>1
    <3>2. CASE l = m + 1
      BY <2>2, <2>3, <3>1, <3>2
    <3>3. CASE l # m + 1
      <4>1. l \in 1..m
        BY <2>1, <3>3
      <4>2. h[k] < h[l]
        BY <3>1, <4>1 DEF InOrder
      <4> QED BY <2>2, <3>1, <4>1, <4>2
    <3> QED BY <3>2, <3>3
  <2>6. \A i \in 1..(n + 1) : i \in C => \E k \in 1..(m + 1) : g[k] = i
    <3> SUFFICES ASSUME NEW i \in 1..(n + 1), i \in C PROVE \E k \in 1..(m + 1) : g[k] = i
      OBVIOUS
    <3>1. CASE i = n + 1
      <4>1. m + 1 \in 1..(m + 1)
        BY <2>1
      <4> QED BY <2>2, <3>1, <4>1
    <3>2. CASE i # n + 1
      <4>1. i \in 1..n
        BY <3>2
      <4>2. PICK k \in 1..m : h[k] = i
        BY <4>1 DEF InOrder
      <4> QED BY <2>2, <4>2
    <3> QED BY <3>1, <3>2
  <2>7. InOrder(q, s, n + 1, C, g)
    BY <2>1, <2>4, <2>5, <2>6 DEF InOrder
  <2> QED BY <1>2, <2>7 DEF q
<1> QED BY <1>1, <1>2

(* What Select takes of a list stands in the order of the list.             *)
LEMMA PickedInOrder ==
  ASSUME NEW s, IsList(s), NEW C
  PROVE  \E h : InOrder(Picked(s, C), s, Len(s), C, h)
<1> DEFINE N == Len(s)
           g == [i \in 1..N |-> IF i \in C THEN <<s[i]>> ELSE <<>>]
           r == Picked(s, C)
<1>1. N \in Nat /\ DOMAIN s = 1..N
  BY ListIs
<1>2. r = FlattenSeq(g \o <<>>) /\ g = [i \in 1..N |-> g[i]]
      /\ \A i \in 1..N : g[i] = IF i \in C THEN <<s[i]>> ELSE <<>>
  BY <1>1 DEF Picked
<1>3. g \o <<>> = g /\ Len(g) = N
  BY <1>1, <1>2, FunctionIsList
<1>4. g \in Seq(Seq(Range(s)))
  <2>1. \A i \in 1..N : s[i] \in Range(s)
    BY <1>1 DEF Range
  <2>2. \A i \in 1..N : g[i] \in Seq(Range(s))
    BY <2>1
  <2> HIDE DEF g
  <2> QED BY <1>1, <1>2, <2>2
<1> HIDE DEF g, r
<1>5. CASE N = 0
  <2>1. g = <<>>
    BY <1>3, <1>4, <1>5
  <2>2. r = <<>>
    BY <1>2, <1>3, <2>1 DEF FlattenSeq
  <2>3. InOrder(r, s, N, C, <<>>)
    BY <1>5, <2>2, NoElements DEF InOrder
  <2> QED BY <2>3 DEF r
<1>6. CASE N # 0
  <2>1. PICK f : /\ FlattenSeq(g) = f[N] /\ f[1] = g[1]
                 /\ \A i \in 2..N : f[i] = f[i - 1] \o g[i]
    <3>1. Len(g) # 0
      BY <1>3, <1>6
    <3>2. \E f : /\ FlattenSeq(g) = f[Len(g)] /\ f[1] = g[1]
                 /\ \A i \in 2..Len(g) : f[i] = f[i - 1] \o g[i]
      BY <1>4, <3>1, FlatSteps
    <3> QED BY <1>3, <3>2
  <2> DEFINE I == {n \in Nat : n + 1 <= N => \E h : InOrder(f[n + 1], s, n + 1, C, h)}
  <2>2. 0 \in I
    <3>1. InOrder(<<>>, s, 0, C, <<>>)
      BY NoElements DEF InOrder
    <3>2. 0 + 1 \in 1..N
      BY <1>1, <1>6
    <3>3. \E h : InOrder(<<>> \o (IF 0 + 1 \in C THEN <<s[0 + 1]>> ELSE <<>>), s, 0 + 1, C, h)
      BY <3>1, <3>2, OrderMore
    <3>4. <<>> \o (IF 0 + 1 \in C THEN <<s[0 + 1]>> ELSE <<>>) = f[1]
      <4>1. g[1] = IF 1 \in C THEN <<s[1]>> ELSE <<>>
        BY <1>2, <3>2
      <4>2. \A x : <<>> \o <<x>> = <<x>>
        OBVIOUS
      <4>3. <<>> \o <<>> = <<>>
        OBVIOUS
      <4> QED BY <2>1, <4>1, <4>2, <4>3
    <3> QED BY <3>3, <3>4
  <2>3. ASSUME NEW n \in I PROVE n + 1 \in I
    <3> SUFFICES ASSUME n + 2 <= N PROVE \E h : InOrder(f[n + 2], s, n + 2, C, h)
      OBVIOUS
    <3>1. n \in Nat /\ n + 1 \in Nat /\ (n + 1) + 1 = n + 2 /\ n + 2 \in 1..N /\ n + 2 \in 2..N /\ (n + 2) - 1 = n + 1
      BY <1>1
    <3>2. PICK h : InOrder(f[n + 1], s, n + 1, C, h)
      BY <3>1
    <3>3. f[n + 2] = f[n + 1] \o (IF n + 2 \in C THEN <<s[n + 2]>> ELSE <<>>)
      BY <1>2, <2>1, <3>1
    <3>4. \E q : InOrder(f[n + 1] \o (IF (n + 1) + 1 \in C THEN <<s[(n + 1) + 1]>> ELSE <<>>), s, (n + 1) + 1, C, q)
      BY <3>1, <3>2, OrderMore
    <3> QED BY <3>1, <3>3, <3>4
  <2> HIDE DEF I
  <2>4. I = Nat
    BY <2>2, <2>3, Induction DEF I
  <2>5. N - 1 \in I /\ (N - 1) + 1 = N
    BY <1>1, <1>6, <2>4
  <2>6. \E h : InOrder(f[N], s, N, C, h)
    BY <1>1, <2>5 DEF I
  <2> QED BY <1>2, <1>3, <2>1, <2>6 DEF r
<1> QED BY <1>5, <1>6

LEMMA SmallestIs ==
  ASSUME NEW I \in SUBSET Nat, I # {}
  PROVE  Min(I) \in I /\ \A j \in I : Min(I) <= j
<1> DEFINE R == OpToRel(<, Nat)
<1>1. IsWellFoundedOn(R, Nat)
  BY NatLessThanWellFounded
<1>2. \A i, j \in Nat : i < j => <<i, j>> \in R
  BY DEF OpToRel
<1> HIDE DEF R
<1>3. PICK n \in I : \A m \in I : ~(<<m, n>> \in R)
  BY <1>1, WFMin
<1>4. ASSUME NEW m \in I PROVE n <= m
  <2>1. n \in Nat /\ m \in Nat /\ ~(m < n)
    BY <1>2, <1>3
  <2> QED BY <2>1
<1>5. Min(I) = CHOOSE x \in I : \A y \in I : x <= y
  BY DEF Min
<1> QED BY <1>3, <1>4, <1>5

\* The i-th is the first of state that is t; of columns, that has the name.
FirstTable(state, t, i) == i \in 1..Len(state) /\ Same(state[i], t) /\ \A j \in 1..(i - 1) : ~Same(state[j], t)
FirstColumn(cols, n, i) == i \in 1..Len(cols) /\ cols[i].name = n /\ \A j \in 1..(i - 1) : cols[j].name # n

LEMMA FirstTableIs ==
  ASSUME NEW state, IsList(state), NEW t
  PROVE  /\ Knows(state, t) => \E i : FirstTable(state, t, i)
         /\ \A i : FirstTable(state, t, i) =>
              Knows(state, t) /\ Find(state, t) = state[i] /\ TableIndex(state, t) = i
         /\ ~Knows(state, t) => TableIndex(state, t) = 0
<1> DEFINE I == {i \in 1..Len(state) : Same(state[i], t)}
           n == TableIndex(state, t)
<1>1. n = IF I # {} THEN Min(I) ELSE 0
  BY DEF SelectInSeq, TableIndex
<1>2. Len(state) \in Nat /\ DOMAIN state = 1..Len(state)
  BY ListIs
<1>3. I \in SUBSET Nat
  BY <1>2
<1>4. Knows(state, t) <=> I # {}
  BY <1>2 DEF Knows
<1>5. Find(state, t) = state[n]
  BY DEF Find
<1>6. \A i : i \in I <=> i \in 1..Len(state) /\ Same(state[i], t)
  OBVIOUS
<1> HIDE DEF n, I
<1>7. ASSUME I # {} PROVE n \in I /\ \A j \in I : n <= j
  BY <1>1, <1>3, <1>7, SmallestIs
<1>8. ASSUME I # {} PROVE FirstTable(state, t, n)
  <2>1. n \in 1..Len(state) /\ Same(state[n], t) /\ \A j \in I : n <= j
    BY <1>6, <1>7, <1>8
  <2>2. \A j \in 1..(n - 1) : ~Same(state[j], t)
    BY <1>2, <1>6, <2>1
  <2> QED BY <2>1, <2>2 DEF FirstTable
<1>9. ASSUME NEW i, FirstTable(state, t, i) PROVE I # {} /\ n = i
  <2>1. i \in 1..Len(state) /\ i \in I
    BY <1>6, <1>9 DEF FirstTable
  <2>2. n \in 1..Len(state) /\ Same(state[n], t) /\ n <= i
    BY <1>6, <1>7, <2>1
  <2>3. ~(n \in 1..(i - 1))
    BY <1>9, <2>2 DEF FirstTable
  <2> QED BY <1>2, <2>1, <2>2, <2>3
<1>10. \A i : FirstTable(state, t, i) => Knows(state, t) /\ Find(state, t) = state[i] /\ n = i
  BY <1>4, <1>5, <1>9
<1>11. ~Knows(state, t) => n = 0
  BY <1>1, <1>4
<1>12. Knows(state, t) => \E i : FirstTable(state, t, i)
  BY <1>4, <1>8
<1> QED BY <1>10, <1>11, <1>12 DEF n

LEMMA FirstColumnIs ==
  ASSUME NEW cols, IsList(cols), NEW n
  PROVE  /\ (\E i \in DOMAIN cols : cols[i].name = n) => \E i : FirstColumn(cols, n, i)
         /\ \A i : FirstColumn(cols, n, i) =>
              (\E j \in DOMAIN cols : cols[j].name = n) /\ ColumnIndex(cols, n) = i
         /\ ~(\E i \in DOMAIN cols : cols[i].name = n) => ColumnIndex(cols, n) = 0
<1> DEFINE I == {i \in 1..Len(cols) : cols[i].name = n}
           m == ColumnIndex(cols, n)
           has == \E i \in DOMAIN cols : cols[i].name = n
<1>1. m = IF I # {} THEN Min(I) ELSE 0
  BY DEF SelectInSeq, ColumnIndex
<1>2. Len(cols) \in Nat /\ DOMAIN cols = 1..Len(cols)
  BY ListIs
<1>3. I \in SUBSET Nat
  BY <1>2
<1>4. has <=> I # {}
  BY <1>2
<1>6. \A i : i \in I <=> i \in 1..Len(cols) /\ cols[i].name = n
  OBVIOUS
<1> HIDE DEF m, I, has
<1>7. ASSUME I # {} PROVE m \in I /\ \A j \in I : m <= j
  BY <1>1, <1>3, <1>7, SmallestIs
<1>8. ASSUME I # {} PROVE FirstColumn(cols, n, m)
  <2>1. m \in 1..Len(cols) /\ cols[m].name = n /\ \A j \in I : m <= j
    BY <1>6, <1>7, <1>8
  <2>2. \A j \in 1..(m - 1) : cols[j].name # n
    BY <1>2, <1>6, <2>1
  <2> QED BY <2>1, <2>2 DEF FirstColumn
<1>9. ASSUME NEW i, FirstColumn(cols, n, i) PROVE I # {} /\ m = i
  <2>1. i \in 1..Len(cols) /\ i \in I
    BY <1>6, <1>9 DEF FirstColumn
  <2>2. m \in 1..Len(cols) /\ cols[m].name = n /\ m <= i
    BY <1>6, <1>7, <2>1
  <2>3. ~(m \in 1..(i - 1))
    BY <1>9, <2>2 DEF FirstColumn
  <2> QED BY <1>2, <2>1, <2>2, <2>3
<1>10. \A i : FirstColumn(cols, n, i) => has /\ m = i
  BY <1>4, <1>9
<1>11. ~has => m = 0
  BY <1>1, <1>4
<1>12. has => \E i : FirstColumn(cols, n, i)
  BY <1>4, <1>8
<1> QED BY <1>10, <1>11, <1>12 DEF m, has

\* A replayed state; the table an operation is about.
IsState(state) ==
  /\ IsList(state)
  /\ \A i \in 1..Len(state) :
       /\ state[i] = [name |-> state[i].name, schema |-> state[i].schema, columns |-> state[i].columns]
       /\ AreColumns(state[i].columns)

LEMMA FirstIsTheSame ==
  ASSUME NEW state, IsList(state), NEW t, NEW i, NEW j, FirstTable(state, t, i), FirstTable(state, t, j)
  PROVE  i = j
<1>1. Len(state) \in Nat
  BY ListIs
<1> QED BY <1>1 DEF FirstTable

\* next is state with cols for the columns of the first k.
Edited(state, k, cols, next) ==
  /\ IsState(next)
  /\ \A t : Knows(next, t) <=> Knows(state, t)
  /\ \A t : Knows(state, t) =>
       Find(next, t).columns = IF Same(k, t) THEN cols ELSE Find(state, t).columns

LEMMA EditedIs ==
  ASSUME NEW state, IsState(state), NEW k, NEW i, FirstTable(state, k, i), NEW cols, AreColumns(cols),
         NEW next, next = [state EXCEPT ![i].columns = cols]
  PROVE  Edited(state, k, cols, next)
<1>1. /\ IsList(state) /\ Len(state) \in Nat /\ DOMAIN state = 1..Len(state) /\ i \in 1..Len(state)
      /\ state = [j \in 1..Len(state) |-> state[j]] /\ Same(state[i], k)
  BY ListIs DEF IsState, FirstTable
<1>2. state[i] = [name |-> state[i].name, schema |-> state[i].schema, columns |-> state[i].columns]
  BY <1>1 DEF IsState
<1> DEFINE u == [name |-> state[i].name, schema |-> state[i].schema, columns |-> cols]
<1>3. [state[i] EXCEPT !.columns = cols] = u
  BY <1>2
<1>4. next = [j \in 1..Len(state) |-> IF j = i THEN u ELSE state[j]]
  BY <1>1, <1>3
<1>5. u.name = state[i].name /\ u.schema = state[i].schema /\ u.columns = cols
      /\ u = [name |-> u.name, schema |-> u.schema, columns |-> u.columns]
  OBVIOUS
<1> HIDE DEF u
<1>6. IsList(next) /\ Len(next) = Len(state) /\ DOMAIN next = 1..Len(state)
  BY <1>1, <1>4, FunctionIsList
<1>7. next[i] = u /\ \A j \in 1..Len(state) : j # i => next[j] = state[j]
  BY <1>1, <1>4
<1>8. \A t : \A j \in 1..Len(state) : Same(next[j], t) <=> Same(state[j], t)
  BY <1>5, <1>7 DEF Same
<1>9. \A t : \A j : FirstTable(state, t, j) <=> FirstTable(next, t, j)
  <2> TAKE t
  <2> TAKE j
  <2>1. \A l \in 1..(j - 1) : j \in 1..Len(state) => l \in 1..Len(state)
    BY <1>1
  <2> QED BY <1>6, <1>8, <2>1 DEF FirstTable
<1>10. IsState(next)
  <2>1. ASSUME NEW j \in 1..Len(state)
        PROVE  /\ next[j] = [name |-> next[j].name, schema |-> next[j].schema, columns |-> next[j].columns]
               /\ AreColumns(next[j].columns)
    <3>1. CASE j = i
      BY <1>5, <1>7, <3>1
    <3>2. CASE j # i
      BY <1>7, <3>2 DEF IsState
    <3> QED BY <3>1, <3>2
  <2> QED BY <1>6, <2>1 DEF IsState
<1>11. ASSUME NEW t PROVE Knows(next, t) <=> Knows(state, t)
  <2>1. Knows(next, t) <=> \E j : FirstTable(next, t, j)
    BY <1>6, FirstTableIs
  <2>2. Knows(state, t) <=> \E j : FirstTable(state, t, j)
    BY <1>1, FirstTableIs
  <2> QED BY <1>9, <2>1, <2>2
<1>12. ASSUME NEW t, Knows(state, t)
       PROVE  Find(next, t).columns = IF Same(k, t) THEN cols ELSE Find(state, t).columns
  <2>1. PICK j : FirstTable(state, t, j)
    BY <1>1, <1>12, FirstTableIs
  <2>2. Find(state, t) = state[j] /\ Find(next, t) = next[j] /\ j \in 1..Len(state) /\ Same(state[j], t)
    <3>1. FirstTable(next, t, j)
      BY <1>9, <2>1
    <3>2. Find(next, t) = next[j]
      BY <1>6, <3>1, FirstTableIs
    <3>3. Find(state, t) = state[j]
      BY <1>1, <2>1, FirstTableIs
    <3> QED BY <2>1, <3>2, <3>3 DEF FirstTable
  <2>3. CASE Same(k, t)
    <3>1. FirstTable(state, t, i)
      BY <2>3 DEF FirstTable, Same
    <3>2. i = j
      BY <1>1, <2>1, <3>1, FirstIsTheSame
    <3> QED BY <1>5, <1>7, <2>2, <2>3, <3>2
  <2>4. CASE ~Same(k, t)
    <3>1. i # j
      BY <1>1, <2>2, <2>4 DEF Same
    <3> QED BY <1>7, <2>2, <2>4, <3>1
  <2> QED BY <2>3, <2>4
<1> QED BY <1>10, <1>11, <1>12 DEF Edited

LEMMA ColumnsShape ==
  ASSUME NEW state, IsState(state), NEW t, Knows(state, t)
  PROVE  AreColumns(Find(state, t).columns)
<1>1. IsList(state)
  BY DEF IsState
<1>2. PICK i : FirstTable(state, t, i)
  BY <1>1, FirstTableIs
<1>3. Find(state, t) = state[i] /\ i \in 1..Len(state)
  BY <1>1, <1>2, FirstTableIs DEF FirstTable
<1> QED BY <1>3 DEF IsState

LEMMA ColumnsJoin ==
  ASSUME NEW cols, AreColumns(cols), NEW more, AreColumns(more)
  PROVE  AreColumns(cols \o more)
<1>1. IsList(cols) /\ IsList(more) /\ \A c \in Range(cols) \cup Range(more) : IsColumn(c)
  BY DEF AreColumns, Range
<1>2. IsList(cols \o more) /\ Range(cols \o more) = Range(cols) \cup Range(more)
  BY <1>1, JoinLists
<1>3. \A i \in DOMAIN (cols \o more) : (cols \o more)[i] \in Range(cols \o more)
  BY DEF Range
<1> QED BY <1>1, <1>2, <1>3 DEF AreColumns

\* An operation that edits the columns of a table.
Edits(state, op, next, cols) ==
  /\ ~Knows(state, TableOf(op)) => next = state
  /\ \A i : FirstTable(state, TableOf(op), i) => next = [state EXCEPT ![i].columns = cols]

LEMMA EditsIs ==
  ASSUME NEW state, IsState(state), NEW op, NEW next, NEW cols,
         Knows(state, TableOf(op)) => AreColumns(cols), Edits(state, op, next, cols)
  PROVE  Edited(state, TableOf(op), cols, next)
<1>1. IsList(state)
  BY DEF IsState
<1>2. CASE ~Knows(state, TableOf(op))
  <2>1. next = state
    BY <1>2 DEF Edits
  <2>2. \A t : Knows(state, t) => ~Same(TableOf(op), t)
    <3> SUFFICES ASSUME NEW t, Knows(state, t), Same(TableOf(op), t) PROVE FALSE
      OBVIOUS
    <3>1. Knows(state, TableOf(op))
      BY DEF Knows, Same
    <3> QED BY <1>2, <3>1
  <2> QED BY <2>1, <2>2 DEF Edited
<1>3. CASE Knows(state, TableOf(op))
  <2>1. PICK i : FirstTable(state, TableOf(op), i)
    BY <1>1, <1>3, FirstTableIs
  <2>2. next = [state EXCEPT ![i].columns = cols]
    BY <2>1 DEF Edits
  <2>3. AreColumns(cols)
    BY <1>3
  <2> QED BY <2>1, <2>2, <2>3, EditedIs
<1> QED BY <1>2, <1>3

LEMMA AddEdits ==
  ASSUME NEW state, IsState(state), NEW op, op.kind = "AddField"
  PROVE  Edits(state, op, ApplyOperation(state, op), Find(state, TableOf(op)).columns \o op.columns)
<1> DEFINE n == TableIndex(state, TableOf(op))
           next == ApplyOperation(state, op)
<1>1. next = OnTable(state, op, LAMBDA cols : cols \o op.columns)
  BY Zenon DEF ApplyOperation
<1>2. next = IF n = 0 THEN state ELSE [state EXCEPT ![n].columns = @ \o op.columns]
  BY <1>1 DEF OnTable
<1>3. n = TableIndex(state, TableOf(op))
  OBVIOUS
<1> HIDE DEF n, next
<1>4. IsList(state) /\ Len(state) \in Nat
  BY ListIs DEF IsState
<1>5. ~Knows(state, TableOf(op)) => next = state
  BY <1>2, <1>3, <1>4, FirstTableIs
<1>6. ASSUME NEW i, FirstTable(state, TableOf(op), i)
      PROVE  next = [state EXCEPT ![i].columns = Find(state, TableOf(op)).columns \o op.columns]
  <2>1. n = i /\ Find(state, TableOf(op)) = state[i] /\ i # 0
    BY <1>3, <1>4, <1>6, FirstTableIs DEF FirstTable
  <2> QED BY <1>2, <2>1
<1> QED BY <1>5, <1>6 DEF Edits, next

\* The columns with one of a name altered.
AlteredTo(cols, name, c) ==
  [i \in DOMAIN cols |-> IF FirstColumn(cols, name, i) THEN Altering(cols[i], c) ELSE cols[i]]

LEMMA AlterEdits ==
  ASSUME NEW state, IsState(state), NEW op, op.kind = "AlterField"
  PROVE  Edits(state, op, ApplyOperation(state, op),
               AlteredTo(Find(state, TableOf(op)).columns, op.columns[1].name, op.columns[2]))
<1> DEFINE n == TableIndex(state, TableOf(op))
           name == op.columns[1].name
           m(cols) == ColumnIndex(cols, name)
           Edit(cols) == AlterIn(cols, op.columns[1], op.columns[2])
           next == ApplyOperation(state, op)
<1>1. next = OnTable(state, op, LAMBDA cols : AlterIn(cols, op.columns[1], op.columns[2]))
  BY Zenon DEF ApplyOperation
<1>2. next = IF n = 0 THEN state ELSE [state EXCEPT ![n].columns = Edit(@)]
  BY <1>1 DEF OnTable
<1>3. n = TableIndex(state, TableOf(op))
  OBVIOUS
<1>4. IsList(state) /\ Len(state) \in Nat
  BY ListIs DEF IsState
<1>5. ASSUME NEW cols, AreColumns(cols) PROVE Edit(cols) = AlteredTo(cols, name, op.columns[2])
  <2>1. IsList(cols) /\ DOMAIN cols = 1..Len(cols) /\ Len(cols) \in Nat /\ cols = [i \in 1..Len(cols) |-> cols[i]]
    BY <1>5, ListIs DEF AreColumns
  <2> HIDE DEF name
  <2>2. /\ \A i : FirstColumn(cols, name, i) => m(cols) = i
        /\ (\E i \in DOMAIN cols : cols[i].name = name) => \E i : FirstColumn(cols, name, i)
        /\ ~(\E i \in DOMAIN cols : cols[i].name = name) => m(cols) = 0
    BY <2>1, FirstColumnIs
  <2>9. Edit(cols) = IF m(cols) = 0 THEN cols ELSE [cols EXCEPT ![m(cols)] = Altering(cols[m(cols)], op.columns[2])]
    BY Zenon DEF AlterIn, name
  <2> HIDE DEF m, name, Edit
  <2>3. CASE \E i : FirstColumn(cols, name, i)
    <3>1. PICK j : FirstColumn(cols, name, j)
      BY <2>3
    <3>2. m(cols) = j /\ j \in 1..Len(cols) /\ j # 0
      BY <2>2, <3>1 DEF FirstColumn
    <3>3. \A i : FirstColumn(cols, name, i) <=> i = j
      BY <2>2, <3>1, <3>2
    <3>4. Edit(cols) = [cols EXCEPT ![j] = Altering(cols[j], op.columns[2])]
      BY <2>9, <3>2
    <3>5. AlteredTo(cols, name, op.columns[2]) =
            [i \in DOMAIN cols |-> IF i = j THEN Altering(cols[i], op.columns[2]) ELSE cols[i]]
      BY <3>3, Zenon DEF AlteredTo
    <3> QED BY <2>1, <3>4, <3>5
  <2>4. CASE ~(\E i : FirstColumn(cols, name, i))
    <3>1. Edit(cols) = cols
      BY <2>2, <2>4, <2>9
    <3>2. AlteredTo(cols, name, op.columns[2]) = [i \in DOMAIN cols |-> cols[i]]
      BY <2>4, Zenon DEF AlteredTo
    <3> QED BY <2>1, <3>1, <3>2
  <2> QED BY <2>3, <2>4
<1> HIDE DEF n, next, Edit
<1>6. ~Knows(state, TableOf(op)) => next = state
  BY <1>2, <1>3, <1>4, FirstTableIs
<1>7. ASSUME NEW i, FirstTable(state, TableOf(op), i)
      PROVE  next = [state EXCEPT ![i].columns =
                       AlteredTo(Find(state, TableOf(op)).columns, op.columns[1].name, op.columns[2])]
  <2>1. n = i /\ Find(state, TableOf(op)) = state[i] /\ i # 0 /\ i \in 1..Len(state)
    BY <1>3, <1>4, <1>7, FirstTableIs DEF FirstTable
  <2>2. Edit(state[i].columns) = AlteredTo(state[i].columns, name, op.columns[2])
    BY <1>5, <2>1 DEF IsState
  <2> QED BY <1>2, <2>1, <2>2
<1> QED BY <1>6, <1>7 DEF Edits, next

\* The column of a name in cols; in a table of a state.
Gives(cols, n, c) == \E i : FirstColumn(cols, n, i) /\ c = cols[i]
Shows(state, t, n, c) == Knows(state, t) /\ Gives(Find(state, t).columns, n, c)

LEMMA GivesOne ==
  ASSUME NEW cols, IsList(cols), NEW n
  PROVE  /\ \A c, d : Gives(cols, n, c) /\ Gives(cols, n, d) => c = d
         /\ \A c : Gives(cols, n, c) => c \in Range(cols) /\ c.name = n
         /\ \A c \in Range(cols) : c.name = n => \E d : Gives(cols, n, d)
<1>1. Len(cols) \in Nat /\ DOMAIN cols = 1..Len(cols)
  BY ListIs
<1>2. ASSUME NEW i, NEW j, FirstColumn(cols, n, i), FirstColumn(cols, n, j) PROVE i = j
  BY <1>1, <1>2 DEF FirstColumn
<1>3. \A c, d : Gives(cols, n, c) /\ Gives(cols, n, d) => c = d
  BY <1>2 DEF Gives
<1>4. ASSUME NEW c, Gives(cols, n, c) PROVE c \in Range(cols) /\ c.name = n
  BY <1>1, <1>4 DEF Gives, FirstColumn, Range
<1>5. ASSUME NEW c \in Range(cols), c.name = n PROVE \E d : Gives(cols, n, d)
  <2>1. \E i \in DOMAIN cols : cols[i].name = n
    BY <1>5, ElementIs
  <2>2. PICK i : FirstColumn(cols, n, i)
    BY <2>1, FirstColumnIs
  <2> QED BY <2>2 DEF Gives
<1> QED BY <1>3, <1>4, <1>5

LEMMA HasIs ==
  ASSUME NEW t, IsList(t.columns), NEW n
  PROVE  /\ HasColumn(t, n) <=> \E c : Gives(t.columns, n, c)
         /\ \A c : Gives(t.columns, n, c) => ColumnOf(t, n) = c
<1> DEFINE cols == t.columns
<1>1. IsList(cols)
  OBVIOUS
<1>2. HasColumn(t, n) <=> \E i \in DOMAIN cols : cols[i].name = n
  BY DEF HasColumn
<1>3. ColumnOf(t, n) = cols[ColumnIndex(cols, n)]
  BY DEF ColumnOf
<1> HIDE DEF cols
<1>4. /\ (\E i \in DOMAIN cols : cols[i].name = n) => \E i : FirstColumn(cols, n, i)
      /\ \A i : FirstColumn(cols, n, i) => (\E j \in DOMAIN cols : cols[j].name = n) /\ ColumnIndex(cols, n) = i
  BY <1>1, FirstColumnIs
<1>5. HasColumn(t, n) <=> \E c : Gives(cols, n, c)
  BY <1>2, <1>4 DEF Gives
<1>6. \A c : Gives(cols, n, c) => ColumnOf(t, n) = c
  BY <1>3, <1>4 DEF Gives
<1> QED BY <1>5, <1>6 DEF cols

LEMMA GivesJoin ==
  ASSUME NEW cols, IsList(cols), NEW x, NEW n
  PROVE  /\ \A c : Gives(cols, n, c) => Gives(cols \o <<x>>, n, c)
         /\ \A c : Gives(cols \o <<x>>, n, c) => Gives(cols, n, c) \/ (c = x /\ x.name = n)
         /\ x.name = n => \E c : Gives(cols \o <<x>>, n, c)
<1> DEFINE m == Len(cols)
           q == cols \o <<x>>
<1>1. m \in Nat /\ DOMAIN cols = 1..m
  BY ListIs
<1>2. /\ IsList(q) /\ Len(q) = m + 1 /\ \A i \in 1..m : q[i] = cols[i]
      /\ q[m + 1] = x /\ Range(q) = Range(cols) \cup {x}
  <2>1. IsList(<<x>>) /\ Len(<<x>>) = 1 /\ <<x>>[1] = x /\ Range(<<x>>) = {x}
    BY TupleIsList
  <2>2. /\ IsList(q) /\ Len(q) = m + Len(<<x>>) /\ (\A i \in 1..m : q[i] = cols[i])
        /\ (\A i \in 1..Len(<<x>>) : q[m + i] = <<x>>[i]) /\ Range(q) = Range(cols) \cup Range(<<x>>)
    BY <2>1, JoinLists
  <2>3. 1 \in 1..Len(<<x>>)
    BY <2>1
  <2> HIDE DEF m, q
  <2> QED BY <2>1, <2>2, <2>3
<1> HIDE DEF m, q
<1>3. ASSUME NEW i, FirstColumn(cols, n, i) PROVE FirstColumn(q, n, i) /\ q[i] = cols[i]
  <2>1. i \in 1..m /\ cols[i].name = n /\ \A j \in 1..(i - 1) : cols[j].name # n
    BY <1>3 DEF FirstColumn, m
  <2>2. i \in 1..(m + 1) /\ \A j \in 1..(i - 1) : j \in 1..m
    BY <1>1, <2>1
  <2> QED BY <1>2, <2>1, <2>2 DEF FirstColumn
<1>4. ASSUME NEW i, FirstColumn(q, n, i) PROVE (i \in 1..m /\ FirstColumn(cols, n, i)) \/ (i = m + 1 /\ x.name = n)
  <2>1. i \in 1..(m + 1) /\ q[i].name = n /\ \A j \in 1..(i - 1) : q[j].name # n
    BY <1>2, <1>4 DEF FirstColumn
  <2>2. CASE i = m + 1
    BY <1>2, <2>1, <2>2
  <2>3. CASE i # m + 1
    <3>1. i \in 1..m /\ \A j \in 1..(i - 1) : j \in 1..m
      BY <1>1, <2>1, <2>3
    <3>2. FirstColumn(cols, n, i)
      BY <1>2, <2>1, <3>1 DEF FirstColumn, m
    <3> QED BY <3>1, <3>2
  <2> QED BY <2>2, <2>3
<1>5. \A c : Gives(cols, n, c) => Gives(q, n, c)
  BY <1>3 DEF Gives
<1>6. \A c : Gives(q, n, c) => Gives(cols, n, c) \/ (c = x /\ x.name = n)
  BY <1>2, <1>4 DEF Gives
<1>7. x.name = n => \E c : Gives(q, n, c)
  <2>1. x \in Range(q)
    BY <1>2
  <2> QED BY <1>2, <2>1, GivesOne
<1> QED BY <1>5, <1>6, <1>7 DEF q

LEMMA AlteredRecord ==
  ASSUME NEW c, NEW a1, NEW a2, NEW a3, NEW a4, NEW a5, NEW a6, NEW b2, NEW b3, NEW b5, NEW b6,
         c = [name |-> a1, type |-> a2, null |-> a3, pk |-> a4, unique |-> a5, default |-> a6]
  PROVE  [c EXCEPT !.type = b2, !.null = b3, !.unique = b5, !.default = b6]
         = [name |-> a1, type |-> b2, null |-> b3, pk |-> a4, unique |-> b5, default |-> b6]
<1> DEFINE c1 == [c EXCEPT !.type = b2]
           c2 == [c1 EXCEPT !.null = b3]
           c3 == [c2 EXCEPT !.unique = b5]
           c4 == [c3 EXCEPT !.default = b6]
<1>1. [c EXCEPT !.type = b2, !.null = b3, !.unique = b5, !.default = b6] = c4
  OBVIOUS
<1>2. c1 = [name |-> a1, type |-> b2, null |-> a3, pk |-> a4, unique |-> a5, default |-> a6]
  OBVIOUS
<1> HIDE DEF c1
<1>3. c2 = [name |-> a1, type |-> b2, null |-> b3, pk |-> a4, unique |-> a5, default |-> a6]
  BY <1>2
<1> HIDE DEF c2
<1>4. c3 = [name |-> a1, type |-> b2, null |-> b3, pk |-> a4, unique |-> b5, default |-> a6]
  BY <1>3
<1> HIDE DEF c3
<1>5. c4 = [name |-> a1, type |-> b2, null |-> b3, pk |-> a4, unique |-> b5, default |-> b6]
  BY <1>4
<1> HIDE DEF c4
<1> QED BY <1>1, <1>5

LEMMA AlteringIs ==
  ASSUME NEW c, IsColumn(c), NEW new, IsColumn(new)
  PROVE  /\ IsColumn(Altering(c, new)) /\ Altering(c, new).name = c.name
         /\ c.name = new.name /\ c.pk = new.pk => Altering(c, new) = new
<1>1. c = [name |-> c.name, type |-> c.type, null |-> c.null, pk |-> c.pk, unique |-> c.unique, default |-> c.default]
      /\ new = [name |-> new.name, type |-> new.type, null |-> new.null, pk |-> new.pk, unique |-> new.unique,
                default |-> new.default]
  BY DEF IsColumn
<1> DEFINE r == [name |-> c.name, type |-> new.type, null |-> new.null, pk |-> c.pk, unique |-> new.unique,
                 default |-> new.default]
<1>2. Altering(c, new) = r
  <2> DEFINE cn == c.name
             ct == c.type
             cu == c.null
             cp == c.pk
             cq == c.unique
             cd == c.default
  <2>1. c = [name |-> cn, type |-> ct, null |-> cu, pk |-> cp, unique |-> cq, default |-> cd]
    BY <1>1
  <2>2. r = [name |-> cn, type |-> new.type, null |-> new.null, pk |-> cp, unique |-> new.unique,
             default |-> new.default]
    OBVIOUS
  <2> HIDE DEF cn, ct, cu, cp, cq, cd, r
  <2>4. Altering(c, new)
        = [c EXCEPT !.type = new.type, !.null = new.null, !.unique = new.unique, !.default = new.default]
    BY Zenon DEF Altering
  <2>5. Altering(c, new)
        = [name |-> cn, type |-> new.type, null |-> new.null, pk |-> cp, unique |-> new.unique,
           default |-> new.default]
    BY <2>1, <2>4, AlteredRecord
  <2> QED BY <2>2, <2>5
<1>3. r.name = c.name /\ IsColumn(r)
  BY DEF IsColumn
<1>4. c.name = new.name /\ c.pk = new.pk => r = new
  BY <1>1
<1> QED BY <1>2, <1>3, <1>4

LEMMA GivesAltered ==
  ASSUME NEW cols, AreColumns(cols), NEW m, NEW x, IsColumn(x), NEW r, r = AlteredTo(cols, m, x)
  PROVE  /\ AreColumns(r)
         /\ \A n, c : Gives(r, n, c) => \E d : Gives(cols, n, d) /\ c = IF n = m THEN Altering(d, x) ELSE d
         /\ \A n, d : Gives(cols, n, d) => Gives(r, n, IF n = m THEN Altering(d, x) ELSE d)
<1>1. IsList(cols) /\ Len(cols) \in Nat /\ DOMAIN cols = 1..Len(cols) /\ \A i \in 1..Len(cols) : IsColumn(cols[i])
  BY ListIs DEF AreColumns
<1>2. /\ r = [i \in 1..Len(cols) |-> r[i]]
      /\ \A i \in 1..Len(cols) : r[i] = IF FirstColumn(cols, m, i) THEN Altering(cols[i], x) ELSE cols[i]
  BY <1>1, Zenon DEF AlteredTo
<1>3. IsList(r) /\ Len(r) = Len(cols) /\ DOMAIN r = 1..Len(cols)
  BY <1>1, <1>2, FunctionIsList
<1>4. ASSUME NEW i \in 1..Len(cols) PROVE IsColumn(r[i]) /\ r[i].name = cols[i].name
  <2>1. CASE FirstColumn(cols, m, i)
    <3>1. IsColumn(cols[i]) /\ r[i] = Altering(cols[i], x)
      BY <1>1, <1>2, <2>1
    <3>2. IsColumn(Altering(cols[i], x)) /\ Altering(cols[i], x).name = cols[i].name
      BY <3>1, AlteringIs
    <3> QED BY <3>1, <3>2
  <2>2. CASE ~FirstColumn(cols, m, i)
    BY <1>1, <1>2, <2>2
  <2> QED BY <2>1, <2>2
<1>5. AreColumns(r)
  BY <1>3, <1>4 DEF AreColumns
<1>6. ASSUME NEW n, NEW i PROVE FirstColumn(r, n, i) <=> FirstColumn(cols, n, i)
  <2>1. \A j \in 1..(i - 1) : i \in 1..Len(cols) => j \in 1..Len(cols)
    BY <1>1
  <2> QED BY <1>3, <1>4, <2>1 DEF FirstColumn
<1>7. ASSUME NEW n, NEW i, FirstColumn(cols, n, i)
      PROVE  r[i] = IF n = m THEN Altering(cols[i], x) ELSE cols[i]
  <2>1. i \in 1..Len(cols) /\ cols[i].name = n
    BY <1>7 DEF FirstColumn
  <2>2. CASE n = m
    BY <1>2, <1>7, <2>1, <2>2
  <2>3. CASE n # m
    <3>1. ~FirstColumn(cols, m, i)
      BY <2>1, <2>3 DEF FirstColumn
    <3> QED BY <1>2, <2>1, <2>3, <3>1
  <2> QED BY <2>2, <2>3
<1>8. ASSUME NEW n, NEW c, Gives(r, n, c)
      PROVE  \E d : Gives(cols, n, d) /\ c = IF n = m THEN Altering(d, x) ELSE d
  <2>1. PICK i : FirstColumn(r, n, i) /\ c = r[i]
    BY <1>8 DEF Gives
  <2>2. FirstColumn(cols, n, i) /\ c = IF n = m THEN Altering(cols[i], x) ELSE cols[i]
    BY <1>6, <1>7, <2>1
  <2>3. Gives(cols, n, cols[i])
    BY <2>2 DEF Gives
  <2> QED BY <2>2, <2>3
<1>9. ASSUME NEW n, NEW d, Gives(cols, n, d)
      PROVE  Gives(r, n, IF n = m THEN Altering(d, x) ELSE d)
  <2>1. PICK i : FirstColumn(cols, n, i) /\ d = cols[i]
    BY <1>9 DEF Gives
  <2>2. FirstColumn(r, n, i) /\ r[i] = IF n = m THEN Altering(d, x) ELSE d
    BY <1>6, <1>7, <2>1
  <2> QED BY <2>2 DEF Gives
<1> QED BY <1>5, <1>8, <1>9

LEMMA SameFind ==
  ASSUME NEW state, IsList(state), NEW k, NEW t, Same(k, t)
  PROVE  (Knows(state, k) <=> Knows(state, t)) /\ (Knows(state, t) => Find(state, k) = Find(state, t))
<1>1. \A i : Same(state[i], k) <=> Same(state[i], t)
  BY DEF Same
<1>2. Knows(state, k) <=> Knows(state, t)
  BY <1>1 DEF Knows
<1>3. ASSUME Knows(state, t) PROVE Find(state, k) = Find(state, t)
  <2>1. PICK i : FirstTable(state, t, i)
    BY <1>3, FirstTableIs
  <2>2. FirstTable(state, k, i)
    BY <1>1, <2>1 DEF FirstTable
  <2>3. Find(state, t) = state[i]
    BY <2>1, FirstTableIs
  <2>4. Find(state, k) = state[i]
    BY <2>2, FirstTableIs
  <2> QED BY <2>3, <2>4
<1> QED BY <1>2, <1>3

\* The columns left when those of a name are removed.
Removed(cols, n) == Picked(cols, {i \in DOMAIN cols : cols[i].name # n})

LEMMA RemovedShape ==
  ASSUME NEW cols, AreColumns(cols), NEW n
  PROVE  AreColumns(Removed(cols, n))
<1> DEFINE C == {i \in DOMAIN cols : cols[i].name # n}
           r == Picked(cols, C)
<1>1. IsList(cols) /\ \A i \in DOMAIN cols : IsColumn(cols[i])
  BY DEF AreColumns
<1> HIDE DEF C
<1>2. IsList(r) /\ \A x : x \in Range(r) <=> \E i \in DOMAIN cols : i \in C /\ x = cols[i]
  BY <1>1, PickedIs
<1> HIDE DEF r
<1>3. \A i \in DOMAIN r : r[i] \in Range(r)
  BY DEF Range
<1>4. \A i \in DOMAIN r : IsColumn(r[i])
  BY <1>1, <1>2, <1>3
<1>5. AreColumns(r)
  BY <1>2, <1>4 DEF AreColumns
<1> QED BY <1>5 DEF Removed, r, C

LEMMA RemoveEdits ==
  ASSUME NEW state, IsState(state), NEW op, op.kind = "RemoveField"
  PROVE  Edits(state, op, ApplyOperation(state, op),
               Removed(Find(state, TableOf(op)).columns, op.columns[1].name))
<1> DEFINE n == TableIndex(state, TableOf(op))
           name == op.columns[1].name
           Edit(cols) == Select(cols, LAMBDA c : c.name # name)
           next == ApplyOperation(state, op)
<1>1. next = OnTable(state, op, LAMBDA cols : Select(cols, LAMBDA c : c.name # op.columns[1].name))
  BY Zenon DEF ApplyOperation
<1>2. next = IF n = 0 THEN state ELSE [state EXCEPT ![n].columns = Edit(@)]
  BY <1>1 DEF OnTable
<1>3. n = TableIndex(state, TableOf(op))
  OBVIOUS
<1>4. IsList(state) /\ Len(state) \in Nat
  BY ListIs DEF IsState
<1>5. ASSUME NEW cols PROVE Edit(cols) = Removed(cols, name)
  <2> HIDE DEF name
  <2> DEFINE C == {i \in DOMAIN cols : cols[i].name # name}
  <2>1. [i \in DOMAIN cols |-> IF i \in C THEN <<cols[i]>> ELSE <<>>]
        = [i \in DOMAIN cols |-> IF cols[i].name # name THEN <<cols[i]>> ELSE <<>>]
    OBVIOUS
  <2> QED BY <2>1 DEF Removed, Select, Collect, MapTo, Picked
<1> HIDE DEF n, next, Edit
<1>6. ~Knows(state, TableOf(op)) => next = state
  BY <1>2, <1>3, <1>4, FirstTableIs
<1>7. ASSUME NEW i, FirstTable(state, TableOf(op), i)
      PROVE  next = [state EXCEPT ![i].columns = Removed(Find(state, TableOf(op)).columns, op.columns[1].name)]
  <2>1. n = i /\ Find(state, TableOf(op)) = state[i] /\ i # 0
    BY <1>3, <1>4, <1>7, FirstTableIs DEF FirstTable
  <2> QED BY <1>2, <1>5, <2>1
<1> QED BY <1>6, <1>7 DEF Edits, next

LEMMA JoinOne ==
  ASSUME NEW s, IsList(s), NEW x
  PROVE  /\ IsList(s \o <<x>>) /\ Len(s \o <<x>>) = Len(s) + 1
         /\ \A i \in 1..Len(s) : (s \o <<x>>)[i] = s[i]
         /\ (s \o <<x>>)[Len(s) + 1] = x
<1> DEFINE m == Len(s)
           q == s \o <<x>>
<1>1. IsList(<<x>>) /\ Len(<<x>>) = 1 /\ <<x>>[1] = x /\ Range(<<x>>) = {x}
  BY TupleIsList
<1>2. /\ IsList(q) /\ Len(q) = m + Len(<<x>>) /\ (\A i \in 1..m : q[i] = s[i])
      /\ (\A i \in 1..Len(<<x>>) : q[m + i] = <<x>>[i]) /\ Range(q) = Range(s) \cup Range(<<x>>)
  BY <1>1, JoinLists
<1>3. 1 \in 1..Len(<<x>>)
  BY <1>1
<1> HIDE DEF m, q
<1>4. q[m + 1] = x
  BY <1>1, <1>2, <1>3
<1>5. Len(q) = m + 1
  BY <1>1, <1>2
<1> QED BY <1>2, <1>4, <1>5 DEF m, q

\* Of a table that is created there is one afterwards, and it is as created.
Remade(state, op, next) ==
  /\ IsState(next)
  /\ \A t : Same(TableOf(op), t) => Knows(next, t) /\ Find(next, t).columns = op.columns
  /\ \A t : ~Same(TableOf(op), t) =>
       /\ Knows(next, t) <=> Knows(state, t)
       /\ Knows(state, t) => Find(next, t) = Find(state, t)

LEMMA CreateApplies ==
  ASSUME NEW state, IsState(state), NEW op, op.kind = "CreateTable", AreColumns(op.columns)
  PROVE  Remade(state, op, ApplyOperation(state, op))
<1> DEFINE k == TableOf(op)
           new == [name |-> op.table, schema |-> op.schema, columns |-> op.columns]
           C == {i \in DOMAIN state : ~Same(state[i], k)}
           r == Picked(state, C)
           next == ApplyOperation(state, op)
<1>1. next = Append(Select(state, LAMBDA t : ~Same(t, TableOf(op))),
                    [name |-> op.table, schema |-> op.schema, columns |-> op.columns])
  BY Zenon DEF ApplyOperation
<1>2. Select(state, LAMBDA t : ~Same(t, TableOf(op))) = r
  <2>1. [i \in DOMAIN state |-> IF i \in C THEN <<state[i]>> ELSE <<>>]
        = [i \in DOMAIN state |-> IF ~Same(state[i], k) THEN <<state[i]>> ELSE <<>>]
    OBVIOUS
  <2> QED BY <2>1 DEF Select, Collect, MapTo, Picked
<1>3. /\ IsList(state) /\ Len(state) \in Nat /\ DOMAIN state = 1..Len(state)
      /\ \A i \in 1..Len(state) :
           /\ state[i] = [name |-> state[i].name, schema |-> state[i].schema, columns |-> state[i].columns]
           /\ AreColumns(state[i].columns)
  BY ListIs DEF IsState
<1>4. \A i \in 1..Len(state) : i \in C <=> ~Same(state[i], k)
  BY <1>3
<1>5. new = [name |-> new.name, schema |-> new.schema, columns |-> new.columns] /\ new.columns = op.columns
      /\ \A t : Same(new, t) <=> Same(k, t)
  BY DEF TableOf, Same
<1>6. next = Append(r, new)
  BY <1>1, <1>2
<1> HIDE DEF C, new, next
<1>7. PICK h : InOrder(r, state, Len(state), C, h)
  BY <1>3, PickedInOrder
<1> HIDE DEF r
<1> DEFINE m == Len(r)
<1>8. IsList(r) /\ m \in Nat /\ DOMAIN r = 1..m
  BY <1>7, ListIs DEF InOrder
<1> HIDE DEF m
<1>9. /\ \A l \in 1..m : h[l] \in 1..Len(state) /\ h[l] \in C /\ r[l] = state[h[l]]
      /\ \A l, j \in 1..m : l < j => h[l] < h[j]
      /\ \A i \in 1..Len(state) : i \in C => \E l \in 1..m : h[l] = i
  BY <1>7 DEF InOrder, m
<1>10. IsList(next) /\ Len(next) = m + 1 /\ next[m + 1] = new /\ (\A l \in 1..m : next[l] = r[l])
  <2>1. r \in Seq(Range(r))
    BY <1>8 DEF IsList
  <2>2. next = r \o <<new>>
    <3>1. \A x : Append(r, x) = r \o <<x>>
      BY <2>1
    <3> QED BY <1>6, <3>1, Zenon
  <2> QED BY <1>8, <2>2, JoinOne DEF m
<1>11. \A l \in 1..m : ~Same(next[l], k)
  BY <1>4, <1>9, <1>10
<1>12. IsState(next)
  <2>1. ASSUME NEW l \in 1..Len(next)
        PROVE  /\ next[l] = [name |-> next[l].name, schema |-> next[l].schema, columns |-> next[l].columns]
               /\ AreColumns(next[l].columns)
    <3>1. CASE l = m + 1
      BY <1>5, <1>10, <3>1
    <3>2. CASE l # m + 1
      <4>1. l \in 1..m
        BY <1>8, <1>10, <3>2
      <4>2. next[l] = state[h[l]] /\ h[l] \in 1..Len(state)
        BY <1>9, <1>10, <4>1
      <4> QED BY <1>3, <4>2
    <3> QED BY <3>1, <3>2
  <2> QED BY <1>10, <2>1 DEF IsState
<1>13. ASSUME NEW t, Same(k, t) PROVE Knows(next, t) /\ Find(next, t).columns = op.columns
  <2>1. m + 1 \in 1..Len(next)
    BY <1>8, <1>10
  <2>2. \A j \in 1..((m + 1) - 1) : ~Same(next[j], t)
    BY <1>8, <1>11, <1>13 DEF Same
  <2>3. FirstTable(next, t, m + 1)
    BY <1>5, <1>10, <1>13, <2>1, <2>2 DEF FirstTable
  <2>4. Knows(next, t) /\ Find(next, t) = next[m + 1]
    BY <1>10, <2>3, FirstTableIs
  <2> QED BY <1>5, <1>10, <2>4
<1>14. ASSUME NEW t, ~Same(k, t)
       PROVE  /\ Knows(next, t) <=> Knows(state, t)
              /\ Knows(state, t) => Find(next, t) = Find(state, t)
  <2>1. ASSUME NEW i, FirstTable(state, t, i)
        PROVE  Knows(next, t) /\ Find(next, t) = Find(state, t)
    <3>1. i \in 1..Len(state) /\ Same(state[i], t) /\ \A j \in 1..(i - 1) : ~Same(state[j], t)
      BY <2>1 DEF FirstTable
    <3>2. i \in C
      BY <1>4, <1>14, <3>1 DEF Same
    <3>3. PICK l \in 1..m : h[l] = i
      BY <1>9, <3>1, <3>2
    <3>4. ASSUME NEW j \in 1..(l - 1) PROVE ~Same(next[j], t)
      <4>1. j \in 1..m /\ j < l
        BY <1>8, <3>3
      <4>2. h[j] < i /\ h[j] \in 1..Len(state) /\ next[j] = state[h[j]]
        BY <1>9, <1>10, <3>3, <4>1
      <4>3. h[j] \in 1..(i - 1)
        BY <1>3, <3>1, <4>2
      <4> QED BY <3>1, <4>2, <4>3
    <3>5. next[l] = state[i] /\ l \in 1..Len(next)
      BY <1>8, <1>9, <1>10, <3>3
    <3>6. FirstTable(next, t, l)
      BY <3>1, <3>4, <3>5 DEF FirstTable
    <3>7. Knows(next, t) /\ Find(next, t) = next[l]
      BY <1>10, <3>6, FirstTableIs
    <3>8. Find(state, t) = state[i]
      BY <1>3, <2>1, FirstTableIs
    <3> QED BY <3>5, <3>7, <3>8
  <2>2. ASSUME Knows(next, t) PROVE Knows(state, t)
    <3>1. PICK l \in DOMAIN next : Same(next[l], t)
      BY <2>2 DEF Knows
    <3>2. l \in 1..Len(next)
      BY <1>10, <3>1, ListIs
    <3>3. l # m + 1
      BY <1>5, <1>10, <1>14, <3>1
    <3>4. l \in 1..m
      BY <1>8, <1>10, <3>2, <3>3
    <3>5. next[l] = state[h[l]] /\ h[l] \in DOMAIN state
      BY <1>3, <1>9, <1>10, <3>4
    <3> QED BY <3>1, <3>5 DEF Knows
  <2>3. Knows(state, t) => \E i : FirstTable(state, t, i)
    BY <1>3, FirstTableIs
  <2> QED BY <2>1, <2>2, <2>3
<1>15. Remade(state, op, next)
  BY <1>12, <1>13, <1>14 DEF Remade
<1> QED BY <1>15 DEF next

\* An operation that parses.
IsShaped(op) ==
  /\ AreColumns(op.columns)
  /\ op.kind = "AddField" => DOMAIN op.columns = {1}
  /\ op.kind = "AlterField" => DOMAIN op.columns = {1, 2}

LEMMA OneColumn ==
  ASSUME NEW op, IsShaped(op), op.kind = "AddField"
  PROVE  op.columns = <<op.columns[1]>> /\ IsColumn(op.columns[1])
<1> DEFINE cols == op.columns
<1>1. AreColumns(cols) /\ DOMAIN cols = {1}
  BY DEF IsShaped
<1> HIDE DEF cols
<1>2. Len(cols) \in Nat /\ 1..Len(cols) = {1} /\ cols = [i \in 1..Len(cols) |-> cols[i]]
  BY <1>1, ListIs DEF AreColumns
<1>3. Len(cols) = 1
  <2>1. 1 \in 1..Len(cols) /\ ~(2 \in 1..Len(cols))
    BY <1>2
  <2> QED BY <1>2, <2>1
<1>4. cols = <<cols[1]>>
  BY <1>2, <1>3
<1>5. IsColumn(cols[1])
  BY <1>1 DEF AreColumns
<1> QED BY <1>4, <1>5 DEF cols

LEMMA AddApplies ==
  ASSUME NEW state, IsState(state), NEW op, op.kind = "AddField", IsShaped(op)
  PROVE  Edited(state, TableOf(op), Find(state, TableOf(op)).columns \o <<op.columns[1]>>, ApplyOperation(state, op))
<1> DEFINE one == <<op.columns[1]>>
           next == ApplyOperation(state, op)
           old == Find(state, TableOf(op)).columns
<1>1. op.columns = one /\ AreColumns(op.columns)
  BY OneColumn DEF IsShaped
<1>2. Edits(state, op, next, old \o op.columns)
  BY AddEdits
<1> HIDE DEF one, next, old
<1>3. Edits(state, op, next, old \o one)
  BY <1>1, <1>2
<1>4. Knows(state, TableOf(op)) => AreColumns(old \o one)
  <2> SUFFICES ASSUME Knows(state, TableOf(op)) PROVE AreColumns(old \o one)
    OBVIOUS
  <2>1. AreColumns(old)
    BY ColumnsShape DEF old
  <2> QED BY <1>1, <2>1, ColumnsJoin
<1>5. Edited(state, TableOf(op), old \o one, next)
  BY <1>3, <1>4, EditsIs
<1> QED BY <1>5 DEF old, one, next

LEMMA AlterApplies ==
  ASSUME NEW state, IsState(state), NEW op, op.kind = "AlterField", IsShaped(op)
  PROVE  Edited(state, TableOf(op), AlteredTo(Find(state, TableOf(op)).columns, op.columns[1].name, op.columns[2]),
                ApplyOperation(state, op))
<1> DEFINE next == ApplyOperation(state, op)
           old == Find(state, TableOf(op)).columns
           r == AlteredTo(old, op.columns[1].name, op.columns[2])
<1>1. IsColumn(op.columns[2])
  BY DEF IsShaped, AreColumns
<1>2. Edits(state, op, next, r)
  BY AlterEdits
<1>3. Knows(state, TableOf(op)) => AreColumns(r)
  <2> SUFFICES ASSUME Knows(state, TableOf(op)) PROVE AreColumns(r)
    OBVIOUS
  <2>1. AreColumns(old)
    BY ColumnsShape
  <2> HIDE DEF old
  <2> QED BY <1>1, <2>1, GivesAltered
<1> HIDE DEF r, next, old
<1>4. Edited(state, TableOf(op), r, next)
  BY <1>2, <1>3, EditsIs
<1> QED BY <1>4 DEF r, old, next

LEMMA RemoveApplies ==
  ASSUME NEW state, IsState(state), NEW op, op.kind = "RemoveField"
  PROVE  IsState(ApplyOperation(state, op)) /\ \A t : Knows(ApplyOperation(state, op), t) <=> Knows(state, t)
<1> DEFINE next == ApplyOperation(state, op)
           old == Find(state, TableOf(op)).columns
           r == Removed(old, op.columns[1].name)
<1>1. Edits(state, op, next, r)
  BY RemoveEdits
<1>2. Knows(state, TableOf(op)) => AreColumns(r)
  <2> SUFFICES ASSUME Knows(state, TableOf(op)) PROVE AreColumns(r)
    OBVIOUS
  <2>1. AreColumns(old)
    BY ColumnsShape
  <2> HIDE DEF old
  <2> QED BY <2>1, RemovedShape
<1> HIDE DEF r, next, old
<1>3. Edited(state, TableOf(op), r, next)
  BY <1>1, <1>2, EditsIs
<1>4. IsState(next) /\ \A t : Knows(next, t) <=> Knows(state, t)
  BY <1>3 DEF Edited
<1> QED BY <1>4 DEF next

LEMMA OthersApply ==
  ASSUME NEW state, NEW op, op.kind \notin {"CreateTable", "AddField", "RemoveField", "AlterField"}
  PROVE  ApplyOperation(state, op) = state
BY Zenon DEF ApplyOperation

(* A replay stays a state.                                                  *)
LEMMA ApplyState ==
  ASSUME NEW state, IsState(state), NEW op, IsShaped(op)
  PROVE  IsState(ApplyOperation(state, op))
<1>1. CASE op.kind = "CreateTable"
  <2>1. AreColumns(op.columns)
    BY DEF IsShaped
  <2>2. Remade(state, op, ApplyOperation(state, op))
    BY <1>1, <2>1, CreateApplies
  <2> QED BY <2>2 DEF Remade
<1>2. CASE op.kind = "AddField"
  BY <1>2, AddApplies DEF Edited
<1>3. CASE op.kind = "AlterField"
  BY <1>3, AlterApplies DEF Edited
<1>4. CASE op.kind = "RemoveField"
  BY <1>4, RemoveApplies
<1>5. CASE op.kind \notin {"CreateTable", "AddField", "RemoveField", "AlterField"}
  BY <1>5, OthersApply
<1> QED BY <1>1, <1>2, <1>3, <1>4, <1>5

-----------------------------------------------------------------------------
(* One operation, seen from one column of one table.                        *)

Aims(op, t) == Same(TableOf(op), t)

\* What an operation makes of the column is the column.
Fits(op, t, c) ==
  /\ IsShaped(op) /\ op.kind \in {"CreateSchema", "CreateTable", "AddField", "AlterField"}
  /\ op.kind = "CreateTable" /\ Aims(op, t) =>
       c \in Range(op.columns) /\ \A d \in Range(op.columns) : d.name = c.name => d = c
  /\ op.kind = "AddField" /\ Aims(op, t) /\ op.columns[1].name = c.name => op.columns[1] = c
  /\ op.kind = "AlterField" /\ Aims(op, t) /\ op.columns[1].name = c.name => op.columns[2] = c

\* A step loses nothing, and what the column becomes is the column.
Steps(S, R, t, c) ==
  /\ Knows(S, t) => Knows(R, t)
  /\ (\E d : Shows(S, t, c.name, d)) => \E d : Shows(R, t, c.name, d)
  /\ Shows(S, t, c.name, c) => Shows(R, t, c.name, c)
  /\ \A d : Shows(R, t, c.name, d) => d = c \/ Shows(S, t, c.name, d)
  /\ ~Knows(S, t) /\ Knows(R, t) => Shows(R, t, c.name, c)

\* What the operation is there for is done.
Done(R, op, t, c) ==
  /\ op.kind = "CreateTable" /\ Aims(op, t) => Knows(R, t)
  /\ op.kind = "AddField" /\ Aims(op, t) /\ op.columns[1] = c => \E d : Shows(R, t, c.name, d)
  /\ op.kind = "AlterField" /\ Aims(op, t) /\ op.columns[1].name = c.name => Shows(R, t, c.name, c)

LEMMA StepsNot ==
  ASSUME NEW S, NEW R, NEW t, NEW c, Knows(R, t) <=> Knows(S, t),
         Knows(S, t) => Find(R, t).columns = Find(S, t).columns
  PROVE  Steps(S, R, t, c)
<1>1. \A d : Shows(R, t, c.name, d) <=> Shows(S, t, c.name, d)
  BY Zenon DEF Shows
<1> QED BY <1>1 DEF Steps

LEMMA CreateSteps ==
  ASSUME NEW S, IsState(S), NEW op, NEW t, NEW c, Fits(op, t, c), op.kind = "CreateTable"
  PROVE  Steps(S, ApplyOperation(S, op), t, c) /\ Done(ApplyOperation(S, op), op, t, c)
<1> DEFINE R == ApplyOperation(S, op)
<1>1. AreColumns(op.columns)
  BY DEF Fits, IsShaped
<1>2. Remade(S, op, R)
  BY <1>1, CreateApplies
<1> HIDE DEF R
<1>3. CASE Aims(op, t)
  <2>1. Knows(R, t) /\ Find(R, t).columns = op.columns
    BY <1>2, <1>3 DEF Remade, Aims
  <2> DEFINE cols == op.columns
  <2>2. IsList(cols) /\ c \in Range(cols) /\ \A d \in Range(cols) : d.name = c.name => d = c
    BY <1>1, <1>3 DEF Fits, AreColumns
  <2> HIDE DEF cols
  <2>3. \A d : Gives(cols, c.name, d) => d = c
    BY <2>2, GivesOne
  <2>4. \E d : Gives(cols, c.name, d)
    BY <2>2, GivesOne
  <2>5. Gives(cols, c.name, c)
    BY <2>3, <2>4
  <2>6. Shows(R, t, c.name, c) /\ \A d : Shows(R, t, c.name, d) => d = c
    BY <2>1, <2>3, <2>5 DEF Shows, cols
  <2> QED BY <2>1, <2>6 DEF Steps, Done, R
<1>4. CASE ~Aims(op, t)
  <2>1. Steps(S, R, t, c)
    BY <1>2, <1>4, StepsNot DEF Remade, Aims
  <2> QED BY <1>4, <2>1 DEF Done, R
<1> QED BY <1>3, <1>4

LEMMA EditSteps ==
  ASSUME NEW S, IsState(S), NEW k, NEW t, NEW c, NEW cols, NEW R, Edited(S, k, cols, R), ~Same(k, t) \/ ~Knows(S, t)
  PROVE  Steps(S, R, t, c)
<1>1. CASE ~Same(k, t)
  BY <1>1, StepsNot DEF Edited
<1>2. CASE ~Knows(S, t)
  BY <1>2, StepsNot DEF Edited
<1> QED BY <1>1, <1>2

LEMMA AddSteps ==
  ASSUME NEW S, IsState(S), NEW op, NEW t, NEW c, Fits(op, t, c), op.kind = "AddField",
         Aims(op, t) => Knows(S, t)
  PROVE  Steps(S, ApplyOperation(S, op), t, c) /\ Done(ApplyOperation(S, op), op, t, c)
<1> DEFINE R == ApplyOperation(S, op)
           k == TableOf(op)
           x == op.columns[1]
           old == Find(S, k).columns
           cols == old \o <<x>>
<1>1. Edited(S, k, cols, R)
  BY AddApplies DEF Fits
<1>2. CASE ~Aims(op, t)
  <2>1. ~Same(k, t)
    BY <1>2 DEF Aims
  <2> HIDE DEF R, cols, k
  <2>2. Steps(S, R, t, c)
    BY <1>1, <2>1, EditSteps
  <2> QED BY <1>2, <2>2 DEF Done, R
<1>3. CASE Aims(op, t)
  <2>1. Same(k, t) /\ Knows(S, t) /\ (x.name = c.name => x = c)
    BY <1>3 DEF Aims, Fits
  <2>2. IsList(S)
    BY DEF IsState
  <2> HIDE DEF k
  <2>3. Knows(S, k) /\ Find(S, k) = Find(S, t)
    BY <2>1, <2>2, SameFind
  <2>4. old = Find(S, t).columns /\ IsList(old)
    BY <2>1, <2>3, ColumnsShape DEF AreColumns
  <2> HIDE DEF old, R, x
  <2>5. /\ \A d : Gives(old, c.name, d) => Gives(cols, c.name, d)
        /\ \A d : Gives(cols, c.name, d) => Gives(old, c.name, d) \/ (d = x /\ x.name = c.name)
        /\ x.name = c.name => \E d : Gives(cols, c.name, d)
    BY <2>4, GivesJoin
  <2> HIDE DEF cols
  <2>6. Knows(R, t) /\ Find(R, t).columns = cols
    BY <1>1, <2>1 DEF Edited
  <2>7. /\ \A d : Shows(S, t, c.name, d) <=> Gives(old, c.name, d)
        /\ \A d : Shows(R, t, c.name, d) <=> Gives(cols, c.name, d)
    BY <2>1, <2>4, <2>6 DEF Shows
  <2>8. Steps(S, R, t, c)
    BY <2>1, <2>5, <2>6, <2>7 DEF Steps
  <2>9. Done(R, op, t, c)
    BY <2>5, <2>7 DEF Done, x
  <2> QED BY <2>8, <2>9 DEF R
<1> QED BY <1>2, <1>3

LEMMA AlterSteps ==
  ASSUME NEW S, IsState(S), NEW op, NEW t, NEW c, IsColumn(c), Fits(op, t, c), op.kind = "AlterField",
         \A d : Shows(S, t, c.name, d) => d.pk = c.pk,
         Aims(op, t) => Knows(S, t),
         Aims(op, t) /\ op.columns[1].name = c.name => \E d : Shows(S, t, c.name, d)
  PROVE  Steps(S, ApplyOperation(S, op), t, c) /\ Done(ApplyOperation(S, op), op, t, c)
<1> DEFINE R == ApplyOperation(S, op)
           k == TableOf(op)
           m == op.columns[1].name
           x == op.columns[2]
           old == Find(S, k).columns
           cols == AlteredTo(old, m, x)
<1>1. Edited(S, k, cols, R)
  BY AlterApplies DEF Fits
<1>2. CASE ~Aims(op, t)
  <2>1. ~Same(k, t)
    BY <1>2 DEF Aims
  <2> HIDE DEF R, cols, k
  <2>2. Steps(S, R, t, c)
    BY <1>1, <2>1, EditSteps
  <2> QED BY <1>2, <2>2 DEF Done, R
<1>3. CASE Aims(op, t)
  <2>1. Same(k, t) /\ Knows(S, t) /\ (m = c.name => x = c) /\ (m = c.name => \E d : Shows(S, t, c.name, d))
    BY <1>3 DEF Aims, Fits
  <2>2. IsList(S) /\ IsColumn(x)
    BY DEF IsState, Fits, IsShaped, AreColumns
  <2> HIDE DEF k
  <2>3. Knows(S, k) /\ Find(S, k) = Find(S, t)
    BY <2>1, <2>2, SameFind
  <2>4. old = Find(S, t).columns /\ AreColumns(old)
    BY <2>1, <2>3, ColumnsShape
  <2> HIDE DEF old, R, x, m
  <2>5. /\ \A d : Gives(cols, c.name, d) =>
               \E e : Gives(old, c.name, e) /\ d = IF c.name = m THEN Altering(e, x) ELSE e
        /\ \A e : Gives(old, c.name, e) => Gives(cols, c.name, IF c.name = m THEN Altering(e, x) ELSE e)
    <3>1. /\ \A n, d : Gives(cols, n, d) => \E e : Gives(old, n, e) /\ d = IF n = m THEN Altering(e, x) ELSE e
          /\ \A n, e : Gives(old, n, e) => Gives(cols, n, IF n = m THEN Altering(e, x) ELSE e)
      BY <2>2, <2>4, GivesAltered
    <3> HIDE DEF cols
    <3> QED BY <3>1
  <2> HIDE DEF cols
  <2>6. Knows(R, t) /\ Find(R, t).columns = cols
    BY <1>1, <2>1 DEF Edited
  <2>7. /\ \A d : Shows(S, t, c.name, d) <=> Gives(old, c.name, d)
        /\ \A d : Shows(R, t, c.name, d) <=> Gives(cols, c.name, d)
    BY <2>1, <2>4, <2>6 DEF Shows
  <2>8. ASSUME NEW e, Gives(old, c.name, e), c.name = m PROVE Altering(e, x) = c
    <3>1. IsColumn(e) /\ e.name = c.name
      <4>1. IsList(old)
        BY <2>4 DEF AreColumns
      <4>2. e \in Range(old) /\ e.name = c.name
        BY <2>8, <4>1, GivesOne
      <4>3. PICK i \in DOMAIN old : e = old[i]
        BY <4>1, <4>2, ElementIs
      <4> QED BY <2>4, <4>2, <4>3 DEF AreColumns
    <3>2. e.pk = c.pk /\ x = c
      BY <2>1, <2>7, <2>8
    <3> QED BY <3>1, <3>2, AlteringIs
  <2>9. CASE c.name = m
    <3>1. \A d : Gives(cols, c.name, d) => d = c
      BY <2>5, <2>8, <2>9
    <3>2. PICK e : Gives(old, c.name, e)
      BY <2>1, <2>7, <2>9
    <3>3. Gives(cols, c.name, c)
      BY <2>5, <2>8, <2>9, <3>2
    <3>4. Shows(R, t, c.name, c) /\ \A d : Shows(R, t, c.name, d) => d = c
      BY <2>7, <3>1, <3>3
    <3> QED BY <2>6, <3>4 DEF Steps, Done, R
  <2>10. CASE c.name # m
    <3>1. \A d : Gives(cols, c.name, d) <=> Gives(old, c.name, d)
      BY <2>5, <2>10
    <3>2. Steps(S, R, t, c)
      BY <2>1, <2>6, <2>7, <3>1 DEF Steps
    <3> QED BY <2>10, <3>2 DEF Done, m, R
  <2> QED BY <2>9, <2>10
<1> QED BY <1>2, <1>3

-----------------------------------------------------------------------------
(* The replay: operation by operation, file by file.                        *)

OpStep(ops, state, f, k) == IF k = 0 THEN state ELSE ApplyOperation(f[k - 1], ops[k])
OpsOf(ops, state, m, f) == f = [k \in 0..m |-> OpStep(ops, state, f, k)]

LEMMA OpsExist == ASSUME NEW ops, NEW state PROVE \A m \in Nat : \E f : OpsOf(ops, state, m, f)
<1> DEFINE S == {m \in Nat : \E f : OpsOf(ops, state, m, f)}
<1>1. 0 \in S
  <2> DEFINE f == [k \in 0..0 |-> state]
  <2>1. f = [k \in 0..0 |-> OpStep(ops, state, f, k)]
    BY DEF OpStep
  <2>2. OpsOf(ops, state, 0, f)
    BY <2>1 DEF OpsOf
  <2> QED BY <2>2
<1>2. ASSUME NEW m \in S PROVE m + 1 \in S
  <2>1. PICK f : OpsOf(ops, state, m, f)
    OBVIOUS
  <2> DEFINE g == [k \in 0..(m + 1) |-> IF k = m + 1 THEN OpStep(ops, state, f, k) ELSE f[k]]
  <2>2. m \in Nat
    OBVIOUS
  <2>3. ASSUME NEW k \in 0..(m + 1) PROVE g[k] = OpStep(ops, state, g, k)
    <3>1. OpStep(ops, state, g, k) = OpStep(ops, state, f, k)
      <4>1. CASE k = 0
        BY <4>1 DEF OpStep
      <4>2. CASE k # 0
        <5>1. k - 1 \in 0..(m + 1) /\ k - 1 # m + 1
          BY <4>2, <2>2
        <5> QED BY <5>1, <4>2 DEF OpStep
      <4> QED BY <4>1, <4>2
    <3>2. CASE k = m + 1
      BY <3>1, <3>2
    <3>3. CASE k # m + 1
      <4>1. k \in 0..m
        BY <3>3, <2>2
      <4>2. f[k] = OpStep(ops, state, f, k)
        BY <4>1, <2>1 DEF OpsOf
      <4> QED BY <4>2, <3>1, <3>3
    <3> QED BY <3>2, <3>3
  <2>4. g = [k \in 0..(m + 1) |-> OpStep(ops, state, g, k)]
    BY <2>3
  <2>5. OpsOf(ops, state, m + 1, g)
    BY <2>4 DEF OpsOf
  <2> QED BY <2>5, <2>2
<1> HIDE DEF S
<1>3. S = Nat
  BY <1>1, <1>2, Induction DEF S
<1> QED
  BY <1>3 DEF S

\* f are the states that the operations go through.
OpsRun(ops, state, f) ==
  /\ ApplyOperations(state, ops) = f[Len(ops)] /\ f[0] = state
  /\ \A k \in 1..Len(ops) : f[k] = ApplyOperation(f[k - 1], ops[k])

LEMMA OpsSteps ==
  ASSUME NEW ops, IsList(ops), NEW state
  PROVE  \E f : OpsRun(ops, state, f)
<1> DEFINE N == Len(ops)
           f == CHOOSE g : OpsOf(ops, state, N, g)
<1>1. N \in Nat
  BY ListIs
<1>2. OpsOf(ops, state, N, f)
  BY <1>1, OpsExist
<1>3. ApplyOperations(state, ops) = f[N]
  BY DEF ApplyOperations, OpsOf, OpStep
<1> HIDE DEF f, N
<1>4. \A k \in 0..N : f[k] = OpStep(ops, state, f, k)
  BY <1>2 DEF OpsOf
<1>5. f[0] = state
  BY <1>1, <1>4 DEF OpStep
<1>6. ASSUME NEW k \in 1..N PROVE f[k] = ApplyOperation(f[k - 1], ops[k])
  BY <1>1, <1>4 DEF OpStep
<1>7. OpsRun(ops, state, f)
  BY <1>3, <1>5, <1>6 DEF OpsRun, N
<1> QED BY <1>7

FileStep(fs, f, i) ==
  IF i = 0 THEN <<>> ELSE IF fs[i].readable THEN ApplyOperations(f[i - 1], fs[i].ops) ELSE f[i - 1]
FilesOver(fs, m, f) == f = [i \in 0..m |-> FileStep(fs, f, i)]

LEMMA FilesExist == ASSUME NEW fs PROVE \A m \in Nat : \E f : FilesOver(fs, m, f)
<1> DEFINE S == {m \in Nat : \E f : FilesOver(fs, m, f)}
<1>1. 0 \in S
  <2> DEFINE f == [i \in 0..0 |-> <<>>]
  <2>1. f = [i \in 0..0 |-> FileStep(fs, f, i)]
    BY DEF FileStep
  <2>2. FilesOver(fs, 0, f)
    BY <2>1 DEF FilesOver
  <2> QED BY <2>2
<1>2. ASSUME NEW m \in S PROVE m + 1 \in S
  <2>1. PICK f : FilesOver(fs, m, f)
    OBVIOUS
  <2> DEFINE g == [i \in 0..(m + 1) |-> IF i = m + 1 THEN FileStep(fs, f, i) ELSE f[i]]
  <2>2. m \in Nat
    OBVIOUS
  <2>3. ASSUME NEW i \in 0..(m + 1) PROVE g[i] = FileStep(fs, g, i)
    <3>1. FileStep(fs, g, i) = FileStep(fs, f, i)
      <4>1. CASE i = 0
        BY <4>1 DEF FileStep
      <4>2. CASE i # 0
        <5>1. i - 1 \in 0..(m + 1) /\ i - 1 # m + 1
          BY <4>2, <2>2
        <5> QED BY <5>1, <4>2 DEF FileStep
      <4> QED BY <4>1, <4>2
    <3>2. CASE i = m + 1
      BY <3>1, <3>2
    <3>3. CASE i # m + 1
      <4>1. i \in 0..m
        BY <3>3, <2>2
      <4>2. f[i] = FileStep(fs, f, i)
        BY <4>1, <2>1 DEF FilesOver
      <4> QED BY <4>2, <3>1, <3>3
    <3> QED BY <3>2, <3>3
  <2>4. g = [i \in 0..(m + 1) |-> FileStep(fs, g, i)]
    BY <2>3
  <2>5. FilesOver(fs, m + 1, g)
    BY <2>4 DEF FilesOver
  <2> QED BY <2>5, <2>2
<1> HIDE DEF S
<1>3. S = Nat
  BY <1>1, <1>2, Induction DEF S
<1> QED
  BY <1>3 DEF S

LEMMA FilesSteps ==
  ASSUME NEW fs, IsList(fs)
  PROVE  \E f : BuildCurrent(fs) = f[Len(fs)] /\ \A i \in 0..Len(fs) : f[i] = FileStep(fs, f, i)
<1> DEFINE N == Len(fs)
           f == CHOOSE g : FilesOver(fs, N, g)
<1>1. N \in Nat
  BY ListIs
<1>2. FilesOver(fs, N, f)
  BY <1>1, FilesExist
<1>3. BuildCurrent(fs) = f[N]
  BY DEF BuildCurrent, FilesOver, FileStep
<1> HIDE DEF f, N
<1>4. \A i \in 0..N : f[i] = FileStep(fs, f, i)
  BY <1>2 DEF FilesOver
<1> QED BY <1>3, <1>4 DEF N

\* Files every operation of which parses.
AreShaped(fs) == \A f \in Range(fs) : IsList(f.ops) /\ \A op \in Range(f.ops) : IsShaped(op)

LEMMA ApplyAllState ==
  ASSUME NEW ops, IsList(ops), \A op \in Range(ops) : IsShaped(op), NEW state, IsState(state)
  PROVE  IsState(ApplyOperations(state, ops))
<1> DEFINE N == Len(ops)
<1>1. N \in Nat /\ \A k \in 1..N : ops[k] \in Range(ops)
  BY ListIs
<1>2. PICK f : /\ ApplyOperations(state, ops) = f[N] /\ f[0] = state
               /\ \A k \in 1..N : f[k] = ApplyOperation(f[k - 1], ops[k])
  <2>1. PICK f : OpsRun(ops, state, f)
    BY OpsSteps
  <2> QED BY <2>1 DEF OpsRun
<1> HIDE DEF N
<1> DEFINE I == {k \in Nat : k <= N => IsState(f[k])}
<1>3. 0 \in I
  BY <1>2
<1>4. ASSUME NEW k \in I PROVE k + 1 \in I
  <2> SUFFICES ASSUME k + 1 <= N PROVE IsState(f[k + 1])
    OBVIOUS
  <2>1. k \in Nat /\ k + 1 \in 1..N /\ (k + 1) - 1 = k /\ k <= N
    BY <1>1
  <2>2. IsState(f[k]) /\ IsShaped(ops[k + 1])
    BY <1>1, <2>1
  <2>3. f[k + 1] = ApplyOperation(f[k], ops[k + 1])
    BY <1>2, <2>1
  <2> QED BY <2>2, <2>3, ApplyState
<1> HIDE DEF I
<1>5. I = Nat
  BY <1>3, <1>4, Induction DEF I
<1> QED BY <1>1, <1>2, <1>5 DEF I

LEMMA BuildState ==
  ASSUME NEW fs, IsList(fs), AreShaped(fs)
  PROVE  IsState(BuildCurrent(fs))
<1> DEFINE N == Len(fs)
<1>1. N \in Nat /\ \A i \in 1..N : fs[i] \in Range(fs)
  BY ListIs
<1>2. PICK f : BuildCurrent(fs) = f[N] /\ \A i \in 0..N : f[i] = FileStep(fs, f, i)
  BY FilesSteps
<1> HIDE DEF N
<1> DEFINE I == {i \in Nat : i <= N => IsState(f[i])}
<1>3. 0 \in I
  <2>1. f[0] = <<>>
    BY <1>1, <1>2 DEF FileStep
  <2>2. IsState(<<>>)
    BY NoElements DEF IsState
  <2> QED BY <2>1, <2>2
<1>4. ASSUME NEW i \in I PROVE i + 1 \in I
  <2> SUFFICES ASSUME i + 1 <= N PROVE IsState(f[i + 1])
    OBVIOUS
  <2>1. i \in Nat /\ i + 1 \in 1..N /\ i + 1 \in 0..N /\ (i + 1) - 1 = i /\ i <= N /\ i + 1 # 0
    BY <1>1
  <2>2. IsState(f[i]) /\ IsList(fs[i + 1].ops) /\ \A op \in Range(fs[i + 1].ops) : IsShaped(op)
    BY <1>1, <2>1 DEF AreShaped
  <2>3. f[i + 1] = IF fs[i + 1].readable THEN ApplyOperations(f[i], fs[i + 1].ops) ELSE f[i]
    BY <1>2, <2>1 DEF FileStep
  <2>4. IsState(ApplyOperations(f[i], fs[i + 1].ops))
    BY <2>2, ApplyAllState
  <2> QED BY <2>2, <2>3, <2>4
<1> HIDE DEF I
<1>5. I = Nat
  BY <1>3, <1>4, Induction DEF I
<1> QED BY <1>1, <1>2, <1>5 DEF I

(* The replay of the files and one more.                                    *)
LEMMA BuildMore ==
  ASSUME NEW fs, IsList(fs), NEW new, new.readable = TRUE
  PROVE  BuildCurrent(Append(fs, new)) = ApplyOperations(BuildCurrent(fs), new.ops)
<1> DEFINE N == Len(fs)
           gs == Append(fs, new)
<1>1. N \in Nat
  BY ListIs
<1>2. IsList(gs) /\ Len(gs) = N + 1 /\ gs[N + 1] = new /\ \A i \in 1..N : gs[i] = fs[i]
  <2>1. gs = fs \o <<new>>
    BY DEF IsList
  <2> HIDE DEF gs
  <2> QED BY <2>1, JoinOne
<1> HIDE DEF gs
<1>3. PICK f : BuildCurrent(fs) = f[N] /\ \A i \in 0..N : f[i] = FileStep(fs, f, i)
  BY FilesSteps
<1>4. PICK g : BuildCurrent(gs) = g[N + 1] /\ \A i \in 0..(N + 1) : g[i] = FileStep(gs, g, i)
  BY <1>2, FilesSteps
<1> HIDE DEF N
<1> DEFINE I == {i \in Nat : i <= N => f[i] = g[i]}
<1>5. 0 \in I
  BY <1>1, <1>3, <1>4 DEF FileStep
<1>6. ASSUME NEW i \in I PROVE i + 1 \in I
  <2> SUFFICES ASSUME i + 1 <= N PROVE f[i + 1] = g[i + 1]
    OBVIOUS
  <2>1. i \in Nat /\ i + 1 \in 1..N /\ i + 1 \in 0..N /\ i + 1 \in 0..(N + 1) /\ (i + 1) - 1 = i /\ i <= N /\ i + 1 # 0
    BY <1>1
  <2>2. f[i] = g[i] /\ gs[i + 1] = fs[i + 1]
    BY <1>2, <2>1
  <2>3. f[i + 1] = FileStep(fs, f, i + 1) /\ g[i + 1] = FileStep(gs, g, i + 1)
    BY <1>3, <1>4, <2>1
  <2>4. FileStep(fs, f, i + 1) = FileStep(gs, g, i + 1)
    BY <2>1, <2>2 DEF FileStep
  <2> QED BY <2>3, <2>4
<1> HIDE DEF I
<1>7. I = Nat
  BY <1>5, <1>6, Induction DEF I
<1>8. f[N] = g[N]
  BY <1>1, <1>7 DEF I
<1>9. g[N + 1] = ApplyOperations(g[N], new.ops)
  <2>1. N + 1 \in 0..(N + 1) /\ N + 1 # 0 /\ (N + 1) - 1 = N
    BY <1>1
  <2>2. g[N + 1] = FileStep(gs, g, N + 1)
    BY <1>4, <2>1
  <2> QED BY <1>2, <2>1, <2>2 DEF FileStep
<1> QED BY <1>3, <1>4, <1>8, <1>9 DEF gs

-----------------------------------------------------------------------------
(* All operations, seen from one column of one table.                       *)

LEMMA StepsOn ==
  ASSUME NEW S, NEW R, NEW Q, NEW t, NEW c, Steps(S, R, t, c), Steps(R, Q, t, c)
  PROVE  Steps(S, Q, t, c)
BY DEF Steps

LEMMA DoneStays ==
  ASSUME NEW R, NEW Q, NEW op, NEW t, NEW c, Done(R, op, t, c), Steps(R, Q, t, c)
  PROVE  Done(Q, op, t, c)
BY DEF Steps, Done

\* The operation finds what it is about where the operations begin.
Grounded(S, op, t, c) ==
  /\ op.kind \in {"AddField", "AlterField"} /\ Aims(op, t) => Knows(S, t)
  /\ op.kind = "AlterField" /\ Aims(op, t) /\ op.columns[1].name = c.name => \E d : Shows(S, t, c.name, d)

LEMMA OneStep ==
  ASSUME NEW S, NEW R, IsState(R), NEW t, NEW c, IsColumn(c), Steps(S, R, t, c),
         NEW op, Fits(op, t, c), Grounded(S, op, t, c),
         \A d : Shows(S, t, c.name, d) => d.pk = c.pk
  PROVE  /\ IsState(ApplyOperation(R, op))
         /\ Steps(R, ApplyOperation(R, op), t, c) /\ Done(ApplyOperation(R, op), op, t, c)
<1>1. IsState(ApplyOperation(R, op))
  BY ApplyState DEF Fits
<1>2. \A d : Shows(R, t, c.name, d) => d.pk = c.pk
  BY DEF Steps
<1>3. CASE op.kind = "CreateTable"
  BY <1>1, <1>3, CreateSteps
<1>4. CASE op.kind = "AddField"
  <2>1. Aims(op, t) => Knows(R, t)
    BY <1>4 DEF Steps, Grounded
  <2> QED BY <1>1, <1>4, <2>1, AddSteps
<1>5. CASE op.kind = "AlterField"
  <2>1. Aims(op, t) => Knows(R, t)
    BY <1>5 DEF Steps, Grounded
  <2>2. Aims(op, t) /\ op.columns[1].name = c.name => \E d : Shows(R, t, c.name, d)
    BY <1>5 DEF Steps, Grounded
  <2> QED BY <1>1, <1>2, <1>5, <2>1, <2>2, AlterSteps
<1>6. CASE op.kind = "CreateSchema"
  <2>1. ApplyOperation(R, op) = R
    BY <1>6, OthersApply
  <2>2. Steps(R, R, t, c)
    BY DEF Steps
  <2> QED BY <1>6, <2>1, <2>2 DEF Done
<1> QED BY <1>3, <1>4, <1>5, <1>6 DEF Fits

LEMMA AllSteps ==
  ASSUME NEW S, IsState(S), NEW t, NEW c, IsColumn(c), NEW ops, IsList(ops),
         \A op \in Range(ops) : Fits(op, t, c) /\ Grounded(S, op, t, c),
         \A d : Shows(S, t, c.name, d) => d.pk = c.pk
  PROVE  /\ Steps(S, ApplyOperations(S, ops), t, c)
         /\ \A op \in Range(ops) : Done(ApplyOperations(S, ops), op, t, c)
<1> DEFINE N == Len(ops)
<1>1. N \in Nat /\ (\A k \in 1..N : ops[k] \in Range(ops)) /\ \A op \in Range(ops) : \E k \in 1..N : op = ops[k]
  BY ListIs
<1>2. PICK f : OpsRun(ops, S, f)
  BY OpsSteps
<1>3. ApplyOperations(S, ops) = f[N] /\ f[0] = S /\ \A k \in 1..N : f[k] = ApplyOperation(f[k - 1], ops[k])
  BY <1>2 DEF OpsRun
<1> HIDE DEF N
<1> DEFINE J(k) == IsState(f[k]) /\ Steps(S, f[k], t, c) /\ \A j \in 1..k : Done(f[k], ops[j], t, c)
           I == {k \in Nat : k <= N => J(k)}
<1>4. 0 \in I
  <2>1. Steps(S, S, t, c)
    BY DEF Steps
  <2> QED BY <1>3, <2>1
<1>5. ASSUME NEW k \in I PROVE k + 1 \in I
  <2> SUFFICES ASSUME k + 1 <= N PROVE J(k + 1)
    OBVIOUS
  <2>1. k \in Nat /\ k + 1 \in 1..N /\ (k + 1) - 1 = k /\ k <= N
    BY <1>1
  <2>2. IsState(f[k]) /\ Steps(S, f[k], t, c) /\ \A j \in 1..k : Done(f[k], ops[j], t, c)
    BY <2>1
  <2> DEFINE R == f[k]
             op == ops[k + 1]
             Q == f[k + 1]
  <2>3. Q = ApplyOperation(R, op) /\ Fits(op, t, c) /\ Grounded(S, op, t, c)
    BY <1>1, <1>3, <2>1
  <2> HIDE DEF R, op, Q, J, I
  <2>4. IsState(R) /\ Steps(S, R, t, c)
    BY <2>2 DEF R
  <2>5. IsState(Q) /\ Steps(R, Q, t, c) /\ Done(Q, op, t, c)
    BY <2>3, <2>4, OneStep
  <2>6. Steps(S, Q, t, c)
    BY <2>4, <2>5, StepsOn
  <2>7. ASSUME NEW j \in 1..(k + 1) PROVE Done(Q, ops[j], t, c)
    <3>1. CASE j = k + 1
      BY <2>5, <3>1 DEF op
    <3>2. CASE j # k + 1
      <4>1. j \in 1..k
        BY <2>1, <3>2
      <4>2. Done(R, ops[j], t, c)
        BY <2>2, <4>1 DEF R
      <4> QED BY <2>5, <4>2, DoneStays
    <3> QED BY <3>1, <3>2
  <2> QED BY <2>5, <2>6, <2>7 DEF J, Q
<1> HIDE DEF I
<1>6. I = Nat
  BY <1>4, <1>5, Induction DEF I
<1>7. J(N)
  BY <1>1, <1>6 DEF I
<1> QED BY <1>1, <1>3, <1>7

-----------------------------------------------------------------------------
(* What is detected, and what it comes to.                                  *)

Known(current, target) == Range(target) \ Fresh(current, target)

\* An operation by what it is about.
About(x, kind, u, cols) ==
  /\ x.kind = kind /\ x.table = u.name /\ x.schema = u.schema /\ x.columns = cols
Creates(S, T, changes, x) ==
  \E u \in Fresh(S, T) : About(x, "CreateTable", u, ColumnsFor(changes, u.name))
AddsOne(S, T, changes, x) ==
  \E u \in Known(S, T) : \E d \in Lacks(S, u) : u.name \notin NewTables(changes) /\ About(x, "AddField", u, <<d>>)
AltersOne(S, T, x) ==
  \E u \in Known(S, T) : \E d \in Differs(S, u) :
    About(x, "AlterField", u, <<ColumnOf(Find(S, u), d.name), d>>)

LEMMA SchemaKind ==
  ASSUME NEW S, NEW T, NEW x, IsSchemaChange(S, T, x)
  PROVE  x.kind = "CreateSchema"
<1>1. PICK s : x = Change("CreateSchema", [name |-> "", schema |-> s], NoColumn, NoColumn)
  BY DEF IsSchemaChange
<1> DEFINE t == [name |-> "", schema |-> s]
<1>2. x = Change("CreateSchema", t, NoColumn, NoColumn)
  BY <1>1
<1> HIDE DEF t
<1> QED BY <1>2 DEF Change

LEMMA NewNames ==
  ASSUME NEW S, NEW T, IsTarget(T), NEW changes, changes = DiffStates(S, T)
  PROVE  \A n : n \in NewTables(changes) <=> \E u \in Fresh(S, T) : u.name = n
<1>1. /\ IsList(changes)
      /\ \A x \in Range(changes) : IsSchemaChange(S, T, x) \/ IsTableChange(S, T, x)
      /\ \A x : IsTableChange(S, T, x) => x \in Range(changes)
  BY DiffIs
<1>2. \A n : n \in NewTables(changes) <=> \E x \in Range(changes) : x.kind = "CreateTable" /\ n = x.table
  BY <1>1, NewTablesIs
<1>3. ASSUME NEW n \in NewTables(changes) PROVE \E u \in Fresh(S, T) : u.name = n
  <2>1. PICK x \in Range(changes) : x.kind = "CreateTable" /\ n = x.table
    BY <1>2, <1>3
  <2>2. ~IsSchemaChange(S, T, x)
    BY <2>1, SchemaKind
  <2>3. IsTableChange(S, T, x)
    BY <1>1, <2>1, <2>2
  <2>4. \E t \in Fresh(S, T) : x = Change("CreateTable", t, NoColumn, NoColumn)
    BY <2>1, <2>3 DEF IsTableChange, Change
  <2> QED BY <2>1, <2>4 DEF Change
<1>4. ASSUME NEW u \in Fresh(S, T) PROVE u.name \in NewTables(changes)
  <2> DEFINE x == Change("CreateTable", u, NoColumn, NoColumn)
  <2>1. IsTableChange(S, T, x)
    BY DEF IsTableChange
  <2>2. x.kind = "CreateTable" /\ x.table = u.name
    BY DEF Change
  <2> HIDE DEF x
  <2> QED BY <1>1, <1>2, <2>1, <2>2
<1> QED BY <1>3, <1>4

LEMMA NewColumns ==
  ASSUME NEW S, NEW T, IsTarget(T), NEW changes, changes = DiffStates(S, T), NEW n
  PROVE  /\ IsList(ColumnsFor(changes, n))
         /\ \A d \in Range(ColumnsFor(changes, n)) : \E u \in Range(T) : u.name = n /\ d \in Range(u.columns)
         /\ \A u \in Fresh(S, T) : \A d \in Range(u.columns) : u.name = n => d \in Range(ColumnsFor(changes, n))
<1>1. /\ IsList(changes)
      /\ \A x \in Range(changes) : IsSchemaChange(S, T, x) \/ IsTableChange(S, T, x)
      /\ \A x : IsTableChange(S, T, x) => x \in Range(changes)
  BY DiffIs
<1>2. /\ IsList(ColumnsFor(changes, n))
      /\ \A c : c \in Range(ColumnsFor(changes, n)) <=>
           \E x \in Range(changes) : x.kind = "AddColumn" /\ x.table = n /\ c = x.column
  BY <1>1, ColumnsForIs
<1>3. ASSUME NEW d \in Range(ColumnsFor(changes, n)) PROVE \E u \in Range(T) : u.name = n /\ d \in Range(u.columns)
  <2>1. PICK x \in Range(changes) : x.kind = "AddColumn" /\ x.table = n /\ d = x.column
    BY <1>2, <1>3
  <2>2. ~IsSchemaChange(S, T, x)
    BY <2>1, SchemaKind
  <2>3. IsTableChange(S, T, x)
    BY <1>1, <2>1, <2>2
  <2>4. \E t \in Range(T) : \E c \in Range(t.columns) : x = Change("AddColumn", t, c, NoColumn)
    BY <2>1, <2>3 DEF IsTableChange, Change, Fresh, Lacks
  <2> QED BY <2>1, <2>4 DEF Change
<1>4. ASSUME NEW u \in Fresh(S, T), NEW d \in Range(u.columns), u.name = n PROVE d \in Range(ColumnsFor(changes, n))
  <2> DEFINE x == Change("AddColumn", u, d, NoColumn)
  <2>1. IsTableChange(S, T, x)
    BY DEF IsTableChange
  <2>2. x.kind = "AddColumn" /\ x.table = u.name /\ x.column = d
    BY DEF Change
  <2> HIDE DEF x
  <2> QED BY <1>1, <1>2, <1>4, <2>1, <2>2
<1> QED BY <1>2, <1>3, <1>4

LEMMA OpIs ==
  ASSUME NEW S, NEW T, IsTarget(T), NEW changes, changes = DiffStates(S, T), NEW entries,
         NEW x \in Range(Ops(changes, entries))
  PROVE  \/ x.kind = "CreateSchema" /\ x.columns = <<>>
         \/ Creates(S, T, changes, x) \/ AddsOne(S, T, changes, x) \/ AltersOne(S, T, x)
<1>1. /\ IsList(changes)
      /\ \A c \in Range(changes) : IsSchemaChange(S, T, c) \/ IsTableChange(S, T, c)
  BY DiffIs
<1>2. PICK c \in Range(changes) : OperationOf(changes, entries, c, x)
  BY <1>1, OperationsAre
<1>3. CASE c.kind = "CreateSchema"
  <2>1. x = Operation("CreateSchema", "", c.schema, <<>>, "")
    BY <1>2, <1>3 DEF OperationOf
  <2> QED BY <2>1 DEF Operation
<1>4. CASE c.kind = "CreateTable"
  <2>1. ~IsSchemaChange(S, T, c)
    BY <1>4, SchemaKind
  <2>2. IsTableChange(S, T, c)
    BY <1>1, <2>1
  <2>3. PICK u \in Fresh(S, T) : c = Change("CreateTable", u, NoColumn, NoColumn)
    BY <1>4, <2>2 DEF IsTableChange, Change
  <2>4. c.table = u.name /\ c.schema = u.schema
    BY <2>3 DEF Change
  <2>5. x = Operation("CreateTable", c.table, c.schema, ColumnsFor(changes, c.table), DatabaseOf(entries, c.table))
    BY <1>2, <1>4 DEF OperationOf
  <2>6. About(x, "CreateTable", u, ColumnsFor(changes, u.name))
    BY <2>4, <2>5 DEF About, Operation
  <2> QED BY <2>6 DEF Creates
<1>5. CASE c.kind = "AddColumn"
  <2>1. ~IsSchemaChange(S, T, c)
    BY <1>5, SchemaKind
  <2>2. IsTableChange(S, T, c)
    BY <1>1, <2>1
  <2>3. /\ c.table \notin NewTables(changes)
        /\ x = Operation("AddField", c.table, c.schema, <<c.column>>, DatabaseOf(entries, c.table))
    BY <1>2, <1>5 DEF OperationOf
  <2>4. ~ \E u \in Fresh(S, T) : u.name = c.table
    BY <2>3, NewNames
  <2>5. \A u \in Fresh(S, T) : \A d : c # Change("AddColumn", u, d, NoColumn)
    BY <2>4 DEF Change
  <2>6. PICK u \in Known(S, T) : \E d \in Lacks(S, u) : c = Change("AddColumn", u, d, NoColumn)
    BY <1>5, <2>2, <2>5 DEF IsTableChange, Change, Known
  <2>7. PICK d \in Lacks(S, u) : c = Change("AddColumn", u, d, NoColumn)
    BY <2>6
  <2>8. c.table = u.name /\ c.schema = u.schema /\ c.column = d
    BY <2>7 DEF Change
  <2>9. About(x, "AddField", u, <<d>>)
    BY <2>3, <2>8 DEF About, Operation
  <2> QED BY <2>3, <2>8, <2>9 DEF AddsOne
<1>6. CASE c.kind = "AlterColumn"
  <2>1. ~IsSchemaChange(S, T, c)
    BY <1>6, SchemaKind
  <2>2. IsTableChange(S, T, c)
    BY <1>1, <2>1
  <2>3. x = Operation("AlterField", c.table, c.schema, <<c.old, c.column>>, DatabaseOf(entries, c.table))
    BY <1>2, <1>6 DEF OperationOf
  <2>4. PICK u \in Known(S, T) : \E d \in Differs(S, u) :
          c = Change("AlterColumn", u, d, ColumnOf(Find(S, u), d.name))
    BY <1>6, <2>2 DEF IsTableChange, Change, Known
  <2>5. PICK d \in Differs(S, u) : c = Change("AlterColumn", u, d, ColumnOf(Find(S, u), d.name))
    BY <2>4
  <2>6. c.table = u.name /\ c.schema = u.schema /\ c.column = d /\ c.old = ColumnOf(Find(S, u), d.name)
    BY <2>5 DEF Change
  <2>7. About(x, "AlterField", u, <<ColumnOf(Find(S, u), d.name), d>>)
    BY <2>3, <2>6 DEF About, Operation
  <2> QED BY <2>7 DEF AltersOne
<1> QED BY <1>2, <1>3, <1>4, <1>5, <1>6 DEF OperationOf

LEMMA OpsThere ==
  ASSUME NEW S, NEW T, IsTarget(T), NEW changes, changes = DiffStates(S, T), NEW entries
  PROVE  /\ \A u \in Fresh(S, T) : \E x \in Range(Ops(changes, entries)) :
              About(x, "CreateTable", u, ColumnsFor(changes, u.name))
         /\ \A u \in Known(S, T) : \A d \in Lacks(S, u) : u.name \notin NewTables(changes) =>
              \E x \in Range(Ops(changes, entries)) : About(x, "AddField", u, <<d>>)
         /\ \A u \in Known(S, T) : \A d \in Differs(S, u) :
              \E x \in Range(Ops(changes, entries)) :
                About(x, "AlterField", u, <<ColumnOf(Find(S, u), d.name), d>>)
<1> DEFINE ops == Ops(changes, entries)
<1>1. IsList(changes) /\ \A x : IsTableChange(S, T, x) => x \in Range(changes)
  BY DiffIs
<1>2. \A x : \A c \in Range(changes) : OperationOf(changes, entries, c, x) => x \in Range(ops)
  BY <1>1, OperationsAre
<1> HIDE DEF ops
<1>3. ASSUME NEW u \in Fresh(S, T) PROVE \E x \in Range(ops) : About(x, "CreateTable", u, ColumnsFor(changes, u.name))
  <2> DEFINE c == Change("CreateTable", u, NoColumn, NoColumn)
             x == Operation("CreateTable", c.table, c.schema, ColumnsFor(changes, c.table), DatabaseOf(entries, c.table))
  <2>1. c \in Range(changes)
    <3>1. IsTableChange(S, T, c)
      BY DEF IsTableChange
    <3> QED BY <1>1, <3>1
  <2>2. c.kind = "CreateTable" /\ c.table = u.name /\ c.schema = u.schema
    BY DEF Change
  <2> HIDE DEF c
  <2>3. OperationOf(changes, entries, c, x)
    BY <2>2 DEF OperationOf
  <2>4. About(x, "CreateTable", u, ColumnsFor(changes, u.name))
    BY <2>2 DEF About, Operation
  <2> HIDE DEF x
  <2> QED BY <1>2, <2>1, <2>3, <2>4
<1>4. ASSUME NEW u \in Known(S, T), NEW d \in Lacks(S, u), u.name \notin NewTables(changes)
      PROVE  \E x \in Range(ops) : About(x, "AddField", u, <<d>>)
  <2> DEFINE c == Change("AddColumn", u, d, NoColumn)
             x == Operation("AddField", c.table, c.schema, <<c.column>>, DatabaseOf(entries, c.table))
  <2>1. c \in Range(changes)
    <3>1. IsTableChange(S, T, c)
      BY DEF IsTableChange, Known
    <3> QED BY <1>1, <3>1
  <2>2. c.kind = "AddColumn" /\ c.table = u.name /\ c.schema = u.schema /\ c.column = d
    BY DEF Change
  <2> HIDE DEF c
  <2>3. OperationOf(changes, entries, c, x)
    BY <1>4, <2>2 DEF OperationOf
  <2>4. About(x, "AddField", u, <<d>>)
    BY <2>2 DEF About, Operation
  <2> HIDE DEF x
  <2> QED BY <1>2, <2>1, <2>3, <2>4
<1>5. ASSUME NEW u \in Known(S, T), NEW d \in Differs(S, u)
      PROVE  \E x \in Range(ops) : About(x, "AlterField", u, <<ColumnOf(Find(S, u), d.name), d>>)
  <2> DEFINE old == ColumnOf(Find(S, u), d.name)
             c == Change("AlterColumn", u, d, old)
             x == Operation("AlterField", c.table, c.schema, <<c.old, c.column>>, DatabaseOf(entries, c.table))
  <2>1. c \in Range(changes)
    <3>1. IsTableChange(S, T, c)
      BY DEF IsTableChange, Known
    <3> QED BY <1>1, <3>1
  <2> HIDE DEF old
  <2>2. c.kind = "AlterColumn" /\ c.table = u.name /\ c.schema = u.schema /\ c.column = d /\ c.old = old
    BY DEF Change
  <2> HIDE DEF c
  <2>3. OperationOf(changes, entries, c, x)
    BY <2>2 DEF OperationOf
  <2>4. About(x, "AlterField", u, <<old, d>>)
    BY <2>2 DEF About, Operation
  <2> HIDE DEF x
  <2>5. \E y \in Range(ops) : About(y, "AlterField", u, <<old, d>>)
    BY <1>2, <2>1, <2>3, <2>4
  <2> QED BY <2>5 DEF old
<1> QED BY <1>3, <1>4, <1>5 DEF ops

TargetColumns(T) == \A t \in Range(T) : \A c \in Range(t.columns) : IsColumn(c)

\* Tables of a name have one schema, and columns of a name in them are one.
Agree(T) ==
  \A t, u \in Range(T) : t.name = u.name =>
    t.schema = u.schema /\ \A c \in Range(t.columns), d \in Range(u.columns) : c.name = d.name => c = d

LEMMA OldIs ==
  ASSUME NEW S, IsState(S), NEW u, Knows(S, u), NEW n, HasColumn(Find(S, u), n)
  PROVE  LET e == ColumnOf(Find(S, u), n) IN Shows(S, u, n, e) /\ IsColumn(e) /\ e.name = n
<1> DEFINE t == Find(S, u)
           cols == t.columns
           e == ColumnOf(t, n)
<1>1. AreColumns(cols) /\ IsList(cols)
  BY ColumnsShape DEF AreColumns
<1> HIDE DEF t
<1>2. Gives(cols, n, e)
  BY <1>1, HasIs DEF t
<1> HIDE DEF e, cols
<1>3. e \in Range(cols) /\ e.name = n
  BY <1>1, <1>2, GivesOne
<1>4. IsColumn(e)
  <2>1. PICK i \in DOMAIN cols : e = cols[i]
    BY <1>1, <1>3, ElementIs
  <2> QED BY <1>1, <2>1 DEF AreColumns
<1>5. Shows(S, u, n, e)
  BY <1>2 DEF Shows, cols, t
<1> QED BY <1>3, <1>4, <1>5 DEF e, t

LEMMA AreOne == ASSUME NEW c, IsColumn(c) PROVE AreColumns(<<c>>) /\ DOMAIN <<c>> = {1} /\ <<c>>[1] = c
BY TupleIsList DEF AreColumns

LEMMA ArePair ==
  ASSUME NEW c, IsColumn(c), NEW d, IsColumn(d)
  PROVE  AreColumns(<<c, d>>) /\ DOMAIN <<c, d>> = {1, 2} /\ <<c, d>>[1] = c /\ <<c, d>>[2] = d
BY PairIsList DEF AreColumns

LEMMA AreNone == AreColumns(<<>>)
BY NoElements DEF AreColumns

(* What is detected parses.                                                 *)
LEMMA OpShaped ==
  ASSUME NEW S, IsState(S), NEW T, IsTarget(T), TargetColumns(T), NEW changes, changes = DiffStates(S, T),
         NEW entries, NEW x \in Range(Ops(changes, entries))
  PROVE  IsShaped(x)
<1>1. CASE x.kind = "CreateSchema" /\ x.columns = <<>>
  BY <1>1, AreNone DEF IsShaped
<1>2. CASE Creates(S, T, changes, x)
  <2>1. PICK u \in Fresh(S, T) : x.kind = "CreateTable" /\ x.columns = ColumnsFor(changes, u.name)
    BY <1>2 DEF Creates, About
  <2> DEFINE cols == ColumnsFor(changes, u.name)
  <2>2. IsList(cols) /\ \A d \in Range(cols) : \E v \in Range(T) : d \in Range(v.columns)
    BY NewColumns
  <2> HIDE DEF cols
  <2>3. \A i \in DOMAIN cols : cols[i] \in Range(cols)
    BY DEF Range
  <2>4. \A i \in DOMAIN cols : IsColumn(cols[i])
    BY <2>2, <2>3 DEF TargetColumns
  <2>5. AreColumns(cols)
    BY <2>2, <2>4 DEF AreColumns
  <2> QED BY <2>1, <2>5 DEF IsShaped, cols
<1>3. CASE AddsOne(S, T, changes, x)
  <2>1. PICK u \in Known(S, T) : \E d \in Lacks(S, u) : x.kind = "AddField" /\ x.columns = <<d>>
    BY <1>3 DEF AddsOne, About
  <2>2. PICK d \in Lacks(S, u) : x.kind = "AddField" /\ x.columns = <<d>>
    BY <2>1
  <2>3. IsColumn(d)
    BY DEF Known, Lacks, TargetColumns
  <2> QED BY <2>2, <2>3, AreOne DEF IsShaped
<1>4. CASE AltersOne(S, T, x)
  <2>1. PICK u \in Known(S, T) : \E d \in Differs(S, u) :
          x.kind = "AlterField" /\ x.columns = <<ColumnOf(Find(S, u), d.name), d>>
    BY <1>4 DEF AltersOne, About
  <2>2. PICK d \in Differs(S, u) : x.kind = "AlterField" /\ x.columns = <<ColumnOf(Find(S, u), d.name), d>>
    BY <2>1
  <2>3. IsColumn(d) /\ Knows(S, u) /\ HasColumn(Find(S, u), d.name)
    BY DEF Known, Fresh, Differs, TargetColumns
  <2>4. IsColumn(ColumnOf(Find(S, u), d.name))
    BY <2>3, OldIs
  <2> QED BY <2>2, <2>3, <2>4, ArePair DEF IsShaped
<1>5. \/ x.kind = "CreateSchema" /\ x.columns = <<>>
      \/ Creates(S, T, changes, x) \/ AddsOne(S, T, changes, x) \/ AltersOne(S, T, x)
  BY OpIs
<1> QED BY <1>1, <1>2, <1>3, <1>4, <1>5

LEMMA FreshSame ==
  ASSUME NEW S, IsState(S), NEW T, NEW t \in Range(T), NEW u \in Range(T), Same(u, t)
  PROVE  u \in Fresh(S, T) <=> t \in Fresh(S, T)
<1>1. Knows(S, u) <=> Knows(S, t)
  BY SameFind DEF IsState
<1> QED BY <1>1 DEF Fresh

LEMMA AimsAt ==
  ASSUME NEW x, NEW kind, NEW u, NEW cols, About(x, kind, u, cols), NEW t
  PROVE  Aims(x, t) <=> Same(u, t)
BY DEF About, Aims, Same, TableOf

(* What is detected fits the column it was detected for.                    *)
LEMMA OpFits ==
  ASSUME NEW S, IsState(S), NEW T, IsTarget(T), TargetColumns(T), Agree(T),
         NEW changes, changes = DiffStates(S, T), NEW entries, NEW x \in Range(Ops(changes, entries)),
         NEW t \in Range(T), NEW c \in Range(t.columns)
  PROVE  Fits(x, t, c) /\ Grounded(S, x, t, c)
<1>0. IsShaped(x)
  BY OpShaped
<1>1. CASE x.kind = "CreateSchema" /\ x.columns = <<>>
  BY <1>0, <1>1 DEF Fits, Grounded
<1>2. CASE Creates(S, T, changes, x)
  <2>1. PICK u \in Fresh(S, T) : About(x, "CreateTable", u, ColumnsFor(changes, u.name))
    BY <1>2 DEF Creates
  <2> DEFINE cols == ColumnsFor(changes, u.name)
  <2>2. /\ \A d \in Range(cols) : \E v \in Range(T) : v.name = u.name /\ d \in Range(v.columns)
        /\ \A v \in Fresh(S, T) : \A d \in Range(v.columns) : v.name = u.name => d \in Range(cols)
    BY NewColumns
  <2>3. x.kind = "CreateTable" /\ x.columns = cols
    BY <2>1 DEF About
  <2> HIDE DEF cols
  <2>4. ASSUME Aims(x, t) PROVE c \in Range(cols) /\ \A d \in Range(cols) : d.name = c.name => d = c
    <3>1. Same(u, t) /\ u \in Range(T)
      BY <2>1, <2>4, AimsAt DEF Fresh
    <3>2. t \in Fresh(S, T) /\ t.name = u.name
      BY <3>1, FreshSame DEF Same
    <3>3. c \in Range(cols)
      BY <2>2, <3>2
    <3>4. ASSUME NEW d \in Range(cols), d.name = c.name PROVE d = c
      <4>1. PICK v \in Range(T) : v.name = u.name /\ d \in Range(v.columns)
        BY <2>2
      <4> QED BY <3>2, <3>4, <4>1 DEF Agree
    <3> QED BY <3>3, <3>4
  <2> QED BY <1>0, <2>3, <2>4 DEF Fits, Grounded
<1>3. CASE AddsOne(S, T, changes, x)
  <2>1. PICK u \in Known(S, T) : \E d \in Lacks(S, u) : About(x, "AddField", u, <<d>>)
    BY <1>3 DEF AddsOne
  <2>2. PICK d \in Lacks(S, u) : About(x, "AddField", u, <<d>>)
    BY <2>1
  <2>3. x.kind = "AddField" /\ x.columns[1] = d
    BY <2>2 DEF About
  <2>4. u \in Range(T) /\ d \in Range(u.columns) /\ u \notin Fresh(S, T)
    BY DEF Known, Lacks
  <2>5. ASSUME Aims(x, t) PROVE Knows(S, t) /\ (d.name = c.name => d = c)
    <3>1. Same(u, t)
      BY <2>2, <2>5, AimsAt
    <3>2. t \notin Fresh(S, T) /\ t.name = u.name
      BY <2>4, <3>1, FreshSame DEF Same
    <3> QED BY <2>4, <3>2 DEF Agree, Fresh
  <2> QED BY <1>0, <2>3, <2>5 DEF Fits, Grounded
<1>4. CASE AltersOne(S, T, x)
  <2>1. PICK u \in Known(S, T) : \E d \in Differs(S, u) :
          About(x, "AlterField", u, <<ColumnOf(Find(S, u), d.name), d>>)
    BY <1>4 DEF AltersOne
  <2>2. PICK d \in Differs(S, u) : About(x, "AlterField", u, <<ColumnOf(Find(S, u), d.name), d>>)
    BY <2>1
  <2> DEFINE old == ColumnOf(Find(S, u), d.name)
  <2>3. u \in Range(T) /\ d \in Range(u.columns) /\ u \notin Fresh(S, T) /\ Knows(S, u) /\ HasColumn(Find(S, u), d.name)
    BY DEF Known, Differs, Fresh
  <2>4. Shows(S, u, d.name, old) /\ old.name = d.name
    BY <2>3, OldIs
  <2> HIDE DEF old
  <2>5. About(x, "AlterField", u, <<old, d>>)
    BY <2>2 DEF old
  <2>6. x.kind = "AlterField" /\ x.columns[1] = old /\ x.columns[2] = d
    BY <2>5 DEF About
  <2>7. ASSUME Aims(x, t)
        PROVE  Knows(S, t) /\ (d.name = c.name => d = c) /\ (d.name = c.name => Shows(S, t, c.name, old))
    <3>1. Same(u, t)
      BY <2>5, <2>7, AimsAt
    <3>2. t \notin Fresh(S, T) /\ t.name = u.name
      BY <2>3, <3>1, FreshSame DEF Same
    <3>3. Knows(S, t) /\ (d.name = c.name => d = c)
      BY <2>3, <3>2 DEF Agree, Fresh
    <3>4. Find(S, u) = Find(S, t)
      BY <3>1, <3>3, SameFind DEF IsState
    <3> QED BY <2>4, <3>3, <3>4 DEF Shows
  <2> QED BY <1>0, <2>4, <2>6, <2>7 DEF Fits, Grounded
<1>5. \/ x.kind = "CreateSchema" /\ x.columns = <<>>
      \/ Creates(S, T, changes, x) \/ AddsOne(S, T, changes, x) \/ AltersOne(S, T, x)
  BY OpIs
<1> QED BY <1>1, <1>2, <1>3, <1>4, <1>5

(* Tables stay known, and what is created is known.                         *)
LEMMA KnowStep ==
  ASSUME NEW S, IsState(S), NEW op, IsShaped(op), NEW t
  PROVE  /\ Knows(S, t) => Knows(ApplyOperation(S, op), t)
         /\ op.kind = "CreateTable" /\ Aims(op, t) => Knows(ApplyOperation(S, op), t)
<1> DEFINE R == ApplyOperation(S, op)
<1>1. CASE op.kind = "CreateTable"
  <2>1. Remade(S, op, R)
    BY <1>1, CreateApplies DEF IsShaped
  <2> HIDE DEF R
  <2>2. CASE Aims(op, t)
    BY <2>1, <2>2 DEF Remade, Aims, R
  <2>3. CASE ~Aims(op, t)
    BY <2>1, <2>3 DEF Remade, Aims, R
  <2> QED BY <2>2, <2>3
<1>2. CASE op.kind = "AddField"
  BY <1>2, AddApplies DEF Edited
<1>3. CASE op.kind = "AlterField"
  BY <1>3, AlterApplies DEF Edited
<1>4. CASE op.kind \notin {"CreateTable", "AddField", "AlterField", "RemoveField"}
  BY <1>4, OthersApply
<1>5. CASE op.kind = "RemoveField"
  BY <1>5, RemoveApplies
<1> QED BY <1>1, <1>2, <1>3, <1>4, <1>5

LEMMA AllKnow ==
  ASSUME NEW S, IsState(S), NEW ops, IsList(ops), \A op \in Range(ops) : IsShaped(op), NEW t
  PROVE  /\ Knows(S, t) => Knows(ApplyOperations(S, ops), t)
         /\ \A op \in Range(ops) : op.kind = "CreateTable" /\ Aims(op, t) => Knows(ApplyOperations(S, ops), t)
<1> DEFINE N == Len(ops)
<1>1. N \in Nat /\ (\A k \in 1..N : ops[k] \in Range(ops)) /\ \A op \in Range(ops) : \E k \in 1..N : op = ops[k]
  BY ListIs
<1>2. PICK f : OpsRun(ops, S, f)
  BY OpsSteps
<1>3. ApplyOperations(S, ops) = f[N] /\ f[0] = S /\ \A k \in 1..N : f[k] = ApplyOperation(f[k - 1], ops[k])
  BY <1>2 DEF OpsRun
<1> HIDE DEF N
<1> DEFINE J(k) == /\ IsState(f[k]) /\ (Knows(S, t) => Knows(f[k], t))
                   /\ \A j \in 1..k : ops[j].kind = "CreateTable" /\ Aims(ops[j], t) => Knows(f[k], t)
           I == {k \in Nat : k <= N => J(k)}
<1>4. 0 \in I
  BY <1>3
<1>5. ASSUME NEW k \in I PROVE k + 1 \in I
  <2> SUFFICES ASSUME k + 1 <= N PROVE J(k + 1)
    OBVIOUS
  <2>1. k \in Nat /\ k + 1 \in 1..N /\ (k + 1) - 1 = k /\ k <= N
    BY <1>1
  <2>2. J(k)
    BY <2>1
  <2> DEFINE R == f[k]
             op == ops[k + 1]
             Q == f[k + 1]
  <2>3. Q = ApplyOperation(R, op) /\ IsShaped(op) /\ IsState(R)
    BY <1>1, <1>3, <2>1, <2>2
  <2> HIDE DEF R, op, Q, I
  <2>4. IsState(Q) /\ (Knows(R, t) => Knows(Q, t)) /\ (op.kind = "CreateTable" /\ Aims(op, t) => Knows(Q, t))
    BY <2>3, ApplyState, KnowStep
  <2>5. ASSUME NEW j \in 1..(k + 1), ops[j].kind = "CreateTable" /\ Aims(ops[j], t) PROVE Knows(Q, t)
    <3>1. CASE j = k + 1
      BY <2>4, <2>5, <3>1 DEF op
    <3>2. CASE j # k + 1
      <4>1. j \in 1..k
        BY <2>1, <3>2
      <4> QED BY <2>2, <2>4, <2>5, <4>1 DEF R
    <3> QED BY <3>1, <3>2
  <2> QED BY <2>2, <2>4, <2>5 DEF R, Q
<1> HIDE DEF I
<1>6. I = Nat
  BY <1>4, <1>5, Induction DEF I
<1>7. J(N)
  BY <1>1, <1>6 DEF I
<1> QED BY <1>1, <1>3, <1>7

\* A state that has every table and column of a target, as declared.
Shown(R, T) ==
  \A t \in Range(T) : Knows(R, t) /\ \A c \in Range(t.columns) : Shows(R, t, c.name, c)

(* The operations make what they were detected for.                         *)
LEMMA OpsSettle ==
  ASSUME NEW S, IsState(S), NEW T, IsTarget(T), TargetColumns(T), Agree(T), NEW entries,
         \A t \in Range(T) : \A c \in Range(t.columns) : \A d : Shows(S, t, c.name, d) => d.pk = c.pk
  PROVE  Shown(ApplyOperations(S, Ops(DiffStates(S, T), entries)), T)
<1> DEFINE changes == DiffStates(S, T)
           ops == Ops(changes, entries)
           R == ApplyOperations(S, ops)
<1>1. IsList(ops) /\ \A x \in Range(ops) : IsShaped(x)
  <2>1. IsList(changes)
    BY DiffIs
  <2>2. IsList(ops)
    BY <2>1, OperationsAre
  <2> QED BY <2>2, OpShaped
<1>2. \A t \in Range(T) : \A c \in Range(t.columns) : \A x \in Range(ops) : Fits(x, t, c) /\ Grounded(S, x, t, c)
  BY OpFits
<1>3. \A u \in Fresh(S, T) : \E x \in Range(ops) : About(x, "CreateTable", u, ColumnsFor(changes, u.name))
  BY OpsThere
<1>4. \A u \in Known(S, T) : \A d \in Lacks(S, u) : u.name \notin NewTables(changes) =>
        \E x \in Range(ops) : About(x, "AddField", u, <<d>>)
  BY OpsThere
<1>5. \A u \in Known(S, T) : \A d \in Differs(S, u) :
        \E x \in Range(ops) : About(x, "AlterField", u, <<ColumnOf(Find(S, u), d.name), d>>)
  BY OpsThere
<1>6. \A n : n \in NewTables(changes) <=> \E u \in Fresh(S, T) : u.name = n
  BY NewNames
<1> HIDE DEF ops, changes
<1>7. ASSUME NEW t \in Range(T) PROVE Knows(R, t)
  <2>1. CASE Knows(S, t)
    BY <1>1, <2>1, AllKnow
  <2>2. CASE ~Knows(S, t)
    <3>1. PICK x \in Range(ops) : About(x, "CreateTable", t, ColumnsFor(changes, t.name))
      BY <1>3, <2>2 DEF Fresh
    <3>2. x.kind = "CreateTable"
      BY <3>1 DEF About
    <3>3. Aims(x, t)
      BY <3>1, AimsAt DEF Same
    <3> QED BY <1>1, <3>2, <3>3, AllKnow
  <2> QED BY <2>1, <2>2
<1>8. ASSUME NEW t \in Range(T), NEW c \in Range(t.columns) PROVE Shows(R, t, c.name, c)
  <2>1. IsColumn(c)
    BY DEF TargetColumns
  <2>2. (\A x \in Range(ops) : Fits(x, t, c) /\ Grounded(S, x, t, c)) /\ \A d : Shows(S, t, c.name, d) => d.pk = c.pk
    BY <1>2
  <2>3. Steps(S, R, t, c) /\ \A x \in Range(ops) : Done(R, x, t, c)
    BY <1>1, <2>1, <2>2, AllSteps
  <2> HIDE DEF R
  <2>4. Knows(R, t) /\ Same(t, t)
    BY <1>7 DEF Same
  <2>5. CASE ~Knows(S, t)
    BY <2>3, <2>4, <2>5 DEF Steps
  <2>6. CASE Knows(S, t) /\ ~HasColumn(Find(S, t), c.name)
    <3>1. t \in Known(S, T) /\ c \in Lacks(S, t)
      BY <2>6 DEF Known, Fresh, Lacks
    <3>2. t.name \notin NewTables(changes)
      <4> SUFFICES ASSUME NEW u \in Fresh(S, T), u.name = t.name PROVE FALSE
        BY <1>6
      <4>1. Same(u, t) /\ u \in Range(T)
        BY DEF Agree, Same, Fresh
      <4> QED BY <4>1, <3>1, FreshSame DEF Known
    <3>3. PICK x \in Range(ops) : About(x, "AddField", t, <<c>>)
      BY <1>4, <3>1, <3>2
    <3>4. x.kind = "AddField" /\ x.columns[1] = c /\ Aims(x, t)
      BY <2>4, <3>3, AimsAt DEF About
    <3>5. PICK d : Shows(R, t, c.name, d)
      BY <2>3, <3>4 DEF Done
    <3>6. d = c \/ Shows(S, t, c.name, d)
      BY <2>3, <3>5 DEF Steps
    <3>7. ~Shows(S, t, c.name, d)
      <4>1. IsList(Find(S, t).columns)
        BY <2>6, ColumnsShape DEF AreColumns
      <4> QED BY <2>6, <4>1, HasIs DEF Shows
    <3> QED BY <3>5, <3>6, <3>7
  <2>7. CASE Knows(S, t) /\ HasColumn(Find(S, t), c.name)
    <3> DEFINE old == ColumnOf(Find(S, t), c.name)
    <3>1. Shows(S, t, c.name, old) /\ old.name = c.name
      BY <2>7, OldIs
    <3>2. CASE old = c
      BY <2>3, <3>1, <3>2 DEF Steps
    <3>3. CASE old # c
      <4>1. t \in Known(S, T) /\ c \in Differs(S, t)
        BY <2>7, <3>3 DEF Known, Fresh, Differs
      <4> HIDE DEF old
      <4>2. PICK x \in Range(ops) : About(x, "AlterField", t, <<old, c>>)
        BY <1>5, <4>1 DEF old
      <4>3. x.kind = "AlterField" /\ x.columns[1].name = c.name /\ Aims(x, t)
        BY <2>4, <3>1, <4>2, AimsAt DEF About
      <4> QED BY <2>3, <4>3 DEF Done
    <3> QED BY <3>2, <3>3
  <2> QED BY <2>5, <2>6, <2>7
<1>9. Shown(R, T)
  BY <1>7, <1>8 DEF Shown
<1> QED BY <1>9 DEF ops, changes

(* Of what is there as declared nothing is left to do.                      *)
LEMMA NothingLeft ==
  ASSUME NEW R, IsState(R), NEW T, IsTarget(T), Shown(R, T), NEW entries
  PROVE  Ops(DiffStates(R, T), entries) = <<>>
<1> DEFINE changes == DiffStates(R, T)
           ops == Ops(changes, entries)
<1>1. /\ IsList(changes)
      /\ \A x \in Range(changes) : IsSchemaChange(R, T, x) \/ IsTableChange(R, T, x)
  BY DiffIs
<1>2. Fresh(R, T) = {}
  BY DEF Fresh, Shown
<1>3. ASSUME NEW t \in Range(T) PROVE Lacks(R, t) = {} /\ Differs(R, t) = {}
  <2>1. Knows(R, t) /\ IsList(Find(R, t).columns)
    BY ColumnsShape DEF Shown, AreColumns
  <2>2. ASSUME NEW c \in Range(t.columns)
        PROVE  HasColumn(Find(R, t), c.name) /\ ColumnOf(Find(R, t), c.name) = c
    <3>1. Gives(Find(R, t).columns, c.name, c)
      BY DEF Shown, Shows
    <3> QED BY <2>1, <3>1, HasIs
  <2> QED BY <2>2 DEF Lacks, Differs
<1>4. \A x : ~IsTableChange(R, T, x)
  BY <1>2, <1>3 DEF IsTableChange
<1>5. SchemasOf(T) \subseteq SchemasOf(R)
  <2> SUFFICES ASSUME NEW i \in DOMAIN T PROVE T[i].schema \in SchemasOf(R)
    BY DEF SchemasOf
  <2>1. Knows(R, T[i])
    BY DEF Shown, Range
  <2> QED BY <2>1 DEF Knows, Same, SchemasOf
<1>6. \A x : ~IsSchemaChange(R, T, x)
  BY <1>5 DEF IsSchemaChange
<1>7. Range(changes) = {}
  BY <1>1, <1>4, <1>6
<1> HIDE DEF changes
<1>8. IsList(ops) /\ Range(ops) = {}
  BY <1>1, <1>7, OperationsAre
<1> HIDE DEF ops
<1>9. ops = <<>>
  BY <1>8 DEF IsList
<1> QED BY <1>9 DEF ops, changes

\* The columns of the models.
EntryColumns(entries) == \A e \in Range(entries) : \A c \in Range(e.columns) : IsColumn(c)

LEMMA TargetEntries ==
  ASSUME NEW entries, AreEntries(entries)
  PROVE  \A t \in Range(BuildTarget(entries)) : \E i \in DOMAIN entries :
           t.name = entries[i].table /\ t.schema = entries[i].schema /\ t.columns = entries[i].columns
<1> DEFINE g == [i \in DOMAIN entries |->
                   [name |-> entries[i].table, schema |-> entries[i].schema, columns |-> entries[i].columns]]
<1>1. BuildTarget(entries) = g \o <<>>
  BY DEF BuildTarget, MapTo
<1>2. /\ g = [i \in DOMAIN entries |-> g[i]]
      /\ \A i \in DOMAIN entries : /\ g[i].name = entries[i].table /\ g[i].schema = entries[i].schema
                                   /\ g[i].columns = entries[i].columns
  OBVIOUS
<1> HIDE DEF g
<1>3. \A x : x \in Range(g \o <<>>) <=> \E i \in DOMAIN entries : x = g[i]
  BY <1>2, MappedIs DEF AreEntries
<1> QED BY <1>1, <1>2, <1>3

LEMMA TargetTyped ==
  ASSUME NEW entries, AreEntries(entries), EntryColumns(entries)
  PROVE  TargetColumns(BuildTarget(entries))
<1>1. \A i \in DOMAIN entries : entries[i] \in Range(entries)
  BY DEF Range
<1> QED BY <1>1, TargetEntries DEF TargetColumns, EntryColumns

LEMMA TargetAgrees ==
  ASSUME NEW entries, AreEntries(entries), OneSchemaEach(entries), OneColumnEach(entries)
  PROVE  Agree(BuildTarget(entries))
<1> DEFINE T == BuildTarget(entries)
<1>1. \A t \in Range(T) : \E i \in DOMAIN entries :
        t.name = entries[i].table /\ t.schema = entries[i].schema /\ t.columns = entries[i].columns
  BY TargetEntries
<1> HIDE DEF T
<1>2. ASSUME NEW t \in Range(T), NEW u \in Range(T), t.name = u.name
      PROVE  /\ t.schema = u.schema
             /\ \A c \in Range(t.columns), d \in Range(u.columns) : c.name = d.name => c = d
  <2>1. PICK i \in DOMAIN entries : t.name = entries[i].table /\ t.schema = entries[i].schema /\ t.columns = entries[i].columns
    BY <1>1
  <2>2. PICK j \in DOMAIN entries : u.name = entries[j].table /\ u.schema = entries[j].schema /\ u.columns = entries[j].columns
    BY <1>1
  <2>3. entries[i].table = entries[j].table
    BY <1>2, <2>1, <2>2
  <2>4. entries[i].schema = entries[j].schema
    BY <2>3 DEF OneSchemaEach
  <2>5. \A c \in Range(entries[i].columns), d \in Range(entries[j].columns) : c.name = d.name => c = d
    BY <2>3 DEF OneColumnEach
  <2> QED BY <2>1, <2>2, <2>4, <2>5
<1> QED BY <1>2 DEF Agree, T

LEMMA KeysAgree ==
  ASSUME NEW S, IsState(S), NEW entries, AreEntries(entries), ~KeyMoved(S, entries),
         NEW t \in Range(BuildTarget(entries)), NEW c \in Range(t.columns), NEW d, Shows(S, t, c.name, d)
  PROVE  d.pk = c.pk
<1>1. PICK i \in DOMAIN entries : t.name = entries[i].table /\ t.schema = entries[i].schema /\ t.columns = entries[i].columns
  BY TargetEntries
<1> DEFINE u == [name |-> entries[i].table, schema |-> entries[i].schema]
<1>2. Same(u, t)
  BY <1>1 DEF Same
<1>3. Knows(S, u) /\ HasColumn(Find(S, u), c.name) => ColumnOf(Find(S, u), c.name).pk = c.pk
  BY <1>1, Zenon DEF KeyMoved
<1> HIDE DEF u
<1>4. Knows(S, t) /\ Knows(S, u) /\ Find(S, u) = Find(S, t) /\ Gives(Find(S, t).columns, c.name, d)
  BY <1>2, SameFind DEF IsState, Shows
<1>5. IsList(Find(S, t).columns)
  BY <1>4, ColumnsShape DEF AreColumns
<1>6. HasColumn(Find(S, t), c.name) /\ ColumnOf(Find(S, t), c.name) = d
  BY <1>4, <1>5, HasIs
<1> QED BY <1>3, <1>4, <1>6

(* The replay of a detected file: the next detection finds nothing.         *)
LEMMA DetectAgain ==
  ASSUME NEW fs, IsList(fs), AreShaped(fs), NEW entries, AreEntries(entries), EntryColumns(entries),
         ~KeyMoved(BuildCurrent(fs), entries), OneSchemaEach(entries), OneColumnEach(entries)
  PROVE  Detect(Written(fs, Detect(fs, entries)), entries) = <<>>
<1> DEFINE S == BuildCurrent(fs)
           T == BuildTarget(entries)
           ops == Ops(DiffStates(S, T), entries)
           f == NewFile(fs, ops)
           R == ApplyOperations(S, ops)
<1>1. IsState(S)
  BY BuildState
<1>2. IsTarget(T) /\ TargetColumns(T) /\ Agree(T)
  BY TargetIs, TargetTyped, TargetAgrees
<1>3. \A t \in Range(T) : \A c \in Range(t.columns) : \A d : Shows(S, t, c.name, d) => d.pk = c.pk
  BY <1>1, KeysAgree
<1>4. Detect(fs, entries) = ops
  BY Zenon DEF Detect, Ops
<1>5. Written(fs, ops) = Append(fs, f)
  BY Zenon DEF Written, NewFile
<1>6. f.readable = TRUE /\ f.ops = ops
  <2> HIDE DEF ops
  <2> QED BY DEF NewFile, MigrationFile
<1> HIDE DEF f
<1>7. BuildCurrent(Append(fs, f)) = R
  BY <1>6, BuildMore
<1>8. Detect(Append(fs, f), entries) = Ops(DiffStates(R, T), entries)
  BY <1>7, Zenon DEF Detect, Ops
<1>9. IsList(ops) /\ \A x \in Range(ops) : IsShaped(x)
  <2>1. IsList(DiffStates(S, T))
    BY <1>2, DiffIs
  <2>2. IsList(ops)
    BY <2>1, OperationsAre
  <2> HIDE DEF S, T
  <2>3. \A x \in Range(ops) : IsShaped(x)
    BY <1>1, <1>2, OpShaped
  <2> QED BY <2>2, <2>3
<1> HIDE DEF S, T
<1>10. Shown(R, T)
  BY <1>1, <1>2, <1>3, OpsSettle
<1> HIDE DEF ops
<1>11. IsState(R)
  BY <1>1, <1>9, ApplyAllState
<1> HIDE DEF R
<1>12. Ops(DiffStates(R, T), entries) = <<>>
  BY <1>2, <1>10, <1>11, NothingLeft
<1> QED BY <1>4, <1>5, <1>8, <1>12

-----------------------------------------------------------------------------
(* Every file there is parses.                                              *)

LEMMA ModelColumns ==
  ASSUME project \in Projects, version \in 1..Len(project)
  PROVE  EntryColumns(Entries)
<1>1. IsList(project) /\ \A entries \in Range(project) : EntryColumns(entries)
  BY ProjectAssumption DEF EntryColumns
<1>2. project[version] \in Range(project)
  BY <1>1, ListIs
<1> QED BY <1>1, <1>2 DEF Entries

LEMMA CapturedColumns ==
  ASSUME AreEntries(Entries), EntryColumns(Entries), NEW schema
  PROVE  EntryColumns(Captured(schema))
<1> DEFINE E == Entries
           g == [i \in DOMAIN E |-> Placed(E[i], schema)]
<1>1. Captured(schema) = g \o <<>>
  BY Zenon DEF Captured, MapTo, Placed
<1>2. IsList(E) /\ \A i \in DOMAIN E : IsEntry(E[i]) /\ \A c \in Range(E[i].columns) : IsColumn(c)
  BY DEF AreEntries, EntryColumns, Range
<1> HIDE DEF E
<1>3. ASSUME NEW i \in DOMAIN E PROVE g[i].columns = E[i].columns
  <2> DEFINE e == E[i]
  <2>1. IsEntry(e)
    BY <1>2
  <2> HIDE DEF e
  <2>2. e = [table |-> e.table, database |-> e.database, schema |-> e.schema, columns |-> e.columns]
    BY <2>1 DEF IsEntry
  <2>3. [e EXCEPT !.schema = schema].columns = e.columns
    BY <2>2
  <2>4. Placed(e, schema).columns = e.columns
    BY <2>3, Zenon DEF Placed
  <2> QED BY <2>4 DEF e
<1>4. g = [i \in DOMAIN E |-> g[i]]
  OBVIOUS
<1> HIDE DEF g
<1>5. \A x : x \in Range(g \o <<>>) <=> \E i \in DOMAIN E : x = g[i]
  BY <1>2, <1>4, MappedIs
<1> QED BY <1>1, <1>2, <1>3, <1>5 DEF EntryColumns

LEMMA WrittenShaped ==
  ASSUME AreFiles(files), AreShaped(files), NEW entries, AreEntries(entries), EntryColumns(entries)
  PROVE  AreShaped(Written(files, Detect(files, entries)))
<1> DEFINE S == BuildCurrent(files)
           T == BuildTarget(entries)
           ops == Ops(DiffStates(S, T), entries)
           f == NewFile(files, ops)
<1>1. IsState(S)
  BY BuildState DEF AreFiles
<1>2. IsTarget(T) /\ TargetColumns(T)
  BY TargetIs, TargetTyped
<1>3. Detect(files, entries) = ops
  BY Zenon DEF Detect, Ops
<1>4. Written(files, ops) = Append(files, f)
  BY Zenon DEF Written, NewFile
<1>5. IsList(ops)
  BY <1>2, DiffIs, OperationsAre
<1> HIDE DEF S, T
<1>6. \A x \in Range(ops) : IsShaped(x)
  BY <1>1, <1>2, OpShaped
<1> HIDE DEF ops
<1>7. f.ops = ops
  BY DEF NewFile, MigrationFile
<1> HIDE DEF f
<1>8. Range(Append(files, f)) = Range(files) \cup {f}
  BY FilesAppended DEF AreFiles
<1>9. AreShaped(Append(files, f))
  BY <1>5, <1>6, <1>7, <1>8 DEF AreShaped
<1> QED BY <1>3, <1>4, <1>9

LEMMA BranchShaped == ASSUME NEW f \in Branches PROVE IsList(f.ops) /\ \A op \in Range(f.ops) : IsShaped(op)
<1>1. IsList(f.ops) /\ \A op \in Range(f.ops) :
        /\ IsList(op.columns) /\ \A c \in Range(op.columns) : IsColumn(c)
        /\ op.kind = "AddField" => DOMAIN op.columns = {1}
        /\ op.kind = "AlterField" => DOMAIN op.columns = {1, 2}
  BY BranchAssumption
<1>2. ASSUME NEW op \in Range(f.ops) PROVE AreColumns(op.columns)
  BY <1>1 DEF AreColumns, Range
<1> QED BY <1>1, <1>2 DEF IsShaped

LEMMA NextShaped ==
  ASSUME FileTypes, AreShaped(files), [Next]_vars
  PROVE  AreShaped(files')
<1>0. AreFiles(files) /\ AreEntries(Entries) /\ EntryColumns(Entries)
  BY EntriesAre, ModelColumns DEF FileTypes
<1>1. CASE MakeMigrations
  <2>1. files' = Written(files, Detect(files, Entries))
    BY <1>1 DEF MakeMigrations
  <2> QED BY <1>0, <2>1, WrittenShaped
<1>2. ASSUME NEW f \in Branches, Arrive(f)
      PROVE  AreShaped(files')
  <2>1. PICK i \in 1..(Len(files) + 1) : files' = InsertAt(files, i, f)
    BY <1>2 DEF Arrive, Places
  <2>2. Range(files') = Range(files) \cup {f}
    BY <1>0, <2>1, FilesInserted DEF AreFiles
  <2>3. IsList(f.ops) /\ \A op \in Range(f.ops) : IsShaped(op)
    BY BranchShaped
  <2> QED BY <2>2, <2>3 DEF AreShaped
<1>3. ASSUME NEW p \in Process, NEW c \in Calls, Start(p, c)
      PROVE  AreShaped(files')
  <2>1. files' = files \/ files' = FilesOf(c)
    BY <1>3, StartIs
  <2>2. FilesOf(c) = files \/ FilesOf(c) = Written(files, Detect(files, Captured(c.schema)))
    BY Zenon DEF FilesOf
  <2>3. AreEntries(Captured(c.schema)) /\ EntryColumns(Captured(c.schema))
    BY <1>0, CapturedAre, CapturedColumns
  <2>4. AreShaped(Written(files, Detect(files, Captured(c.schema))))
    BY <1>0, <2>3, WrittenShaped
  <2> QED BY <2>1, <2>2, <2>4
<1>4. ASSUME NEW p \in Process, Step(p) \/ RecordMigration(p) \/ Stop(p) \/ Finish(p)
      PROVE  UNCHANGED files
  BY <1>4 DEF Step, RecordMigration, Stop, Finish
<1>5. CASE Evolve \/ UNCHANGED vars
  BY <1>5 DEF Evolve, vars
<1> QED BY <1>1, <1>2, <1>3, <1>4, <1>5 DEF Next

(* What makemigrations writes settles the difference it was written for:    *)
(* BuildCurrent replays it to the models, and the next Autodetector::run     *)
(* writes nothing, whatever files other branches brought before.            *)
THEOREM DetectionSettles == Spec => DetectSettles
<1>1. Init => FileTypes /\ AreShaped(files)
  <2>1. Init => AreShaped(files)
    BY DEF Init, AreShaped, Range
  <2> QED BY <2>1, InitTypes
<1>2. FileTypes /\ AreShaped(files) /\ [Next]_vars => (FileTypes /\ AreShaped(files))'
  <2>1. AreShaped(files') => AreShaped(files)'
    OBVIOUS
  <2> QED BY <2>1, NextTypes, NextShaped
<1> DEFINE Settles == MakeMigrations =>
                        \/ Detect(files', Entries) = <<>>
                        \/ KeyMoved(BuildCurrent(files), Entries)
                        \/ ~OneSchemaEach(Entries)
                        \/ ~OneColumnEach(Entries)
<1>3. FileTypes /\ AreShaped(files) => [Settles]_vars
  <2> SUFFICES ASSUME FileTypes, AreShaped(files), MakeMigrations,
                      ~KeyMoved(BuildCurrent(files), Entries), OneSchemaEach(Entries), OneColumnEach(Entries)
               PROVE  Detect(files', Entries) = <<>>
    OBVIOUS
  <2>1. IsList(files) /\ AreEntries(Entries) /\ EntryColumns(Entries)
    BY EntriesAre, ModelColumns DEF FileTypes, AreFiles
  <2>2. files' = Written(files, Detect(files, Entries))
    BY DEF MakeMigrations
  <2> QED BY <2>1, <2>2, DetectAgain
<1>4. QED
  BY <1>1, <1>2, <1>3, PTL DEF Spec, DetectSettles
=============================================================================
