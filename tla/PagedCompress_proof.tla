-------------------------- MODULE PagedCompress_proof --------------------------
(***************************************************************************)
(* Proofs about PagedCompress: every page decompresses to what it was, and *)
(* the counts kept while a round writes are those of what it has written.  *)
(* The data of a page are not bytes but units: a byte that stands for what *)
(* its token means, or the marker and the byte it escapes.  A round maps   *)
(* units to units (IsRewrite), and each lemma says what that does to one   *)
(* thing: their number, what is counted in them, what they stand for.      *)
(***************************************************************************)
EXTENDS PagedCompress, SequenceTheorems, FiniteSetTheorems, WellFoundedInduction, TLAPS

-----------------------------------------------------------------------------
(* Least and greatest elements, and functions defined by recursion.         *)

LEMMA LeastNatural ==
  ASSUME NEW S \in SUBSET Nat, S # {}
  PROVE  \E m \in S : \A n \in S : m <= n
<1>1. IsWellFoundedOn(OpToRel(<, Nat), Nat)
  BY NatLessThanWellFounded
<1>2. PICK m \in S : \A n \in S : ~ (<<n, m>> \in OpToRel(<, Nat))
  BY <1>1, WFMin, Zenon
<1>3. \A n \in S : ~ (n < m)
  BY <1>2 DEF OpToRel
<1>. QED  BY <1>3

LEMMA GreatestNatural ==
  ASSUME NEW b \in Nat, NEW S \in SUBSET (0..b), S # {}
  PROVE  \E m \in S : \A n \in S : n <= m
<1>. DEFINE T == {b - n : n \in S}
<1>1. T \in SUBSET Nat /\ T # {}
  <2>1. \A n \in S : b - n \in Nat
    OBVIOUS
  <2>. QED  BY <2>1
<1>2. PICK t \in T : \A u \in T : t <= u
  <2>. HIDE DEF T
  <2>. QED  BY <1>1, LeastNatural
<1>3. PICK m \in S : t = b - m
  BY <1>2
<1>4. \A n \in S : t <= b - n
  BY <1>2
<1>. QED  BY <1>3, <1>4

\* Each step depends only on the values at arguments of a lower rank.
IsRecursion(D, S, rank, step) ==
  /\ step \in [D -> [[D -> S] -> S]]
  /\ \A d \in D : \A f, g \in [D -> S] :
       (\A e \in D : rank[e] < rank[d] => f[e] = g[e]) => step[d][f] = step[d][g]

\* A function defined by such steps exists.
LEMMA RecExists ==
  ASSUME NEW D, NEW S, S # {}, NEW N \in Nat, NEW rank \in [D -> 0..N],
         NEW step, IsRecursion(D, S, rank, step)
  PROVE  \E f \in [D -> S] : \A d \in D : f[d] = step[d][f]
<1>. DEFINE Good(n) == \E f \in [D -> S] : \A d \in D : rank[d] < n => f[d] = step[d][f]
            Reached == {n \in 0..N + 1 : Good(n)}
<1>0. \A d \in D : rank[d] \in 0..N
  OBVIOUS
<1>. USE DEF IsRecursion
<1>1. 0 \in Reached
  <2>1. PICK s \in S : TRUE
    OBVIOUS
  <2>2. [d \in D |-> s] \in [D -> S]
    OBVIOUS
  <2>3. \A d \in D : ~(rank[d] < 0)
    BY <1>0
  <2>4. Good(0)
    BY <2>2, <2>3, Zenon
  <2>. QED  BY <2>4
<1>2. PICK n \in Reached : \A k \in Reached : k <= n
  <2>1. Reached \in SUBSET (0..N + 1)
    OBVIOUS
  <2>2. N + 1 \in Nat
    OBVIOUS
  <2>. HIDE DEF Reached
  <2>. QED  BY <1>1, <2>1, <2>2, GreatestNatural
<1>3. PICK f \in [D -> S] : \A d \in D : rank[d] < n => f[d] = step[d][f]
  BY <1>2
<1>4. n \in 0..N + 1
  BY <1>2
<1>5. CASE n = N + 1
  <2>1. \A d \in D : rank[d] < n
    BY <1>5
  <2>. QED  BY <1>3, <2>1
<1>6. CASE n < N + 1
  <2>. DEFINE g == [d \in D |-> IF rank[d] = n THEN step[d][f] ELSE f[d]]
  <2>1. g \in [D -> S]
    OBVIOUS
  <2>2. \A d \in D : (rank[d] = n => g[d] = step[d][f]) /\ (rank[d] < n => g[d] = f[d])
    OBVIOUS
  <2>. HIDE DEF g
  <2>3. ASSUME NEW d \in D, rank[d] < n + 1
        PROVE  g[d] = step[d][g]
    <3>1. \A e \in D : rank[e] < rank[d] => rank[e] < n
      BY <1>0, <2>3, <1>4
    <3>2. step[d][f] = step[d][g]
      BY <2>1, <2>2, <3>1
    <3>3. rank[d] = n \/ rank[d] < n
      <4>1. \A r, k \in Nat : r < k + 1 => r = k \/ r < k
        OBVIOUS
      <4>2. rank[d] \in Nat /\ n \in Nat /\ rank[d] < n + 1
        BY <1>0, <1>4, <2>3
      <4>. QED  BY <4>1, <4>2, Zenon
    <3>. QED  BY <1>3, <2>2, <3>2, <3>3
  <2>4. Good(n + 1)
    BY <2>1, <2>3, Zenon
  <2>5. n + 1 \in Reached
    BY <1>4, <1>6, <2>4
  <2>6. n + 1 <= n
    BY <1>2, <2>5, Zenon
  <2>. QED  BY <1>4, <2>6
<1>. QED  BY <1>4, <1>5, <1>6

-----------------------------------------------------------------------------
(* Flattening                                                               *)

\* The recursion of FlattenSeq has a solution, a sequence of prefixes.
LEMMA FlattenPrefixes ==
  ASSUME NEW us \in Seq(Seq(Bytes)), Len(us) > 0
  PROVE  \E f \in [1..Len(us) -> Seq(Bytes)] :
           /\ f[1] = us[1]
           /\ \A i \in 1..Len(us) - 1 : f[i + 1] = f[i] \o us[i + 1]
           /\ FlattenSeq(us) = f[Len(us)]
<1>. DEFINE n == Len(us)
            D == 1..n
            S == Seq(Bytes)
            E(f, i) == IF i = 1 THEN us[i] ELSE f[i - 1] \o us[i]
            IsFlat(f) == f = [i \in D |-> IF i = 1 THEN us[i] ELSE f[i - 1] \o us[i]]
            step == [i \in D |-> [f \in [D -> S] |-> E(f, i)]]
            rank == [i \in D |-> i]
<1>0. n \in Nat /\ n > 0 /\ \A i \in D : us[i] \in S
  OBVIOUS
<1>a. \A i \in D : i # 1 => i - 1 \in D
  BY <1>0
<1>1. \E f \in [D -> S] : \A i \in D : f[i] = step[i][f]
  <2>1. S # {} /\ rank \in [D -> 0..n]
    <3>1. <<>> \in S
      OBVIOUS
    <3>. QED  BY <1>0, <3>1
  <2>2. \A i \in D : \A f \in [D -> S] : E(f, i) \in S
    <3>. SUFFICES ASSUME NEW i \in D, NEW f \in [D -> S] PROVE E(f, i) \in S
      OBVIOUS
    <3>1. us[i] \in S /\ (i # 1 => f[i - 1] \in S)
      BY <1>0, <1>a
    <3>. QED  BY <3>1, ConcatProperties
  <2>3. step \in [D -> [[D -> S] -> S]]
    BY <2>2
  <2>4. ASSUME NEW i \in D, NEW f \in [D -> S], NEW g \in [D -> S],
               \A e \in D : rank[e] < rank[i] => f[e] = g[e]
        PROVE  step[i][f] = step[i][g]
    <3>1. i # 1 => f[i - 1] = g[i - 1]
      BY <1>0, <1>a, <2>4
    <3>2. step[i][f] = E(f, i) /\ step[i][g] = E(g, i)
      OBVIOUS
    <3>. QED  BY <3>1, <3>2
  <2>5. \A i \in D : \A f, g \in [D -> S] :
          (\A e \in D : rank[e] < rank[i] => f[e] = g[e]) => step[i][f] = step[i][g]
    BY <2>4
  <2>. HIDE DEF D, S, rank, step, n
  <2>6. n \in Nat
    BY <1>0
  <2>7. IsRecursion(D, S, rank, step)
    BY <2>3, <2>5, Zenon DEF IsRecursion
  <2>. HIDE DEF E, IsFlat
  <2>. QED  BY SMTT(60), <2>1, <2>6, <2>7, RecExists
<1>2. PICK f0 \in [D -> S] : \A i \in D : f0[i] = E(f0, i)
  <2>1. PICK f \in [D -> S] : \A i \in D : f[i] = step[i][f]
    BY <1>1
  <2>2. \A i \in D : step[i][f] = E(f, i)
    OBVIOUS
  <2>. QED  BY <2>1, <2>2
<1>3. IsFlat(f0)
  <2>1. f0 = [i \in D |-> f0[i]]
    OBVIOUS
  <2>. QED  BY <1>2, <2>1
<1>. DEFINE flatten == CHOOSE f : IsFlat(f)
<1>4. IsFlat(flatten)
  BY <1>3
<1>5. FlattenSeq(us) = flatten[n]
  BY <1>0 DEF FlattenSeq
<1>. HIDE DEF flatten
<1>6. DOMAIN flatten = D /\ \A i \in D : flatten[i] = E(flatten, i)
  <2>1. flatten = [i \in D |-> E(flatten, i)]
    BY <1>4
  <2>. HIDE DEF E
  <2>. QED  BY <2>1
<1>b. flatten = [i \in D |-> flatten[i]]
  <2>1. flatten = [i \in D |-> E(flatten, i)]
    BY <1>4
  <2>. HIDE DEF E
  <2>. QED  BY <2>1
<1>7. \A i \in D : flatten[i] \in S
  <2>. DEFINE Bad == {i \in D : flatten[i] \notin S}
  <2>1. SUFFICES ASSUME Bad # {} PROVE FALSE
    OBVIOUS
  <2>2. PICK i \in Bad : \A j \in Bad : i <= j
    <3>1. Bad \in SUBSET Nat
      OBVIOUS
    <3>. HIDE DEF Bad
    <3>. QED  BY <2>1, <3>1, LeastNatural
  <2>3. i \in D /\ flatten[i] \notin S
    BY <2>2
  <2>4. i # 1 => i - 1 \in D /\ flatten[i - 1] \in S
    <3>1. i # 1 => i - 1 \in D
      BY <1>a, <2>3
    <3>2. i - 1 < i
      BY <2>3
    <3>. QED  BY <2>2, <2>3, <3>1, <3>2
  <2>5. us[i] \in S
    BY <1>0, <2>3
  <2>6. CASE i = 1
    BY <1>6, <2>3, <2>5, <2>6
  <2>7. CASE i # 1
    <3>1. flatten[i] = flatten[i - 1] \o us[i]
      BY <1>6, <2>3, <2>7
    <3>2. flatten[i - 1] \o us[i] \in S
      BY <2>4, <2>5, <2>7, ConcatProperties
    <3>. QED  BY <2>3, <3>1, <3>2
  <2>. QED  BY <2>6, <2>7
<1>8. flatten \in [D -> S] /\ flatten[1] = us[1]
  <2>1. flatten \in [D -> S]
    BY <1>7, <1>b
  <2>2. 1 \in D
    BY <1>0
  <2>. QED  BY <1>6, <2>1, <2>2
<1>9. ASSUME NEW i \in 1..n - 1
      PROVE  flatten[i + 1] = flatten[i] \o us[i + 1]
  <2>1. i + 1 \in D /\ i + 1 # 1 /\ (i + 1) - 1 = i
    BY <1>0
  <2>. QED  BY <1>6, <2>1
<1>. QED  BY <1>5, <1>8, <1>9

LEMMA ByteAssoc ==
  \A u, v, w \in Seq(Bytes) : (u \o v) \o w = u \o (v \o w)
OBVIOUS

LEMMA ConcatBytes ==
  ASSUME NEW u \in Seq(Bytes), NEW v \in Seq(Bytes)
  PROVE  /\ u \o v \in Seq(Bytes) /\ Len(u \o v) = Len(u) + Len(v)
         /\ \A i \in 1..Len(u) : (u \o v)[i] = u[i]
         /\ \A i \in 1..Len(v) : (u \o v)[Len(u) + i] = v[i]
<1>1. u \o v \in Seq(Bytes) /\ Len(u \o v) = Len(u) + Len(v)
  OBVIOUS
<1>2. \A i \in 1..Len(u) : (u \o v)[i] = u[i]
  OBVIOUS
<1>3. \A i \in 1..Len(v) : (u \o v)[Len(u) + i] = v[i]
  OBVIOUS
<1>. QED BY <1>1, <1>2, <1>3

LEMMA FlattenEmpty == FlattenSeq(<<>>) = <<>>
BY DEF FlattenSeq

LEMMA FlattenType ==
  ASSUME NEW us \in Seq(Seq(Bytes))
  PROVE  FlattenSeq(us) \in Seq(Bytes)
<1>1. CASE Len(us) = 0
  <2>1. us = <<>>
    BY <1>1
  <2>. QED  BY <2>1, FlattenEmpty, EmptySeq
<1>2. CASE Len(us) > 0
  <2>1. Len(us) \in 1..Len(us)
    BY <1>2
  <2>. QED  BY <1>2, <2>1, FlattenPrefixes
<1>. QED  BY <1>1, <1>2

LEMMA FlattenCons ==
  ASSUME NEW u \in Seq(Bytes), NEW w \in Seq(Seq(Bytes))
  PROVE  FlattenSeq(<<u>> \o w) = u \o FlattenSeq(w)
<1>. DEFINE v == <<u>> \o w
            n == Len(w)
<1>1. /\ v \in Seq(Seq(Bytes)) /\ Len(v) = n + 1 /\ v[1] = u /\ n \in Nat
      /\ \A i \in 1..n : v[i + 1] = w[i]
  OBVIOUS
<1>. HIDE DEF v
<1>2. PICK g \in [1..n + 1 -> Seq(Bytes)] :
        /\ g[1] = u /\ FlattenSeq(v) = g[n + 1]
        /\ \A i \in 1..n : g[i + 1] = g[i] \o w[i]
  <2>1. PICK g \in [1..Len(v) -> Seq(Bytes)] :
           /\ g[1] = v[1]
           /\ \A i \in 1..Len(v) - 1 : g[i + 1] = g[i] \o v[i + 1]
           /\ FlattenSeq(v) = g[Len(v)]
    <3>1. Len(v) > 0
      BY <1>1
    <3>. QED  BY <1>1, <3>1, FlattenPrefixes
  <2>2. \A i \in 1..n : i \in 1..Len(v) - 1
    BY <1>1
  <2>3. \A i \in 1..n : g[i + 1] = g[i] \o w[i]
    BY <1>1, <2>1, <2>2, ZenonT(60)
  <2>4. g \in [1..n + 1 -> Seq(Bytes)] /\ g[1] = u /\ FlattenSeq(v) = g[n + 1]
    BY <1>1, <2>1
  <2>. QED  BY <2>3, <2>4
<1>3. CASE n = 0
  <2>1. w = <<>> /\ FlattenSeq(w) = <<>>
    BY <1>3, FlattenEmpty
  <2>. QED  BY <1>2, <1>3, <2>1 DEF v
<1>4. CASE n > 0
  <2>1. PICK f \in [1..n -> Seq(Bytes)] :
           /\ f[1] = w[1]
           /\ \A i \in 1..n - 1 : f[i + 1] = f[i] \o w[i + 1]
           /\ FlattenSeq(w) = f[n]
    BY <1>4, FlattenPrefixes
  <2>. DEFINE Bad == {i \in 1..n : g[i + 1] # u \o f[i]}
  <2>2. Bad = {}
    <3>1. SUFFICES ASSUME Bad # {} PROVE FALSE
      OBVIOUS
    <3>2. PICK i \in Bad : \A j \in Bad : i <= j
      <4>1. Bad \in SUBSET Nat
        OBVIOUS
      <4>. HIDE DEF Bad
      <4>. QED  BY <3>1, <4>1, LeastNatural
    <3>3. i \in 1..n /\ g[i + 1] # u \o f[i] /\ g[i + 1] = g[i] \o w[i]
      BY <1>2, <3>2
    <3>4. i # 1
      BY <1>1, <1>2, <2>1, <3>3
    <3>5. i - 1 \in 1..n /\ i - 1 \in 1..n - 1 /\ (i - 1) + 1 = i /\ i - 1 < i
      BY <1>1, <3>3, <3>4
    <3>6. g[i] = u \o f[i - 1]
      <4>1. i - 1 \notin Bad
        <5>1. i \in Nat /\ ~(i <= i - 1)
          BY <3>3
        <5>. QED  BY <3>2, <5>1
      <4>. QED  BY <3>5, <4>1
    <3>7. f[i] = f[i - 1] \o w[i]
      BY <2>1, <3>5
    <3>8. (u \o f[i - 1]) \o w[i] = u \o (f[i - 1] \o w[i])
      <4>1. f[i - 1] \in Seq(Bytes) /\ w[i] \in Seq(Bytes)
        <5>1. f[i - 1] \in Seq(Bytes)
          BY <3>5
        <5>2. w[i] \in Seq(Bytes)
          BY <3>3, ElementOfSeq
        <5>. QED  BY <5>1, <5>2
      <4>2. u \in Seq(Bytes)
        OBVIOUS
      <4>. QED  BY <4>1, <4>2, ByteAssoc
    <3>. QED  BY <3>3, <3>6, <3>7, <3>8
  <2>3. n \in 1..n
    BY <1>1, <1>4
  <2>. QED  BY <1>2, <2>1, <2>2, <2>3 DEF v
<1>5. n = 0 \/ n > 0
  BY <1>1
<1>. QED  BY <1>3, <1>4, <1>5

-----------------------------------------------------------------------------
(* Units                                                                    *)

\* The bytes of a page in rounds: a byte other than the marker, or the marker
\* and the byte it escapes.
Single(m)  == {<<b>> : b \in Bytes \ {m}}
Escape(m)  == {<<m, b>> : b \in Bytes}
UnitSet(m) == Single(m) \cup Escape(m)

Lasts  == Pairs \cup {NoPair}
Counts == [Pairs -> Nat]

LEMMA SingleFacts ==
  ASSUME NEW m \in Bytes, NEW u \in Single(m)
  PROVE  u \in Seq(Bytes) /\ Len(u) = 1 /\ u[1] \in Bytes /\ u[1] # m /\ u = <<u[1]>>
<1>1. PICK b \in Bytes \ {m} : u = <<b>>
  BY DEF Single
<1>2. u \in Seq(Bytes) /\ Len(u) = 1 /\ u[1] = b
  BY <1>1
<1>. QED  BY <1>1, <1>2

LEMMA EscapeFacts ==
  ASSUME NEW m \in Bytes, NEW u \in Escape(m)
  PROVE  u \in Seq(Bytes) /\ Len(u) = 2 /\ u[1] = m /\ u[2] \in Bytes /\ u = <<m, u[2]>>
<1>1. PICK b \in Bytes : u = <<m, b>>
  BY DEF Escape
<1>2. u \in Seq(Bytes) /\ Len(u) = 2 /\ u[1] = m /\ u[2] = b
  BY <1>1
<1>. QED  BY <1>1, <1>2

LEMMA NotEscape ==
  ASSUME NEW m \in Bytes, NEW u \in Single(m)
  PROVE  u \notin Escape(m)
<1>1. Len(u) = 1
  BY SingleFacts
<1>. QED  BY <1>1, EscapeFacts

LEMMA UnitFacts ==
  ASSUME NEW m \in Bytes, NEW u \in UnitSet(m)
  PROVE  /\ u \in Seq(Bytes) /\ Len(u) \in {1, 2}
         /\ u \in Single(m) <=> Len(u) = 1
         /\ u \in Escape(m) <=> Len(u) = 2
<1>1. CASE u \in Single(m)
  <2>1. u \in Seq(Bytes) /\ Len(u) = 1
    BY <1>1, SingleFacts
  <2>2. u \notin Escape(m)
    BY <2>1, EscapeFacts
  <2>. QED  BY <1>1, <2>1, <2>2
<1>2. CASE u \in Escape(m)
  <2>1. u \in Seq(Bytes) /\ Len(u) = 2
    BY <1>2, EscapeFacts
  <2>2. u \notin Single(m)
    BY <2>1, SingleFacts
  <2>. QED  BY <1>2, <2>1, <2>2
<1>. QED  BY <1>1, <1>2 DEF UnitSet

\* Two units side by side are a pair when neither is an escape.
LEMMA Neighbours ==
  ASSUME NEW m \in Bytes, NEW u \in UnitSet(m), NEW v \in UnitSet(m)
  PROVE  /\ Len(u \o v) > 2 <=> u \in Escape(m) \/ v \in Escape(m)
         /\ u \in Single(m) /\ v \in Single(m) =>
              u \o v = <<u[1], v[1]>> /\ u \o v \in Pairs
<1>1. u \in Seq(Bytes) /\ v \in Seq(Bytes) /\ Len(u) \in {1, 2} /\ Len(v) \in {1, 2}
  BY UnitFacts
<1>2. Len(u \o v) = Len(u) + Len(v)
  BY <1>1
<1>3. (u \in Escape(m) <=> Len(u) = 2) /\ (v \in Escape(m) <=> Len(v) = 2)
  BY UnitFacts
<1>4. Len(u \o v) > 2 <=> u \in Escape(m) \/ v \in Escape(m)
  <2>1. Len(u \o v) > 2 <=> Len(u) = 2 \/ Len(v) = 2
    <3>. DEFINE k == Len(u)  l == Len(v)  kl == Len(u \o v)
    <3>1. k \in {1, 2} /\ l \in {1, 2} /\ kl = k + l
      BY <1>1, <1>2
    <3>. HIDE DEF k, l, kl
    <3>2. kl > 2 <=> k = 2 \/ l = 2
      BY <3>1
    <3>. QED  BY <3>2 DEF k, l, kl
  <2>. QED  BY <1>3, <2>1
<1>5. ASSUME u \in Single(m), v \in Single(m)
      PROVE  u \o v = <<u[1], v[1]>> /\ u \o v \in Pairs
  <2>1. PICK a \in Bytes \ {m} : u = <<a>>
    BY <1>5 DEF Single
  <2>2. PICK b \in Bytes \ {m} : v = <<b>>
    BY <1>5 DEF Single
  <2>3. u \o v = <<a, b>>
    <3>1. u \in Seq(Bytes) /\ v \in Seq(Bytes) /\ Len(u) = 1 /\ Len(v) = 1 /\ u[1] = a /\ v[1] = b
      BY <2>1, <2>2
    <3>2. u \o v \in Seq(Bytes) /\ Len(u \o v) = 2 /\ (u \o v)[1] = a /\ (u \o v)[2] = b
      <4>1. u \o v \in Seq(Bytes) /\ Len(u \o v) = 2
        BY <3>1, ConcatBytes
      <4>2. 1 \in 1..Len(u) /\ 1 \in 1..Len(v) /\ Len(u) + 1 = 2
        BY <3>1
      <4>3. (u \o v)[1] = u[1]
        BY <3>1, <4>2, ConcatBytes
      <4>4. (u \o v)[2] = v[1]
        BY <3>1, <4>2, ConcatBytes
      <4>. QED  BY <3>1, <4>1, <4>3, <4>4
    <3>3. <<a, b>> \in Seq(Bytes) /\ Len(<<a, b>>) = 2 /\ <<a, b>>[1] = a /\ <<a, b>>[2] = b
      OBVIOUS
    <3>4. \A i \in 1..2 : (u \o v)[i] = <<a, b>>[i]
      BY <3>2, <3>3
    <3>. QED  BY <3>2, <3>3, <3>4, SeqEqual
  <2>. QED  BY <2>1, <2>2, <2>3 DEF Pairs
<1>. QED  BY <1>4, <1>5

LEMMA UnitsAreSeqs ==
  ASSUME NEW m \in Bytes, NEW us \in Seq(UnitSet(m))
  PROVE  us \in Seq(Seq(Bytes)) /\ Len(us) \in Nat /\ \A j \in 1..Len(us) : us[j] \in UnitSet(m)
<1>1. UnitSet(m) \subseteq Seq(Bytes)
  BY UnitFacts
<1>2. us \in Seq(Seq(Bytes))
  BY <1>1, SeqMonotonic
<1>. QED  BY <1>2

LEMMA ZeroType == Zero \in Counts /\ \A p \in Pairs : Zero[p] = 0
BY DEF Zero, Counts

-----------------------------------------------------------------------------
(* Counting the pairs of units                                              *)

\* c[j][last] is what Counted counts from the j-th unit on when the pair
\* counted last, if the units go on with it, is last.
CountAt(us, c, j, last) ==
  /\ j = Len(us) => c[j][last] = Zero
  /\ j < Len(us) /\ Len(us[j] \o us[j + 1]) > 2 => c[j][last] = c[j + 1][NoPair]
  /\ j < Len(us) /\ ~(Len(us[j] \o us[j + 1]) > 2) =>
       /\ us[j] \o us[j + 1] = last => c[j][last] = c[j + 1][NoPair]
       /\ us[j] \o us[j + 1] # last =>
            c[j][last] = [c[j + 1][us[j] \o us[j + 1]] EXCEPT ![us[j] \o us[j + 1]] = @ + 1]

IsCount(us, c) ==
  /\ c \in [1..Len(us) -> [Lasts -> Counts]]
  /\ \A j \in 1..Len(us) : \A last \in Lasts : CountAt(us, c, j, last)

LEMMA CountedRec ==
  ASSUME NEW m \in Bytes, NEW us \in Seq(UnitSet(m)), us # <<>>
  PROVE  \E c : IsCount(us, c) /\ Counted(us) = c[1][NoPair]
<1>. DEFINE n == Len(us)
            D == 1..n
            S == [Lasts -> Counts]
            E(f, i) ==
              [last \in Lasts |->
                 IF i = Len(us) THEN Zero
                 ELSE IF Len(us[i] \o us[i + 1]) > 2 THEN f[i + 1][NoPair]
                 ELSE LET p == us[i] \o us[i + 1]
                      IN  IF p = last THEN f[i + 1][NoPair]
                          ELSE [f[i + 1][p] EXCEPT ![p] = @ + 1]]
            IsFun(f) == f = [i \in D |-> E(f, i)]
            step == [i \in D |-> [f \in [D -> S] |-> E(f, i)]]
            rank == [i \in D |-> n - i]
<1>0. n \in Nat /\ n > 0 /\ \A i \in D : us[i] \in UnitSet(m)
  BY UnitsAreSeqs
<1>a. \A i \in D : i # n => i + 1 \in D /\ i < n
  BY <1>0
<1>b. NoPair \in Lasts
  BY DEF Lasts
<1>c. ASSUME NEW i \in D, i # n, ~(Len(us[i] \o us[i + 1]) > 2)
      PROVE  us[i] \o us[i + 1] \in Pairs /\ us[i] \o us[i + 1] \in Lasts
  <2>1. us[i] \in UnitSet(m) /\ us[i + 1] \in UnitSet(m)
    BY <1>0, <1>a, <1>c
  <2>2. us[i] \in Single(m) /\ us[i + 1] \in Single(m)
    BY <1>c, <2>1, Neighbours DEF UnitSet
  <2>. QED  BY <2>1, <2>2, Neighbours DEF Lasts
<1>d. ASSUME NEW i \in D, NEW f, i # n => f[i + 1] \in S
      PROVE  E(f, i) \in S
  <2>1. ASSUME NEW last \in Lasts PROVE E(f, i)[last] \in Counts
    <3>1. CASE i = n
      BY <3>1, <2>1, ZeroType
    <3>2. CASE i # n /\ Len(us[i] \o us[i + 1]) > 2
      <4>1. E(f, i)[last] = f[i + 1][NoPair]
        BY <3>2, <2>1
      <4>. HIDE DEF E
      <4>. QED  BY <1>d, <1>b, <3>2, <4>1
    <3>3. CASE i # n /\ ~(Len(us[i] \o us[i + 1]) > 2)
      <4>. DEFINE p == us[i] \o us[i + 1]
      <4>1. p \in Lasts /\ p \in Pairs
        BY <1>c, <3>3
      <4>2. f[i + 1][NoPair] \in Counts /\ f[i + 1][p] \in Counts
        <5>. HIDE DEF E, p
        <5>. QED  BY <1>d, <1>b, <3>3, <4>1
      <4>3. E(f, i)[last] = IF p = last THEN f[i + 1][NoPair]
                            ELSE [f[i + 1][p] EXCEPT ![p] = @ + 1]
        BY <3>3, <2>1
      <4>. HIDE DEF E, p
      <4>4. [f[i + 1][p] EXCEPT ![p] = @ + 1] \in Counts
        BY <4>1, <4>2 DEF Counts
      <4>. QED  BY <4>2, <4>3, <4>4
    <3>. QED  BY <3>1, <3>2, <3>3
  <2>2. E(f, i) = [last \in Lasts |-> E(f, i)[last]]
    OBVIOUS
  <2>. HIDE DEF E
  <2>. QED  BY <2>1, <2>2
<1>1. \E f \in [D -> S] : \A i \in D : f[i] = step[i][f]
  <2>1. S # {} /\ rank \in [D -> 0..n]
    <3>1. [last \in Lasts |-> Zero] \in S
      BY ZeroType
    <3>2. \A i \in D : n - i \in 0..n
      BY <1>0
    <3>. QED  BY <3>1, <3>2
  <2>2. ASSUME NEW i \in D, NEW f \in [D -> S]
        PROVE  E(f, i) \in S
    <3>1. i # n => f[i + 1] \in S
      BY <1>a
    <3>. HIDE DEF E, S
    <3>. QED  BY <3>1, <1>d
  <2>3. step \in [D -> [[D -> S] -> S]]
    <3>. HIDE DEF E, S
    <3>. QED  BY <2>2
  <2>4. ASSUME NEW i \in D, NEW f \in [D -> S], NEW g \in [D -> S],
               \A e \in D : rank[e] < rank[i] => f[e] = g[e]
        PROVE  step[i][f] = step[i][g]
    <3>1. i # n => f[i + 1] = g[i + 1]
      <4>1. i # n => rank[i + 1] < rank[i]
        BY <1>0, <1>a
      <4>. QED  BY <1>a, <2>4, <4>1
    <3>2. step[i][f] = E(f, i) /\ step[i][g] = E(g, i)
      OBVIOUS
    <3>3. E(f, i) = E(g, i)
      BY <3>1
    <3>. HIDE DEF E, step
    <3>. QED  BY <3>2, <3>3
  <2>5. \A i \in D : \A f, g \in [D -> S] :
          (\A e \in D : rank[e] < rank[i] => f[e] = g[e]) => step[i][f] = step[i][g]
    <3>. HIDE DEF E, S, rank, step
    <3>. QED  BY <2>4
  <2>. HIDE DEF D, S, rank, step, n, E, IsFun
  <2>6. n \in Nat
    BY <1>0
  <2>7. IsRecursion(D, S, rank, step)
    BY <2>3, <2>5, Zenon DEF IsRecursion
  <2>. QED  BY <2>1, <2>6, <2>7, RecExists
<1>2. PICK f0 \in [D -> S] : \A i \in D : f0[i] = E(f0, i)
  <2>1. PICK f \in [D -> S] : \A i \in D : f[i] = step[i][f]
    BY <1>1
  <2>. HIDE DEF E, S
  <2>2. \A i \in D : step[i][f] = E(f, i)
    OBVIOUS
  <2>. QED  BY <2>1, <2>2
<1>3. IsFun(f0)
  <2>. HIDE DEF E, S
  <2>1. f0 = [i \in D |-> f0[i]]
    OBVIOUS
  <2>. QED  BY <1>2, <2>1
<1>. DEFINE count == CHOOSE f : IsFun(f)
<1>4. IsFun(count)
  <2>. HIDE DEF IsFun
  <2>. QED  BY <1>3
<1>5. Counted(us) = count[1][NoPair]
  BY <1>0 DEF Counted, Lasts
<1>. HIDE DEF count
<1>6. count = [i \in D |-> count[i]] /\ \A i \in D : count[i] = E(count, i)
  <2>1. count = [i \in D |-> E(count, i)]
    BY <1>4
  <2>. HIDE DEF E
  <2>. QED  BY <2>1
<1>7. \A i \in D : count[i] \in S
  <2>. DEFINE Bad == {i \in D : count[i] \notin S}
  <2>1. SUFFICES ASSUME Bad # {} PROVE FALSE
    OBVIOUS
  <2>2. PICK i \in Bad : \A j \in Bad : j <= i
    <3>1. Bad \in SUBSET (0..n)
      BY <1>0
    <3>. HIDE DEF Bad, n
    <3>. QED  BY <1>0, <2>1, <3>1, GreatestNatural
  <2>3. i \in D /\ count[i] \notin S
    BY <2>2
  <2>4. i # n => count[i + 1] \in S
    <3>. HIDE DEF S
    <3>1. i # n => i + 1 \in D
      BY <1>a, <2>3
    <3>2. ~(i + 1 <= i)
      BY <2>3
    <3>. QED  BY <2>2, <2>3, <3>1, <3>2
  <2>. HIDE DEF E, S
  <2>. QED  BY <1>d, <1>6, <2>3, <2>4
<1>8. count \in [D -> S]
  <2>. HIDE DEF S, E
  <2>. QED  BY <1>6, <1>7
<1>9. ASSUME NEW j \in 1..Len(us), NEW last \in Lasts
      PROVE  CountAt(us, count, j, last)
  <2>1. count[j][last] = E(count, j)[last]
    <3>. HIDE DEF E
    <3>. QED  BY <1>6
  <2>. DEFINE p == us[j] \o us[j + 1]
              long == Len(p) > 2
  <2>2. E(count, j)[last] =
          IF j = n THEN Zero
          ELSE IF long THEN count[j + 1][NoPair]
          ELSE IF p = last THEN count[j + 1][NoPair]
          ELSE [count[j + 1][p] EXCEPT ![p] = @ + 1]
    OBVIOUS
  <2>. HIDE DEF E, p, long
  <2>3. j = n => count[j][last] = Zero
    BY <2>1, <2>2
  <2>4. j < n /\ long => count[j][last] = count[j + 1][NoPair]
    BY <2>1, <2>2, <1>0
  <2>5. j < n /\ ~long /\ p = last => count[j][last] = count[j + 1][NoPair]
    BY <2>1, <2>2, <1>0
  <2>6. j < n /\ ~long /\ p # last => count[j][last] = [count[j + 1][p] EXCEPT ![p] = @ + 1]
    BY <2>1, <2>2, <1>0
  <2>. HIDE DEF S, count
  <2>. QED  BY <2>3, <2>4, <2>5, <2>6 DEF CountAt, p, long
<1>10. IsCount(us, count)
  BY <1>8, <1>9 DEF IsCount
<1>. QED  BY <1>5, <1>10

-----------------------------------------------------------------------------
(* Counting the pairs of a page from the beginning                          *)

\* c[i][last] is what InitPairCount counts from the i-th byte on.
ScanAt(data, m, c, i, last) ==
  /\ i >= Len(data) => c[i][last] = Zero
  /\ i < Len(data) /\ data[i] = m => c[i][last] = c[i + 2][NoPair]
  /\ i < Len(data) /\ data[i] # m /\ data[i + 1] = m => c[i][last] = c[i + 3][NoPair]
  /\ i < Len(data) /\ data[i] # m /\ data[i + 1] # m =>
       /\ <<data[i], data[i + 1]>> = last => c[i][last] = c[i + 1][NoPair]
       /\ <<data[i], data[i + 1]>> # last =>
            c[i][last] = [c[i + 1][<<data[i], data[i + 1]>>]
                             EXCEPT ![<<data[i], data[i + 1]>>] = @ + 1]

IsScan(data, m, c) ==
  /\ c \in [1..Len(data) + 3 -> [Lasts -> Counts]]
  /\ \A i \in 1..Len(data) + 3 : \A last \in Lasts : ScanAt(data, m, c, i, last)

LEMMA ScanRec ==
  ASSUME NEW m \in Bytes, NEW data \in Seq(Bytes)
  PROVE  \E c : IsScan(data, m, c) /\ InitPairCount(data, m) = c[1][NoPair]
<1>. DEFINE n == Len(data)
            D == 1..n + 3
            S == [Lasts -> Counts]
            p(i) == <<data[i], data[i + 1]>>
            E(f, i) ==
              [last \in Lasts |->
                 IF i >= Len(data) THEN Zero
                 ELSE IF data[i] = m THEN f[i + 2][NoPair]
                 ELSE IF data[i + 1] = m THEN f[i + 3][NoPair]
                 ELSE LET q == <<data[i], data[i + 1]>>
                      IN  IF q = last THEN f[i + 1][NoPair]
                          ELSE [f[i + 1][q] EXCEPT ![q] = @ + 1]]
            Val(f, i, last) ==
              IF i >= n THEN Zero
              ELSE IF data[i] = m THEN f[i + 2][NoPair]
              ELSE IF data[i + 1] = m THEN f[i + 3][NoPair]
              ELSE IF p(i) = last THEN f[i + 1][NoPair]
                   ELSE [f[i + 1][p(i)] EXCEPT ![p(i)] = @ + 1]
            IsFun(f) == f = [i \in D |-> E(f, i)]
            step == [i \in D |-> [f \in [D -> S] |-> E(f, i)]]
            rank == [i \in D |-> (n + 3) - i]
<1>0. n \in Nat
  OBVIOUS
<1>a. \A i \in D : i < n => i + 1 \in D /\ i + 2 \in D /\ i + 3 \in D
  BY <1>0
<1>b. NoPair \in Lasts
  BY DEF Lasts
<1>c. \A i \in D : i < n => p(i) \in Pairs /\ p(i) \in Lasts
  <2>. SUFFICES ASSUME NEW i \in D, i < n PROVE p(i) \in Pairs
    BY DEF Lasts
  <2>1. i \in 1..n /\ i + 1 \in 1..n
    BY <1>0
  <2>2. data[i] \in Bytes /\ data[i + 1] \in Bytes
    BY <2>1
  <2>. QED  BY <2>2 DEF Pairs
<1>e. \A f : \A i \in D : E(f, i) = [last \in Lasts |-> Val(f, i, last)]
  OBVIOUS
<1>d. ASSUME NEW i \in D, NEW f,
             i < n => f[i + 1] \in S /\ f[i + 2] \in S /\ f[i + 3] \in S
      PROVE  E(f, i) \in S
  <2>1. ASSUME NEW last \in Lasts PROVE Val(f, i, last) \in Counts
    <3>. HIDE DEF E, p
    <3>1. CASE i >= n
      BY <3>1, ZeroType
    <3>2. CASE i < n
      <4>1. p(i) \in Lasts /\ p(i) \in Pairs
        BY <1>c, <3>2
      <4>2. /\ f[i + 1][NoPair] \in Counts /\ f[i + 2][NoPair] \in Counts
            /\ f[i + 3][NoPair] \in Counts /\ f[i + 1][p(i)] \in Counts
        BY <1>d, <1>b, <3>2, <4>1
      <4>3. [f[i + 1][p(i)] EXCEPT ![p(i)] = @ + 1] \in Counts
        <5>. DEFINE x == p(i)  count == f[i + 1][x]
        <5>1. x \in Pairs /\ count \in [Pairs -> Nat]
          BY <4>1, <4>2 DEF Counts
        <5>. HIDE DEF x, count
        <5>2. [count EXCEPT ![x] = @ + 1] \in [Pairs -> Nat]
          BY <5>1
        <5>. QED  BY <5>2 DEF x, count, Counts
      <4>. QED  BY <4>2, <4>3, <3>2
    <3>. QED  BY <1>0, <3>1, <3>2
  <2>. HIDE DEF E, Val
  <2>. QED  BY <1>e, <2>1
<1>1. \E f \in [D -> S] : \A i \in D : f[i] = step[i][f]
  <2>1. S # {} /\ rank \in [D -> 0..n + 3]
    <3>1. [last \in Lasts |-> Zero] \in S
      BY ZeroType
    <3>2. \A i \in D : (n + 3) - i \in 0..n + 3
      BY <1>0
    <3>. QED  BY <3>1, <3>2
  <2>2. ASSUME NEW i \in D, NEW f \in [D -> S]
        PROVE  E(f, i) \in S
    <3>1. i < n => f[i + 1] \in S /\ f[i + 2] \in S /\ f[i + 3] \in S
      BY <1>a
    <3>. HIDE DEF E, S
    <3>. QED  BY <3>1, <1>d
  <2>3. step \in [D -> [[D -> S] -> S]]
    <3>. HIDE DEF E, S
    <3>. QED  BY <2>2
  <2>4. ASSUME NEW i \in D, NEW f \in [D -> S], NEW g \in [D -> S],
               \A e \in D : rank[e] < rank[i] => f[e] = g[e]
        PROVE  step[i][f] = step[i][g]
    <3>1. i < n => f[i + 1] = g[i + 1] /\ f[i + 2] = g[i + 2] /\ f[i + 3] = g[i + 3]
      <4>1. i < n => rank[i + 1] < rank[i] /\ rank[i + 2] < rank[i] /\ rank[i + 3] < rank[i]
        BY <1>0, <1>a
      <4>. HIDE DEF S, D, rank
      <4>. QED  BY <1>a, <2>4, <4>1
    <3>2. step[i][f] = E(f, i) /\ step[i][g] = E(g, i)
      <4>. HIDE DEF S, E
      <4>. QED  OBVIOUS
    <3>3. E(f, i) = E(g, i)
      <4>1. ASSUME NEW last \in Lasts PROVE Val(f, i, last) = Val(g, i, last)
        <5>1. CASE i >= n
          BY <5>1
        <5>2. CASE i < n
          <6>1. f[i + 1] = g[i + 1] /\ f[i + 2] = g[i + 2] /\ f[i + 3] = g[i + 3]
            BY <5>2, <3>1
          <6>. HIDE DEF p, S, E
          <6>. QED  BY <6>1
        <5>. QED  BY <5>1, <5>2, <1>0
      <4>. HIDE DEF E, Val, S
      <4>. QED  BY <1>e, <4>1
    <3>. HIDE DEF E, step
    <3>. QED  BY <3>2, <3>3
  <2>5. \A i \in D : \A f, g \in [D -> S] :
          (\A e \in D : rank[e] < rank[i] => f[e] = g[e]) => step[i][f] = step[i][g]
    <3>. HIDE DEF E, S, rank, step
    <3>. QED  BY <2>4
  <2>6. n + 3 \in Nat
    BY <1>0
  <2>. DEFINE top == n + 3
  <2>8. top \in Nat /\ rank \in [D -> 0..top]
    BY <2>1, <2>6
  <2>. HIDE DEF D, S, rank, step, n, E, IsFun, Val, p, top
  <2>7. IsRecursion(D, S, rank, step)
    BY <2>3, <2>5, Zenon DEF IsRecursion
  <2>. QED  BY <2>1, <2>8, <2>7, RecExists
<1>2. PICK f0 \in [D -> S] : \A i \in D : f0[i] = E(f0, i)
  <2>1. PICK f \in [D -> S] : \A i \in D : f[i] = step[i][f]
    BY <1>1
  <2>. HIDE DEF E, S
  <2>2. \A i \in D : step[i][f] = E(f, i)
    OBVIOUS
  <2>. QED  BY <2>1, <2>2
<1>3. IsFun(f0)
  <2>. HIDE DEF E, S
  <2>1. f0 = [i \in D |-> f0[i]]
    OBVIOUS
  <2>. QED  BY <1>2, <2>1
<1>. DEFINE count == CHOOSE f : IsFun(f)
<1>4. IsFun(count)
  <2>. HIDE DEF IsFun
  <2>. QED  BY <1>3
<1>5. InitPairCount(data, m) = count[1][NoPair]
  BY DEF InitPairCount, Lasts
<1>. HIDE DEF count
<1>6. count = [i \in D |-> count[i]] /\ \A i \in D : count[i] = E(count, i)
  <2>1. count = [i \in D |-> E(count, i)]
    BY <1>4
  <2>. HIDE DEF E
  <2>. QED  BY <2>1
<1>7. \A i \in D : count[i] \in S
  <2>. DEFINE Bad == {i \in D : count[i] \notin S}
  <2>1. SUFFICES ASSUME Bad # {} PROVE FALSE
    OBVIOUS
  <2>2. PICK i \in Bad : \A j \in Bad : j <= i
    <3>1. Bad \in SUBSET (0..n + 3) /\ n + 3 \in Nat
      BY <1>0
    <3>. HIDE DEF Bad, n
    <3>. QED  BY <1>0, <2>1, <3>1, GreatestNatural
  <2>3. i \in D /\ count[i] \notin S
    BY <2>2
  <2>4. ASSUME NEW k \in {i + 1, i + 2, i + 3}, i < n PROVE count[k] \in S
    <3>. HIDE DEF S
    <3>1. k \in D
      BY <1>a, <2>3, <2>4
    <3>2. ~(k <= i)
      BY <2>3
    <3>. QED  BY <2>2, <2>3, <3>1, <3>2
  <2>. HIDE DEF E, S
  <2>. QED  BY <1>d, <1>6, <2>3, <2>4
<1>8. count \in [D -> S]
  <2>. HIDE DEF S, E
  <2>. QED  BY <1>6, <1>7
<1>9. ASSUME NEW j \in D, NEW last \in Lasts
      PROVE  ScanAt(data, m, count, j, last)
  <2>1. count[j][last] = Val(count, j, last)
    <3>. HIDE DEF E, Val
    <3>1. count[j] = [l \in Lasts |-> Val(count, j, l)]
      BY <1>6, <1>e
    <3>. QED  BY <3>1
  <2>. HIDE DEF E
  <2>2. j >= n => count[j][last] = Zero
    BY <2>1
  <2>. DEFINE q == p(j)
  <2>a. ~(j < n /\ j >= n)
    BY <1>0
  <2>3. j < n /\ data[j] = m => count[j][last] = count[j + 2][NoPair]
    BY <2>1, <2>a
  <2>4. j < n /\ data[j] # m /\ data[j + 1] = m => count[j][last] = count[j + 3][NoPair]
    BY <2>1, <2>a
  <2>5. j < n /\ data[j] # m /\ data[j + 1] # m /\ q = last => count[j][last] = count[j + 1][NoPair]
    <3>. HIDE DEF p
    <3>. QED  BY <2>1, <2>a DEF q
  <2>6. j < n /\ data[j] # m /\ data[j + 1] # m /\ q # last =>
          count[j][last] = [count[j + 1][q] EXCEPT ![q] = @ + 1]
    <3>. HIDE DEF p
    <3>. QED  BY <2>1, <2>a DEF q
  <2>. HIDE DEF S, count, Val
  <2>. QED  BY <2>2, <2>3, <2>4, <2>5, <2>6 DEF ScanAt, q, p
<1>10. IsScan(data, m, count)
  BY <1>8, <1>9 DEF IsScan
<1>. QED  BY <1>5, <1>10

-----------------------------------------------------------------------------
(* Where the units are                                                      *)

\* off[j] is the position of the j-th unit in s, the units us side by side.
Laid(s, us, off) ==
  /\ off \in [1..Len(us) + 1 -> Nat] /\ off[1] = 1
  /\ \A j \in 1..Len(us) : off[j + 1] = off[j] + Len(us[j])
  /\ off[Len(us) + 1] = Len(s) + 1
  /\ \A j \in 1..Len(us) : \A k \in 1..Len(us[j]) : s[off[j] + (k - 1)] = us[j][k]

LEMMA FlattenLaid ==
  ASSUME NEW us \in Seq(Seq(Bytes)), Len(us) > 0
  PROVE  \E off : Laid(FlattenSeq(us), us, off)
<1>. DEFINE n == Len(us)
            s == FlattenSeq(us)
<1>0. n \in Nat /\ n > 0 /\ (\A i \in 1..n : us[i] \in Seq(Bytes)) /\ 1 \in 1..n /\ n \in 1..n
  OBVIOUS
<1>1. PICK f \in [1..n -> Seq(Bytes)] :
           /\ f[1] = us[1]
           /\ \A i \in 1..n - 1 : f[i + 1] = f[i] \o us[i + 1]
           /\ s = f[n]
  BY FlattenPrefixes
<1>. HIDE DEF s, n
<1>2. \A i \in 1..n : f[i] \in Seq(Bytes) /\ Len(f[i]) \in Nat
  BY <1>1
<1>. DEFINE off == [j \in 1..n + 1 |-> IF j = 1 THEN 1 ELSE Len(f[j - 1]) + 1]
<1>3. \A j \in 1..n + 1 : off[j] \in Nat /\ (j # 1 => off[j] = Len(f[j - 1]) + 1)
  <2>1. \A j \in 1..n + 1 : j # 1 => j - 1 \in 1..n
    BY <1>0
  <2>. QED  BY <1>2, <2>1
<1>4. off \in [1..n + 1 -> Nat] /\ off[1] = 1 /\ off[n + 1] = Len(s) + 1
  <2>1. off \in [1..n + 1 -> Nat]
    BY <1>3
  <2>2. 1 \in 1..n + 1 /\ n + 1 \in 1..n + 1 /\ n + 1 # 1 /\ (n + 1) - 1 = n
    BY <1>0
  <2>. QED  BY <1>1, <1>3, <2>1, <2>2
<1>. HIDE DEF off
<1>5. ASSUME NEW j \in 1..n
      PROVE  /\ off[j + 1] = Len(f[j]) + 1 /\ off[j + 1] = off[j] + Len(us[j])
             /\ \A k \in 1..Len(us[j]) : f[j][off[j] + (k - 1)] = us[j][k]
  <2>1. off[j + 1] = Len(f[j]) + 1
    <3>1. j + 1 \in 1..n + 1 /\ j + 1 # 1 /\ (j + 1) - 1 = j
      BY <1>0
    <3>. QED  BY <1>3, <3>1
  <2>2. CASE j = 1
    <3>1. f[1] = us[1] /\ off[1] = 1
      BY <1>1, <1>4
    <3>2. \A k \in 1..Len(us[1]) : off[1] + (k - 1) = k
      BY <1>0, <3>1
    <3>3. off[2] = off[1] + Len(us[1])
      BY <1>0, <2>1, <2>2, <3>1
    <3>. QED  BY <2>1, <2>2, <3>1, <3>2, <3>3
  <2>3. CASE j # 1
    <3>1. j - 1 \in 1..n - 1 /\ j - 1 \in 1..n /\ (j - 1) + 1 = j /\ j \in 1..n + 1
      BY <1>0, <2>3
    <3>2. f[j] = f[j - 1] \o us[j] /\ off[j] = Len(f[j - 1]) + 1
      BY <1>1, <1>3, <2>3, <3>1
    <3>. DEFINE u == f[j - 1]  v == us[j]
    <3>3. u \in Seq(Bytes) /\ v \in Seq(Bytes) /\ Len(u) \in Nat /\ Len(v) \in Nat
      BY <1>0, <1>2, <3>1
    <3>. HIDE DEF u, v
    <3>4. Len(u \o v) = Len(u) + Len(v) /\ \A k \in 1..Len(v) : (u \o v)[Len(u) + k] = v[k]
      BY <3>3, ConcatBytes
    <3>5. \A k \in 1..Len(v) : (Len(u) + 1) + (k - 1) = Len(u) + k
      BY <3>3
    <3>6. (Len(u) + Len(v)) + 1 = (Len(u) + 1) + Len(v)
      BY <3>3
    <3>. QED  BY <2>1, <3>2, <3>4, <3>5, <3>6 DEF u, v
  <2>. QED  BY <2>2, <2>3
<1>6. \A i \in 1..n : Len(f[i]) <= Len(s) /\ \A x \in 1..Len(f[i]) : s[x] = f[i][x]
  <2>. DEFINE Ok(i) == Len(f[i]) <= Len(s) /\ \A x \in 1..Len(f[i]) : s[x] = f[i][x]
              Bad == {i \in 1..n : ~Ok(i)}
  <2>1. SUFFICES ASSUME Bad # {} PROVE FALSE
    OBVIOUS
  <2>2. PICK i \in Bad : \A j \in Bad : j <= i
    <3>1. Bad \in SUBSET (0..n)
      BY <1>0
    <3>. HIDE DEF Bad
    <3>. QED  BY <1>0, <2>1, <3>1, GreatestNatural
  <2>3. i \in 1..n /\ ~Ok(i)
    BY <2>2
  <2>4. Ok(n)
    BY <1>0, <1>1, <1>2
  <2>5. i # n
    BY <2>3, <2>4
  <2>6. i + 1 \in 1..n /\ i \in 1..n - 1 /\ ~(i + 1 <= i)
    BY <1>0, <2>3, <2>5
  <2>7. Ok(i + 1)
    <3>. HIDE DEF Ok
    <3>. QED  BY <2>2, <2>6
  <2>8. f[i + 1] = f[i] \o us[i + 1]
    BY <1>1, <2>6
  <2>. DEFINE u == f[i]  v == us[i + 1]  t == f[i + 1]
  <2>9. u \in Seq(Bytes) /\ v \in Seq(Bytes) /\ Len(u) \in Nat /\ Len(v) \in Nat
        /\ t = u \o v /\ Len(s) \in Nat
    BY <1>0, <1>1, <1>2, <2>3, <2>6, <2>8
  <2>10. Len(t) <= Len(s) /\ \A x \in 1..Len(t) : s[x] = t[x]
    BY <2>7
  <2>11. ~(Len(u) <= Len(s) /\ \A x \in 1..Len(u) : s[x] = u[x])
    BY <2>3
  <2>. HIDE DEF u, v, t, Ok
  <2>12. Len(t) = Len(u) + Len(v) /\ \A x \in 1..Len(u) : t[x] = u[x]
    BY <2>9, ConcatBytes
  <2>13. \A x \in 1..Len(u) : x \in 1..Len(t)
    BY <2>9, <2>12
  <2>. QED  BY <2>9, <2>10, <2>11, <2>12, <2>13
<1>7. ASSUME NEW j \in 1..n, NEW k \in 1..Len(us[j])
      PROVE  s[off[j] + (k - 1)] = us[j][k]
  <2>1. off[j] + (k - 1) \in 1..Len(f[j])
    <3>1. off[j] \in Nat /\ Len(us[j]) \in Nat /\ Len(f[j]) \in Nat /\ off[j] >= 1
      <4>1. j \in 1..n + 1 /\ (j # 1 => j - 1 \in 1..n)
        BY <1>0
      <4>2. off[j] \in Nat /\ Len(us[j]) \in Nat /\ Len(f[j]) \in Nat
        BY SMTT(60), <1>0, <1>2, <1>3, <4>1
      <4>3. off[j] >= 1
        BY <1>2, <1>3, <1>4, <4>1
      <4>. QED  BY <4>2, <4>3
    <3>2. Len(f[j]) + 1 = off[j] + Len(us[j])
      BY <1>5
    <3>. QED  BY SMTT(60), <3>1, <3>2
  <2>. QED  BY <1>5, <1>6, <2>1
<1>8. Laid(s, us, off)
  BY <1>4, <1>5, <1>7 DEF Laid, n
<1>. QED  BY <1>8 DEF s

LEMMA LaidBounds ==
  ASSUME NEW m \in Bytes, NEW us \in Seq(UnitSet(m)), NEW s \in Seq(Bytes), NEW off,
         Laid(s, us, off)
  PROVE  \A j \in 1..Len(us) + 1 :
           off[j] \in Nat /\ off[j] >= 1 /\ off[j] + ((Len(us) + 1) - j) <= Len(s) + 1
<1>. DEFINE n == Len(us)
            Low(j)  == off[j] >= 1
            High(j) == off[j] + ((n + 1) - j) <= Len(s) + 1
            BadLow  == {j \in 1..n + 1 : ~Low(j)}
            BadHigh == {j \in 1..n + 1 : ~High(j)}
<1>1. /\ n \in Nat /\ Len(s) \in Nat
      /\ \A j \in 1..n : Len(us[j]) \in {1, 2}
      /\ \A j \in 1..n + 1 : off[j] \in Nat
      /\ off[1] = 1 /\ off[n + 1] = Len(s) + 1
      /\ \A j \in 1..n : off[j + 1] = off[j] + Len(us[j])
  <2>1. n \in Nat /\ Len(s) \in Nat /\ \A j \in 1..n : us[j] \in UnitSet(m)
    BY UnitsAreSeqs
  <2>2. \A j \in 1..n : Len(us[j]) \in {1, 2}
    BY <2>1, UnitFacts
  <2>. QED  BY <2>1, <2>2 DEF Laid
<1>. HIDE DEF n
<1>2. BadLow = {}
  <2>1. SUFFICES ASSUME BadLow # {} PROVE FALSE
    OBVIOUS
  <2>2. PICK i \in BadLow : \A j \in BadLow : i <= j
    <3>1. BadLow \in SUBSET Nat
      BY <1>1
    <3>. HIDE DEF BadLow
    <3>. QED  BY <2>1, <3>1, LeastNatural
  <2>3. i \in 1..n + 1 /\ ~Low(i)
    BY <2>2
  <2>4. i # 1
    BY <1>1, <2>3
  <2>5. i - 1 \in 1..n + 1 /\ i - 1 \in 1..n /\ ~(i <= i - 1) /\ (i - 1) + 1 = i
    BY <1>1, <2>3, <2>4
  <2>6. Low(i - 1)
    <3>. HIDE DEF Low
    <3>. QED  BY <2>2, <2>5
  <2>7. off[i] = off[i - 1] + Len(us[i - 1]) /\ off[i - 1] \in Nat
        /\ Len(us[i - 1]) \in {1, 2}
    BY <1>1, <2>5
  <2>. QED  BY <2>3, <2>6, <2>7
<1>3. BadHigh = {}
  <2>1. SUFFICES ASSUME BadHigh # {} PROVE FALSE
    OBVIOUS
  <2>2. PICK i \in BadHigh : \A j \in BadHigh : j <= i
    <3>1. BadHigh \in SUBSET (0..n + 1) /\ n + 1 \in Nat
      BY <1>1
    <3>. HIDE DEF BadHigh
    <3>. QED  BY <2>1, <3>1, GreatestNatural
  <2>3. i \in 1..n + 1 /\ ~High(i)
    BY <2>2
  <2>4. i # n + 1
    <3>1. (n + 1) - (n + 1) = 0 /\ off[n + 1] = Len(s) + 1 /\ Len(s) + 1 \in Nat
      BY <1>1
    <3>. DEFINE z == (n + 1) - (n + 1)
    <3>2. off[n + 1] + z <= Len(s) + 1
      <4>1. z = 0
        BY <3>1
      <4>. HIDE DEF z
      <4>. QED  BY <3>1, <4>1
    <3>3. High(n + 1)
      BY <3>2
    <3>. HIDE DEF High
    <3>. QED  BY <2>3, <3>3
  <2>5. i + 1 \in 1..n + 1 /\ i \in 1..n /\ ~(i + 1 <= i)
    BY <1>1, <2>3, <2>4
  <2>6. High(i + 1)
    <3>. HIDE DEF High
    <3>. QED  BY <2>2, <2>5
  <2>7. off[i + 1] = off[i] + Len(us[i]) /\ off[i] \in Nat /\ Len(us[i]) \in {1, 2}
    BY <1>1, <2>3, <2>5
  <2>. DEFINE a == off[i]  b == off[i + 1]  k == Len(us[i])  L == Len(s)
  <2>8. b = a + k /\ a \in Nat /\ k \in {1, 2} /\ L \in Nat /\ i \in Nat /\ n \in Nat
    BY <1>1, <2>3, <2>7
  <2>9. b + ((n + 1) - (i + 1)) <= L + 1 /\ ~(a + ((n + 1) - i) <= L + 1)
    BY <2>3, <2>6
  <2>. HIDE DEF a, b, k, L
  <2>. QED  BY <2>8, <2>9
<1>. QED  BY <1>1, <1>2, <1>3 DEF n

\* The j-th unit, where it is in the page.
UnitAt(m, s, us, off, j) ==
  /\ off[j] \in 1..Len(s) /\ us[j] \in Single(m) \cup Escape(m)
  /\ (off[j] = Len(s)) <=> (j = Len(us) /\ us[j] \in Single(m))
  /\ us[j] \in Single(m) =>
       s[off[j]] = us[j][1] /\ s[off[j]] # m /\ off[j + 1] = off[j] + 1
  /\ us[j] \in Escape(m) =>
       s[off[j]] = m /\ s[off[j] + 1] = us[j][2] /\ off[j + 1] = off[j] + 2

LEMMA LaidUnits ==
  ASSUME NEW m \in Bytes, NEW us \in Seq(UnitSet(m)), NEW s \in Seq(Bytes), NEW off,
         Laid(s, us, off), NEW j \in 1..Len(us)
  PROVE  UnitAt(m, s, us, off, j)
<1>. DEFINE n == Len(us)
            u == us[j]
            o == off[j]
            q == off[j + 1]
            L == Len(s)
<1>1. n \in Nat /\ L \in Nat /\ j \in 1..n /\ j \in 1..n + 1 /\ j + 1 \in 1..n + 1
  BY UnitsAreSeqs
<1>2. u \in UnitSet(m)
  BY UnitsAreSeqs
<1>3. o \in Nat /\ o >= 1 /\ q \in Nat /\ q + ((n + 1) - (j + 1)) <= L + 1
  BY <1>1, LaidBounds
<1>4. q = o + Len(u) /\ (\A k \in 1..Len(u) : s[o + (k - 1)] = u[k]) /\ off[n + 1] = L + 1
  BY DEF Laid
<1>5. u \in Single(m) \cup Escape(m)
  BY <1>2 DEF UnitSet
<1>6. j = n => q = L + 1
  BY <1>4
<1>. HIDE DEF n, u, o, q, L
<1>7. CASE u \in Single(m)
  <2>1. Len(u) = 1 /\ u[1] # m /\ u \notin Escape(m)
    BY <1>7, SingleFacts, NotEscape
  <2>2. q = o + 1 /\ s[o] = u[1]
    <3>1. 1 \in 1..Len(u) /\ o + (1 - 1) = o
      BY <2>1, <1>3
    <3>2. s[o + (1 - 1)] = u[1]
      BY <1>4, <3>1
    <3>. QED  BY <1>4, <2>1, <3>1, <3>2
  <2>3. o \in 1..L
    BY <1>1, <1>3, <2>2
  <2>4. o = L <=> j = n
    BY <1>1, <1>3, <1>6, <2>2
  <2>. QED  BY <1>5, <1>7, <2>1, <2>2, <2>3, <2>4 DEF UnitAt, u, o, q, n, L
<1>8. CASE u \in Escape(m)
  <2>1. Len(u) = 2 /\ u[1] = m /\ u \notin Single(m)
    BY <1>2, <1>8, EscapeFacts, UnitFacts
  <2>2. q = o + 2 /\ s[o] = m /\ s[o + 1] = u[2]
    <3>1. 1 \in 1..Len(u) /\ 2 \in 1..Len(u) /\ o + (1 - 1) = o /\ o + (2 - 1) = o + 1
      BY <2>1, <1>3
    <3>2. s[o + (1 - 1)] = u[1] /\ s[o + (2 - 1)] = u[2]
      BY <1>4, <3>1
    <3>. QED  BY <1>4, <2>1, <3>1, <3>2
  <2>3. o \in 1..L /\ o # L
    BY <1>1, <1>3, <2>2
  <2>. QED  BY <1>5, <1>8, <2>1, <2>2, <2>3 DEF UnitAt, u, o, q, n, L
<1>. QED  BY <1>5, <1>7, <1>8

\* What a round counts while it writes is what a count of the page finds.
LEMMA CountsSame ==
  ASSUME NEW m \in Bytes, NEW us \in Seq(UnitSet(m)), us # <<>>
  PROVE  InitPairCount(FlattenSeq(us), m) = Counted(us)
<1>. DEFINE n == Len(us)
            s == FlattenSeq(us)
<1>1. n \in Nat /\ n > 0 /\ us \in Seq(Seq(Bytes)) /\ \A j \in 1..n : us[j] \in UnitSet(m)
  BY UnitsAreSeqs
<1>2. s \in Seq(Bytes) /\ Len(s) \in Nat
  <2>1. s \in Seq(Bytes)
    BY <1>1, FlattenType
  <2>. HIDE DEF s
  <2>. QED  BY <2>1
<1>3. PICK off : Laid(s, us, off)
  BY <1>1, FlattenLaid
<1>4. PICK d : IsCount(us, d) /\ Counted(us) = d[1][NoPair]
  BY CountedRec
<1>5. PICK c : IsScan(s, m, c) /\ InitPairCount(s, m) = c[1][NoPair]
  BY <1>2, ScanRec
<1>. HIDE DEF s, n
<1>6. \A j \in 1..n : UnitAt(m, s, us, off, j)
  BY <1>2, <1>3, LaidUnits DEF n
<1>7. off[1] = 1 /\ off[n + 1] = Len(s) + 1
  BY <1>3 DEF Laid, n
<1>8. \A j \in 1..n : \A last \in Lasts : CountAt(us, d, j, last)
  BY <1>4 DEF IsCount, n
<1>9. \A i \in 1..Len(s) + 3 : \A last \in Lasts : ScanAt(s, m, c, i, last)
  BY <1>5 DEF IsScan
<1>. DEFINE Same(j) == \A last \in Lasts : c[off[j]][last] = d[j][last]
            Bad == {j \in 1..n : ~Same(j)}
<1>10. NoPair \in Lasts
  BY DEF Lasts
<1>11. Bad = {}
  <2>1. SUFFICES ASSUME Bad # {} PROVE FALSE
    OBVIOUS
  <2>2. PICK j \in Bad : \A i \in Bad : i <= j
    <3>1. Bad \in SUBSET (0..n)
      BY <1>1
    <3>. HIDE DEF Bad
    <3>. QED  BY <1>1, <2>1, <3>1, GreatestNatural DEF n
  <2>3. j \in 1..n /\ ~Same(j)
    BY <2>2
  <2>4. \A i \in 1..n : i > j => Same(i)
    <3>1. \A i \in 1..n : i > j => ~(i <= j)
      BY <2>3
    <3>. HIDE DEF Same
    <3>. QED  BY <2>2, <3>1
  <2>5. PICK last \in Lasts : c[off[j]][last] # d[j][last]
    BY <2>3
  <2>. DEFINE o == off[j]  u == us[j]  v == us[j + 1]
  <2>6. UnitAt(m, s, us, off, j)
    BY <1>6, <2>3
  <2>7. o \in 1..Len(s) /\ o \in 1..Len(s) + 3
    BY <1>2, <2>6 DEF UnitAt
  <2>8. ScanAt(s, m, c, o, last) /\ CountAt(us, d, j, last)
    BY <1>8, <1>9, <2>3, <2>7
  <2>a. \A i \in 1..Len(s) + 3 : i >= Len(s) => c[i][NoPair] = Zero
    BY <1>9, <1>10 DEF ScanAt
  <2>b. \A i \in 1..n : i > j => c[off[i]][NoPair] = d[i][NoPair]
    BY <2>4, <1>10
  <2>9. CASE j = n
    <3>1. d[j][last] = Zero
      BY <2>8, <2>9 DEF CountAt, n
    <3>2. CASE u \in Single(m)
      <4>1. o = Len(s)
        BY <2>6, <2>9, <3>2 DEF UnitAt, n
      <4>2. c[o][last] = Zero
        BY <1>2, <2>8, <4>1 DEF ScanAt
      <4>. QED  BY <2>5, <3>1, <4>2
    <3>3. CASE u \in Escape(m)
      <4>1. s[o] = m /\ o + 2 = Len(s) + 1
        BY <2>6, <2>9, <1>7, <3>3 DEF UnitAt
      <4>2. o < Len(s)
        BY <1>2, <2>7, <4>1
      <4>3. c[o][last] = c[o + 2][NoPair]
        BY <2>8, <4>1, <4>2 DEF ScanAt
      <4>4. c[o + 2][NoPair] = Zero
        BY <2>a, <4>1, <1>2
      <4>. QED  BY <2>5, <3>1, <4>3, <4>4
    <3>. QED  BY <2>6, <3>2, <3>3 DEF UnitAt
  <2>10. CASE j < n
    <3>1. j + 1 \in 1..n /\ j + 1 > j
      BY <1>1, <2>3, <2>10
    <3>2. UnitAt(m, s, us, off, j + 1)
      BY <1>6, <3>1
    <3>3. u \in UnitSet(m) /\ v \in UnitSet(m)
      BY <1>1, <2>3, <3>1
    <3>4. o < Len(s)
      <4>1. o # Len(s)
        BY <2>6, <2>10, <2>3 DEF UnitAt, n
      <4>. QED  BY <1>2, <2>7, <4>1
    <3>5. Len(u \o v) > 2 <=> u \in Escape(m) \/ v \in Escape(m)
      BY <3>3, Neighbours
    <3>6. CASE u \in Escape(m)
      <4>1. s[o] = m /\ off[j + 1] = o + 2
        BY <2>6, <3>6 DEF UnitAt
      <4>2. c[o][last] = c[o + 2][NoPair]
        BY <2>8, <3>4, <4>1 DEF ScanAt
      <4>3. d[j][last] = d[j + 1][NoPair]
        BY <2>8, <2>10, <3>5, <3>6 DEF CountAt, n
      <4>. QED  BY <2>5, <2>b, <3>1, <4>1, <4>2, <4>3
    <3>7. CASE u \in Single(m) /\ v \in Escape(m)
      <4>1. /\ s[o] # m /\ off[j + 1] = o + 1 /\ s[o + 1] = m
            /\ off[(j + 1) + 1] = off[j + 1] + 2
        BY <2>6, <3>2, <3>7 DEF UnitAt
      <4>2. c[o][last] = c[o + 3][NoPair]
        BY <2>8, <3>4, <4>1 DEF ScanAt
      <4>3. d[j][last] = d[j + 1][NoPair]
        BY <2>8, <2>10, <3>5, <3>7 DEF CountAt, n
      <4>4. off[(j + 1) + 1] = o + 3
        BY <2>7, <4>1
      <4>5. CountAt(us, d, j + 1, NoPair)
        BY <1>8, <1>10, <3>1
      <4>6. CASE j + 1 = n
        <5>1. d[j + 1][NoPair] = Zero
          BY <4>5, <4>6 DEF CountAt, n
        <5>2. o + 3 = Len(s) + 1
          BY <4>4, <4>6, <1>7
        <5>3. c[o + 3][NoPair] = Zero
          BY <2>a, <5>2, <1>2
        <5>. QED  BY <2>5, <4>2, <4>3, <5>1, <5>3
      <4>7. CASE j + 1 < n
        <5>1. (j + 1) + 1 \in 1..n /\ (j + 1) + 1 > j
          BY <1>1, <3>1, <4>7
        <5>2. us[(j + 1) + 1] \in UnitSet(m)
          BY <1>1, <5>1
        <5>3. Len(v \o us[(j + 1) + 1]) > 2
          BY <3>3, <3>7, <5>2, Neighbours
        <5>4. d[j + 1][NoPair] = d[(j + 1) + 1][NoPair]
          BY <4>5, <4>7, <5>3 DEF CountAt, n
        <5>5. c[off[(j + 1) + 1]][NoPair] = d[(j + 1) + 1][NoPair]
          BY <2>b, <5>1
        <5>. QED  BY <2>5, <4>2, <4>3, <4>4, <5>4, <5>5
      <4>. QED  BY <1>1, <3>1, <4>6, <4>7
    <3>8. CASE u \in Single(m) /\ v \in Single(m)
      <4>. DEFINE p == <<u[1], v[1]>>
      <4>1. u \o v = p /\ p \in Pairs /\ p \in Lasts
        BY <3>3, <3>8, Neighbours DEF Lasts
      <4>2. s[o] = u[1] /\ s[o] # m /\ off[j + 1] = o + 1 /\ s[o + 1] = v[1] /\ s[o + 1] # m
        BY <2>6, <3>2, <3>8 DEF UnitAt
      <4>3. ~(Len(u \o v) > 2)
        <5>1. u \notin Escape(m) /\ v \notin Escape(m)
          BY <3>8, NotEscape
        <5>. QED  BY <3>5, <5>1
      <4>4. <<s[o], s[o + 1]>> = p
        BY <4>2
      <4>5. c[o + 1][NoPair] = d[j + 1][NoPair] /\ c[o + 1][p] = d[j + 1][p]
        BY <2>4, <3>1, <1>10, <4>1, <4>2
      <4>. HIDE DEF p, o, Same
      <4>6. CASE p = last
        <5>1. c[o][last] = c[o + 1][NoPair]
          BY <2>8, <3>4, <4>2, <4>4, <4>6 DEF ScanAt
        <5>2. d[j][last] = d[j + 1][NoPair]
          BY <2>8, <2>10, <4>1, <4>3, <4>6 DEF CountAt, n
        <5>. QED  BY <2>5, <4>5, <5>1, <5>2 DEF o
      <4>7. CASE p # last
        <5>1. c[o][last] = [c[o + 1][p] EXCEPT ![p] = @ + 1]
          BY <2>8, <3>4, <4>2, <4>4, <4>7 DEF ScanAt
        <5>2. d[j][last] = [d[j + 1][p] EXCEPT ![p] = @ + 1]
          BY <2>8, <2>10, <4>1, <4>3, <4>7 DEF CountAt, n
        <5>. QED  BY <2>5, <4>5, <5>1, <5>2 DEF o
      <4>. QED  BY <4>6, <4>7
    <3>. QED  BY <3>3, <3>6, <3>7, <3>8 DEF UnitSet
  <2>. QED  BY <1>1, <2>3, <2>9, <2>10
<1>12. 1 \in 1..n
  BY <1>1
<1>13. c[1][NoPair] = d[1][NoPair]
  BY <1>7, <1>10, <1>11, <1>12
<1>. QED  BY <1>4, <1>5, <1>13 DEF s

-----------------------------------------------------------------------------
(* What a round writes                                                      *)

Escapes(token) == byteCount[token] # 0

HasPair(i, pair) == SubSeq(stream, i, Lesser(i + 1, Len(stream))) = pair

\* w[i] is what Units writes from the i-th byte on.
WriteAt(w, token, pair, i) ==
  /\ i > Len(stream) => w[i] = <<>>
  /\ i <= Len(stream) =>
       /\ Escapes(token) /\ stream[i] = marker =>
            w[i] = <<<<marker, stream[i + 1]>>>> \o w[i + 2]
       /\ Escapes(token) /\ stream[i] # marker /\ stream[i] = token =>
            w[i] = <<<<marker, token>>>> \o w[i + 1]
       /\ ~(Escapes(token) /\ stream[i] \in {marker, token}) /\ HasPair(i, pair) =>
            w[i] = <<<<token>>>> \o w[i + 2]
       /\ ~(Escapes(token) /\ stream[i] \in {marker, token}) /\ ~HasPair(i, pair) =>
            w[i] = <<<<stream[i]>>>> \o w[i + 1]

LEMMA WriteRec ==
  ASSUME NEW token \in Bytes, NEW pair \in Pairs, stream \in Seq(Bytes)
  PROVE  \E w : /\ \A i \in 1..Len(stream) + 2 : WriteAt(w, token, pair, i)
                /\ Units(token, pair) = w[1]
<1>. DEFINE n == Len(stream)
            D == 1..n + 2
            X == {<<token>>, <<marker, token>>} \cup {<<stream[i]>> : i \in 1..n}
                 \cup {<<marker, stream[i + 1]>> : i \in 1..n}
            S == Seq(X)
            esc == byteCount[token] # 0
            E(f, i) ==
              IF i > n THEN <<>>
              ELSE IF esc /\ stream[i] = marker
                   THEN <<<<marker, stream[i + 1]>>>> \o f[i + 2]
              ELSE IF esc /\ stream[i] = token
                   THEN <<<<marker, token>>>> \o f[i + 1]
              ELSE IF SubSeq(stream, i, Lesser(i + 1, Len(stream))) = pair
                   THEN <<<<token>>>> \o f[i + 2]
              ELSE <<<<stream[i]>>>> \o f[i + 1]
            IsFun(f) == f = [i \in D |-> E(f, i)]
            step == [i \in D |-> [f \in [D -> S] |-> E(f, i)]]
            rank == [i \in D |-> (n + 2) - i]
<1>0. n \in Nat
  OBVIOUS
<1>a. \A i \in D : i <= n => i + 1 \in D /\ i + 2 \in D /\ i \in 1..n
  BY <1>0
<1>b. \A x \in X : \A t \in S : <<x>> \o t \in S
  <2>. HIDE DEF X
  <2>. QED  OBVIOUS
<1>c. \A i \in D : i > n \/ i <= n
  BY <1>0
<1>d. ASSUME NEW i \in D, NEW f, i <= n => f[i + 1] \in S /\ f[i + 2] \in S
      PROVE  E(f, i) \in S
  <2>1. CASE i > n
    <3>1. E(f, i) = <<>>
      BY <2>1
    <3>2. <<>> \in S
      OBVIOUS
    <3>. QED  BY <3>1, <3>2
  <2>2. CASE i <= n
    <3>1. f[i + 1] \in S /\ f[i + 2] \in S /\ i \in 1..n /\ ~(i > n)
      BY <1>0, <1>a, <1>d, <2>2
    <3>2. /\ <<token>> \in X /\ <<marker, token>> \in X /\ <<stream[i]>> \in X
          /\ <<marker, stream[i + 1]>> \in X
      BY <3>1
    <3>. HIDE DEF X, S
    <3>3. /\ <<<<token>>>> \o f[i + 2] \in S /\ <<<<marker, token>>>> \o f[i + 1] \in S
          /\ <<<<stream[i]>>>> \o f[i + 1] \in S
          /\ <<<<marker, stream[i + 1]>>>> \o f[i + 2] \in S
      BY <1>b, <3>1, <3>2
    <3>. QED  BY <3>1, <3>3
  <2>. QED  BY <1>c, <2>1, <2>2
<1>1. \E f \in [D -> S] : \A i \in D : f[i] = step[i][f]
  <2>1. S # {} /\ rank \in [D -> 0..n + 2]
    <3>1. <<>> \in S
      OBVIOUS
    <3>2. \A i \in D : (n + 2) - i \in 0..n + 2
      BY <1>0
    <3>. QED  BY <3>1, <3>2
  <2>2. ASSUME NEW i \in D, NEW f \in [D -> S]
        PROVE  E(f, i) \in S
    <3>1. i <= n => f[i + 1] \in S /\ f[i + 2] \in S
      <4>. HIDE DEF S
      <4>. QED  BY <1>a
    <3>. HIDE DEF E, S
    <3>. QED  BY <3>1, <1>d
  <2>3. step \in [D -> [[D -> S] -> S]]
    <3>. HIDE DEF E, S
    <3>. QED  BY <2>2
  <2>4. ASSUME NEW i \in D, NEW f \in [D -> S], NEW g \in [D -> S],
               \A e \in D : rank[e] < rank[i] => f[e] = g[e]
        PROVE  step[i][f] = step[i][g]
    <3>1. i <= n => f[i + 1] = g[i + 1] /\ f[i + 2] = g[i + 2]
      <4>1. i <= n => rank[i + 1] < rank[i] /\ rank[i + 2] < rank[i]
        BY <1>0, <1>a
      <4>. HIDE DEF S, D, rank
      <4>. QED  BY <1>a, <2>4, <4>1
    <3>2. step[i][f] = E(f, i) /\ step[i][g] = E(g, i)
      <4>. HIDE DEF S, E
      <4>. QED  OBVIOUS
    <3>3. E(f, i) = E(g, i)
      <4>1. CASE i > n
        BY <4>1
      <4>2. CASE i <= n
        <5>1. f[i + 1] = g[i + 1] /\ f[i + 2] = g[i + 2]
          BY <4>2, <3>1
        <5>. HIDE DEF esc, S
        <5>. QED  BY <5>1
      <4>. QED  BY <1>c, <4>1, <4>2
    <3>. HIDE DEF E, step
    <3>. QED  BY <3>2, <3>3
  <2>5. \A i \in D : \A f, g \in [D -> S] :
          (\A e \in D : rank[e] < rank[i] => f[e] = g[e]) => step[i][f] = step[i][g]
    <3>. HIDE DEF E, S, rank, step
    <3>. QED  BY <2>4
  <2>. DEFINE top == n + 2
  <2>8. top \in Nat /\ rank \in [D -> 0..top]
    BY <1>0, <2>1
  <2>. HIDE DEF D, S, rank, step, n, E, IsFun, top
  <2>7. IsRecursion(D, S, rank, step)
    BY <2>3, <2>5, Zenon DEF IsRecursion
  <2>. QED  BY <2>1, <2>8, <2>7, RecExists
<1>2. PICK f0 \in [D -> S] : \A i \in D : f0[i] = E(f0, i)
  <2>1. PICK f \in [D -> S] : \A i \in D : f[i] = step[i][f]
    BY <1>1
  <2>. HIDE DEF E, S
  <2>2. \A i \in D : step[i][f] = E(f, i)
    OBVIOUS
  <2>. QED  BY <2>1, <2>2
<1>3. IsFun(f0)
  <2>. HIDE DEF E, S
  <2>1. f0 = [i \in D |-> f0[i]]
    OBVIOUS
  <2>. QED  BY <1>2, <2>1
<1>. DEFINE unit == CHOOSE f : IsFun(f)
<1>4. IsFun(unit)
  <2>. HIDE DEF IsFun
  <2>. QED  BY <1>3
<1>5. Units(token, pair) = unit[1]
  BY DEF Units
<1>. HIDE DEF unit
<1>6. \A i \in D : unit[i] = E(unit, i)
  <2>1. unit = [i \in D |-> E(unit, i)]
    BY <1>4
  <2>. HIDE DEF E
  <2>. QED  BY <2>1
<1>7. ASSUME NEW i \in D
      PROVE  WriteAt(unit, token, pair, i)
  <2>1. unit[i] = E(unit, i)
    BY <1>6
  <2>2. CASE i > n
    <3>1. unit[i] = <<>> /\ ~(i <= n)
      BY <1>0, <2>1, <2>2
    <3>. HIDE DEF E, unit, S
    <3>. QED  BY <2>2, <3>1 DEF WriteAt, n
  <2>3. CASE i <= n
    <3>0. ~(i > n)
      BY <1>0, <2>3
    <3>. DEFINE b == stream[i]  has == HasPair(i, pair)
    <3>1. unit[i] = IF esc /\ b = marker
                    THEN <<<<marker, stream[i + 1]>>>> \o unit[i + 2]
                    ELSE IF esc /\ b = token
                    THEN <<<<marker, token>>>> \o unit[i + 1]
                    ELSE IF has THEN <<<<token>>>> \o unit[i + 2]
                    ELSE <<<<b>>>> \o unit[i + 1]
      BY <2>1, <3>0 DEF HasPair
    <3>. HIDE DEF E, unit, S, esc, b, has
    <3>2. esc /\ b = marker => unit[i] = <<<<marker, stream[i + 1]>>>> \o unit[i + 2]
      BY <3>1
    <3>3. esc /\ b # marker /\ b = token => unit[i] = <<<<marker, token>>>> \o unit[i + 1]
      BY <3>1
    <3>4. ~(esc /\ b \in {marker, token}) /\ has => unit[i] = <<<<token>>>> \o unit[i + 2]
      BY <3>1
    <3>5. ~(esc /\ b \in {marker, token}) /\ ~has => unit[i] = <<<<b>>>> \o unit[i + 1]
      BY <3>1
    <3>. QED  BY <3>0, <3>2, <3>3, <3>4, <3>5 DEF WriteAt, Escapes, esc, b, has, n
  <2>. QED  BY <1>c, <2>2, <2>3
<1>. QED  BY <1>5, <1>7

\* The j-th unit and the one after it are the pair.
Match(us, pair, j) == j < Len(us) /\ us[j] = <<pair[1]>> /\ us[j + 1] = <<pair[2]>>

Freed(us, token, j) == Escapes(token) /\ us[j] = <<token>>

\* v[j] is what the round makes of the units from the j-th on.
RewriteAt(us, v, token, pair, j) ==
  /\ us[j] \in Escape(marker) => v[j] = <<us[j]>> \o v[j + 1]
  /\ us[j] \in Single(marker) /\ Freed(us, token, j) =>
       v[j] = <<<<marker, token>>>> \o v[j + 1]
  /\ us[j] \in Single(marker) /\ ~Freed(us, token, j) /\ Match(us, pair, j) =>
       v[j] = <<<<token>>>> \o v[j + 2]
  /\ us[j] \in Single(marker) /\ ~Freed(us, token, j) /\ ~Match(us, pair, j) =>
       v[j] = <<us[j]>> \o v[j + 1]

IsRewrite(us, v, token, pair) ==
  /\ v[Len(us) + 1] = <<>>
  /\ \A j \in 1..Len(us) : RewriteAt(us, v, token, pair, j)
  /\ \A j \in 1..Len(us) + 1 : v[j] \in Seq(UnitSet(marker))

NoEscapes(us) == \A j \in 1..Len(us) : us[j] \in Single(marker)

LEMMA SingleIn ==
  ASSUME NEW m \in Bytes, NEW b \in Bytes, b # m
  PROVE  <<b>> \in Single(m) /\ <<b>> \in UnitSet(m)
BY DEF Single, UnitSet

LEMMA EscapeIn ==
  ASSUME NEW m \in Bytes, NEW b \in Bytes
  PROVE  <<m, b>> \in Escape(m) /\ <<m, b>> \in UnitSet(m)
BY DEF Escape, UnitSet

LEMMA UnitCons ==
  ASSUME NEW m, NEW x \in UnitSet(m), NEW t \in Seq(UnitSet(m))
  PROVE  <<x>> \o t \in Seq(UnitSet(m))
<1>. DEFINE X == UnitSet(m)
<1>1. x \in X /\ t \in Seq(X)
  OBVIOUS
<1>. HIDE DEF X
<1>2. <<x>> \o t \in Seq(X)
  BY <1>1
<1>. QED  BY <1>2 DEF X

LEMMA TwoOf ==
  ASSUME NEW s \in Seq(Bytes), NEW o \in 1..Len(s), NEW pair \in Pairs
  PROVE  SubSeq(s, o, Lesser(o + 1, Len(s))) = pair
           <=> o < Len(s) /\ s[o] = pair[1] /\ s[o + 1] = pair[2]
<1>. DEFINE L == Len(s)
            t == SubSeq(s, o, Lesser(o + 1, L))
<1>1. L \in Nat /\ o \in Nat /\ 1 <= o /\ o <= L
  OBVIOUS
<1>2. pair \in Seq(Bytes) /\ Len(pair) = 2 /\ pair = <<pair[1], pair[2]>>
  <2>1. PICK a \in Bytes, b \in Bytes : pair = <<a, b>>
    BY DEF Pairs
  <2>2. <<a, b>> \in Seq(Bytes) /\ Len(<<a, b>>) = 2
    OBVIOUS
  <2>. QED  BY <2>1, <2>2
<1>3. CASE o = L
  <2>1. Lesser(o + 1, L) = o
    BY <1>1, <1>3 DEF Lesser
  <2>2. t = SubSeq(s, o, o)
    BY <2>1
  <2>3. Len(SubSeq(s, o, o)) = 1
    BY <1>1
  <2>4. t # pair /\ ~(o < L)
    <3>. HIDE DEF t
    <3>. QED  BY <1>1, <1>2, <1>3, <2>2, <2>3
  <2>. QED  BY <2>4
<1>4. CASE o < L
  <2>1. Lesser(o + 1, L) = o + 1
    BY <1>1, <1>4 DEF Lesser
  <2>2. \A i \in o..o + 1 : s[i] \in Bytes
    BY <1>1, <1>4
  <2>. DEFINE r == SubSeq(s, o, o + 1)
  <2>3. r \in Seq(Bytes) /\ Len(r) = 2 /\ r[1] = s[o] /\ r[2] = s[o + 1]
    <3>1. r \in Seq(Bytes)
      BY <1>1, <2>2, SubSeqProperties
    <3>2. Len(r) = 2
      BY <1>1
    <3>3. r[1] = s[o]
      BY <1>1, <1>4
    <3>4. r[2] = s[o + 1]
      BY <1>1, <1>4
    <3>. QED  BY <3>1, <3>2, <3>3, <3>4
  <2>4. t = r
    BY <2>1
  <2>. HIDE DEF r, t
  <2>5. r = pair <=> r[1] = pair[1] /\ r[2] = pair[2]
    <3>1. ASSUME r[1] = pair[1], r[2] = pair[2] PROVE r = pair
      <4>1. \A i \in 1..2 : r[i] = pair[i]
        BY <3>1
      <4>. QED  BY <1>2, <2>3, <4>1, SeqEqual
    <3>. QED  BY <3>1
  <2>. QED  BY <1>4, <2>3, <2>4, <2>5 DEF t, L
<1>. QED  BY <1>1, <1>3, <1>4

LEMMA RewriteExists ==
  ASSUME NEW us \in Seq(UnitSet(marker)), us # <<>>, stream = FlattenSeq(us),
         marker \in Bytes, NEW token \in Bytes, token # marker,
         NEW pair \in Pairs, pair[1] # marker, pair[2] # marker,
         ~Escapes(token) => NoEscapes(us)
  PROVE  \E v : IsRewrite(us, v, token, pair) /\ Units(token, pair) = v[1]
<1>. DEFINE n == Len(us)
            m == marker
            s == stream
            L == Len(s)
<1>1. n \in Nat /\ n > 0 /\ us \in Seq(Seq(Bytes)) /\ \A j \in 1..n : us[j] \in UnitSet(m)
  BY UnitsAreSeqs
<1>2. s \in Seq(Bytes) /\ L \in Nat
  <2>1. s \in Seq(Bytes)
    BY <1>1, FlattenType
  <2>. QED  BY <2>1
<1>3. PICK off : Laid(s, us, off)
  BY <1>1, FlattenLaid
<1>4. \A j \in 1..n : UnitAt(m, s, us, off, j)
  BY <1>2, <1>3, LaidUnits
<1>5. off[1] = 1 /\ off[n + 1] = L + 1
  BY <1>3 DEF Laid
<1>6. PICK w : /\ \A i \in 1..L + 2 : WriteAt(w, token, pair, i)
               /\ Units(token, pair) = w[1]
  BY <1>2, WriteRec
<1>. DEFINE v == [j \in 1..n + 1 |-> w[off[j]]]
<1>7. \A j \in 1..n + 1 : v[j] = w[off[j]]
  OBVIOUS
<1>. HIDE DEF v, n, m, s, L
<1>8. v[n + 1] = <<>>
  <2>1. n + 1 \in 1..n + 1 /\ L + 1 \in 1..L + 2 /\ L + 1 > L
    BY <1>1, <1>2
  <2>2. w[L + 1] = <<>>
    BY <1>6, <2>1 DEF WriteAt, L, s
  <2>. QED  BY <1>5, <1>7, <2>1, <2>2
<1>9. ASSUME NEW j \in 1..n
      PROVE  RewriteAt(us, v, token, pair, j)
  <2>. DEFINE o == off[j]  u == us[j]
  <2>1. UnitAt(m, s, us, off, j)
    BY <1>4
  <2>2. o \in 1..L /\ o \in 1..L + 2 /\ o <= L /\ u \in UnitSet(m)
    BY <1>1, <1>2, <2>1 DEF UnitAt, L
  <2>3. WriteAt(w, token, pair, o)
    BY <1>6, <2>2
  <2>4. j \in 1..n + 1 /\ j + 1 \in 1..n + 1 /\ v[j] = w[o] /\ v[j + 1] = w[off[j + 1]]
    <3>1. j \in 1..n + 1 /\ j + 1 \in 1..n + 1
      BY <1>1
    <3>. QED  BY <1>7, <3>1
  <2>5. CASE u \in Escape(m)
    <3>1. s[o] = m /\ s[o + 1] = u[2] /\ off[j + 1] = o + 2 /\ u = <<m, u[2]>>
      BY <2>1, <2>5, EscapeFacts DEF UnitAt, m
    <3>2. Escapes(token)
      <4>1. u \notin Single(m)
        BY <2>5, NotEscape DEF m
      <4>. QED  BY <4>1 DEF NoEscapes, m, n
    <3>3. w[o] = <<<<m, s[o + 1]>>>> \o w[o + 2]
      BY <2>2, <2>3, <3>1, <3>2 DEF WriteAt, m, s, L
    <3>4. v[j] = <<u>> \o v[j + 1]
      BY <2>4, <3>1, <3>3
    <3>5. u \notin Single(m)
      BY <2>5, NotEscape DEF m
    <3>. QED  BY <2>5, <3>4, <3>5 DEF RewriteAt, m
  <2>6. CASE u \in Single(m)
    <3>1. u \notin Escape(m) /\ u = <<u[1]>> /\ u[1] # m /\ u[1] \in Bytes
      BY <2>6, NotEscape, SingleFacts DEF m
    <3>2. s[o] = u[1] /\ off[j + 1] = o + 1 /\ (o = L <=> j = n)
      BY <2>1, <2>6 DEF UnitAt, L, n
    <3>3. u = <<token>> <=> s[o] = token
      BY <3>1, <3>2
    <3>4. Freed(us, token, j) <=> Escapes(token) /\ s[o] \in {m, token}
      BY <3>1, <3>2, <3>3 DEF Freed
    <3>5. HasPair(o, pair) <=> o < L /\ s[o] = pair[1] /\ s[o + 1] = pair[2]
      BY <1>2, <2>2, TwoOf DEF HasPair, s, L
    <3>6. o < L <=> j < n
      BY <1>1, <1>2, <2>2, <3>2
    <3>7. CASE Freed(us, token, j)
      <4>1. w[o] = <<<<m, token>>>> \o w[o + 1]
        BY <2>2, <2>3, <3>1, <3>2, <3>3, <3>7 DEF WriteAt, Freed, m, s, L
      <4>2. v[j] = <<<<m, token>>>> \o v[j + 1]
        BY <2>4, <3>2, <4>1
      <4>. QED  BY <3>1, <3>7, <4>2 DEF RewriteAt, m
    <3>8. CASE ~Freed(us, token, j) /\ j < n
      <4>. DEFINE x == us[j + 1]
      <4>1. j + 1 \in 1..n /\ (j + 1) + 1 \in 1..n + 1 /\ (j + 1) + 1 = j + 2
        BY <1>1, <3>8
      <4>2. UnitAt(m, s, us, off, j + 1)
        BY <1>4, <4>1
      <4>3. s[o + 1] = pair[2] <=> x = <<pair[2]>>
        <5>1. CASE x \in Single(m)
          <6>1. s[o + 1] = x[1] /\ x = <<x[1]>>
            BY <4>2, <5>1, <3>2, SingleFacts DEF UnitAt, m
          <6>. HIDE DEF x
          <6>. QED  BY <6>1
        <5>2. CASE x \in Escape(m)
          <6>1. s[o + 1] = m /\ Len(x) = 2
            BY <4>2, <5>2, <3>2, EscapeFacts DEF UnitAt, m
          <6>2. Len(<<pair[2]>>) = 1
            OBVIOUS
          <6>. HIDE DEF x
          <6>. QED  BY <6>1, <6>2 DEF m
        <5>. QED  BY <4>2, <5>1, <5>2 DEF UnitAt
      <4>4. s[o] = pair[1] <=> u = <<pair[1]>>
        BY <3>1, <3>2
      <4>5. HasPair(o, pair) <=> Match(us, pair, j)
        BY <3>5, <3>6, <3>8, <4>3, <4>4 DEF Match, n
      <4>6. CASE Match(us, pair, j)
        <5>1. w[o] = <<<<token>>>> \o w[o + 2]
          BY <2>2, <2>3, <3>4, <3>8, <4>5, <4>6 DEF WriteAt, m, s, L
        <5>2. x \in Single(m)
          <6>1. pair[2] \in Bytes
            BY DEF Pairs
          <6>. QED  BY <4>6, <6>1, SingleIn DEF Match, m
        <5>3. off[(j + 1) + 1] = off[j + 1] + 1
          BY <4>2, <5>2 DEF UnitAt
        <5>4. off[j + 2] = o + 2 /\ v[j + 2] = w[off[j + 2]]
          <6>1. o \in Nat
            BY <2>2
          <6>. HIDE DEF o
          <6>2. off[j + 2] = o + 2
            BY <3>2, <4>1, <5>3, <6>1
          <6>3. j + 2 \in 1..n + 1
            BY <4>1
          <6>. QED  BY <1>7, <6>2, <6>3
        <5>5. v[j] = <<<<token>>>> \o v[j + 2]
          BY <2>4, <5>1, <5>4
        <5>. QED  BY <3>1, <3>8, <4>6, <5>5 DEF RewriteAt, m
      <4>7. CASE ~Match(us, pair, j)
        <5>1. w[o] = <<<<s[o]>>>> \o w[o + 1]
          BY <2>2, <2>3, <3>4, <3>8, <4>5, <4>7 DEF WriteAt, m, s, L
        <5>2. v[j] = <<u>> \o v[j + 1]
          BY <2>4, <3>1, <3>2, <5>1
        <5>. QED  BY <3>1, <3>8, <4>7, <5>2 DEF RewriteAt, m
      <4>. QED  BY <4>6, <4>7
    <3>9. CASE ~Freed(us, token, j) /\ ~(j < n)
      <4>1. ~HasPair(o, pair) /\ ~Match(us, pair, j)
        BY <3>5, <3>6, <3>9 DEF Match, n
      <4>2. w[o] = <<<<s[o]>>>> \o w[o + 1]
        BY <2>2, <2>3, <3>4, <3>9, <4>1 DEF WriteAt, m, s, L
      <4>3. v[j] = <<u>> \o v[j + 1]
        BY <2>4, <3>1, <3>2, <4>2
      <4>. QED  BY <3>1, <3>9, <4>1, <4>3 DEF RewriteAt, m
    <3>. QED  BY <3>7, <3>8, <3>9
  <2>. QED  BY <2>2, <2>5, <2>6 DEF UnitSet
<1>10. \A j \in 1..n + 1 : v[j] \in Seq(UnitSet(m))
  <2>. DEFINE Bad == {j \in 1..n + 1 : v[j] \notin Seq(UnitSet(m))}
  <2>1. SUFFICES ASSUME Bad # {} PROVE FALSE
    OBVIOUS
  <2>2. PICK j \in Bad : \A i \in Bad : i <= j
    <3>1. Bad \in SUBSET (0..n + 1) /\ n + 1 \in Nat
      BY <1>1
    <3>. HIDE DEF Bad
    <3>. QED  BY <2>1, <3>1, GreatestNatural
  <2>3. j \in 1..n + 1 /\ v[j] \notin Seq(UnitSet(m))
    BY <2>2
  <2>4. j # n + 1
    <3>1. <<>> \in Seq(UnitSet(m))
      BY EmptySeq
    <3>. QED  BY <1>8, <2>3, <3>1
  <2>5. j \in 1..n /\ j + 1 \in 1..n + 1 /\ ~(j + 1 <= j) /\ ~(j + 2 <= j)
    BY <1>1, <2>3, <2>4
  <2>6. v[j + 1] \in Seq(UnitSet(m))
    BY <2>2, <2>5
  <2>7. RewriteAt(us, v, token, pair, j) /\ us[j] \in UnitSet(m)
    BY <1>1, <1>9, <2>5
  <2>8. <<m, token>> \in UnitSet(m) /\ <<token>> \in UnitSet(m)
    BY EscapeIn, SingleIn DEF m
  <2>9. CASE us[j] \in Single(m) /\ ~Freed(us, token, j) /\ Match(us, pair, j)
    <3>1. v[j] = <<<<token>>>> \o v[j + 2]
      BY <2>7, <2>9 DEF RewriteAt, m
    <3>2. j + 2 \in 1..n + 1
      BY <1>1, <2>5, <2>9 DEF Match, n
    <3>3. v[j + 2] \in Seq(UnitSet(m))
      BY <2>2, <2>5, <3>2
    <3>. QED  BY <2>3, <2>8, <3>1, <3>3, UnitCons
  <2>10. CASE ~(us[j] \in Single(m) /\ ~Freed(us, token, j) /\ Match(us, pair, j))
    <3>1. \E x \in UnitSet(m) : v[j] = <<x>> \o v[j + 1]
      BY <2>7, <2>8, <2>10 DEF RewriteAt, m, UnitSet
    <3>. QED  BY <2>3, <2>6, <3>1, UnitCons
  <2>. QED  BY <2>9, <2>10
<1>11. IsRewrite(us, v, token, pair)
  BY <1>8, <1>9, <1>10 DEF IsRewrite, n, m
<1>12. 1 \in 1..n + 1
  BY <1>1
<1>. QED  BY <1>5, <1>6, <1>7, <1>11, <1>12

-----------------------------------------------------------------------------
(* Units that are a byte                                                    *)

\* How often the byte b is in the page as itself.
Alone(us, b) == Cardinality({k \in 1..Len(us) : us[k] = <<b>>})

LEMMA AloneType ==
  ASSUME NEW X, NEW us \in Seq(X), NEW b
  PROVE  /\ Alone(us, b) \in Nat /\ Alone(us, b) <= Len(us)
         /\ Alone(us, b) > 0 <=> \E k \in 1..Len(us) : us[k] = <<b>>
<1>. DEFINE A == {k \in 1..Len(us) : us[k] = <<b>>}
<1>1. Len(us) \in Nat
  OBVIOUS
<1>2. IsFiniteSet(1..Len(us)) /\ Cardinality(1..Len(us)) = Len(us)
  BY SMTT(60), <1>1, FS_Interval
<1>3. A \in SUBSET (1..Len(us))
  OBVIOUS
<1>4. IsFiniteSet(A) /\ Cardinality(A) <= Len(us)
  <2>. HIDE DEF A
  <2>. QED  BY <1>2, <1>3, FS_Subset
<1>5. Cardinality(A) \in Nat /\ (Cardinality(A) = 0 <=> A = {})
  <2>. HIDE DEF A
  <2>. QED  BY <1>4, FS_CardinalityType, FS_EmptySet
<1>6. Cardinality(A) > 0 <=> A # {}
  <2>. HIDE DEF A
  <2>. QED  BY <1>5
<1>7. A # {} <=> \E k \in 1..Len(us) : us[k] = <<b>>
  OBVIOUS
<1>. QED  BY <1>4, <1>5, <1>6, <1>7 DEF Alone

LEMMA AloneEmpty ==
  ASSUME NEW b
  PROVE  Alone(<<>>, b) = 0
<1>1. {k \in 1..Len(<<>>) : <<>>[k] = <<b>>} = {}
  OBVIOUS
<1>. QED  BY <1>1, FS_EmptySet DEF Alone

LEMMA AloneCons ==
  ASSUME NEW X, NEW x \in X, NEW w \in Seq(X), NEW b
  PROVE  /\ x = <<b>> => Alone(<<x>> \o w, b) = Alone(w, b) + 1
         /\ x # <<b>> => Alone(<<x>> \o w, b) = Alone(w, b)
<1>. DEFINE n == Len(w)
            t == <<x>> \o w
            A == {k \in 1..n : w[k] = <<b>>}
            B == {k \in 2..n + 1 : t[k] = <<b>>}
            C == {k \in 1..Len(t) : t[k] = <<b>>}
            f == [k \in A |-> k + 1]
<1>1. n \in Nat /\ Len(t) = n + 1 /\ t[1] = x /\ \A k \in 1..n : t[k + 1] = w[k]
  OBVIOUS
<1>. HIDE DEF t, n
<1>2. IsFiniteSet(A)
  <2>1. A \in SUBSET (1..n) /\ IsFiniteSet(1..n)
    BY <1>1, FS_Interval
  <2>. HIDE DEF A
  <2>. QED  BY <2>1, FS_Subset
<1>3. f \in Bijection(A, B)
  <2>1. \A k \in A : k + 1 \in B
    BY <1>1
  <2>2. \A k \in B : k - 1 \in A /\ (k - 1) + 1 = k
    <3>1. \A k \in 2..n + 1 : k - 1 \in 1..n /\ (k - 1) + 1 = k
      BY <1>1
    <3>. QED  BY <1>1, <3>1
  <2>3. f \in [A -> B]
    BY <2>1
  <2>4. \A i, j \in A : f[i] = f[j] => i = j
    BY <1>1
  <2>5. \A k \in B : \E i \in A : f[i] = k
    <3>. SUFFICES ASSUME NEW k \in B PROVE \E i \in A : f[i] = k
      OBVIOUS
    <3>1. k - 1 \in A /\ f[k - 1] = k
      BY <2>2
    <3>. QED  BY <3>1
  <2>. HIDE DEF A, B, f
  <2>. QED  BY <2>3, <2>4, <2>5 DEF Bijection, Injection, Surjection, IsInjective
<1>4. IsFiniteSet(B) /\ Cardinality(B) = Cardinality(A) /\ Cardinality(A) \in Nat
  <2>1. ExistsBijection(A, B)
    BY <1>3 DEF ExistsBijection
  <2>. HIDE DEF A, B
  <2>. QED  BY <1>2, <2>1, FS_Bijection, FS_CardinalityType
<1>5. 1 \notin B
  BY <1>1
<1>6. ASSUME x = <<b>> PROVE C = B \cup {1}
  <2>1. 1..Len(t) = {1} \cup (2..n + 1) /\ 1 \notin 2..n + 1
    BY <1>1
  <2>2. \A k : k \in C <=> k \in B \cup {1}
    BY <1>1, <1>6, <2>1
  <2>. HIDE DEF B, C
  <2>. QED  BY <2>2
<1>7. ASSUME x # <<b>> PROVE C = B
  <2>1. 1..Len(t) = {1} \cup (2..n + 1) /\ 1 \notin 2..n + 1
    BY <1>1
  <2>2. \A k : k \in C <=> k \in B
    BY <1>1, <1>7, <2>1
  <2>. HIDE DEF B, C
  <2>. QED  BY <2>2
<1>8. Cardinality(B \cup {1}) = Cardinality(B) + 1
  <2>. HIDE DEF B
  <2>. QED  BY <1>4, <1>5, FS_AddElement
<1>9. Alone(t, b) = Cardinality(C) /\ Alone(w, b) = Cardinality(A)
  BY DEF Alone, n
<1>. HIDE DEF A, B, C
<1>. QED  BY <1>4, <1>6, <1>7, <1>8, <1>9 DEF t

\* What is left of the units from the j-th on.
Rest(us, j) == SubSeq(us, j, Len(us))

LEMMA RestFacts ==
  ASSUME NEW X, NEW us \in Seq(X)
  PROVE  /\ Rest(us, 1) = us /\ Rest(us, Len(us) + 1) = <<>>
         /\ \A j \in 1..Len(us) + 1 : Rest(us, j) \in Seq(X)
         /\ \A j \in 1..Len(us) : Rest(us, j) = <<us[j]>> \o Rest(us, j + 1)
<1>0. Len(us) \in Nat
  OBVIOUS
<1>1. Rest(us, 1) = us
  BY SubSeqFull DEF Rest
<1>2. Rest(us, Len(us) + 1) = <<>>
  BY <1>0, SubSeqEmpty DEF Rest
<1>3. ASSUME NEW j \in 1..Len(us) + 1 PROVE Rest(us, j) \in Seq(X)
  <2>1. \A i \in j..Len(us) : us[i] \in X
    BY <1>0
  <2>. QED  BY <1>0, <2>1, SubSeqProperties DEF Rest
<1>4. ASSUME NEW j \in 1..Len(us) PROVE Rest(us, j) = <<us[j]>> \o Rest(us, j + 1)
  <2>1. Len(us) \in j..Len(us)
    BY <1>0
  <2>. QED  BY <2>1, SubSeqRecursiveFirst DEF Rest
<1>. QED  BY <1>1, <1>2, <1>3, <1>4

\* How often b is alone from the j-th unit on.
IsAlone(us, b, a) ==
  /\ a \in [1..Len(us) + 1 -> Nat] /\ a[Len(us) + 1] = 0 /\ a[1] = Alone(us, b)
  /\ \A j \in 1..Len(us) : /\ us[j] = <<b>> => a[j] = a[j + 1] + 1
                           /\ us[j] # <<b>> => a[j] = a[j + 1]

LEMMA AloneFrom ==
  ASSUME NEW X, NEW us \in Seq(X), NEW b
  PROVE  \E a : IsAlone(us, b, a)
<1>. DEFINE n == Len(us)
            a == [j \in 1..n + 1 |-> Alone(Rest(us, j), b)]
<1>0. n \in Nat /\ \A j \in 1..n : us[j] \in X
  OBVIOUS
<1>1. \A j \in 1..n + 1 : a[j] = Alone(Rest(us, j), b) /\ a[j] \in Nat
  <2>1. \A j \in 1..n + 1 : Alone(Rest(us, j), b) \in Nat
    BY RestFacts, AloneType
  <2>. QED  BY <2>1
<1>2. a \in [1..n + 1 -> Nat]
  BY <1>1
<1>. HIDE DEF a
<1>3. a[n + 1] = 0 /\ a[1] = Alone(us, b)
  <2>1. 1 \in 1..n + 1 /\ n + 1 \in 1..n + 1
    BY <1>0
  <2>. QED  BY <1>1, <2>1, RestFacts, AloneEmpty
<1>4. ASSUME NEW j \in 1..n
      PROVE  /\ us[j] = <<b>> => a[j] = a[j + 1] + 1
             /\ us[j] # <<b>> => a[j] = a[j + 1]
  <2>1. j \in 1..n + 1 /\ j + 1 \in 1..n + 1
    BY <1>0
  <2>2. Rest(us, j) = <<us[j]>> \o Rest(us, j + 1) /\ Rest(us, j + 1) \in Seq(X)
    BY <2>1, RestFacts
  <2>3. us[j] \in X
    BY <1>0
  <2>. DEFINE x == us[j]  w == Rest(us, j + 1)
  <2>4. /\ x = <<b>> => Alone(<<x>> \o w, b) = Alone(w, b) + 1
        /\ x # <<b>> => Alone(<<x>> \o w, b) = Alone(w, b)
    <3>1. x \in X /\ w \in Seq(X)
      BY <2>2, <2>3
    <3>. HIDE DEF x, w
    <3>. QED  BY <3>1, AloneCons
  <2>. QED  BY <1>1, <2>1, <2>2, <2>4
<1>. QED  BY <1>2, <1>3, <1>4 DEF IsAlone

\* How many bytes the units from the j-th on are.
IsLength(us, l) ==
  /\ l \in [1..Len(us) + 1 -> Nat] /\ l[Len(us) + 1] = 0 /\ l[1] = Len(FlattenSeq(us))
  /\ \A j \in 1..Len(us) : l[j] = Len(us[j]) + l[j + 1]

LEMMA LengthCons ==
  ASSUME NEW u \in Seq(Bytes), NEW w \in Seq(Seq(Bytes))
  PROVE  Len(FlattenSeq(<<u>> \o w)) = Len(u) + Len(FlattenSeq(w))
<1>1. FlattenSeq(<<u>> \o w) = u \o FlattenSeq(w)
  BY FlattenCons
<1>. DEFINE f == FlattenSeq(w)
<1>2. f \in Seq(Bytes)
  BY FlattenType
<1>. HIDE DEF f
<1>3. Len(u \o f) = Len(u) + Len(f)
  BY <1>2, ConcatBytes
<1>. QED  BY <1>1, <1>3 DEF f

LEMMA LengthFrom ==
  ASSUME NEW us \in Seq(Seq(Bytes))
  PROVE  \E l : IsLength(us, l)
<1>. DEFINE n == Len(us)
            X == Seq(Bytes)
            l == [j \in 1..n + 1 |-> Len(FlattenSeq(Rest(us, j)))]
<1>0. n \in Nat /\ \A j \in 1..n : us[j] \in X
  OBVIOUS
<1>a. /\ Rest(us, 1) = us /\ Rest(us, n + 1) = <<>>
      /\ \A j \in 1..n + 1 : Rest(us, j) \in Seq(X)
      /\ \A j \in 1..n : Rest(us, j) = <<us[j]>> \o Rest(us, j + 1)
  BY RestFacts
<1>1. \A j \in 1..n + 1 : l[j] = Len(FlattenSeq(Rest(us, j))) /\ l[j] \in Nat
  <2>1. ASSUME NEW j \in 1..n + 1 PROVE Len(FlattenSeq(Rest(us, j))) \in Nat
    <3>. DEFINE f == FlattenSeq(Rest(us, j))
    <3>1. f \in Seq(Bytes)
      BY <1>a, FlattenType
    <3>. HIDE DEF f
    <3>2. Len(f) \in Nat
      BY <3>1
    <3>. QED  BY <3>2 DEF f
  <2>. QED  BY <2>1
<1>2. l \in [1..n + 1 -> Nat]
  BY <1>1
<1>. HIDE DEF l
<1>3. l[n + 1] = 0 /\ l[1] = Len(FlattenSeq(us))
  <2>1. 1 \in 1..n + 1 /\ n + 1 \in 1..n + 1 /\ Len(<<>>) = 0
    BY <1>0
  <2>. QED  BY <1>1, <1>a, <2>1, FlattenEmpty
<1>4. ASSUME NEW j \in 1..n PROVE l[j] = Len(us[j]) + l[j + 1]
  <2>1. j \in 1..n + 1 /\ j + 1 \in 1..n + 1
    BY <1>0
  <2>2. Rest(us, j) = <<us[j]>> \o Rest(us, j + 1) /\ Rest(us, j + 1) \in Seq(X)
    BY <1>a, <2>1
  <2>3. us[j] \in X
    BY <1>0
  <2>. DEFINE x == us[j]  w == Rest(us, j + 1)
  <2>4. Len(FlattenSeq(<<x>> \o w)) = Len(x) + Len(FlattenSeq(w))
    <3>1. x \in Seq(Bytes) /\ w \in Seq(Seq(Bytes))
      BY <2>2, <2>3
    <3>. HIDE DEF x, w
    <3>. QED  BY <3>1, LengthCons
  <2>. QED  BY <1>1, <2>1, <2>2, <2>4
<1>. QED  BY <1>2, <1>3, <1>4 DEF IsLength

-----------------------------------------------------------------------------
(* A round finds what was counted                                           *)

LEMMA MatchIsPair ==
  ASSUME NEW m \in Bytes, NEW us \in Seq(UnitSet(m)), NEW p \in Pairs,
         NEW j \in 1..Len(us), j < Len(us)
  PROVE  /\ ~(Len(us[j] \o us[j + 1]) > 2) =>
              us[j] \o us[j + 1] \in Pairs /\ us[j] \o us[j + 1] \in Lasts
         /\ Match(us, p, j) <=>
              ~(Len(us[j] \o us[j + 1]) > 2) /\ us[j] \o us[j + 1] = p
<1>. DEFINE u == us[j]  v == us[j + 1]
<1>1. u \in UnitSet(m) /\ v \in UnitSet(m)
  <2>1. j \in 1..Len(us) /\ j + 1 \in 1..Len(us)
    OBVIOUS
  <2>. QED  BY <2>1, UnitsAreSeqs
<1>2. Match(us, p, j) <=> u = <<p[1]>> /\ v = <<p[2]>>
  BY DEF Match
<1>3. p = <<p[1], p[2]>>
  BY DEF Pairs
<1>. HIDE DEF u, v
<1>4. CASE u \in Single(m) /\ v \in Single(m)
  <2>1. u \o v = <<u[1], v[1]>> /\ u \o v \in Pairs /\ ~(Len(u \o v) > 2)
    <3>1. u \notin Escape(m) /\ v \notin Escape(m)
      BY <1>4, NotEscape
    <3>. QED  BY <1>1, <1>4, <3>1, Neighbours
  <2>2. u = <<u[1]>> /\ v = <<v[1]>>
    BY <1>4, SingleFacts
  <2>3. u = <<p[1]>> <=> u[1] = p[1]
    BY <2>2
  <2>4. v = <<p[2]>> <=> v[1] = p[2]
    BY <2>2
  <2>5. u \o v = p <=> u[1] = p[1] /\ v[1] = p[2]
    BY <2>1, <1>3
  <2>. QED  BY <1>2, <2>1, <2>3, <2>4, <2>5 DEF Lasts, u, v
<1>5. CASE ~(u \in Single(m) /\ v \in Single(m))
  <2>1. Len(u \o v) > 2
    BY <1>1, <1>5, Neighbours DEF UnitSet
  <2>2. ~(u = <<p[1]>> /\ v = <<p[2]>>)
    <3>1. Len(<<p[1]>>) = 1 /\ Len(<<p[2]>>) = 1
      OBVIOUS
    <3>. QED  BY <1>1, <1>5, <3>1, UnitFacts
  <2>. QED  BY <1>2, <2>1, <2>2 DEF u, v
<1>. QED  BY <1>4, <1>5

\* A pair that is not at the j-th unit, or is the one counted last, is counted
\* from the next unit on.
LEMMA CountNext ==
  ASSUME NEW m \in Bytes, NEW us \in Seq(UnitSet(m)), NEW p \in Pairs, NEW c, IsCount(us, c),
         NEW j \in 1..Len(us), j < Len(us), NEW last \in Lasts,
         ~(Match(us, p, j) /\ last # p)
  PROVE  \E l \in Lasts : l # p /\ c[j][last][p] = c[j + 1][l][p]
<1>. DEFINE q == us[j] \o us[j + 1]
            long == Len(q) > 2
<1>1. CountAt(us, c, j, last) /\ ~(j = Len(us))
  BY DEF IsCount
<1>2. (~long => q \in Pairs /\ q \in Lasts) /\ (Match(us, p, j) <=> ~long /\ q = p)
  BY MatchIsPair
<1>3. /\ long => c[j][last] = c[j + 1][NoPair]
      /\ ~long /\ q = last => c[j][last] = c[j + 1][NoPair]
      /\ ~long /\ q # last => c[j][last] = [c[j + 1][q] EXCEPT ![q] = @ + 1]
  BY <1>1 DEF CountAt
<1>4. NoPair \in Lasts /\ NoPair # p
  BY DEF Lasts, NoPair, Pairs
<1>5. \A l \in Lasts : c[j + 1][l] \in Counts
  <2>1. j + 1 \in 1..Len(us)
    OBVIOUS
  <2>. QED  BY <2>1 DEF IsCount
<1>. HIDE DEF q, long
<1>6. CASE long \/ q = last
  BY <1>3, <1>4, <1>6
<1>7. CASE ~long /\ q # last
  <2>1. q # p /\ q \in Lasts /\ q \in Pairs
    BY <1>2, <1>7
  <2>2. c[j][last][p] = c[j + 1][q][p]
    BY <1>3, <1>5, <1>7, <2>1 DEF Counts
  <2>. QED  BY <2>1, <2>2
<1>. QED  BY <1>6, <1>7

LEMMA CountMatch ==
  ASSUME NEW m \in Bytes, NEW us \in Seq(UnitSet(m)), NEW p \in Pairs, NEW c, IsCount(us, c),
         NEW j \in 1..Len(us), NEW last \in Lasts, Match(us, p, j), last # p
  PROVE  j < Len(us) /\ c[j][last][p] = c[j + 1][p][p] + 1
<1>1. j < Len(us)
  BY DEF Match
<1>2. CountAt(us, c, j, last)
  BY DEF IsCount
<1>3. ~(Len(us[j] \o us[j + 1]) > 2) /\ us[j] \o us[j + 1] = p
  BY <1>1, MatchIsPair
<1>4. c[j][last] = [c[j + 1][p] EXCEPT ![p] = @ + 1]
  BY <1>1, <1>2, <1>3 DEF CountAt
<1>5. c[j + 1][p] \in Counts
  <2>1. j + 1 \in 1..Len(us) /\ p \in Lasts
    BY <1>1 DEF Lasts
  <2>. QED  BY <2>1 DEF IsCount
<1>. QED  BY <1>1, <1>4, <1>5 DEF Counts

LEMMA CountLast ==
  ASSUME NEW us, us # <<>>, NEW c, IsCount(us, c), NEW last \in Lasts, NEW p \in Pairs,
         Len(us) \in 1..Len(us)
  PROVE  c[Len(us)][last][p] = 0
<1>1. CountAt(us, c, Len(us), last)
  BY DEF IsCount
<1>. QED  BY <1>1, ZeroType DEF CountAt

LEMMA CountType ==
  ASSUME NEW us, NEW c, IsCount(us, c), NEW j \in 1..Len(us), NEW last \in Lasts, NEW p \in Pairs
  PROVE  c[j][last][p] \in Nat
<1>1. c[j][last] \in Counts
  BY DEF IsCount
<1>. QED  BY <1>1 DEF Counts

\* A pair is not counted more often than each of its bytes is alone.
LEMMA CountBound ==
  ASSUME NEW m \in Bytes, NEW us \in Seq(UnitSet(m)), us # <<>>, NEW p \in Pairs
  PROVE  /\ Counted(us) \in Counts
         /\ Counted(us)[p] <= Alone(us, p[1]) /\ Counted(us)[p] <= Alone(us, p[2])
<1>. DEFINE n == Len(us)
<1>0. n \in Nat /\ n > 0 /\ n \in 1..n /\ NoPair \in Lasts /\ 1 \in 1..n
  BY UnitsAreSeqs DEF Lasts
<1>1. PICK c : IsCount(us, c) /\ Counted(us) = c[1][NoPair]
  BY CountedRec
<1>2. PICK a : IsAlone(us, p[1], a)
  BY AloneFrom
<1>3. PICK b : IsAlone(us, p[2], b)
  BY AloneFrom
<1>4. /\ \A j \in 1..n + 1 : a[j] \in Nat /\ b[j] \in Nat
      /\ a[1] = Alone(us, p[1]) /\ b[1] = Alone(us, p[2])
      /\ \A j \in 1..n : /\ us[j] = <<p[1]>> => a[j] = a[j + 1] + 1
                         /\ us[j] # <<p[1]>> => a[j] = a[j + 1]
                         /\ us[j] = <<p[2]>> => b[j] = b[j + 1] + 1
                         /\ us[j] # <<p[2]>> => b[j] = b[j + 1]
  BY <1>2, <1>3 DEF IsAlone
<1>5. \A j \in 1..n : a[j] >= a[j + 1] /\ b[j] >= b[j + 1]
  <2>. SUFFICES ASSUME NEW j \in 1..n PROVE a[j] >= a[j + 1] /\ b[j] >= b[j + 1]
    OBVIOUS
  <2>1. j + 1 \in 1..n + 1
    BY <1>0
  <2>2. a[j + 1] \in Nat /\ b[j + 1] \in Nat
    BY <1>4, <2>1
  <2>3. (a[j] = a[j + 1] + 1 \/ a[j] = a[j + 1]) /\ (b[j] = b[j + 1] + 1 \/ b[j] = b[j + 1])
    BY <1>4
  <2>. QED  BY <2>2, <2>3
<1>. DEFINE Ok(j) == \A last \in Lasts : c[j][last][p] <= a[j] /\ c[j][last][p] <= b[j + 1]
            Bad == {j \in 1..n : ~Ok(j)}
<1>. HIDE DEF n
<1>6. Bad = {}
  <2>1. SUFFICES ASSUME Bad # {} PROVE FALSE
    OBVIOUS
  <2>2. PICK j \in Bad : \A i \in Bad : i <= j
    <3>1. Bad \in SUBSET (0..n)
      BY <1>0
    <3>. HIDE DEF Bad
    <3>. QED  BY <1>0, <2>1, <3>1, GreatestNatural
  <2>3. j \in 1..n /\ ~Ok(j)
    BY <2>2
  <2>4. PICK last \in Lasts : ~(c[j][last][p] <= a[j] /\ c[j][last][p] <= b[j + 1])
    BY <2>3
  <2>5. j \in 1..n + 1 /\ j + 1 \in 1..n + 1 /\ a[j] \in Nat /\ b[j + 1] \in Nat /\ a[j + 1] \in Nat
    BY <1>0, <1>4, <2>3
  <2>6. CASE j = n
    <3>1. c[j][last][p] = 0
      BY <1>0, <1>1, <2>6, CountLast DEF n
    <3>. QED  BY <2>4, <2>5, <3>1
  <2>7. CASE j < n
    <3>1. j + 1 \in 1..n /\ ~(j + 1 <= j)
      BY <1>0, <2>3, <2>7
    <3>2. Ok(j + 1)
      <4>. HIDE DEF Ok
      <4>. QED  BY <2>2, <3>1
    <3>3. (j + 1) + 1 \in 1..n + 1 /\ b[(j + 1) + 1] \in Nat
      BY <1>0, <1>4, <3>1
    <3>4. a[j] >= a[j + 1] /\ b[j + 1] >= b[(j + 1) + 1]
      BY <1>5, <2>3, <3>1
    <3>5. CASE Match(us, p, j) /\ last # p
      <4>1. c[j][last][p] = c[j + 1][p][p] + 1
        BY <1>1, <2>3, <3>5, CountMatch DEF n
      <4>2. p \in Lasts
        BY DEF Lasts
      <4>3. c[j + 1][p][p] <= a[j + 1] /\ c[j + 1][p][p] <= b[(j + 1) + 1]
        BY <3>2, <4>2
      <4>4. a[j] = a[j + 1] + 1 /\ b[j + 1] = b[(j + 1) + 1] + 1
        BY <1>4, <2>3, <3>1, <3>5 DEF Match
      <4>5. c[j + 1][p][p] \in Nat
        BY <1>1, <3>1, <4>2, CountType DEF n
      <4>. DEFINE x == c[j + 1][p][p]  y == c[j][last][p]
                  A == a[j + 1]  A0 == a[j]  B == b[(j + 1) + 1]  B0 == b[j + 1]
      <4>6. x \in Nat /\ A \in Nat /\ B \in Nat /\ y = x + 1 /\ x <= A /\ x <= B
            /\ A0 = A + 1 /\ B0 = B + 1 /\ ~(y <= A0 /\ y <= B0)
        BY <2>4, <2>5, <3>3, <4>1, <4>3, <4>4, <4>5
      <4>. HIDE DEF Ok, x, y, A, A0, B, B0
      <4>. QED  BY <4>6
    <3>6. CASE ~(Match(us, p, j) /\ last # p)
      <4>1. PICK l \in Lasts : c[j][last][p] = c[j + 1][l][p]
        BY <1>1, <2>3, <2>7, <3>6, CountNext DEF n
      <4>2. c[j + 1][l][p] <= a[j + 1] /\ c[j + 1][l][p] <= b[(j + 1) + 1]
        BY <3>2
      <4>3. c[j + 1][l][p] \in Nat
        BY <1>1, <3>1, CountType DEF n
      <4>. HIDE DEF Ok
      <4>. QED  BY <2>4, <2>5, <3>3, <3>4, <4>1, <4>2, <4>3
    <3>. QED  BY <3>5, <3>6
  <2>. QED  BY <1>0, <2>3, <2>6, <2>7
<1>7. c[1][NoPair][p] <= a[1] /\ c[1][NoPair][p] <= b[1 + 1]
  BY <1>0, <1>6
<1>8. c[1][NoPair][p] \in Nat /\ c[1][NoPair] \in Counts
  BY <1>0, <1>1, CountType DEF IsCount, n
<1>9. b[1] >= b[1 + 1] /\ b[1] \in Nat /\ b[1 + 1] \in Nat
  <2>1. 1 + 1 \in 1..n + 1 /\ 1 \in 1..n + 1
    BY <1>0
  <2>. QED  BY <1>0, <1>4, <1>5, <2>1
<1>. HIDE DEF Bad
<1>10. c[1][NoPair][p] <= b[1]
  BY <1>7, <1>8, <1>9
<1>. QED  BY <1>1, <1>4, <1>7, <1>8, <1>10

\* A byte that is no part of a round stays as often alone as it was.
LEMMA RewriteAlone ==
  ASSUME marker \in Bytes, NEW us \in Seq(UnitSet(marker)), NEW token \in Bytes, NEW pair \in Pairs,
         NEW v, IsRewrite(us, v, token, pair),
         NEW b, b \notin {token, pair[1], pair[2]}
  PROVE  Alone(v[1], b) = Alone(us, b)
<1>. DEFINE n == Len(us)
            U == UnitSet(marker)
            Same(j, a) == Alone(v[j], b) = a[j]
<1>0. n \in Nat /\ \A j \in 1..n : us[j] \in U
  BY UnitsAreSeqs
<1>1. PICK a : IsAlone(us, b, a)
  BY AloneFrom
<1>2. /\ a[n + 1] = 0 /\ a[1] = Alone(us, b)
      /\ \A j \in 1..n : us[j] # <<b>> => a[j] = a[j + 1]
      /\ \A j \in 1..n : us[j] = <<b>> => a[j] = a[j + 1] + 1
  BY <1>1 DEF IsAlone
<1>3. /\ v[n + 1] = <<>>
      /\ \A j \in 1..n : RewriteAt(us, v, token, pair, j)
      /\ \A j \in 1..n + 1 : v[j] \in Seq(U)
  BY DEF IsRewrite
<1>4. \A x, y \in Bytes : <<x, y>> # <<b>>
  OBVIOUS
<1>5. \A x : x # b => <<x>> # <<b>>
  OBVIOUS
<1>. DEFINE Bad == {j \in 1..n + 1 : ~Same(j, a)}
<1>. HIDE DEF n, U
<1>6. Bad = {}
  <2>1. SUFFICES ASSUME Bad # {} PROVE FALSE
    OBVIOUS
  <2>2. PICK j \in Bad : \A i \in Bad : i <= j
    <3>1. Bad \in SUBSET (0..n + 1) /\ n + 1 \in Nat
      BY <1>0
    <3>. HIDE DEF Bad
    <3>. QED  BY <2>1, <3>1, GreatestNatural
  <2>3. j \in 1..n + 1 /\ Alone(v[j], b) # a[j]
    BY <2>2
  <2>4. j # n + 1
    BY <1>2, <1>3, <2>3, AloneEmpty
  <2>5. j \in 1..n /\ j + 1 \in 1..n + 1 /\ ~(j + 1 <= j) /\ ~(j + 2 <= j)
    BY <1>0, <2>3, <2>4
  <2>6. RewriteAt(us, v, token, pair, j) /\ us[j] \in U /\ Alone(v[j + 1], b) = a[j + 1]
    BY <1>0, <1>3, <2>2, <2>5
  <2>7. ASSUME NEW x \in U, v[j] = <<x>> \o v[j + 1]
        PROVE  x = <<b>> <=> us[j] # <<b>>
    <3>. DEFINE w == v[j + 1]
    <3>1. w \in Seq(U) /\ Alone(v[j], b) = Alone(<<x>> \o w, b) /\ Alone(w, b) = a[j + 1]
      BY <1>3, <2>5, <2>6, <2>7
    <3>. HIDE DEF w
    <3>2. /\ x = <<b>> => Alone(<<x>> \o w, b) = Alone(w, b) + 1
          /\ x # <<b>> => Alone(<<x>> \o w, b) = Alone(w, b)
      BY <3>1, AloneCons
    <3>. QED  BY <1>2, <2>3, <2>5, <3>1, <3>2
  <2>8. CASE us[j] \in Escape(marker)
    BY <2>6, <2>7, <2>8 DEF RewriteAt
  <2>9. CASE us[j] \in Single(marker) /\ Freed(us, token, j)
    <3>1. <<marker, token>> \in U
      BY EscapeIn DEF U
    <3>2. <<marker, token>> # <<b>> /\ us[j] # <<b>>
      BY <1>4, <1>5, <2>9 DEF Freed
    <3>3. v[j] = <<<<marker, token>>>> \o v[j + 1]
      BY <2>6, <2>9 DEF RewriteAt
    <3>. QED  BY <2>7, <3>1, <3>2, <3>3
  <2>10. CASE us[j] \in Single(marker) /\ ~Freed(us, token, j) /\ ~Match(us, pair, j)
    BY <2>6, <2>7, <2>10 DEF RewriteAt
  <2>11. CASE us[j] \in Single(marker) /\ ~Freed(us, token, j) /\ Match(us, pair, j)
    <3>1. v[j] = <<<<token>>>> \o v[j + 2]
      BY <2>6, <2>11 DEF RewriteAt
    <3>2. j + 1 \in 1..n /\ j + 2 \in 1..n + 1 /\ (j + 1) + 1 = j + 2
      BY <1>0, <2>5, <2>11 DEF Match, n
    <3>3. a[j] = a[j + 1] /\ a[j + 1] = a[j + 2]
      <4>1. us[j] # <<b>> /\ us[j + 1] # <<b>>
        BY <1>5, <2>11 DEF Match
      <4>. QED  BY <1>2, <2>5, <3>2, <4>1
    <3>4. Alone(v[j + 2], b) = a[j + 2] /\ v[j + 2] \in Seq(U)
      BY <1>3, <2>2, <2>5, <3>2
    <3>. DEFINE w == v[j + 2]  x == <<token>>
    <3>5. w \in Seq(U) /\ x # <<b>> /\ Alone(w, b) = a[j + 2] /\ v[j] = <<x>> \o w
      BY <1>5, <3>1, <3>4
    <3>6. <<x>> \o w = v[j] /\ \E Y : x \in Y /\ w \in Seq(Y)
      <4>1. x \in U \cup {x} /\ U \subseteq U \cup {x}
        OBVIOUS
      <4>. HIDE DEF x
      <4>2. w \in Seq(U \cup {x})
        BY <3>5, <4>1, SeqMonotonic
      <4>. QED  BY <3>5, <4>1, <4>2
    <3>. HIDE DEF w, x
    <3>7. Alone(<<x>> \o w, b) = Alone(w, b)
      <4>1. PICK Y : x \in Y /\ w \in Seq(Y)
        BY <3>6
      <4>. QED  BY <3>5, <4>1, AloneCons
    <3>. QED  BY <2>3, <3>3, <3>5, <3>7
  <2>. QED  BY <2>6, <2>8, <2>9, <2>10, <2>11 DEF UnitSet, U
<1>7. 1 \in 1..n + 1
  BY <1>0
<1>8. Alone(v[1], b) = a[1]
  BY <1>6, <1>7
<1>. QED  BY <1>2, <1>8

LEMMA LongNotByte ==
  ASSUME NEW u, Len(u) = 2, NEW b
  PROVE  u # <<b>>
<1>1. Len(<<b>>) = 1
  OBVIOUS
<1>2. ASSUME u = <<b>> PROVE FALSE
  <2>1. Len(u) = Len(<<b>>)
    BY <1>2
  <2>. QED  BY <1>1, <2>1
<1>. QED  BY <1>2

\* The page shrinks by the pairs counted and grows by the tokens to escape.
LEMMA RewriteLength ==
  ASSUME marker \in Bytes, NEW us \in Seq(UnitSet(marker)), us # <<>>,
         NEW token \in Bytes, NEW pair \in Pairs, token # pair[1], token # pair[2],
         \A j \in 1..Len(us) : us[j] = <<token>> => Escapes(token),
         NEW v, IsRewrite(us, v, token, pair)
  PROVE  /\ Len(FlattenSeq(v[1])) \in Nat
         /\ Len(FlattenSeq(v[1])) + Counted(us)[pair]
              = Len(FlattenSeq(us)) + Alone(us, token)
<1>. DEFINE n == Len(us)
            F(j) == Len(FlattenSeq(v[j]))
<1>0. /\ n \in Nat /\ n > 0 /\ NoPair \in Lasts /\ NoPair # pair
      /\ pair \in Lasts /\ us \in Seq(Seq(Bytes)) /\ \A j \in 1..n : us[j] \in UnitSet(marker)
  <2>1. NoPair \in Lasts /\ NoPair # pair /\ pair \in Lasts
    BY DEF Lasts, NoPair, Pairs
  <2>2. n \in Nat /\ us \in Seq(Seq(Bytes)) /\ \A j \in 1..n : us[j] \in UnitSet(marker)
    BY UnitsAreSeqs
  <2>3. n > 0
    OBVIOUS
  <2>. QED  BY <2>1, <2>2, <2>3
<1>1. PICK c : IsCount(us, c) /\ Counted(us) = c[1][NoPair]
  BY CountedRec
<1>2. PICK a : IsAlone(us, token, a)
  BY AloneFrom
<1>3. PICK l : IsLength(us, l)
  BY <1>0, LengthFrom
<1>4. /\ \A j \in 1..n + 1 : a[j] \in Nat /\ l[j] \in Nat
      /\ a[n + 1] = 0 /\ l[n + 1] = 0 /\ a[1] = Alone(us, token) /\ l[1] = Len(FlattenSeq(us))
      /\ \A j \in 1..n : /\ us[j] = <<token>> => a[j] = a[j + 1] + 1
                         /\ us[j] # <<token>> => a[j] = a[j + 1]
                         /\ l[j] = Len(us[j]) + l[j + 1]
  BY <1>2, <1>3 DEF IsAlone, IsLength
<1>5. /\ v[n + 1] = <<>>
      /\ \A j \in 1..n : RewriteAt(us, v, token, pair, j)
      /\ \A j \in 1..n + 1 : v[j] \in Seq(UnitSet(marker))
  BY DEF IsRewrite
<1>6. \A j \in 1..n + 1 : v[j] \in Seq(Seq(Bytes)) /\ F(j) \in Nat
  <2>. SUFFICES ASSUME NEW j \in 1..n + 1 PROVE v[j] \in Seq(Seq(Bytes)) /\ F(j) \in Nat
    OBVIOUS
  <2>1. v[j] \in Seq(Seq(Bytes))
    <3>. HIDE DEF n
    <3>. QED  BY <1>5, UnitsAreSeqs
  <2>. DEFINE f == FlattenSeq(v[j])
  <2>2. f \in Seq(Bytes)
    BY <2>1, FlattenType
  <2>. HIDE DEF f
  <2>3. Len(f) \in Nat
    BY <2>2
  <2>. QED  BY <2>1, <2>3 DEF f
<1>7. F(n + 1) = 0
  BY <1>5, FlattenEmpty
<1>8. ASSUME NEW x \in Seq(Bytes), NEW j \in 1..n, NEW k \in 1..n + 1, v[j] = <<x>> \o v[k]
      PROVE  F(j) = Len(x) + F(k)
  <2>. DEFINE w == v[k]
  <2>1. w \in Seq(Seq(Bytes))
    BY <1>6
  <2>2. v[j] = <<x>> \o w
    BY <1>8
  <2>. HIDE DEF w
  <2>3. Len(FlattenSeq(<<x>> \o w)) = Len(x) + Len(FlattenSeq(w))
    BY <2>1, LengthCons
  <2>. QED  BY <2>2, <2>3 DEF w
<1>9. ASSUME NEW j \in 1..n
      PROVE  /\ us[j] = <<token>> => Len(us[j]) = 1
             /\ us[j] \in Seq(Bytes)
             /\ Freed(us, token, j) <=> us[j] = <<token>>
             /\ us[j] = <<token>> => ~Match(us, pair, j)
             /\ us[j] \in Escape(marker) => ~Match(us, pair, j) /\ us[j] # <<token>>
             /\ us[j] \in Single(marker) \/ us[j] \in Escape(marker)
  <2>1. us[j] \in UnitSet(marker) /\ us[j] \in Seq(Bytes)
    BY <1>0, UnitFacts
  <2>2. \A x : Len(<<x>>) = 1
    OBVIOUS
  <2>3. us[j] \in Escape(marker) => Len(us[j]) = 2
    BY EscapeFacts
  <2>4. us[j] \in Escape(marker) => ~Match(us, pair, j) /\ us[j] # <<token>>
    <3>1. Len(<<pair[1]>>) = 1 /\ Len(<<token>>) = 1
      BY <2>2
    <3>2. ASSUME us[j] \in Escape(marker) PROVE ~Match(us, pair, j) /\ us[j] # <<token>>
      <4>1. Len(us[j]) = 2
        BY <2>3, <3>2
      <4>2. us[j] # <<pair[1]>> /\ us[j] # <<token>>
        BY <4>1, LongNotByte
      <4>. QED  BY <4>2 DEF Match
    <3>. QED  BY <3>2
  <2>5. us[j] = <<token>> => ~Match(us, pair, j)
    <3>1. <<token>> # <<pair[1]>>
      OBVIOUS
    <3>. QED  BY <3>1 DEF Match
  <2>6. us[j] = <<token>> => Len(us[j]) = 1
    BY <2>2
  <2>7. Freed(us, token, j) <=> us[j] = <<token>>
    BY DEF Freed
  <2>. QED  BY <2>1, <2>4, <2>5, <2>6, <2>7 DEF UnitSet
<1>. DEFINE Ok(j) == \A last \in Lasts : last # pair => F(j) + c[j][last][pair] = l[j] + a[j]
            Bad == {j \in 1..n : ~Ok(j)}
<1>10. Bad = {}
  <2>1. SUFFICES ASSUME Bad # {} PROVE FALSE
    OBVIOUS
  <2>2. PICK j \in Bad : \A i \in Bad : i <= j
    <3>1. Bad \in SUBSET (0..n)
      BY <1>0
    <3>. HIDE DEF Bad, n
    <3>. QED  BY <1>0, <2>1, <3>1, GreatestNatural
  <2>3. j \in 1..n /\ ~Ok(j)
    BY <2>2
  <2>4. PICK last \in Lasts : last # pair /\ F(j) + c[j][last][pair] # l[j] + a[j]
    BY <2>3
  <2>5. j + 1 \in 1..n + 1 /\ j \in 1..n + 1
    BY <1>0, <2>3
  <2>6. \A i \in 1..n : i > j => Ok(i)
    <3>1. \A i \in 1..n : i > j => ~(i <= j)
      BY <2>3
    <3>. HIDE DEF Ok
    <3>. QED  BY <2>2, <3>1
  <2>. HIDE DEF n, Ok, F
  <2>7. ASSUME NEW k \in 1..n + 1, k > j, NEW x, NEW r \in Nat,
               \/ k = n + 1 /\ r = 0
               \/ k <= n /\ x \in Lasts /\ x # pair /\ r = c[k][x][pair]
        PROVE  F(k) + r = l[k] + a[k]
    <3>1. CASE k = n + 1 /\ r = 0
      BY <1>4, <1>7, <3>1
    <3>2. CASE k <= n /\ x \in Lasts /\ x # pair /\ r = c[k][x][pair]
      <4>1. k \in 1..n
        BY <1>0, <3>2
      <4>. QED  BY <2>6, <2>7, <3>2, <4>1 DEF Ok
    <3>. QED  BY <2>7, <3>1, <3>2
  <2>8. ASSUME ~Match(us, pair, j)
        PROVE  \E r \in Nat : c[j][last][pair] = r /\ F(j + 1) + r = l[j + 1] + a[j + 1]
    <3>0. j + 1 > j
      BY <2>3
    <3>1. CASE j = n
      <4>1. c[j][last][pair] = 0
        BY <1>0, <1>1, <3>1, CountLast DEF n
      <4>2. 0 \in Nat /\ j + 1 = n + 1
        BY <3>1
      <4>. QED  BY <2>5, <2>7, <3>0, <4>1, <4>2
    <3>2. CASE j < n
      <4>1. PICK x \in Lasts : x # pair /\ c[j][last][pair] = c[j + 1][x][pair]
        BY <1>1, <2>3, <2>8, <3>2, CountNext DEF n
      <4>2. j + 1 \in 1..n /\ j + 1 <= n
        BY <1>0, <2>3, <3>2
      <4>3. c[j + 1][x][pair] \in Nat
        BY <1>1, <4>2, CountType DEF n
      <4>. QED  BY <2>5, <2>7, <3>0, <4>1, <4>2, <4>3
    <3>. QED  BY <1>0, <2>3, <3>1, <3>2
  <2>9. F(j) \in Nat /\ F(j + 1) \in Nat /\ l[j + 1] \in Nat /\ a[j + 1] \in Nat
    BY <1>4, <1>6, <2>5
  <2>10. RewriteAt(us, v, token, pair, j)
    BY <1>5, <2>3
  <2>11. CASE us[j] # <<token>> /\ ~Match(us, pair, j)
    <3>1. v[j] = <<us[j]>> \o v[j + 1]
      <4>1. ~Freed(us, token, j) /\ (us[j] \in Single(marker) \/ us[j] \in Escape(marker))
        BY <1>9, <2>3, <2>11
      <4>. QED  BY <2>10, <2>11, <4>1 DEF RewriteAt
    <3>2. F(j) = Len(us[j]) + F(j + 1)
      BY <1>8, <1>9, <2>3, <2>5, <3>1
    <3>3. PICK r \in Nat : c[j][last][pair] = r /\ F(j + 1) + r = l[j + 1] + a[j + 1]
      BY <2>8, <2>11
    <3>4. l[j] = Len(us[j]) + l[j + 1] /\ a[j] = a[j + 1]
      BY <1>4, <2>3, <2>11
    <3>5. Len(us[j]) \in Nat
      <4>1. us[j] \in Seq(Bytes)
        BY <1>9, <2>3
      <4>. QED  BY <4>1
    <3>. DEFINE f == F(j)  f1 == F(j + 1)  k == Len(us[j])  z == c[j][last][pair]
                lj == l[j]  l1 == l[j + 1]  aj == a[j]  a1 == a[j + 1]
    <3>6. /\ f = k + f1 /\ z = r /\ f1 + r = l1 + a1 /\ lj = k + l1 /\ aj = a1
          /\ f + z # lj + aj
          /\ f \in Nat /\ f1 \in Nat /\ k \in Nat /\ r \in Nat /\ l1 \in Nat /\ a1 \in Nat
      BY <2>4, <2>9, <3>2, <3>3, <3>4, <3>5
    <3>. HIDE DEF f, f1, k, z, lj, l1, aj, a1
    <3>. QED  BY <3>6
  <2>12. CASE us[j] = <<token>>
    <3>0. Freed(us, token, j) /\ Len(us[j]) = 1 /\ ~Match(us, pair, j)
          /\ us[j] \in Single(marker)
      BY <1>9, <2>3, <2>12
    <3>1. v[j] = <<<<marker, token>>>> \o v[j + 1]
      BY <2>10, <3>0 DEF RewriteAt
    <3>2. F(j) = 2 + F(j + 1)
      <4>1. <<marker, token>> \in Seq(Bytes) /\ Len(<<marker, token>>) = 2
        OBVIOUS
      <4>2. F(j) = Len(<<marker, token>>) + F(j + 1)
        BY <1>8, <2>3, <2>5, <3>1, <4>1
      <4>. QED  BY <4>1, <4>2
    <3>3. PICK r \in Nat : c[j][last][pair] = r /\ F(j + 1) + r = l[j + 1] + a[j + 1]
      BY <2>8, <3>0
    <3>4. l[j] = 1 + l[j + 1] /\ a[j] = a[j + 1] + 1
      BY <1>4, <2>3, <2>12, <3>0
    <3>. DEFINE f == F(j)  f1 == F(j + 1)  z == c[j][last][pair]
                lj == l[j]  l1 == l[j + 1]  aj == a[j]  a1 == a[j + 1]
    <3>6. /\ f = 2 + f1 /\ z = r /\ f1 + r = l1 + a1 /\ lj = 1 + l1 /\ aj = a1 + 1
          /\ f + z # lj + aj
          /\ f \in Nat /\ f1 \in Nat /\ r \in Nat /\ l1 \in Nat /\ a1 \in Nat
      BY <2>4, <2>9, <3>2, <3>3, <3>4
    <3>. HIDE DEF f, f1, z, lj, l1, aj, a1
    <3>. QED  BY <3>6
  <2>13. CASE us[j] # <<token>> /\ Match(us, pair, j)
    <3>0. ~Freed(us, token, j) /\ us[j] \in Single(marker)
      BY <1>9, <2>3, <2>13
    <3>1. v[j] = <<<<token>>>> \o v[j + 2]
      BY <2>10, <2>13, <3>0 DEF RewriteAt
    <3>2. j < n /\ c[j][last][pair] = c[j + 1][pair][pair] + 1
      BY <1>1, <2>3, <2>4, <2>13, CountMatch DEF n
    <3>3. j + 1 \in 1..n /\ j + 2 \in 1..n + 1 /\ (j + 1) + 1 = j + 2 /\ j + 2 > j
      BY <1>0, <2>3, <3>2
    <3>4. F(j) = 1 + F(j + 2)
      <4>1. <<token>> \in Seq(Bytes) /\ Len(<<token>>) = 1
        OBVIOUS
      <4>2. F(j) = Len(<<token>>) + F(j + 2)
        BY <1>8, <2>3, <3>1, <3>3, <4>1
      <4>. QED  BY <4>1, <4>2
    <3>5. l[j] = 2 + l[j + 2] /\ a[j] = a[j + 2]
      <4>1. Len(us[j]) = 1 /\ Len(us[j + 1]) = 1 /\ us[j + 1] # <<token>>
        <5>1. \A x : Len(<<x>>) = 1
          OBVIOUS
        <5>2. <<pair[2]>> # <<token>>
          OBVIOUS
        <5>. QED  BY <2>13, <5>1, <5>2 DEF Match
      <4>2. l[j] = 1 + l[j + 1] /\ l[j + 1] = 1 + l[j + 2]
        BY <1>4, <2>3, <3>3, <4>1
      <4>3. a[j] = a[j + 1] /\ a[j + 1] = a[j + 2]
        BY <1>4, <2>3, <2>13, <3>3, <4>1
      <4>4. l[j + 2] \in Nat
        BY <1>4, <3>3
      <4>. QED  BY <4>2, <4>3, <4>4
    <3>6. \E r \in Nat : c[j + 1][pair][pair] = r /\ F(j + 2) + r = l[j + 2] + a[j + 2]
      <4>1. CASE j + 1 = n
        <5>1. c[j + 1][pair][pair] = 0
          BY <1>0, <1>1, <4>1, CountLast DEF n
        <5>2. j + 2 = n + 1 /\ 0 \in Nat
          BY <3>3, <4>1
        <5>. QED  BY <2>7, <3>3, <5>1, <5>2
      <4>2. CASE j + 1 < n
        <5>0. j + 1 \in 1..Len(us) /\ j + 1 < Len(us) /\ ~(Match(us, pair, j + 1) /\ pair # pair)
          BY <3>3, <4>2 DEF n
        <5>1. PICK x \in Lasts : x # pair /\ c[j + 1][pair][pair] = c[(j + 1) + 1][x][pair]
          <6>. DEFINE i == j + 1
          <6>1. i \in 1..Len(us) /\ i < Len(us) /\ ~(Match(us, pair, i) /\ pair # pair)
            BY <5>0
          <6>. HIDE DEF i
          <6>2. \E x \in Lasts : x # pair /\ c[i][pair][pair] = c[i + 1][x][pair]
            BY <1>0, <1>1, <6>1, CountNext
          <6>. QED  BY <6>2 DEF i
        <5>2. j + 2 \in 1..n /\ j + 2 <= n
          BY <1>0, <3>3, <4>2
        <5>3. c[j + 2][x][pair] \in Nat
          BY <1>1, <5>2, CountType DEF n
        <5>. QED  BY <2>7, <3>3, <5>1, <5>2, <5>3
      <4>. QED  BY <1>0, <3>3, <4>1, <4>2
    <3>7. PICK r \in Nat : c[j + 1][pair][pair] = r /\ F(j + 2) + r = l[j + 2] + a[j + 2]
      BY <3>6
    <3>8. F(j + 2) \in Nat /\ l[j + 2] \in Nat /\ a[j + 2] \in Nat
      BY <1>4, <1>6, <3>3
    <3>. DEFINE f == F(j)  f2 == F(j + 2)  z == c[j][last][pair]
                lj == l[j]  l2 == l[j + 2]  aj == a[j]  a2 == a[j + 2]
    <3>9. /\ f = 1 + f2 /\ z = r + 1 /\ lj = 2 + l2 /\ aj = a2 /\ f2 + r = l2 + a2
      BY <3>2, <3>4, <3>5, <3>7
    <3>10. f + z # lj + aj /\ f2 \in Nat /\ l2 \in Nat /\ a2 \in Nat
      BY <2>4, <3>8
    <3>. HIDE DEF f, f2, z, lj, l2, aj, a2
    <3>. QED  BY <3>9, <3>10
  <2>. QED  BY <2>11, <2>12, <2>13
<1>11. 1 \in 1..n /\ 1 \in 1..n + 1
  BY <1>0
<1>12. F(1) + c[1][NoPair][pair] = l[1] + a[1]
  BY <1>0, <1>10, <1>11
<1>. QED  BY <1>1, <1>4, <1>6, <1>11, <1>12

\* Where nothing has to be escaped, a round escapes nothing.
LEMMA RewriteNoEscapes ==
  ASSUME marker \in Bytes, NEW us \in Seq(UnitSet(marker)),
         NEW token \in Bytes, token # marker, NEW pair \in Pairs,
         NEW v, IsRewrite(us, v, token, pair), ~Escapes(token), NoEscapes(us)
  PROVE  NoEscapes(v[1])
<1>. DEFINE n == Len(us)
            S == Seq(Single(marker))
            Bad == {j \in 1..n + 1 : v[j] \notin S}
<1>0. n \in Nat /\ \A j \in 1..n : us[j] \in Single(marker)
  BY UnitsAreSeqs DEF NoEscapes
<1>1. /\ v[n + 1] = <<>>
      /\ \A j \in 1..n : RewriteAt(us, v, token, pair, j)
  BY DEF IsRewrite
<1>2. ASSUME NEW x \in Single(marker), NEW t \in S PROVE <<x>> \o t \in S
  <2>. DEFINE X == Single(marker)
  <2>1. x \in X /\ t \in Seq(X)
    OBVIOUS
  <2>. HIDE DEF X
  <2>2. <<x>> \o t \in Seq(X)
    BY <2>1
  <2>. QED  BY <2>2 DEF X
<1>. HIDE DEF n
<1>3. Bad = {}
  <2>1. SUFFICES ASSUME Bad # {} PROVE FALSE
    OBVIOUS
  <2>2. PICK j \in Bad : \A i \in Bad : i <= j
    <3>1. Bad \in SUBSET (0..n + 1) /\ n + 1 \in Nat
      BY <1>0
    <3>. HIDE DEF Bad
    <3>. QED  BY <2>1, <3>1, GreatestNatural
  <2>3. j \in 1..n + 1 /\ v[j] \notin S
    BY <2>2
  <2>4. j # n + 1
    <3>1. <<>> \in S
      BY EmptySeq
    <3>. QED  BY <1>1, <2>3, <3>1
  <2>5. j \in 1..n /\ j + 1 \in 1..n + 1 /\ ~(j + 1 <= j) /\ ~(j + 2 <= j)
    BY <1>0, <2>3, <2>4
  <2>6. v[j + 1] \in S
    BY <2>2, <2>5
  <2>7. RewriteAt(us, v, token, pair, j) /\ us[j] \in Single(marker) /\ ~Freed(us, token, j)
    BY <1>0, <1>1, <2>5 DEF Freed
  <2>8. CASE Match(us, pair, j)
    <3>1. v[j] = <<<<token>>>> \o v[j + 2]
      BY <2>7, <2>8 DEF RewriteAt
    <3>2. j + 2 \in 1..n + 1
      BY <1>0, <2>5, <2>8 DEF Match, n
    <3>3. v[j + 2] \in S /\ <<token>> \in Single(marker)
      BY <2>2, <2>5, <3>2, SingleIn
    <3>. HIDE DEF S
    <3>. QED  BY <1>2, <2>3, <3>1, <3>3
  <2>9. CASE ~Match(us, pair, j)
    <3>1. v[j] = <<us[j]>> \o v[j + 1]
      BY <2>7, <2>9 DEF RewriteAt
    <3>. HIDE DEF S
    <3>. QED  BY <1>2, <2>3, <2>6, <2>7, <3>1
  <2>. QED  BY <2>8, <2>9
<1>4. v[1] \in S
  <2>1. 1 \in 1..n + 1
    BY <1>0
  <2>. QED  BY <1>3, <2>1
<1>. QED  BY <1>4 DEF NoEscapes

\* A round leaves something.
LEMMA RewriteNonempty ==
  ASSUME marker \in Bytes, NEW us \in Seq(UnitSet(marker)), us # <<>>,
         NEW token, NEW pair, NEW v, IsRewrite(us, v, token, pair)
  PROVE  v[1] \in Seq(UnitSet(marker)) /\ v[1] # <<>>
<1>. DEFINE n == Len(us)
<1>0. n \in Nat /\ n > 0 /\ 1 \in 1..n /\ us[1] \in UnitSet(marker)
  BY UnitsAreSeqs
<1>1. RewriteAt(us, v, token, pair, 1) /\ \A j \in 1..n + 1 : v[j] \in Seq(UnitSet(marker))
  BY <1>0 DEF IsRewrite
<1>2. \E x, w : v[1] = <<x>> \o w /\ \E j \in 1..n + 1 : w = v[j]
  <2>1. 1 + 1 \in 1..n + 1
    BY <1>0
  <2>2. Match(us, pair, 1) => 1 + 2 \in 1..n + 1
    BY <1>0 DEF Match
  <2>3. us[1] \in Single(marker) \/ us[1] \in Escape(marker)
    BY <1>0 DEF UnitSet
  <2>. HIDE DEF n
  <2>. QED  BY <1>1, <2>1, <2>2, <2>3 DEF RewriteAt
<1>3. PICK x, w : v[1] = <<x>> \o w /\ w \in Seq(UnitSet(marker))
  BY <1>1, <1>2
<1>. DEFINE Y == UnitSet(marker) \cup {x}
<1>4. x \in Y /\ w \in Seq(Y)
  <2>1. UnitSet(marker) \subseteq Y
    OBVIOUS
  <2>. HIDE DEF Y
  <2>2. w \in Seq(Y)
    BY <1>3, <2>1, SeqMonotonic
  <2>. QED  BY <2>2 DEF Y
<1>. HIDE DEF Y
<1>5. <<x>> \o w # <<>>
  <2>1. Len(<<x>> \o w) = Len(w) + 1 /\ Len(w) \in Nat
    BY <1>4
  <2>. QED  BY <2>1
<1>6. 1 \in 1..n + 1
  BY <1>0
<1>. QED  BY <1>1, <1>3, <1>5, <1>6

-----------------------------------------------------------------------------
(* A page before its first round                                            *)

\* Counting the members of a set of numbers from the j-th on.
LEMMA CountFrom ==
  ASSUME NEW n \in Nat, NEW P \in SUBSET (1..n)
  PROVE  \E c \in [1..n + 1 -> Nat] :
           /\ c[n + 1] = 0 /\ c[1] = Cardinality(P)
           /\ \A j \in 1..n : /\ j \in P => c[j] = c[j + 1] + 1
                              /\ j \notin P => c[j] = c[j + 1]
<1>. DEFINE Q(j) == P \cap (j..n)
            c == [j \in 1..n + 1 |-> Cardinality(Q(j))]
<1>1. IsFiniteSet(P)
  <2>1. IsFiniteSet(1..n)
    BY FS_Interval
  <2>. QED  BY <2>1, FS_Subset
<1>2. \A j \in 1..n + 1 : IsFiniteSet(Q(j)) /\ Cardinality(Q(j)) \in Nat
  <2>. SUFFICES ASSUME NEW j \in 1..n + 1 PROVE IsFiniteSet(Q(j)) /\ Cardinality(Q(j)) \in Nat
    OBVIOUS
  <2>1. Q(j) \in SUBSET P
    OBVIOUS
  <2>. HIDE DEF Q
  <2>2. IsFiniteSet(Q(j))
    BY <1>1, <2>1, FS_Subset
  <2>. QED  BY <2>2, FS_CardinalityType
<1>3. c \in [1..n + 1 -> Nat] /\ \A j \in 1..n + 1 : c[j] = Cardinality(Q(j))
  <2>. HIDE DEF Q
  <2>. QED  BY <1>2
<1>4. c[n + 1] = 0 /\ c[1] = Cardinality(P)
  <2>1. Q(n + 1) = {} /\ Q(1) = P
    <3>1. \A k \in P : k \in 1..n /\ k \notin n + 1..n
      OBVIOUS
    <3>. QED  BY <3>1
  <2>2. 1 \in 1..n + 1 /\ n + 1 \in 1..n + 1
    OBVIOUS
  <2>. HIDE DEF Q, c
  <2>. QED  BY <1>3, <2>1, <2>2, FS_EmptySet
<1>. HIDE DEF c
<1>5. ASSUME NEW j \in 1..n
      PROVE  /\ j \in P => c[j] = c[j + 1] + 1
             /\ j \notin P => c[j] = c[j + 1]
  <2>1. j \in 1..n + 1 /\ j + 1 \in 1..n + 1 /\ j \notin Q(j + 1)
    OBVIOUS
  <2>2. j \in P => Q(j) = Q(j + 1) \cup {j}
    OBVIOUS
  <2>3. j \notin P => Q(j) = Q(j + 1)
    OBVIOUS
  <2>. DEFINE R == Q(j + 1)
  <2>4. IsFiniteSet(R) /\ Cardinality(R) \in Nat /\ j \notin R
    BY <1>2, <2>1
  <2>. HIDE DEF R
  <2>5. Cardinality(R \cup {j}) = Cardinality(R) + 1
    BY <2>4, FS_AddElement
  <2>. HIDE DEF Q
  <2>. QED  BY <1>3, <2>1, <2>2, <2>3, <2>5 DEF R
<1>. QED  BY <1>3, <1>4, <1>5

EscapesOf(m, us) == {k \in 1..Len(us) : us[k] \in Escape(m)}

\* A unit is a byte, or two when it is an escape.
LEMMA LengthOfUnits ==
  ASSUME NEW m \in Bytes, NEW us \in Seq(UnitSet(m))
  PROVE  /\ Cardinality(EscapesOf(m, us)) \in 0..Len(us)
         /\ Len(FlattenSeq(us)) = Len(us) + Cardinality(EscapesOf(m, us))
<1>. DEFINE n == Len(us)
            P == EscapesOf(m, us)
<1>0. n \in Nat /\ us \in Seq(Seq(Bytes)) /\ \A j \in 1..n : us[j] \in UnitSet(m)
  BY UnitsAreSeqs
<1>1. P \in SUBSET (1..n)
  BY DEF EscapesOf
<1>2. PICK l : IsLength(us, l)
  BY <1>0, LengthFrom
<1>3. PICK c \in [1..n + 1 -> Nat] :
           /\ c[n + 1] = 0 /\ c[1] = Cardinality(P)
           /\ \A j \in 1..n : /\ j \in P => c[j] = c[j + 1] + 1
                              /\ j \notin P => c[j] = c[j + 1]
  <2>. HIDE DEF n, P
  <2>. QED  BY <1>0, <1>1, CountFrom
<1>4. /\ \A j \in 1..n + 1 : c[j] \in Nat /\ l[j] \in Nat
      /\ l[n + 1] = 0 /\ l[1] = Len(FlattenSeq(us))
      /\ \A j \in 1..n : l[j] = Len(us[j]) + l[j + 1]
  BY <1>2 DEF IsLength
<1>5. \A j \in 1..n : /\ j \in P => Len(us[j]) = 2
                      /\ j \notin P => Len(us[j]) = 1
  <2>. SUFFICES ASSUME NEW j \in 1..n
                PROVE  /\ j \in P => Len(us[j]) = 2
                       /\ j \notin P => Len(us[j]) = 1
    OBVIOUS
  <2>1. us[j] \in UnitSet(m)
    BY <1>0
  <2>2. j \in P <=> us[j] \in Escape(m)
    BY DEF EscapesOf
  <2>. QED  BY <2>1, <2>2, UnitFacts
<1>. DEFINE Ok(j) == l[j] = ((n + 1) - j) + c[j] /\ c[j] <= (n + 1) - j
            Bad == {j \in 1..n + 1 : ~Ok(j)}
<1>. HIDE DEF n, P
<1>6. Bad = {}
  <2>1. SUFFICES ASSUME Bad # {} PROVE FALSE
    OBVIOUS
  <2>2. PICK j \in Bad : \A i \in Bad : i <= j
    <3>1. Bad \in SUBSET (0..n + 1) /\ n + 1 \in Nat
      BY <1>0
    <3>. HIDE DEF Bad
    <3>. QED  BY <2>1, <3>1, GreatestNatural
  <2>3. j \in 1..n + 1 /\ ~Ok(j)
    BY <2>2
  <2>4. j # n + 1
    <3>1. ASSUME j = n + 1 PROVE FALSE
      <4>1. (n + 1) - j = 0
        BY <1>0, <3>1
      <4>2. l[j] = 0 /\ c[j] = 0
        BY <1>3, <1>4, <3>1
      <4>. DEFINE d == (n + 1) - j
      <4>3. ~(l[j] = d + c[j] /\ c[j] <= d) /\ d = 0
        BY <2>3, <4>1
      <4>. HIDE DEF d
      <4>. QED  BY <4>2, <4>3
    <3>. QED  BY <3>1
  <2>5. j \in 1..n /\ j + 1 \in 1..n + 1 /\ ~(j + 1 <= j)
    BY <1>0, <2>3, <2>4
  <2>6. Ok(j + 1)
    <3>. HIDE DEF Ok
    <3>. QED  BY <2>2, <2>5
  <2>. DEFINE d == (n + 1) - j  d1 == (n + 1) - (j + 1)
              lj == l[j]  l1 == l[j + 1]  cj == c[j]  c1 == c[j + 1]
  <2>7. d = d1 + 1 /\ d1 \in Int
    BY <1>0, <2>5
  <2>8. l1 = d1 + c1 /\ c1 <= d1 /\ ~(lj = d + cj /\ cj <= d)
    BY <2>3, <2>6
  <2>9. l1 \in Nat /\ c1 \in Nat
    BY <1>4, <2>5
  <2>10. (lj = 2 + l1 /\ cj = c1 + 1) \/ (lj = 1 + l1 /\ cj = c1)
    BY <1>3, <1>4, <1>5, <2>5
  <2>. HIDE DEF d, d1, lj, l1, cj, c1
  <2>. QED  BY <2>7, <2>8, <2>9, <2>10
<1>7. 1 \in 1..n + 1 /\ (n + 1) - 1 = n
  BY <1>0
<1>8. Ok(1) /\ c[1] \in Nat
  BY <1>6, <1>7
<1>9. l[1] = n + c[1] /\ c[1] <= n /\ c[1] \in Nat
  <2>. DEFINE d == (n + 1) - 1
  <2>1. l[1] = d + c[1] /\ c[1] <= d /\ d = n
    BY <1>7, <1>8
  <2>. HIDE DEF d
  <2>. QED  BY <1>8, <2>1
<1>10. c[1] \in 0..n
  BY <1>0, <1>9
<1>. QED  BY <1>3, <1>4, <1>9, <1>10 DEF n, P

EscapedUnits(data, m) ==
  [i \in DOMAIN data |-> IF data[i] = m THEN <<m, m>> ELSE <<data[i]>>]

LEMMA EscapedFacts ==
  ASSUME NEW m \in Bytes, NEW data \in Seq(Bytes)
  PROVE  /\ EscapedUnits(data, m) \in Seq(UnitSet(m))
         /\ Len(EscapedUnits(data, m)) = Len(data)
         /\ Escaped(data, m) = FlattenSeq(EscapedUnits(data, m))
         /\ \A b \in Bytes : b # m => Alone(EscapedUnits(data, m), b) = CountBytes(data)[b]
         /\ Cardinality(EscapesOf(m, EscapedUnits(data, m))) = CountBytes(data)[m]
         /\ CountBytes(data) \in [Bytes -> Nat]
         /\ \A i \in 1..Len(data) :
              /\ data[i] = m => EscapedUnits(data, m)[i] = <<m, m>>
              /\ data[i] # m => EscapedUnits(data, m)[i] = <<data[i]>>
<1>. DEFINE n == Len(data)
            us == EscapedUnits(data, m)
            e(i) == IF data[i] = m THEN <<m, m>> ELSE <<data[i]>>
<1>0. n \in Nat /\ DOMAIN data = 1..n /\ \A i \in 1..n : data[i] \in Bytes
  OBVIOUS
<1>1. us = [i \in 1..n |-> e(i)]
  BY <1>0 DEF EscapedUnits
<1>2. \A i \in 1..n : e(i) \in UnitSet(m)
  <2>. SUFFICES ASSUME NEW i \in 1..n PROVE e(i) \in UnitSet(m)
    OBVIOUS
  <2>1. <<m, m>> \in UnitSet(m)
    BY EscapeIn
  <2>2. data[i] # m => <<data[i]>> \in UnitSet(m)
    BY <1>0, SingleIn
  <2>. QED  BY <2>1, <2>2
<1>. HIDE DEF n
<1>3. us \in Seq(UnitSet(m)) /\ Len(us) = n /\ \A i \in 1..n : us[i] = e(i)
  <2>. DEFINE U == UnitSet(m)
  <2>1. \A i \in 1..n : e(i) \in U
    BY <1>2
  <2>. HIDE DEF U, e, us
  <2>2. us \in [1..n -> U]
    BY <1>1, <2>1
  <2>3. us \in Seq(U) /\ Len(us) = n
    BY <1>0, <2>2
  <2>. QED  BY <1>1, <2>3 DEF U
<1>4. Escaped(data, m) = FlattenSeq(us)
  BY DEF Escaped, EscapedUnits
<1>. HIDE DEF us
<1>5. ASSUME NEW b \in Bytes, b # m
      PROVE  Alone(us, b) = CountBytes(data)[b]
  <2>1. \A i \in 1..n : us[i] = <<b>> <=> data[i] = b
    <3>. SUFFICES ASSUME NEW i \in 1..n PROVE us[i] = <<b>> <=> data[i] = b
      OBVIOUS
    <3>1. CASE data[i] = m
      <4>1. us[i] = <<m, m>> /\ Len(<<m, m>>) = 2
        BY <1>3, <3>1
      <4>. QED  BY <1>5, <3>1, <4>1, LongNotByte
    <3>2. CASE data[i] # m
      BY <1>3, <3>2
    <3>. QED  BY <3>1, <3>2
  <2>2. {k \in 1..n : us[k] = <<b>>} = {i \in 1..n : data[i] = b}
    BY <2>1
  <2>. QED  BY <1>0, <1>3, <2>2 DEF Alone, CountBytes
<1>6. Cardinality(EscapesOf(m, us)) = CountBytes(data)[m]
  <2>1. \A i \in 1..n : us[i] \in Escape(m) <=> data[i] = m
    <3>. SUFFICES ASSUME NEW i \in 1..n PROVE us[i] \in Escape(m) <=> data[i] = m
      OBVIOUS
    <3>1. CASE data[i] = m
      <4>1. us[i] = <<m, m>>
        BY <1>3, <3>1
      <4>. QED  BY <3>1, <4>1, EscapeIn
    <3>2. CASE data[i] # m
      <4>1. us[i] = <<data[i]>> /\ data[i] \in Bytes
        BY <1>0, <1>3, <3>2
      <4>2. us[i] \in Single(m)
        BY <3>2, <4>1, SingleIn
      <4>. QED  BY <3>2, <4>2, NotEscape
    <3>. QED  BY <3>1, <3>2
  <2>2. EscapesOf(m, us) = {i \in 1..n : data[i] = m}
    BY <1>3, <2>1 DEF EscapesOf
  <2>. QED  BY <1>0, <2>2 DEF CountBytes
<1>7. CountBytes(data) \in [Bytes -> Nat]
  <2>1. ASSUME NEW b \in Bytes PROVE Cardinality({i \in DOMAIN data : data[i] = b}) \in Nat
    <3>. DEFINE A == {i \in DOMAIN data : data[i] = b}
    <3>1. A \in SUBSET (1..n) /\ IsFiniteSet(1..n)
      BY <1>0, FS_Interval
    <3>. HIDE DEF A
    <3>2. Cardinality(A) \in Nat
      BY <3>1, FS_Subset, FS_CardinalityType
    <3>. QED  BY <3>2 DEF A
  <2>. QED  BY <2>1 DEF CountBytes
<1>8. \A i \in 1..n : /\ data[i] = m => us[i] = <<m, m>>
                      /\ data[i] # m => us[i] = <<data[i]>>
  BY <1>3
<1>. QED  BY <1>3, <1>4, <1>5, <1>6, <1>7, <1>8 DEF us, n

LEMMA SomeByte == Bytes # {}
<1>1. Cardinality({}) = 0
  BY FS_EmptySet
<1>2. Cardinality(Bytes) > 1
  BY CompressAssumption
<1>3. ASSUME Bytes = {} PROVE FALSE
  <2>1. Cardinality(Bytes) = 0
    BY <1>1, <1>3
  <2>. QED  BY <1>2, <2>1
<1>. QED  BY <1>3

LEMMA LeastExists ==
  ASSUME NEW count \in [Bytes -> Nat]
  PROVE  /\ LeastCommonByte(count) \in Bytes
         /\ \A c \in Bytes : count[LeastCommonByte(count)] <= count[c]
<1>1. Bytes # {} /\ Bytes \in SUBSET Nat
  BY SomeByte, CompressAssumption
<1>. DEFINE V == {count[b] : b \in Bytes}
<1>2. PICK k \in V : \A w \in V : k <= w
  <2>1. V \in SUBSET Nat /\ V # {}
    BY <1>1
  <2>. HIDE DEF V
  <2>. QED  BY <2>1, LeastNatural
<1>. DEFINE A == {b \in Bytes : count[b] = k}
<1>3. PICK b \in A : \A c \in A : b <= c
  <2>1. A \in SUBSET Nat
    BY <1>1
  <2>2. A # {}
    BY <1>2
  <2>. HIDE DEF A
  <2>. QED  BY <2>1, <2>2, LeastNatural
<1>4. b \in Bytes /\ count[b] = k /\ k \in Nat
  BY <1>3
<1>5. IsLeastCommon(b, count)
  <2>. SUFFICES ASSUME NEW c \in Bytes
                PROVE  count[b] < count[c] \/ (count[b] = count[c] /\ b <= c)
    BY DEF IsLeastCommon
  <2>1. count[c] \in V /\ count[c] \in Nat
    OBVIOUS
  <2>2. k <= count[c]
    BY <1>2, <2>1
  <2>3. count[c] = k => b <= c
    BY <1>3
  <2>. HIDE DEF V, A
  <2>. QED  BY <1>4, <2>1, <2>2, <2>3
<1>. DEFINE l == LeastCommonByte(count)
<1>6. l \in Bytes /\ IsLeastCommon(l, count)
  BY <1>4, <1>5 DEF LeastCommonByte
<1>. HIDE DEF l
<1>7. \A c \in Bytes : count[l] <= count[c]
  <2>. SUFFICES ASSUME NEW c \in Bytes PROVE count[l] <= count[c]
    OBVIOUS
  <2>1. count[l] \in Nat /\ count[c] \in Nat
    BY <1>6
  <2>. QED  BY <1>6, <2>1 DEF IsLeastCommon
<1>. QED  BY <1>6, <1>7 DEF l

-----------------------------------------------------------------------------
(* The invariant                                                            *)

PageSet == [table : UNION {[T -> Pairs] : T \in SUBSET Bytes}, marker : Bytes, data : Seq(Bytes)]

PagesInv ==
  /\ bytes \in Seq(Bytes) /\ pages \in Seq(PageSet)
  /\ work = "rounds" => Len(pages) * PageSize < Len(bytes)

LoopInv ==
  /\ marker \in Bytes /\ overhead \in Nat
  /\ byteCount \in [Bytes -> Nat] /\ byteCount[marker] = Used
  /\ Len(stream) <= 2 * PageSize

\* A token is a new byte, no part of an earlier pair.
UsedInv ==
  /\ tokens \in Seq(Bytes \X Pairs)
  /\ \A i \in 1..Len(tokens) :
       /\ tokens[i][1] # marker /\ byteCount[tokens[i][1]] = Used
       /\ byteCount[tokens[i][2][1]] = Used /\ byteCount[tokens[i][2][2]] = Used
  /\ \A i, j \in 1..Len(tokens) : tokens[i][1] = tokens[j][1] => i = j

\* What a page takes besides its data, as Size says.
TableSize(n) == IF n = 0 THEN 1
                ELSE IF n < MaskSize THEN 2 + TokenCost * n
                ELSE 2 + MaskSize + (TokenCost - 1) * n

CostInv ==
  /\ tokens = <<>> => Len(stream) + 1 + TokenCost = Len(ThisPage) + overhead
  /\ tokens # <<>> => /\ Len(stream) + TableSize(Len(tokens)) <= Len(ThisPage) + 1
                      /\ overhead >= TokenCost - 1
                      /\ Len(tokens) <= MaskSize => overhead >= TokenCost

UnitsInv(us) ==
  /\ us \in Seq(UnitSet(marker)) /\ us # <<>>
  /\ stream = FlattenSeq(us) /\ pairCount = Counted(us)
  /\ \A b \in Bytes : byteCount[b] # Used => byteCount[b] = Alone(us, b)
  /\ (\E b \in Bytes : byteCount[b] = 0) => NoEscapes(us)
  /\ tokens = <<>> /\ Len(stream) <= Len(ThisPage) => NoEscapes(us)

LEMMA PageFacts ==
  ASSUME bytes \in Seq(Bytes), Len(pages) \in Nat, Len(pages) * PageSize < Len(bytes)
  PROVE  ThisPage \in Seq(Bytes) /\ Len(ThisPage) \in 1..PageSize
<1>. DEFINE k == Len(pages)
            lo == ((k + 1) - 1) * PageSize + 1
            hi == Lesser((k + 1) * PageSize, Len(bytes))
<1>1. PageSize \in Nat /\ PageSize > 0 /\ Len(bytes) \in Nat
  BY CompressAssumption
<1>2. k * PageSize \in Nat /\ (k + 1) * PageSize = k * PageSize + PageSize
      /\ ((k + 1) - 1) * PageSize = k * PageSize
  BY <1>1
<1>3. ThisPage = SubSeq(bytes, lo, hi)
  BY DEF ThisPage, Page
<1>4. /\ lo \in Nat /\ hi \in Nat /\ 1 <= lo /\ lo <= hi /\ hi <= Len(bytes)
      /\ (hi - lo) + 1 \in 1..PageSize
  <2>. DEFINE e == k * PageSize
  <2>1. e \in Nat /\ e < Len(bytes) /\ lo = e + 1 /\ hi = Lesser(e + PageSize, Len(bytes))
    BY <1>2
  <2>. HIDE DEF e, lo, hi
  <2>. QED  BY <1>1, <2>1 DEF Lesser
<1>. HIDE DEF lo, hi
<1>5. \A i \in lo..hi : bytes[i] \in Bytes
  BY <1>1, <1>4
<1>6. SubSeq(bytes, lo, hi) \in Seq(Bytes)
      /\ Len(SubSeq(bytes, lo, hi)) = IF lo <= hi THEN (hi - lo) + 1 ELSE 0
  BY <1>4, <1>5, SubSeqProperties
<1>. QED  BY <1>3, <1>4, <1>6

\* The marker is no unit of its own.
LEMMA MarkerNotAlone ==
  ASSUME NEW m \in Bytes, NEW us \in Seq(UnitSet(m))
  PROVE  Alone(us, m) = 0
<1>1. \A k \in 1..Len(us) : us[k] # <<m>>
  <2>. SUFFICES ASSUME NEW k \in 1..Len(us), us[k] = <<m>> PROVE FALSE
    OBVIOUS
  <2>1. us[k] \in UnitSet(m) /\ Len(<<m>>) = 1 /\ <<m>>[1] = m
    BY UnitsAreSeqs
  <2>. QED  BY <2>1, UnitFacts, SingleFacts
<1>2. Alone(us, m) \in Nat /\ ~(Alone(us, m) > 0)
  BY <1>1, AloneType
<1>. DEFINE a == Alone(us, m)
<1>3. a \in Nat /\ ~(a > 0)
  BY <1>2
<1>. HIDE DEF a
<1>4. a = 0
  BY <1>3
<1>. QED  BY <1>4 DEF a

\* A round that is worth it has a token that may be escaped and a pair of
\* neither the marker nor the token.
LEMMA TokenFacts ==
  ASSUME LoopInv, NEW us, UnitsInv(us), NEW p \in Pairs, Worth(p)
  PROVE  /\ Token \in Bytes /\ Token # marker /\ byteCount[Token] # Used
         /\ byteCount[Token] \in Nat /\ byteCount[Token] = Alone(us, Token)
         /\ \A b \in Bytes : byteCount[Token] <= byteCount[b]
         /\ pairCount[p] \in Nat /\ pairCount[p] > byteCount[Token] + overhead
         /\ p[1] \in Bytes /\ p[2] \in Bytes
         /\ p[1] \notin {marker, Token} /\ p[2] \notin {marker, Token}
         /\ ~Escapes(Token) => NoEscapes(us)
         /\ \A j \in 1..Len(us) : us[j] = <<Token>> => Escapes(Token)
<1>0. /\ marker \in Bytes /\ overhead \in Nat /\ byteCount \in [Bytes -> Nat]
      /\ byteCount[marker] = Used /\ Len(stream) <= 2 * PageSize
  BY DEF LoopInv
<1>1. /\ us \in Seq(UnitSet(marker)) /\ us # <<>>
      /\ stream = FlattenSeq(us) /\ pairCount = Counted(us)
      /\ \A b \in Bytes : byteCount[b] # Used => byteCount[b] = Alone(us, b)
      /\ (\E b \in Bytes : byteCount[b] = 0) => NoEscapes(us)
  BY DEF UnitsInv
<1>2. Token \in Bytes /\ \A b \in Bytes : byteCount[Token] <= byteCount[b]
  BY <1>0, LeastExists DEF Token
<1>3. p[1] \in Bytes /\ p[2] \in Bytes
  BY DEF Pairs
<1>. DEFINE pc == pairCount[p]  tc == byteCount[Token]  n == Len(us)  L == Len(stream)
            a1 == Alone(us, p[1])  a2 == Alone(us, p[2])
<1>4. pc \in Nat /\ pc <= a1 /\ pc <= a2
  <2>1. Counted(us) \in Counts /\ Counted(us)[p] <= a1 /\ Counted(us)[p] <= a2
    BY <1>0, <1>1, CountBound
  <2>. QED  BY <1>1, <2>1 DEF Counts
<1>5. a1 \in Nat /\ a1 <= n /\ a2 \in Nat
  BY <1>1, AloneType
<1>6. n \in Nat /\ n <= L /\ L \in Nat
  <2>. DEFINE c == Cardinality(EscapesOf(marker, us))
  <2>1. c \in 0..n /\ L = n + c
    BY <1>0, <1>1, LengthOfUnits
  <2>2. n \in Nat
    BY <1>1
  <2>. HIDE DEF c, n, L
  <2>. QED  BY <2>1, <2>2
<1>7. tc \in Nat /\ pc > tc + overhead
  <2>1. tc \in Nat
    BY <1>0, <1>2
  <2>2. pc - tc > overhead
    BY DEF Worth, Saving
  <2>. HIDE DEF pc, tc
  <2>. QED  BY <1>0, <1>4, <2>1, <2>2
<1>8. pc < Used /\ Used \in Nat
  <2>1. 2 * PageSize < Used
    BY SizesAssumption DEF PageAssumption
  <2>2. pc <= n /\ L <= 2 * PageSize
    <3>. HIDE DEF pc, a1, a2, n
    <3>. QED  BY <1>0, <1>4, <1>5, <1>6
  <2>3. PageSize \in Nat /\ Used \in Nat
    BY CompressAssumption DEF Used
  <2>. HIDE DEF pc, n, L
  <2>. QED  BY <1>4, <1>6, <2>1, <2>2, <2>3
<1>9. tc # Used /\ Token # marker
  <2>1. tc < Used
    <3>. HIDE DEF pc, tc
    <3>. QED  BY <1>0, <1>4, <1>7, <1>8
  <2>2. tc # Used
    <3>. HIDE DEF tc
    <3>. QED  BY <1>7, <1>8, <2>1
  <2>. QED  BY <1>0, <2>2
<1>10. tc = Alone(us, Token)
  BY <1>1, <1>2, <1>9
<1>11. \A b \in {p[1], p[2]} : b \notin {marker, Token}
  <2>1. Alone(us, p[1]) > tc /\ Alone(us, p[2]) > tc /\ tc >= 0
    <3>1. a1 > tc /\ a2 > tc /\ tc >= 0
      <4>. HIDE DEF pc, tc, a1, a2
      <4>. QED  BY <1>0, <1>4, <1>5, <1>7
    <3>. QED  BY <3>1
  <2>2. ASSUME NEW b \in {p[1], p[2]} PROVE b # marker
    <3>1. Alone(us, marker) = 0
      BY <1>0, <1>1, MarkerNotAlone
    <3>2. Alone(us, b) > tc
      BY <2>1
    <3>3. ~(0 > tc)
      <4>. HIDE DEF tc
      <4>. QED  BY <1>7
    <3>. QED  BY <3>1, <3>2, <3>3
  <2>3. ASSUME NEW b \in {p[1], p[2]} PROVE b # Token
    <3>1. Alone(us, b) > tc
      BY <2>1
    <3>2. ~(tc > tc)
      <4>. HIDE DEF tc
      <4>. QED  BY <1>7
    <3>. QED  BY <1>10, <3>1, <3>2
  <2>. QED  BY <2>2, <2>3
<1>12. ~Escapes(Token) => NoEscapes(us)
  BY <1>1, <1>2 DEF Escapes
<1>13. \A j \in 1..Len(us) : us[j] = <<Token>> => Escapes(Token)
  <2>. SUFFICES ASSUME NEW j \in 1..Len(us), us[j] = <<Token>> PROVE tc # 0
    BY DEF Escapes
  <2>1. Alone(us, Token) > 0
    BY <1>1, AloneType
  <2>2. tc > 0
    BY <1>10, <2>1
  <2>. HIDE DEF tc
  <2>. QED  BY <1>7, <2>2
<1>. QED  BY <1>2, <1>3, <1>4, <1>7, <1>9, <1>10, <1>11, <1>12, <1>13

-----------------------------------------------------------------------------
(* What units stand for                                                     *)

\* W[b] is what the byte b stands for: itself, or what its token replaced.
ValueOf(W, m, u)  == IF u \in Escape(m) THEN <<u[2]>> ELSE W[u[1]]
Values(W, m, us)  == [j \in 1..Len(us) |-> ValueOf(W, m, us[j])]
Value(W, m, us)   == FlattenSeq(Values(W, m, us))

LEMMA ValueType ==
  ASSUME NEW m \in Bytes, NEW W \in [Bytes -> Seq(Bytes)], NEW us \in Seq(UnitSet(m))
  PROVE  /\ Values(W, m, us) \in Seq(Seq(Bytes)) /\ Len(Values(W, m, us)) = Len(us)
         /\ \A j \in 1..Len(us) : Values(W, m, us)[j] = ValueOf(W, m, us[j])
         /\ Value(W, m, us) \in Seq(Bytes)
         /\ \A u \in UnitSet(m) : ValueOf(W, m, u) \in Seq(Bytes)
<1>1. ASSUME NEW u \in UnitSet(m) PROVE ValueOf(W, m, u) \in Seq(Bytes)
  <2>1. CASE u \in Escape(m)
    <3>1. u[2] \in Bytes
      BY <2>1, EscapeFacts
    <3>2. <<u[2]>> \in Seq(Bytes)
      BY <3>1
    <3>. QED  BY <2>1, <3>2 DEF ValueOf
  <2>2. CASE u \notin Escape(m)
    <3>1. u[1] \in Bytes
      BY <1>1, <2>2, SingleFacts DEF UnitSet
    <3>. QED  BY <2>2, <3>1 DEF ValueOf
  <2>. QED  BY <2>1, <2>2
<1>. DEFINE n == Len(us)  X == Seq(Bytes)
            e(j) == ValueOf(W, m, us[j])
<1>2. n \in Nat /\ \A j \in 1..n : e(j) \in X
  <2>1. n \in Nat /\ \A j \in 1..n : us[j] \in UnitSet(m)
    BY UnitsAreSeqs
  <2>. QED  BY <1>1, <2>1
<1>3. Values(W, m, us) = [j \in 1..n |-> e(j)]
  BY DEF Values
<1>. DEFINE vs == Values(W, m, us)
<1>4. vs \in Seq(X) /\ Len(vs) = n /\ \A j \in 1..n : vs[j] = e(j)
  <2>. HIDE DEF X, e, vs, n
  <2>. QED  BY <1>2, <1>3 DEF vs
<1>. HIDE DEF vs
<1>5. FlattenSeq(vs) \in Seq(Bytes)
  BY <1>4, FlattenType
<1>. QED  BY <1>1, <1>4, <1>5 DEF Value, vs

LEMMA ValueEmpty ==
  ASSUME NEW W, NEW m
  PROVE  Value(W, m, <<>>) = <<>>
<1>. DEFINE vs == Values(W, m, <<>>)
<1>1. vs = <<>>
  BY DEF Values
<1>. HIDE DEF vs
<1>. QED  BY <1>1, FlattenEmpty DEF Value, vs

LEMMA ValueCons ==
  ASSUME NEW m \in Bytes, NEW W \in [Bytes -> Seq(Bytes)],
         NEW u \in UnitSet(m), NEW w \in Seq(UnitSet(m))
  PROVE  Value(W, m, <<u>> \o w) = ValueOf(W, m, u) \o Value(W, m, w)
<1>. DEFINE X == UnitSet(m)  Y == Seq(Bytes)
            t == <<u>> \o w
            a == Values(W, m, t)  b == Values(W, m, w)  x == ValueOf(W, m, u)
            n == Len(w)
<1>1. t \in Seq(X) /\ Len(t) = n + 1 /\ n \in Nat /\ t[1] = u /\ \A j \in 1..n : t[j + 1] = w[j]
  <2>1. u \in X /\ w \in Seq(X)
    OBVIOUS
  <2>. HIDE DEF X
  <2>. QED  BY <2>1
<1>. HIDE DEF t
<1>2. /\ a \in Seq(Y) /\ Len(a) = n + 1
      /\ \A j \in 1..n + 1 : a[j] = ValueOf(W, m, t[j])
  BY <1>1, ValueType
<1>3. /\ b \in Seq(Y) /\ Len(b) = n /\ x \in Y
      /\ \A j \in 1..n : b[j] = ValueOf(W, m, w[j])
  BY ValueType
<1>4. a[1] = x /\ \A j \in 1..n : a[j + 1] = b[j]
  <2>1. 1 \in 1..n + 1 /\ \A j \in 1..n : j + 1 \in 1..n + 1
    BY <1>1
  <2>. QED  BY <1>1, <1>2, <1>3, <2>1
<1>5. a = <<x>> \o b
  <2>. HIDE DEF Y, a, b, x, n
  <2>. DEFINE c == <<x>> \o b
  <2>1. c \in Seq(Y) /\ Len(c) = n + 1 /\ c[1] = x /\ \A j \in 1..n : c[j + 1] = b[j]
    BY <1>1, <1>3
  <2>. HIDE DEF c
  <2>2. \A j \in 1..n + 1 : a[j] = c[j]
    <3>. SUFFICES ASSUME NEW j \in 1..n + 1 PROVE a[j] = c[j]
      OBVIOUS
    <3>1. CASE j = 1
      BY <1>4, <2>1, <3>1
    <3>2. CASE j # 1
      <4>1. j - 1 \in 1..n /\ (j - 1) + 1 = j
        BY <1>1, <3>2
      <4>. QED  BY <1>4, <2>1, <4>1
    <3>. QED  BY <3>1, <3>2
  <2>3. a = c
    BY <1>1, <1>2, <2>1, <2>2
  <2>. QED  BY <2>3 DEF c
<1>. HIDE DEF a, b, x
<1>6. FlattenSeq(<<x>> \o b) = x \o FlattenSeq(b)
  BY <1>3, FlattenCons
<1>7. FlattenSeq(a) = x \o FlattenSeq(b)
  BY <1>5, <1>6
<1>. QED  BY <1>7 DEF Value, a, b, x, t

\* The meaning of the bytes before a round and after it.
TokenMeans(W, X, token, pair) ==
  /\ W \in [Bytes -> Seq(Bytes)] /\ W[token] = <<token>>
  /\ X \in [Bytes -> Seq(Bytes)] /\ X[token] = W[pair[1]] \o W[pair[2]]
  /\ \A b \in Bytes : b # token => X[b] = W[b]

KeepsValue(W, X, us, v) == Value(X, marker, v[1]) = Value(W, marker, us)

\* A round changes what is written, not what it stands for.
LEMMA RewriteValue ==
  ASSUME marker \in Bytes, NEW us \in Seq(UnitSet(marker)),
         NEW token \in Bytes, token # marker, NEW pair \in Pairs,
         token # pair[1], token # pair[2], pair[1] # marker, pair[2] # marker,
         \A j \in 1..Len(us) : us[j] = <<token>> => Escapes(token),
         NEW v, IsRewrite(us, v, token, pair),
         NEW W, NEW X, TokenMeans(W, X, token, pair)
  PROVE  KeepsValue(W, X, us, v)
<1>w. /\ W \in [Bytes -> Seq(Bytes)] /\ W[token] = <<token>>
      /\ X \in [Bytes -> Seq(Bytes)] /\ X[token] = W[pair[1]] \o W[pair[2]]
      /\ \A b \in Bytes : b # token => X[b] = W[b]
  BY DEF TokenMeans
<1>. USE <1>w
<1>. DEFINE n == Len(us)  m == marker  U == UnitSet(m)
            A(j) == Value(X, m, v[j])
            B(j) == Value(W, m, Rest(us, j))
            Bad == {j \in 1..n + 1 : A(j) # B(j)}
<1>0. n \in Nat /\ \A j \in 1..n : us[j] \in U
  BY UnitsAreSeqs
<1>1. /\ v[n + 1] = <<>>
      /\ \A j \in 1..n : RewriteAt(us, v, token, pair, j)
      /\ \A j \in 1..n + 1 : v[j] \in Seq(U)
  BY DEF IsRewrite
<1>2. /\ Rest(us, 1) = us /\ Rest(us, n + 1) = <<>>
      /\ \A j \in 1..n + 1 : Rest(us, j) \in Seq(U)
      /\ \A j \in 1..n : Rest(us, j) = <<us[j]>> \o Rest(us, j + 1)
  BY RestFacts
<1>3. pair[1] \in Bytes /\ pair[2] \in Bytes
  BY DEF Pairs
<1>4. \A b \in Bytes : b # m => /\ <<b>> \in U /\ <<b>> \notin Escape(m)
                                /\ ValueOf(W, m, <<b>>) = W[b] /\ ValueOf(X, m, <<b>>) = X[b]
  <2>. SUFFICES ASSUME NEW b \in Bytes, b # m
                PROVE  /\ <<b>> \in U /\ <<b>> \notin Escape(m)
                       /\ ValueOf(W, m, <<b>>) = W[b] /\ ValueOf(X, m, <<b>>) = X[b]
    OBVIOUS
  <2>1. <<b>> \in Single(m) /\ <<b>> \in U
    BY SingleIn
  <2>2. <<b>> \notin Escape(m)
    BY <2>1, NotEscape
  <2>3. <<b>>[1] = b
    OBVIOUS
  <2>. QED  BY <2>1, <2>2, <2>3 DEF ValueOf
<1>5. \A u \in Escape(m) : /\ u \in U /\ ValueOf(W, m, u) = <<u[2]>>
                           /\ ValueOf(X, m, u) = <<u[2]>>
  BY DEF ValueOf, UnitSet
<1>. HIDE DEF U
<1>6. \A Y \in {W, X} : \A u \in U, w \in Seq(U) :
        /\ Value(Y, m, <<u>> \o w) = ValueOf(Y, m, u) \o Value(Y, m, w)
        /\ ValueOf(Y, m, u) \in Seq(Bytes) /\ Value(Y, m, w) \in Seq(Bytes)
  <2>1. \A Y \in {W, X} : Y \in [Bytes -> Seq(Bytes)]
    BY <1>w
  <2>. QED  BY <2>1, ValueCons, ValueType DEF U
<1>7. Bad = {}
  <2>1. SUFFICES ASSUME Bad # {} PROVE FALSE
    OBVIOUS
  <2>2. PICK j \in Bad : \A i \in Bad : i <= j
    <3>1. Bad \in SUBSET (0..n + 1) /\ n + 1 \in Nat
      BY <1>0
    <3>. HIDE DEF Bad
    <3>. QED  BY <2>1, <3>1, GreatestNatural
  <2>3. j \in 1..n + 1 /\ A(j) # B(j)
    BY <2>2
  <2>4. \A i \in 1..n + 1 : i > j => A(i) = B(i)
    <3>. SUFFICES ASSUME NEW i \in 1..n + 1, i > j PROVE i \notin Bad
      BY DEF Bad
    <3>1. ~(i <= j)
      BY <2>3
    <3>. HIDE DEF Bad
    <3>. QED  BY <2>2, <3>1
  <2>5. j # n + 1
    <3>1. n + 1 \in 1..n + 1
      BY <1>0
    <3>2. A(n + 1) = <<>> /\ B(n + 1) = <<>>
      BY <1>1, <1>2, ValueEmpty
    <3>. HIDE DEF A, B
    <3>. QED  BY <2>3, <3>2
  <2>6. j \in 1..n /\ j + 1 \in 1..n + 1 /\ j + 1 > j
    BY <1>0, <2>3, <2>5
  <2>. DEFINE x == us[j]  r == Rest(us, j + 1)
  <2>7. /\ x \in U /\ A(j + 1) = B(j + 1) /\ B(j) = Value(W, m, <<x>> \o r)
        /\ r \in Seq(U) /\ v[j + 1] \in Seq(U) /\ RewriteAt(us, v, token, pair, j)
    <3>1. A(j + 1) = B(j + 1)
      <4>. HIDE DEF A, B
      <4>. QED  BY <2>4, <2>6
    <3>. HIDE DEF A
    <3>. QED  BY <1>0, <1>1, <1>2, <2>6, <3>1
  <2>8. CASE x \in Escape(m)
    <3>1. v[j] = <<x>> \o v[j + 1]
      BY <2>7, <2>8 DEF RewriteAt
    <3>2. A(j) = ValueOf(X, m, x) \o A(j + 1) /\ B(j) = ValueOf(W, m, x) \o B(j + 1)
      BY ZenonT(60), <1>6, <2>7, <3>1
    <3>. QED  BY <1>5, <2>3, <2>7, <2>8, <3>2
  <2>9. CASE x \in Single(m) /\ Freed(us, token, j)
    <3>1. v[j] = <<<<m, token>>>> \o v[j + 1] /\ x = <<token>>
      BY <2>7, <2>9 DEF RewriteAt, Freed
    <3>2. <<m, token>> \in Escape(m) /\ <<m, token>>[2] = token
      BY EscapeIn
    <3>3. <<m, token>> \in U /\ ValueOf(X, m, <<m, token>>) = <<token>>
      BY <1>5, <3>2
    <3>4. ValueOf(W, m, x) = <<token>>
      BY <1>4, <3>1
    <3>5. A(j) = <<token>> \o A(j + 1) /\ B(j) = <<token>> \o B(j + 1)
      BY ZenonT(60), <1>6, <2>7, <3>1, <3>3, <3>4
    <3>. QED  BY <2>3, <2>7, <3>5
  <2>10. CASE x \in Single(m) /\ ~Freed(us, token, j) /\ Match(us, pair, j)
    <3>1. /\ v[j] = <<<<token>>>> \o v[j + 2] /\ j < n
          /\ x = <<pair[1]>> /\ us[j + 1] = <<pair[2]>>
      BY <2>7, <2>10 DEF RewriteAt, Match
    <3>2. j + 1 \in 1..n /\ j + 2 \in 1..n + 1 /\ j + 2 > j /\ (j + 1) + 1 = j + 2
      BY SMTT(60), <1>0, <2>6, <3>1
    <3>. DEFINE q == Rest(us, j + 2)  V == Value(W, m, q)
    <3>3. A(j + 2) = V
      <4>1. A(j + 2) = B(j + 2)
        <5>. HIDE DEF A, B
        <5>. QED  BY <2>4, <3>2
      <4>. QED  BY <4>1
    <3>4. r = <<us[j + 1]>> \o q /\ q \in Seq(U) /\ v[j + 2] \in Seq(U)
      BY <1>1, <1>2, <3>2
    <3>5. <<token>> \in U /\ ValueOf(X, m, <<token>>) = X[token]
      BY <1>4
    <3>6. us[j + 1] \in U /\ ValueOf(W, m, us[j + 1]) = W[pair[2]]
      BY <1>4, <1>3, <3>1
    <3>7. ValueOf(W, m, x) = W[pair[1]]
      BY <1>4, <1>3, <3>1
    <3>8. A(j) = X[token] \o A(j + 2)
      BY <1>6, <3>1, <3>4, <3>5
    <3>9. B(j) = W[pair[1]] \o (W[pair[2]] \o V)
      <4>1. Value(W, m, r) = W[pair[2]] \o V
        BY <1>6, <3>4, <3>6
      <4>2. B(j) = ValueOf(W, m, x) \o Value(W, m, r)
        BY <1>6, <2>7
      <4>. QED  BY <3>7, <4>1, <4>2
    <3>10. V \in Seq(Bytes) /\ W[pair[1]] \in Seq(Bytes) /\ W[pair[2]] \in Seq(Bytes)
      <4>1. V \in Seq(Bytes)
        BY <1>6, <3>4, <2>7
      <4>. HIDE DEF V
      <4>. QED  BY <1>3, <4>1
    <3>. DEFINE a == W[pair[1]]  b == W[pair[2]]
    <3>11. A(j) = (a \o b) \o V /\ B(j) = a \o (b \o V)
      <4>. HIDE DEF V, A, B
      <4>. QED  BY <3>3, <3>8, <3>9
    <3>12. (a \o b) \o V = a \o (b \o V)
      <4>. HIDE DEF a, b, V
      <4>. QED  BY <3>10, ByteAssoc DEF a, b
    <3>. HIDE DEF A, B, V, a, b
    <3>. QED  BY <2>3, <3>11, <3>12
  <2>11. CASE x \in Single(m) /\ ~Freed(us, token, j) /\ ~Match(us, pair, j)
    <3>1. v[j] = <<x>> \o v[j + 1]
      BY <2>7, <2>11 DEF RewriteAt
    <3>2. x = <<x[1]>> /\ x[1] \in Bytes /\ x[1] # m
      BY <2>11, SingleFacts
    <3>3. x[1] # token
      <4>1. ASSUME x[1] = token PROVE FALSE
        <5>1. x = <<token>>
          BY <3>2, <4>1
        <5>2. Escapes(token)
          BY <2>6, <5>1
        <5>. QED  BY <2>11, <5>1, <5>2 DEF Freed
      <4>. QED  BY <4>1
    <3>4. ValueOf(W, m, x) = W[x[1]] /\ ValueOf(X, m, x) = X[x[1]] /\ X[x[1]] = W[x[1]]
      BY <1>4, <3>2, <3>3
    <3>5. A(j) = ValueOf(X, m, x) \o A(j + 1) /\ B(j) = ValueOf(W, m, x) \o B(j + 1)
      BY ZenonT(60), <1>6, <2>7, <3>1
    <3>. QED  BY <2>3, <2>7, <3>4, <3>5
  <2>12. x \in Escape(m) \/ x \in Single(m)
    BY <2>7 DEF U, UnitSet
  <2>. HIDE DEF A, B, x
  <2>. QED  BY <2>8, <2>9, <2>10, <2>11, <2>12
<1>8. 1 \in 1..n + 1
  BY <1>0
<1>9. A(1) = B(1)
  <2>. HIDE DEF A, B
  <2>. QED  BY <1>7, <1>8
<1>. QED  BY <1>2, <1>9 DEF KeepsValue

-----------------------------------------------------------------------------
(* A run of the decompressor                                                *)

States == [in : Seq(Bytes), stack : Seq(Bytes), out : Seq(Bytes)]

Ends(s) == (s.in = <<>> /\ s.stack = <<>>) \/ Len(s.out) = PageSize

Fails(page, s) ==
  \/ Len(s.stack) > StackSize + 1
  \/ (page.table # <<>> /\ s.in = <<page.marker>> /\ s.stack = <<>>)

IsRun(page, turn) ==
  /\ turn \in [0..3 * PageSize -> States]
  /\ turn[0] = [in |-> page.data, stack |-> <<>>, out |-> <<>>]
  /\ \A k \in 1..3 * PageSize :
       turn[k] = IF Ends(turn[k - 1]) \/ Fails(page, turn[k - 1]) THEN turn[k - 1]
                 ELSE Turn(page, turn[k - 1])

LEMMA SplitHead ==
  ASSUME NEW s \in Seq(Bytes), s # <<>>
  PROVE  /\ Head(s) \in Bytes /\ Tail(s) \in Seq(Bytes) /\ s = <<Head(s)>> \o Tail(s)
         /\ Len(s) = Len(Tail(s)) + 1 /\ s[1] = Head(s)
         /\ \A i \in 1..Len(Tail(s)) : Tail(s)[i] = s[i + 1]
OBVIOUS

LEMMA TableFacts ==
  ASSUME NEW page \in PageSet
  PROVE  /\ page.marker \in Bytes /\ page.data \in Seq(Bytes)
         /\ DOMAIN page.table \in SUBSET Bytes
         /\ \A b \in DOMAIN page.table : page.table[b] \in Pairs
<1>1. PICK T \in SUBSET Bytes : page.table \in [T -> Pairs]
  BY DEF PageSet
<1>. QED  BY <1>1 DEF PageSet

LEMMA PairIsSeq ==
  ASSUME NEW p \in Pairs
  PROVE  p \in Seq(Bytes) /\ p = <<p[1], p[2]>> /\ p[1] \in Bytes /\ p[2] \in Bytes /\ Len(p) = 2
<1>1. PICK a \in Bytes, b \in Bytes : p = <<a, b>>
  BY DEF Pairs
<1>. QED  BY <1>1

\* What a turn does to a state, case by case.
LEMMA TurnCases ==
  ASSUME NEW page \in PageSet, NEW s \in States
  PROVE  /\ s.stack # <<>> /\ Head(s.stack) \in DOMAIN page.table =>
              Turn(page, s) = [in |-> s.in, stack |-> page.table[Head(s.stack)] \o Tail(s.stack),
                               out |-> s.out]
         /\ s.stack # <<>> /\ Head(s.stack) \notin DOMAIN page.table =>
              Turn(page, s) = [in |-> s.in, stack |-> Tail(s.stack),
                               out |-> Append(s.out, Head(s.stack))]
         /\ s.stack = <<>> /\ page.table # <<>> /\ Head(s.in) = page.marker =>
              Turn(page, s) = [in |-> Tail(Tail(s.in)), stack |-> s.stack,
                               out |-> Append(s.out, s.in[2])]
         /\ s.stack = <<>> /\ ~(page.table # <<>> /\ Head(s.in) = page.marker) =>
              Turn(page, s) = [in |-> Tail(s.in), stack |-> <<Head(s.in)>>, out |-> s.out]
<1>1. s = [in |-> s.in, stack |-> s.stack, out |-> s.out]
  BY DEF States
<1>. DEFINE b == Head(s.stack)
<1>2. ASSUME s.stack # <<>>, b \in DOMAIN page.table
      PROVE  Turn(page, s) = [in |-> s.in, stack |-> page.table[b] \o Tail(s.stack), out |-> s.out]
  <2>1. Turn(page, s) = [s EXCEPT !.stack = page.table[b] \o Tail(s.stack)]
    BY <1>2 DEF Turn, States
  <2>. DEFINE x == page.table[b] \o Tail(s.stack)
  <2>. HIDE DEF x
  <2>. QED  BY <2>1 DEF States, x
<1>3. ASSUME s.stack # <<>>, b \notin DOMAIN page.table
      PROVE  Turn(page, s) = [in |-> s.in, stack |-> Tail(s.stack), out |-> Append(s.out, b)]
  BY <1>3 DEF Turn, States
<1>4. ASSUME s.stack = <<>>, page.table # <<>>, Head(s.in) = page.marker
      PROVE  Turn(page, s) = [in |-> Tail(Tail(s.in)), stack |-> s.stack,
                              out |-> Append(s.out, s.in[2])]
  BY <1>4 DEF Turn, States
<1>5. ASSUME s.stack = <<>>, ~(page.table # <<>> /\ Head(s.in) = page.marker)
      PROVE  Turn(page, s) = [in |-> Tail(s.in), stack |-> <<Head(s.in)>>, out |-> s.out]
  BY <1>5 DEF Turn, States
<1>. QED  BY <1>2, <1>3, <1>4, <1>5

LEMMA TurnType ==
  ASSUME NEW page \in PageSet, NEW s \in States, ~Ends(s), ~Fails(page, s)
  PROVE  Turn(page, s) \in States
<1>1. s.in \in Seq(Bytes) /\ s.stack \in Seq(Bytes) /\ s.out \in Seq(Bytes)
  BY DEF States
<1>2. CASE s.stack # <<>>
  <2>. DEFINE b == Head(s.stack)
  <2>1. b \in Bytes /\ Tail(s.stack) \in Seq(Bytes)
    BY <1>1, <1>2, SplitHead
  <2>2. CASE b \in DOMAIN page.table
    <3>1. page.table[b] \in Seq(Bytes)
      BY <2>2, TableFacts, PairIsSeq
    <3>. DEFINE x == page.table[b]
    <3>2. x \o Tail(s.stack) \in Seq(Bytes)
      <4>. HIDE DEF x
      <4>. QED  BY <2>1, <3>1, ConcatBytes DEF x
    <3>3. Turn(page, s) = [in |-> s.in, stack |-> x \o Tail(s.stack), out |-> s.out]
      BY <1>2, <2>2, TurnCases
    <3>. QED  BY <1>1, <3>2, <3>3 DEF States
  <2>3. CASE b \notin DOMAIN page.table
    <3>1. Turn(page, s) = [in |-> s.in, stack |-> Tail(s.stack), out |-> Append(s.out, b)]
      BY <1>2, <2>3, TurnCases
    <3>2. Append(s.out, b) \in Seq(Bytes)
      BY <1>1, <2>1, AppendProperties
    <3>. QED  BY <1>1, <2>1, <3>1, <3>2 DEF States
  <2>. QED  BY <2>2, <2>3
<1>3. CASE s.stack = <<>>
  <2>1. s.in # <<>>
    BY <1>3 DEF Ends
  <2>2. Head(s.in) \in Bytes /\ Tail(s.in) \in Seq(Bytes) /\ s.in = <<Head(s.in)>> \o Tail(s.in)
    BY <1>1, <2>1, SplitHead
  <2>3. CASE page.table # <<>> /\ Head(s.in) = page.marker
    <3>1. Tail(s.in) # <<>>
      <4>1. ASSUME Tail(s.in) = <<>> PROVE FALSE
        <5>. DEFINE h == Head(s.in)
        <5>0. s.in = <<h>> \o <<>> /\ h \in Bytes /\ h = page.marker
          BY <2>2, <2>3, <4>1
        <5>1. s.in = <<page.marker>>
          <6>. HIDE DEF h
          <6>1. <<h>> \o <<>> = <<h>>
            BY <5>0
          <6>. QED  BY <5>0, <6>1
        <5>. QED  BY <1>3, <2>3, <5>1 DEF Fails
      <4>. QED  BY <4>1
    <3>2. /\ Tail(Tail(s.in)) \in Seq(Bytes) /\ Head(Tail(s.in)) \in Bytes
          /\ Len(Tail(s.in)) = Len(Tail(Tail(s.in))) + 1 /\ Tail(s.in)[1] = Head(Tail(s.in))
      BY <2>2, <3>1, SplitHead
    <3>3. s.in[2] = Head(Tail(s.in))
      <4>1. 1 \in 1..Len(Tail(s.in)) /\ 1 + 1 = 2
        BY <2>2, <3>2
      <4>2. Tail(s.in)[1] = s.in[1 + 1]
        BY <1>1, <2>1, <4>1, SplitHead
      <4>. QED  BY <3>2, <4>2
    <3>4. Append(s.out, s.in[2]) \in Seq(Bytes)
      BY <1>1, <3>2, <3>3, AppendProperties
    <3>5. Turn(page, s) = [in |-> Tail(Tail(s.in)), stack |-> s.stack, out |-> Append(s.out, s.in[2])]
      BY <1>3, <2>3, TurnCases
    <3>. QED  BY <1>1, <3>2, <3>4, <3>5 DEF States
  <2>4. CASE ~(page.table # <<>> /\ Head(s.in) = page.marker)
    <3>1. Turn(page, s) = [in |-> Tail(s.in), stack |-> <<Head(s.in)>>, out |-> s.out]
      BY <1>3, <2>4, TurnCases
    <3>2. <<Head(s.in)>> \in Seq(Bytes)
      BY <2>2
    <3>. QED  BY <1>1, <2>2, <3>1, <3>2 DEF States
  <2>. QED  BY <2>3, <2>4
<1>. QED  BY <1>2, <1>3

LEMMA RunExists ==
  ASSUME NEW page \in PageSet
  PROVE  \E turn : /\ IsRun(page, turn)
                   /\ Decompress(page) = IF Ends(turn[3 * PageSize])
                                         THEN turn[3 * PageSize].out ELSE Corrupt
<1>. DEFINE top == 3 * PageSize
            D == 0..3 * PageSize
            start == [in |-> page.data, stack |-> <<>>, out |-> <<>>]
            ends(s) == (s.in = <<>> /\ s.stack = <<>>) \/ Len(s.out) = PageSize
            bad(s)  ==
              \/ Len(s.stack) > StackSize + 1
              \/ (page.table # <<>> /\ s.in = <<page.marker>> /\ s.stack = <<>>)
            E(f, k) ==
              IF k = 0 THEN [in |-> page.data, stack |-> <<>>, out |-> <<>>]
              ELSE LET s == f[k - 1] IN IF ends(s) \/ bad(s) THEN s ELSE Turn(page, s)
            IsFun(f) == f = [k \in D |-> E(f, k)]
            S == States
            step == [k \in D |-> [f \in [D -> S] |-> E(f, k)]]
            rank == [k \in D |-> k]
<1>0. top \in Nat /\ top \in D /\ 0 \in D /\ \A k \in D : k # 0 => k - 1 \in D /\ k - 1 < k
  BY CompressAssumption
<1>1. start \in S
  BY TableFacts DEF States
<1>2. \A s : (ends(s) <=> Ends(s)) /\ (bad(s) <=> Fails(page, s))
  BY DEF Ends, Fails
<1>. DEFINE Go(s) == IF Ends(s) \/ Fails(page, s) THEN s ELSE Turn(page, s)
<1>3. \A f : \A k \in D : /\ k = 0 => E(f, k) = start
                          /\ k # 0 => E(f, k) = Go(f[k - 1])
  BY <1>2
<1>4. \A s \in S : Go(s) \in S
  BY TurnType
<1>. HIDE DEF S, start, Go
<1>5. \E f \in [D -> S] : \A k \in D : f[k] = step[k][f]
  <2>. HIDE DEF E
  <2>1. S # {} /\ rank \in [D -> 0..top]
    BY <1>1
  <2>2. ASSUME NEW k \in D, NEW f \in [D -> S]
        PROVE  E(f, k) \in S
    <3>1. k # 0 => f[k - 1] \in S
      BY <1>0
    <3>. HIDE DEF D
    <3>. QED  BY <1>1, <1>3, <1>4, <3>1
  <2>3. step \in [D -> [[D -> S] -> S]]
    <3>. HIDE DEF D
    <3>. QED  BY <2>2
  <2>4. ASSUME NEW k \in D, NEW f \in [D -> S], NEW g \in [D -> S],
               \A e \in D : rank[e] < rank[k] => f[e] = g[e]
        PROVE  step[k][f] = step[k][g]
    <3>1. k # 0 => f[k - 1] = g[k - 1]
      <4>1. k # 0 => k - 1 \in D /\ rank[k - 1] < rank[k]
        BY <1>0
      <4>. HIDE DEF D, rank
      <4>. QED  BY <2>4, <4>1
    <3>2. E(f, k) = E(g, k)
      <4>. HIDE DEF D
      <4>. QED  BY <1>3, <3>1
    <3>3. step[k][f] = E(f, k) /\ step[k][g] = E(g, k)
      OBVIOUS
    <3>. HIDE DEF step
    <3>. QED  BY <3>2, <3>3
  <2>5. \A k \in D : \A f, g \in [D -> S] :
          (\A e \in D : rank[e] < rank[k] => f[e] = g[e]) => step[k][f] = step[k][g]
    <3>. HIDE DEF D, rank, step
    <3>. QED  BY <2>4
  <2>6. top \in Nat /\ rank \in [D -> 0..top]
    BY <1>0, <2>1
  <2>. HIDE DEF D, rank, step, IsFun, top
  <2>7. IsRecursion(D, S, rank, step)
    BY <2>3, <2>5, Zenon DEF IsRecursion
  <2>. QED  BY <2>1, <2>6, <2>7, RecExists
<1>6. PICK f0 \in [D -> S] : \A k \in D : f0[k] = E(f0, k)
  <2>1. PICK f \in [D -> S] : \A k \in D : f[k] = step[k][f]
    BY <1>5
  <2>. HIDE DEF E, D
  <2>2. \A k \in D : step[k][f] = E(f, k)
    OBVIOUS
  <2>. QED  BY <2>1, <2>2
<1>7. IsFun(f0)
  <2>. HIDE DEF E, D
  <2>1. f0 = [k \in D |-> f0[k]]
    OBVIOUS
  <2>. QED  BY <1>6, <2>1
<1>. DEFINE turn == CHOOSE f : IsFun(f)
<1>8. IsFun(turn)
  <2>. HIDE DEF IsFun
  <2>. QED  BY <1>7
<1>9. Decompress(page) = IF ends(turn[3 * PageSize]) THEN turn[3 * PageSize].out ELSE Corrupt
  BY DEF Decompress
<1>. HIDE DEF turn
<1>10. \A k \in D : turn[k] = E(turn, k)
  <2>1. turn = [k \in D |-> E(turn, k)]
    BY <1>8
  <2>. HIDE DEF E, D
  <2>. QED  BY <2>1
<1>11. \A k \in D : turn[k] \in S
  <2>. DEFINE Bad == {k \in D : turn[k] \notin S}
  <2>1. SUFFICES ASSUME Bad # {} PROVE FALSE
    OBVIOUS
  <2>2. PICK k \in Bad : \A i \in Bad : k <= i
    <3>1. Bad \in SUBSET Nat
      OBVIOUS
    <3>. HIDE DEF Bad
    <3>. QED  BY <2>1, <3>1, LeastNatural
  <2>3. k \in D /\ turn[k] \notin S /\ turn[k] = E(turn, k)
    BY <1>10, <2>2
  <2>. HIDE DEF E
  <2>4. k # 0
    BY <1>1, <1>3, <2>3
  <2>5. k - 1 \in D /\ ~(k <= k - 1)
    BY <1>0, <2>3, <2>4
  <2>6. turn[k - 1] \in S
    <3>1. k - 1 \notin Bad
      <4>. HIDE DEF Bad
      <4>. QED  BY <2>2, <2>5
    <3>. QED  BY <2>5, <3>1
  <2>. QED  BY <1>3, <1>4, <2>3, <2>4, <2>6
<1>12. turn \in [D -> S]
  <2>1. turn = [k \in D |-> E(turn, k)]
    BY <1>8
  <2>. HIDE DEF E, D
  <2>. QED  BY <1>10, <1>11, <2>1
<1>13. turn[0] = start
  <2>. HIDE DEF E
  <2>. QED  BY <1>0, <1>3, <1>10
<1>14. \A k \in 1..3 * PageSize : turn[k] = Go(turn[k - 1])
  <2>1. \A k \in 1..3 * PageSize : k \in D /\ k # 0
    BY <1>0
  <2>. HIDE DEF E, D
  <2>. QED  BY <1>3, <1>10, <2>1
<1>15. IsRun(page, turn)
  BY <1>12, <1>13, <1>14 DEF IsRun, S, start, Go
<1>16. ends(turn[3 * PageSize]) <=> Ends(turn[3 * PageSize])
  BY <1>2
<1>. QED  BY <1>9, <1>15, <1>16

\* What the bytes s stand for.
Expanded(W, s) == FlattenSeq([i \in 1..Len(s) |-> W[s[i]]])

LEMMA ExpandedType ==
  ASSUME NEW W \in [Bytes -> Seq(Bytes)], NEW s \in Seq(Bytes)
  PROVE  Expanded(W, s) \in Seq(Bytes)
<1>. DEFINE n == Len(s)  X == Seq(Bytes)  a == [i \in 1..n |-> W[s[i]]]
<1>1. n \in Nat /\ \A i \in 1..n : W[s[i]] \in X
  OBVIOUS
<1>2. a \in Seq(X)
  <2>. HIDE DEF X, n
  <2>. QED  BY <1>1
<1>. HIDE DEF a
<1>3. FlattenSeq(a) \in Seq(Bytes)
  BY <1>2, FlattenType
<1>. QED  BY <1>3 DEF Expanded, a

LEMMA ExpandedEmpty ==
  ASSUME NEW W
  PROVE  Expanded(W, <<>>) = <<>>
<1>. DEFINE a == [i \in 1..Len(<<>>) |-> W[<<>>[i]]]
<1>1. a = <<>>
  OBVIOUS
<1>. HIDE DEF a
<1>. QED  BY <1>1, FlattenEmpty DEF Expanded, a

LEMMA ExpandedCons ==
  ASSUME NEW W \in [Bytes -> Seq(Bytes)], NEW b \in Bytes, NEW s \in Seq(Bytes)
  PROVE  Expanded(W, <<b>> \o s) = W[b] \o Expanded(W, s)
<1>. DEFINE Y == Seq(Bytes)  n == Len(s)
            t == <<b>> \o s
            a == [i \in 1..Len(t) |-> W[t[i]]]
            c == [i \in 1..Len(s) |-> W[s[i]]]
            x == W[b]
<1>1. t \in Seq(Bytes) /\ Len(t) = n + 1 /\ n \in Nat /\ t[1] = b /\ \A i \in 1..n : t[i + 1] = s[i]
  OBVIOUS
<1>. HIDE DEF t
<1>2. /\ a \in Seq(Y) /\ Len(a) = n + 1
      /\ \A i \in 1..n + 1 : a[i] = W[t[i]]
  <2>1. \A i \in 1..n + 1 : W[t[i]] \in Y
    BY <1>1
  <2>. HIDE DEF Y, n
  <2>. QED  BY <1>1, <2>1
<1>3. /\ c \in Seq(Y) /\ Len(c) = n /\ x \in Y
      /\ \A i \in 1..n : c[i] = W[s[i]]
  <2>1. \A i \in 1..n : W[s[i]] \in Y
    OBVIOUS
  <2>. HIDE DEF Y
  <2>. QED  BY <1>1, <2>1 DEF Y
<1>. HIDE DEF a, c, x
<1>4. a[1] = x /\ \A i \in 1..n : a[i + 1] = c[i]
  <2>1. 1 \in 1..n + 1 /\ \A i \in 1..n : i + 1 \in 1..n + 1
    BY <1>1
  <2>. QED  BY <1>1, <1>2, <1>3, <2>1 DEF x
<1>5. a = <<x>> \o c
  <2>. HIDE DEF Y, n
  <2>. DEFINE d == <<x>> \o c
  <2>1. d \in Seq(Y) /\ Len(d) = n + 1 /\ d[1] = x /\ \A i \in 1..n : d[i + 1] = c[i]
    BY <1>1, <1>3
  <2>. HIDE DEF d
  <2>2. \A i \in 1..n + 1 : a[i] = d[i]
    <3>. SUFFICES ASSUME NEW i \in 1..n + 1 PROVE a[i] = d[i]
      OBVIOUS
    <3>1. CASE i = 1
      BY <1>4, <2>1, <3>1
    <3>2. CASE i # 1
      <4>1. i - 1 \in 1..n /\ (i - 1) + 1 = i
        BY <1>1, <3>2
      <4>. QED  BY <1>4, <2>1, <4>1
    <3>. QED  BY <3>1, <3>2
  <2>3. a = d
    BY <1>1, <1>2, <2>1, <2>2
  <2>. QED  BY <2>3 DEF d
<1>6. FlattenSeq(<<x>> \o c) = x \o FlattenSeq(c)
  BY <1>3, FlattenCons
<1>7. FlattenSeq(a) = x \o FlattenSeq(c)
  BY <1>5, <1>6
<1>. QED  BY <1>7 DEF Expanded, a, c, x, t

\* Every byte stands for one byte at least.
LEMMA ExpandedLength ==
  ASSUME NEW W \in [Bytes -> Seq(Bytes)], \A b \in Bytes : W[b] # <<>>, NEW s \in Seq(Bytes)
  PROVE  Len(s) <= Len(Expanded(W, s))
<1>. DEFINE n == Len(s)  X == Seq(Bytes)  a == [i \in 1..n |-> W[s[i]]]
<1>1. n \in Nat /\ \A i \in 1..n : W[s[i]] \in X /\ Len(W[s[i]]) \in Nat /\ Len(W[s[i]]) >= 1
  <2>1. n \in Nat /\ \A i \in 1..n : W[s[i]] \in X /\ W[s[i]] # <<>>
    OBVIOUS
  <2>2. \A x \in X : x # <<>> => Len(x) \in Nat /\ Len(x) >= 1
    OBVIOUS
  <2>. HIDE DEF X, n
  <2>. QED  BY <2>1, <2>2
<1>2. a \in Seq(X) /\ Len(a) = n /\ \A i \in 1..n : a[i] = W[s[i]]
  <2>. HIDE DEF X, n
  <2>. QED  BY <1>1
<1>. HIDE DEF a
<1>3. PICK l : IsLength(a, l)
  BY <1>2, LengthFrom
<1>4. /\ \A j \in 1..n + 1 : l[j] \in Nat
      /\ l[n + 1] = 0 /\ l[1] = Len(FlattenSeq(a))
      /\ \A j \in 1..n : l[j] = Len(a[j]) + l[j + 1]
  BY <1>2, <1>3 DEF IsLength
<1>. DEFINE Ok(j) == l[j] >= (n + 1) - j
            Bad == {j \in 1..n + 1 : ~Ok(j)}
<1>. HIDE DEF n
<1>5. Bad = {}
  <2>1. SUFFICES ASSUME Bad # {} PROVE FALSE
    OBVIOUS
  <2>2. PICK j \in Bad : \A i \in Bad : i <= j
    <3>1. Bad \in SUBSET (0..n + 1) /\ n + 1 \in Nat
      BY <1>1
    <3>. HIDE DEF Bad
    <3>. QED  BY <2>1, <3>1, GreatestNatural
  <2>3. j \in 1..n + 1 /\ ~Ok(j)
    BY <2>2
  <2>4. j # n + 1
    <3>1. Ok(n + 1)
      BY <1>1, <1>4
    <3>. HIDE DEF Ok
    <3>. QED  BY <2>3, <3>1
  <2>5. j \in 1..n /\ j + 1 \in 1..n + 1 /\ ~(j + 1 <= j)
    BY <1>1, <2>3, <2>4
  <2>6. Ok(j + 1)
    <3>. HIDE DEF Ok
    <3>. QED  BY <2>2, <2>5
  <2>. DEFINE d == (n + 1) - j  d1 == (n + 1) - (j + 1)
              lj == l[j]  l1 == l[j + 1]  x == Len(a[j])
  <2>7. d = d1 + 1 /\ d1 \in Int
    BY <1>1, <2>5
  <2>8. l1 >= d1 /\ ~(lj >= d) /\ lj = x + l1
    BY <1>4, <2>3, <2>5, <2>6
  <2>9. l1 \in Nat /\ x \in Nat /\ x >= 1
    BY <1>1, <1>2, <1>4, <2>5
  <2>. HIDE DEF d, d1, lj, l1, x
  <2>. QED  BY <2>7, <2>8, <2>9
<1>6. 1 \in 1..n + 1 /\ (n + 1) - 1 = n
  BY <1>1
<1>7. Ok(1)
  <2>. HIDE DEF Ok
  <2>. QED  BY <1>5, <1>6
<1>8. n <= Len(FlattenSeq(a))
  BY <1>1, <1>4, <1>6, <1>7
<1>. QED  BY <1>8 DEF Expanded, a, n

LEMMA TwoCons ==
  ASSUME NEW a \in Bytes, NEW b \in Bytes, NEW t \in Seq(Bytes)
  PROVE  <<a, b>> \o t = <<a>> \o (<<b>> \o t)
<1>. DEFINE s == <<a, b>> \o t  r == <<b>> \o t  u == <<a>> \o r  n == Len(t)
<1>1. s \in Seq(Bytes) /\ Len(s) = n + 2 /\ s[1] = a /\ s[2] = b /\ \A i \in 1..n : s[i + 2] = t[i]
  OBVIOUS
<1>2. r \in Seq(Bytes) /\ Len(r) = n + 1 /\ r[1] = b /\ \A i \in 1..n : r[i + 1] = t[i]
  OBVIOUS
<1>3. n \in Nat
  OBVIOUS
<1>. HIDE DEF r, s, n
<1>4. u \in Seq(Bytes) /\ Len(u) = n + 2 /\ u[1] = a /\ \A i \in 1..n + 1 : u[i + 1] = r[i]
  BY <1>2, <1>3
<1>. HIDE DEF u
<1>5. ASSUME NEW i \in 1..n + 2 PROVE s[i] = u[i]
  <2>1. CASE i = 1
    BY <2>1, <1>1, <1>4
  <2>2. CASE i = 2
    <3>1. 1 \in 1..n + 1 /\ 1 + 1 = 2
      BY <1>3
    <3>. QED  BY <2>2, <3>1, <1>1, <1>4, <1>2
  <2>3. CASE i # 1 /\ i # 2
    <3>1. i - 2 \in 1..n /\ i - 1 \in 1..n + 1 /\ (i - 2) + 2 = i /\ (i - 2) + 1 = i - 1 /\ (i - 1) + 1 = i
      BY <1>3, <2>3
    <3>2. s[i] = t[i - 2] /\ r[i - 1] = t[i - 2] /\ u[i] = r[i - 1]
      BY <1>1, <1>2, <1>4, <3>1
    <3>. QED  BY <3>2
  <2>. QED  BY <2>1, <2>2, <2>3
<1>6. s = u
  BY <1>1, <1>3, <1>4, <1>5
<1>. QED  BY <1>6 DEF s, u, r

\* W and R: what each byte stands for, and how deep tokens for tokens are in it.
Explains(page, W, R, N) ==
  /\ W \in [Bytes -> Seq(Bytes)] /\ R \in [Bytes -> 0..N] /\ \A b \in Bytes : W[b] # <<>>
  /\ \A b \in Bytes \ DOMAIN page.table : W[b] = <<b>>
  /\ \A b \in DOMAIN page.table :
       /\ W[b] = W[page.table[b][1]] \o W[page.table[b][2]]
       /\ R[page.table[b][1]] < R[b] /\ R[page.table[b][2]] < R[b]

\* The data, cut into bytes and escapes, stand for data.
IsCode(page, W, n, in, data) ==
  /\ n \in Nat /\ in \in [1..n + 1 -> Seq(Bytes)] /\ data \in [1..n + 1 -> Seq(Bytes)]
  /\ in[1] = page.data /\ in[n + 1] = <<>> /\ data[n + 1] = <<>>
  /\ \A j \in 1..n :
       \/ \E x \in Bytes : /\ ~(page.table # <<>> /\ x = page.marker)
                           /\ in[j] = <<x>> \o in[j + 1] /\ data[j] = W[x] \o data[j + 1]
       \/ \E x \in Bytes : /\ page.table # <<>>
                           /\ in[j] = <<page.marker>> \o (<<x>> \o in[j + 1])
                           /\ data[j] = <<x>> \o data[j + 1]

\* What is out, what the stack stands for and what is left are the page; the
\* deeper a token on the stack, the fewer bytes are below it.
IsOnCourse(s, W, R, N, n, in, data) ==
  /\ \E j \in 1..n + 1 :
       s.in = in[j] /\ s.out \o (Expanded(W, s.stack) \o data[j]) = data[1]
  /\ \A i \in 1..Len(s.stack) : ((Len(s.stack) - i) + 1) + R[s.stack[i]] <= N + 1

Progress(s) == 2 * Len(s.out) + Len(s.stack)

\* What a turn finds at the j-th byte or escape.
CodeAt(page, W, in, data, j) ==
  /\ in[j] # <<>>
  /\ page.table # <<>> /\ Head(in[j]) = page.marker =>
       /\ in[j] # <<page.marker>>
       /\ Tail(Tail(in[j])) = in[j + 1] /\ in[j][2] \in Bytes
       /\ data[j] = <<in[j][2]>> \o data[j + 1]
  /\ ~(page.table # <<>> /\ Head(in[j]) = page.marker) =>
       /\ Tail(in[j]) = in[j + 1] /\ Head(in[j]) \in Bytes
       /\ data[j] = W[Head(in[j])] \o data[j + 1]

IsEscape(u, y, x, t) ==
  /\ u # <<y>> /\ u[2] = x /\ Head(u) = y /\ Tail(Tail(u)) = t /\ u # <<>>

LEMMA EscapeSplit ==
  ASSUME NEW y \in Bytes, NEW x \in Bytes, NEW t \in Seq(Bytes)
  PROVE  IsEscape(<<y>> \o (<<x>> \o t), y, x, t)
<1>. DEFINE u == <<x>> \o t  v == <<y>> \o u
<1>1. u \in Seq(Bytes) /\ Tail(u) = t /\ u[1] = x /\ Len(u) > 0
  OBVIOUS
<1>. HIDE DEF u
<1>2. Len(v) = Len(u) + 1 /\ v[2] = u[1] /\ Len(<<y>>) = 1
  BY <1>1
<1>3. v # <<y>>
  <2>1. Len(v) # Len(<<y>>)
    BY <1>1, <1>2
  <2>. QED  BY <2>1
<1>4. Head(v) = y /\ Tail(v) = u /\ v # <<>>
  BY <1>1
<1>. HIDE DEF v
<1>5. IsEscape(v, y, x, t)
  BY <1>1, <1>2, <1>3, <1>4 DEF IsEscape
<1>. QED  BY <1>5 DEF v, u

LEMMA CodeFacts ==
  ASSUME NEW page \in PageSet, NEW W \in [Bytes -> Seq(Bytes)], NEW n, NEW in, NEW data,
         IsCode(page, W, n, in, data)
  PROVE  /\ \A j \in 1..n + 1 : in[j] = <<>> => j = n + 1
         /\ \A j \in 1..n : j + 1 \in 1..n + 1
         /\ \A j \in 1..n : CodeAt(page, W, in, data, j)
<1>1. /\ n \in Nat /\ in \in [1..n + 1 -> Seq(Bytes)] /\ page.marker \in Bytes
      /\ \A j \in 1..n : j + 1 \in 1..n + 1 /\ in[j + 1] \in Seq(Bytes)
  <2>1. n \in Nat /\ in \in [1..n + 1 -> Seq(Bytes)]
    BY DEF IsCode
  <2>2. \A j \in 1..n : j + 1 \in 1..n + 1
    BY <2>1
  <2>. QED  BY <2>1, <2>2, TableFacts
<1>2. ASSUME NEW x \in Bytes, NEW t \in Seq(Bytes)
      PROVE  /\ <<x>> \o t # <<>> /\ Head(<<x>> \o t) = x /\ Tail(<<x>> \o t) = t
             /\ <<x>> \o t \in Seq(Bytes)
  OBVIOUS
<1>4. ASSUME NEW j \in 1..n
      PROVE  CodeAt(page, W, in, data, j)
  <2>. USE DEF CodeAt
  <2>. DEFINE t == in[j + 1]
  <2>0. t \in Seq(Bytes)
    BY <1>1
  <2>1. CASE \E x \in Bytes : /\ ~(page.table # <<>> /\ x = page.marker)
                              /\ in[j] = <<x>> \o t /\ data[j] = W[x] \o data[j + 1]
    <3>1. PICK x \in Bytes : /\ ~(page.table # <<>> /\ x = page.marker)
                             /\ in[j] = <<x>> \o t /\ data[j] = W[x] \o data[j + 1]
      BY <2>1
    <3>2. in[j] # <<>> /\ Head(in[j]) = x /\ Tail(in[j]) = t
      <4>. HIDE DEF t
      <4>. QED  BY <1>2, <2>0, <3>1
    <3>. QED  BY <3>1, <3>2
  <2>2. CASE \E x \in Bytes : /\ page.table # <<>>
                              /\ in[j] = <<page.marker>> \o (<<x>> \o t)
                              /\ data[j] = <<x>> \o data[j + 1]
    <3>1. PICK x \in Bytes : /\ page.table # <<>>
                             /\ in[j] = <<page.marker>> \o (<<x>> \o t)
                             /\ data[j] = <<x>> \o data[j + 1]
      BY <2>2
    <3>2. /\ in[j] # <<>> /\ Head(in[j]) = page.marker /\ Tail(Tail(in[j])) = t
          /\ in[j][2] = x /\ in[j] # <<page.marker>>
      <4>. HIDE DEF t
      <4>. DEFINE y == page.marker  u == <<y>> \o (<<x>> \o t)
      <4>1. y \in Bytes /\ in[j] = u
        BY <1>1, <3>1
      <4>. HIDE DEF y
      <4>2. IsEscape(u, y, x, t)
        BY <2>0, <4>1, EscapeSplit
      <4>. HIDE DEF u
      <4>. QED  BY <4>1, <4>2 DEF IsEscape, y
    <3>. QED  BY <3>1, <3>2
  <2>. HIDE DEF t
  <2>3. \/ \E x \in Bytes : /\ ~(page.table # <<>> /\ x = page.marker)
                            /\ in[j] = <<x>> \o t /\ data[j] = W[x] \o data[j + 1]
        \/ \E x \in Bytes : /\ page.table # <<>>
                            /\ in[j] = <<page.marker>> \o (<<x>> \o t)
                            /\ data[j] = <<x>> \o data[j + 1]
    BY DEF IsCode, t
  <2>. QED  BY <2>1, <2>2, <2>3
<1>5. ASSUME NEW j \in 1..n + 1, in[j] = <<>> PROVE j = n + 1
  <2>1. j \notin 1..n
    BY <1>4, <1>5 DEF CodeAt
  <2>. QED  BY <1>1, <2>1
<1>. QED  BY <1>1, <1>4, <1>5

\* A turn keeps to the course.
LEMMA TurnOnCourse ==
  ASSUME NEW page \in PageSet, NEW W, NEW R, NEW N \in Nat, N <= StackSize,
         Explains(page, W, R, N), NEW n, NEW in, NEW data, IsCode(page, W, n, in, data),
         NEW s \in States, IsOnCourse(s, W, R, N, n, in, data), ~Ends(s)
  PROVE  /\ ~Fails(page, s)
         /\ IsOnCourse(Turn(page, s), W, R, N, n, in, data)
         /\ Progress(Turn(page, s)) >= Progress(s) + 1
<1>. DEFINE z == s.stack  o == s.out  h == Head(z)  t == Tail(z)  P == data[1]
            L == Len(z)
<1>0. /\ W \in [Bytes -> Seq(Bytes)] /\ R \in [Bytes -> 0..N] /\ \A b \in Bytes : W[b] # <<>>
      /\ \A b \in Bytes \ DOMAIN page.table : W[b] = <<b>>
      /\ \A b \in DOMAIN page.table :
           /\ W[b] = W[page.table[b][1]] \o W[page.table[b][2]]
           /\ R[page.table[b][1]] < R[b] /\ R[page.table[b][2]] < R[b]
  BY DEF Explains
<1>1. z \in Seq(Bytes) /\ o \in Seq(Bytes) /\ s.in \in Seq(Bytes) /\ L \in Nat
  BY DEF States
<1>2. /\ n \in Nat /\ in \in [1..n + 1 -> Seq(Bytes)] /\ data \in [1..n + 1 -> Seq(Bytes)]
      /\ in[n + 1] = <<>> /\ data[n + 1] = <<>>
  BY DEF IsCode
<1>3. PICK j \in 1..n + 1 : s.in = in[j] /\ o \o (Expanded(W, z) \o data[j]) = P
  BY DEF IsOnCourse
<1>4. \A i \in 1..L : ((L - i) + 1) + R[z[i]] <= N + 1
  BY DEF IsOnCourse
<1>5. data[j] \in Seq(Bytes) /\ Expanded(W, z) \in Seq(Bytes)
  BY <1>0, <1>1, <1>2, ExpandedType
<1>6. \A b \in Bytes : R[b] \in Nat /\ R[b] <= N
  BY <1>0
<1>c. \A i \in 1..n : CodeAt(page, W, in, data, i)
  <2>1. W \in [Bytes -> Seq(Bytes)]
    BY <1>0
  <2>. QED  BY <2>1, CodeFacts
<1>7. ~Fails(page, s)
  <2>1. ~(L > StackSize + 1)
    <3>1. CASE L = 0
      <4>1. StackSize \in Nat
        BY CompressAssumption
      <4>. QED  BY <3>1, <4>1
    <3>2. CASE L # 0
      <4>1. 1 \in 1..L /\ (L - 1) + 1 = L /\ z[1] \in Bytes
        BY <1>1, <3>2
      <4>. DEFINE d == (L - 1) + 1  r == R[z[1]]
      <4>2. d + r <= N + 1 /\ d = L /\ r \in Nat
        BY <1>4, <1>6, <4>1
      <4>. HIDE DEF d, r, L
      <4>. QED  BY <1>1, <4>2, CompressAssumption
    <3>. QED  BY <3>1, <3>2
  <2>2. ~(page.table # <<>> /\ s.in = <<page.marker>> /\ z = <<>>)
    <3>. SUFFICES ASSUME page.table # <<>>, s.in = <<page.marker>> PROVE FALSE
      OBVIOUS
    <3>1. <<page.marker>> # <<>> /\ Head(<<page.marker>>) = page.marker
      BY TableFacts
    <3>2. j # n + 1
      BY <1>2, <1>3, <3>1
    <3>3. j \in 1..n
      BY <1>2, <3>2
    <3>4. in[j] = <<page.marker>> /\ Head(in[j]) = page.marker
      BY <1>3, <3>1
    <3>. QED  BY <1>c, <3>3, <3>4 DEF CodeAt
  <2>. QED  BY <2>1, <2>2 DEF Fails
<1>8. CASE z # <<>>
  <2>1. /\ h \in Bytes /\ t \in Seq(Bytes) /\ z = <<h>> \o t /\ L = Len(t) + 1 /\ z[1] = h
        /\ \A i \in 1..Len(t) : t[i] = z[i + 1]
    BY <1>1, <1>8, SplitHead
  <2>. DEFINE Et == Expanded(W, t)  l == Len(t)  d == data[j]
  <2>. HIDE DEF h, t
  <2>2. l \in Nat /\ Et \in Seq(Bytes) /\ L = l + 1
    <3>1. Et \in Seq(Bytes)
      BY <1>0, <2>1, ExpandedType
    <3>. QED  BY <2>1, <3>1
  <2>3. Expanded(W, z) = W[h] \o Et
    BY <1>0, <2>1, ExpandedCons
  <2>4. CASE h \in DOMAIN page.table
    <3>. DEFINE p == page.table[h]  u == p \o t  S == Turn(page, s)
    <3>1. /\ p \in Seq(Bytes) /\ p = <<p[1], p[2]>> /\ p[1] \in Bytes /\ p[2] \in Bytes
          /\ Len(p) = 2
      BY <2>4, TableFacts, PairIsSeq
    <3>2. S = [in |-> s.in, stack |-> u, out |-> o]
      BY <1>8, <2>4, TurnCases DEF h, t
    <3>3. /\ W[h] = W[p[1]] \o W[p[2]] /\ R[p[1]] < R[h] /\ R[p[2]] < R[h]
      BY <1>0, <2>4
    <3>. HIDE DEF p
    <3>4. /\ u \in Seq(Bytes) /\ Len(u) = l + 2 /\ u[1] = p[1] /\ u[2] = p[2]
          /\ \A i \in 1..l : u[i + 2] = t[i]
      <4>1. /\ u \in Seq(Bytes) /\ Len(u) = 2 + l /\ \A i \in 1..2 : u[i] = p[i]
            /\ \A i \in 1..l : u[2 + i] = t[i]
        BY <2>1, <3>1, ConcatBytes
      <4>2. \A i \in 1..l : i + 2 = 2 + i
        BY <2>2
      <4>. HIDE DEF u
      <4>. QED  BY <2>2, <4>1, <4>2
    <3>5. u = <<p[1]>> \o (<<p[2]>> \o t)
      <4>. DEFINE a == p[1]  b == p[2]
      <4>1. a \in Bytes /\ b \in Bytes /\ p = <<a, b>>
        BY <3>1
      <4>. HIDE DEF a, b
      <4>2. <<a, b>> \o t = <<a>> \o (<<b>> \o t)
        BY <2>1, <4>1, TwoCons
      <4>. QED  BY <4>1, <4>2 DEF a, b
    <3>6. Expanded(W, u) = W[h] \o Et
      <4>. DEFINE w == <<p[2]>> \o t
      <4>1. w \in Seq(Bytes) /\ Expanded(W, w) = W[p[2]] \o Et
        <5>1. w \in Seq(Bytes)
          BY <2>1, <3>1
        <5>. QED  BY <1>0, <2>1, <3>1, <5>1, ExpandedCons
      <4>. HIDE DEF w
      <4>2. Expanded(W, u) = W[p[1]] \o Expanded(W, w)
        BY <1>0, <3>1, <3>5, <4>1, ExpandedCons DEF w
      <4>. DEFINE a == W[p[1]]  b == W[p[2]]
      <4>3. a \in Seq(Bytes) /\ b \in Seq(Bytes)
        BY <1>0, <3>1
      <4>. HIDE DEF a, b, Et
      <4>4. (a \o b) \o Et = a \o (b \o Et)
        BY <2>2, <4>3, ByteAssoc
      <4>. QED  BY <3>3, <4>1, <4>2, <4>4 DEF a, b
    <3>. HIDE DEF S, u
    <3>7. S.in = in[j] /\ S.out \o (Expanded(W, S.stack) \o data[j]) = P
      BY <1>3, <2>3, <3>2, <3>6
    <3>8. ASSUME NEW i \in 1..Len(u)
          PROVE  ((Len(u) - i) + 1) + R[u[i]] <= N + 1
      <4>0. l + 1 + R[h] <= N + 1 /\ R[h] \in Nat
        <5>1. 1 \in 1..L /\ (L - 1) + 1 = l + 1
          BY <2>2
        <5>. DEFINE e == (L - 1) + 1  r == R[h]
        <5>2. e + r <= N + 1 /\ r \in Nat /\ e = l + 1
          BY <1>4, <1>6, <2>1, <5>1
        <5>. HIDE DEF e, r
        <5>3. l + 1 + r <= N + 1
          BY <2>2, <5>2
        <5>. QED  BY <5>2, <5>3 DEF r
      <4>1. CASE i = 1
        <5>. DEFINE r == R[h]  q == R[p[1]]  e == (Len(u) - i) + 1
        <5>1. e = l + 2 /\ q \in Nat /\ q < r /\ R[u[i]] = q /\ l + 1 + r <= N + 1 /\ r \in Nat
          BY <1>6, <2>2, <3>1, <3>3, <3>4, <4>0, <4>1
        <5>. HIDE DEF r, q, e
        <5>2. e + q <= N + 1
          BY <2>2, <5>1
        <5>. QED  BY <5>1, <5>2 DEF e
      <4>2. CASE i = 2
        <5>. DEFINE r == R[h]  q == R[p[2]]  e == (Len(u) - i) + 1
        <5>1. e = l + 1 /\ q \in Nat /\ q < r /\ R[u[i]] = q /\ l + 1 + r <= N + 1 /\ r \in Nat
          BY <1>6, <2>2, <3>1, <3>3, <3>4, <4>0, <4>2
        <5>. HIDE DEF r, q, e
        <5>2. e + q <= N + 1
          BY <2>2, <5>1
        <5>. QED  BY <5>1, <5>2 DEF e
      <4>3. CASE i # 1 /\ i # 2
        <5>1. i - 2 \in 1..l /\ (i - 2) + 2 = i /\ (i - 2) + 1 = i - 1 /\ i - 1 \in 1..L
          BY <2>2, <3>4, <4>3
        <5>2. u[i] = z[i - 1]
          BY <2>1, <3>4, <5>1
        <5>3. (Len(u) - i) + 1 = (L - (i - 1)) + 1
          BY <2>2, <3>4
        <5>4. ((L - (i - 1)) + 1) + R[z[i - 1]] <= N + 1
          BY <1>4, <5>1
        <5>. QED  BY <5>2, <5>3, <5>4
      <4>. QED  BY <4>1, <4>2, <4>3
    <3>9. IsOnCourse(S, W, R, N, n, in, data)
      <4>1. S.stack = u
        BY <3>2
      <4>. QED  BY <3>7, <3>8, <4>1 DEF IsOnCourse
    <3>10. Progress(S) >= Progress(s) + 1
      <4>1. S.out = o /\ Len(S.stack) = l + 2 /\ Len(o) \in Nat /\ L = l + 1
        BY <1>1, <2>2, <3>2, <3>4
      <4>. DEFINE q == Len(o)
      <4>2. Progress(S) = 2 * q + (l + 2) /\ Progress(s) = 2 * q + (l + 1) /\ q \in Nat
        BY <4>1 DEF Progress
      <4>3. l \in Nat
        BY <2>2
      <4>. HIDE DEF q, l
      <4>. QED  BY <4>2, <4>3
    <3>. QED  BY <1>7, <3>9, <3>10 DEF S
  <2>5. CASE h \notin DOMAIN page.table
    <3>. DEFINE S == Turn(page, s)  w == o \o <<h>>
    <3>1. S = [in |-> s.in, stack |-> t, out |-> Append(o, h)]
      BY <1>8, <2>5, TurnCases DEF h, t
    <3>2. W[h] = <<h>>
      BY <1>0, <2>1, <2>5
    <3>3. Append(o, h) = w /\ w \in Seq(Bytes) /\ Len(w) = Len(o) + 1
      BY <1>1, <2>1
    <3>. HIDE DEF S, w
    <3>4. S.in = in[j] /\ S.out = w /\ S.stack = t
      BY <1>3, <3>1, <3>3
    <3>5. w \o (Et \o d) = P
      <4>. DEFINE x == <<h>>
      <4>1. x \in Seq(Bytes) /\ d \in Seq(Bytes) /\ Et \in Seq(Bytes) /\ w = o \o x
        BY <1>5, <2>1, <2>2 DEF w
      <4>2. o \o ((x \o Et) \o d) = P
        BY <1>3, <2>3, <3>2
      <4>. HIDE DEF x, d, Et, o
      <4>3. (x \o Et) \o d = x \o (Et \o d) /\ Et \o d \in Seq(Bytes)
        BY SMTT(60), <4>1, ByteAssoc, ConcatBytes
      <4>. DEFINE f == Et \o d
      <4>4. (o \o x) \o f = o \o (x \o f)
        <5>1. o \in Seq(Bytes) /\ f \in Seq(Bytes)
          BY <1>1, <4>3 DEF o
        <5>. HIDE DEF f
        <5>. QED  BY SMTT(60), <4>1, <5>1, ByteAssoc
      <4>. QED  BY <4>1, <4>2, <4>3, <4>4
    <3>6. ASSUME NEW i \in 1..l
          PROVE  ((l - i) + 1) + R[t[i]] <= N + 1
      <4>1. i + 1 \in 1..L /\ (l - i) + 1 = (L - (i + 1)) + 1
        BY <2>2
      <4>2. ((L - (i + 1)) + 1) + R[z[i + 1]] <= N + 1
        BY <1>4, <4>1
      <4>. QED  BY <2>1, <4>1, <4>2
    <3>7. IsOnCourse(S, W, R, N, n, in, data)
      BY <3>4, <3>5, <3>6 DEF IsOnCourse
    <3>8. Progress(S) >= Progress(s) + 1
      <4>. DEFINE q == Len(o)
      <4>0. Len(S.out) = q + 1 /\ Len(S.stack) = l /\ L = l + 1 /\ q \in Nat /\ l \in Nat
        BY <1>1, <2>2, <3>3, <3>4
      <4>1. Progress(S) = 2 * (q + 1) + l /\ Progress(s) = 2 * q + (l + 1)
        BY <4>0 DEF Progress
      <4>. HIDE DEF q, l
      <4>. QED  BY <4>0, <4>1
    <3>. QED  BY <1>7, <3>7, <3>8 DEF S
  <2>. QED  BY <2>4, <2>5
<1>9. CASE z = <<>>
  <2>. DEFINE d == data[j + 1]  S == Turn(page, s)  x == in[j][2]  y == Head(in[j])
  <2>1. s.in # <<>> /\ Expanded(W, z) = <<>>
    BY <1>9, ExpandedEmpty DEF Ends
  <2>2. j \in 1..n /\ j + 1 \in 1..n + 1 /\ d \in Seq(Bytes)
    <3>1. j # n + 1
      BY <1>2, <1>3, <2>1
    <3>2. j \in 1..n /\ j + 1 \in 1..n + 1
      BY <1>2, <3>1
    <3>. QED  BY <1>2, <3>2
  <2>3. \A q \in Seq(Bytes) : <<>> \o q = q
    OBVIOUS
  <2>4. o \o data[j] = P
    <3>1. <<>> \o data[j] = data[j]
      BY <1>5, <2>3
    <3>. QED  BY <1>3, <2>1, <3>1
  <2>5. CASE page.table # <<>> /\ Head(s.in) = page.marker
    <3>1. S = [in |-> Tail(Tail(s.in)), stack |-> z, out |-> Append(o, s.in[2])]
      BY <1>9, <2>5, TurnCases
    <3>2. Tail(Tail(in[j])) = in[j + 1] /\ x \in Bytes /\ data[j] = <<x>> \o d
      BY <1>c, <1>3, <2>2, <2>5 DEF CodeAt
    <3>. DEFINE w == o \o <<x>>
    <3>. HIDE DEF S, x, d
    <3>3. Append(o, x) = w /\ w \in Seq(Bytes) /\ Len(w) = Len(o) + 1
      <4>1. o \in Seq(Bytes) /\ x \in Bytes
        BY <1>1, <3>2
      <4>. HIDE DEF o
      <4>. QED  BY <4>1
    <3>4. S.in = in[j + 1] /\ S.out = w /\ S.stack = <<>>
      BY <1>3, <1>9, <3>1, <3>2, <3>3 DEF x
    <3>5. w \o (<<>> \o d) = P
      <4>1. (o \o <<x>>) \o d = o \o (<<x>> \o d)
        <5>1. <<x>> \in Seq(Bytes)
          BY <3>2
        <5>. QED  BY ZenonT(60), <1>1, <2>2, <5>1, ByteAssoc DEF d
      <4>2. <<>> \o d = d
        BY <2>2, <2>3
      <4>. QED  BY <2>4, <3>2, <4>1, <4>2
    <3>6. IsOnCourse(S, W, R, N, n, in, data)
      <4>1. Expanded(W, S.stack) = <<>> /\ Len(S.stack) = 0
        BY <3>4, ExpandedEmpty
      <4>2. S.out \o (Expanded(W, S.stack) \o data[j + 1]) = data[1]
        BY <3>4, <3>5, <4>1 DEF d
      <4>3. \A i \in 1..Len(S.stack) : FALSE
        BY <4>1
      <4>. QED  BY <2>2, <3>4, <4>2, <4>3 DEF IsOnCourse
    <3>7. Progress(S) >= Progress(s) + 1
      <4>. DEFINE q == Len(o)
      <4>1. Progress(S) = 2 * (q + 1) + 0 /\ Progress(s) = 2 * q + 0 /\ q \in Nat
        BY <1>1, <1>9, <3>3, <3>4 DEF Progress
      <4>. HIDE DEF q
      <4>. QED  BY <4>1
    <3>. QED  BY <1>7, <3>6, <3>7 DEF S
  <2>6. CASE ~(page.table # <<>> /\ Head(s.in) = page.marker)
    <3>1. S = [in |-> Tail(s.in), stack |-> <<Head(s.in)>>, out |-> o]
      BY <1>9, <2>6, TurnCases
    <3>2. Tail(in[j]) = in[j + 1] /\ y \in Bytes /\ data[j] = W[y] \o d
      BY <1>c, <1>3, <2>2, <2>6 DEF CodeAt
    <3>. HIDE DEF S, y, d
    <3>3. S.in = in[j + 1] /\ S.out = o /\ S.stack = <<y>>
      BY <1>3, <3>1, <3>2 DEF y
    <3>4. Expanded(W, <<y>>) = W[y]
      <4>. DEFINE a == <<y>> \o <<>>
      <4>1. a = <<y>> /\ <<>> \in Seq(Bytes)
        BY <3>2
      <4>. HIDE DEF a
      <4>2. Expanded(W, a) = W[y] \o Expanded(W, <<>>)
        BY <1>0, <3>2, <4>1, ExpandedCons DEF a
      <4>3. W[y] \in Seq(Bytes) /\ \A q \in Seq(Bytes) : q \o <<>> = q
        BY <1>0, <3>2
      <4>. QED  BY <4>1, <4>2, <4>3, ExpandedEmpty
    <3>5. ASSUME NEW i \in 1..Len(S.stack)
          PROVE  ((Len(S.stack) - i) + 1) + R[S.stack[i]] <= N + 1
      <4>1. Len(S.stack) = 1 /\ S.stack[1] = y /\ i = 1
        BY <3>2, <3>3
      <4>. DEFINE r == R[y]
      <4>2. r \in Nat /\ r <= N
        BY <1>6, <3>2
      <4>. HIDE DEF r
      <4>3. ((1 - 1) + 1) + r <= N + 1
        BY <4>2
      <4>. QED  BY <4>1, <4>3 DEF r
    <3>6. IsOnCourse(S, W, R, N, n, in, data)
      <4>1. S.out \o (Expanded(W, S.stack) \o data[j + 1]) = data[1]
        BY <2>4, <3>2, <3>3, <3>4 DEF d
      <4>. QED  BY <2>2, <3>3, <3>5, <4>1 DEF IsOnCourse
    <3>7. Progress(S) >= Progress(s) + 1
      <4>. DEFINE q == Len(o)
      <4>1. Len(<<y>>) = 1
        OBVIOUS
      <4>2. Progress(S) = 2 * q + 1 /\ Progress(s) = 2 * q + 0 /\ q \in Nat
        BY <1>1, <1>9, <3>3, <4>1 DEF Progress
      <4>. HIDE DEF q
      <4>. QED  BY <4>2
    <3>. QED  BY <1>7, <3>6, <3>7 DEF S
  <2>. QED  BY <2>5, <2>6
<1>. QED  BY <1>8, <1>9

\* Data that stand for a page decompress to it.
LEMMA Decodes ==
  ASSUME NEW page \in PageSet, NEW W, NEW R, NEW N \in Nat, N <= StackSize,
         Explains(page, W, R, N), NEW n, NEW in, NEW data, IsCode(page, W, n, in, data),
         Len(data[1]) <= PageSize
  PROVE  Decompress(page) = data[1]
<1>. DEFINE P == data[1]  K == 3 * PageSize
            Course(s) == IsOnCourse(s, W, R, N, n, in, data)
<1>0. PageSize \in Nat /\ PageSize > 0 /\ K \in Nat /\ K > 2 * PageSize /\ 0 \in 0..K /\ K \in 0..K
  BY CompressAssumption
<1>1. PICK turn : /\ IsRun(page, turn)
                  /\ Decompress(page) = IF Ends(turn[3 * PageSize])
                                        THEN turn[3 * PageSize].out ELSE Corrupt
  BY RunExists
<1>2. /\ \A k \in 0..K : turn[k] \in States
      /\ turn[0] = [in |-> page.data, stack |-> <<>>, out |-> <<>>]
      /\ \A k \in 1..K :
           turn[k] = IF Ends(turn[k - 1]) \/ Fails(page, turn[k - 1]) THEN turn[k - 1]
                     ELSE Turn(page, turn[k - 1])
  BY <1>1 DEF IsRun
<1>3. /\ W \in [Bytes -> Seq(Bytes)] /\ \A b \in Bytes : W[b] # <<>>
      /\ n \in Nat /\ data \in [1..n + 1 -> Seq(Bytes)]
      /\ in[1] = page.data /\ in[n + 1] = <<>> /\ data[n + 1] = <<>> /\ 1 \in 1..n + 1
  <2>1. n \in Nat
    BY DEF IsCode
  <2>2. 1 \in 1..n + 1
    BY <2>1
  <2>. QED  BY <2>1, <2>2 DEF Explains, IsCode
<1>4. P \in Seq(Bytes) /\ Len(P) \in Nat
  BY <1>3
<1>5. \A q \in Seq(Bytes) : <<>> \o q = q /\ q \o <<>> = q
  OBVIOUS
<1>6. Course(turn[0]) /\ Progress(turn[0]) >= 0
  <2>1. turn[0].in = in[1] /\ turn[0].stack = <<>> /\ turn[0].out = <<>>
    BY <1>2, <1>3
  <2>2. turn[0].out \o (Expanded(W, turn[0].stack) \o data[1]) = data[1]
    <3>1. <<>> \o P = P
      BY <1>4, <1>5
    <3>. HIDE DEF P
    <3>2. <<>> \o (<<>> \o P) = P
      BY <3>1
    <3>3. Expanded(W, turn[0].stack) = <<>>
      BY <2>1, ExpandedEmpty
    <3>. QED  BY <2>1, <3>2, <3>3 DEF P
  <2>3. Len(turn[0].stack) = 0 /\ Len(turn[0].out) = 0
    BY <2>1
  <2>4. \A i \in 1..Len(turn[0].stack) : FALSE
    BY <2>3
  <2>5. Progress(turn[0]) = 0
    BY <2>3 DEF Progress
  <2>6. \E j \in 1..n + 1 : /\ turn[0].in = in[j]
                            /\ turn[0].out \o (Expanded(W, turn[0].stack) \o data[j]) = data[1]
    BY <1>3, <2>1, <2>2, Zenon
  <2>7. Course(turn[0])
    BY <2>4, <2>6, Zenon DEF IsOnCourse
  <2>. QED  BY <2>5, <2>7
<1>7. ASSUME NEW s \in States, Course(s)
      PROVE  /\ Progress(s) <= 2 * Len(P) /\ Progress(s) \in Nat
             /\ Ends(s) => s.out = P
  <2>1. PICK j \in 1..n + 1 :
          s.in = in[j] /\ s.out \o (Expanded(W, s.stack) \o data[j]) = data[1]
    BY <1>7 DEF IsOnCourse
  <2>. DEFINE o == s.out  e == Expanded(W, s.stack)  d == data[j]
  <2>2. s.stack \in Seq(Bytes) /\ o \in Seq(Bytes)
    BY DEF States
  <2>3. e \in Seq(Bytes) /\ d \in Seq(Bytes) /\ Len(s.stack) <= Len(e) /\ Len(s.stack) \in Nat
    <3>1. d \in Seq(Bytes)
      BY <1>3
    <3>2. e \in Seq(Bytes) /\ Len(s.stack) <= Len(e)
      <4>. DEFINE z == s.stack
      <4>1. z \in Seq(Bytes)
        BY <2>2
      <4>. HIDE DEF z
      <4>2. Expanded(W, z) \in Seq(Bytes) /\ Len(z) <= Len(Expanded(W, z))
        BY <1>3, <4>1, ExpandedType, ExpandedLength
      <4>. QED  BY <4>2 DEF z
    <3>. QED  BY <2>2, <3>1, <3>2
  <2>. HIDE DEF e, d, o
  <2>4. e \o d \in Seq(Bytes) /\ Len(e \o d) = Len(e) + Len(d) /\ o \o (e \o d) = P
    BY <2>1, <2>3, ConcatBytes DEF e, d, o
  <2>5. Len(P) = Len(o) + (Len(e) + Len(d))
    <3>. DEFINE f == e \o d
    <3>1. f \in Seq(Bytes) /\ Len(f) = Len(e) + Len(d) /\ P = o \o f
      BY <2>4
    <3>. HIDE DEF f
    <3>2. Len(o \o f) = Len(o) + Len(f)
      BY <2>2, <3>1, ConcatBytes
    <3>. QED  BY <3>1, <3>2
  <2>6. Len(o) \in Nat /\ Len(e) \in Nat /\ Len(d) \in Nat
    BY <2>2, <2>3
  <2>7. Progress(s) <= 2 * Len(P) /\ Progress(s) \in Nat
    <3>. DEFINE z == Len(s.stack)  lo == Len(o)  le == Len(e)  ld == Len(d)  lp == Len(P)
    <3>1. /\ Progress(s) = 2 * lo + z /\ lp = lo + (le + ld) /\ z <= le
          /\ z \in Nat /\ lo \in Nat /\ le \in Nat /\ ld \in Nat
      BY <2>3, <2>5, <2>6 DEF Progress, o
    <3>. HIDE DEF z, lo, le, ld, lp
    <3>2. 2 * lo + z <= 2 * lp /\ 2 * lo + z \in Nat
      BY <3>1
    <3>. QED  BY <3>1, <3>2 DEF lp
  <2>8. ASSUME Ends(s) PROVE o = P
    <3>1. e = <<>> /\ d = <<>>
      <4>1. CASE s.in = <<>> /\ s.stack = <<>>
        <5>1. j = n + 1
          <6>1. in[j] = <<>>
            BY <2>1, <4>1
          <6>2. \A i \in 1..n + 1 : in[i] = <<>> => i = n + 1
            BY <1>3, CodeFacts
          <6>. QED  BY <6>1, <6>2
        <5>2. d = <<>>
          BY <1>3, <5>1 DEF d
        <5>3. e = <<>>
          BY <4>1, ExpandedEmpty DEF e
        <5>. QED  BY <5>2, <5>3
      <4>2. CASE Len(o) = PageSize
        <5>. DEFINE lo == Len(o)  le == Len(e)  ld == Len(d)  lp == Len(P)
        <5>1. lp = lo + (le + ld) /\ lo = PageSize /\ lp <= PageSize
              /\ le \in Nat /\ ld \in Nat
          BY <2>5, <2>6, <4>2
        <5>. HIDE DEF lo, le, ld, lp
        <5>2. le = 0 /\ ld = 0
          BY <1>0, <5>1
        <5>3. Len(e) = 0 /\ Len(d) = 0
          BY <5>2 DEF le, ld
        <5>. QED  BY <2>3, <5>3
      <4>. QED  BY <2>8, <4>1, <4>2 DEF Ends, o
    <3>. QED  BY <1>5, <2>2, <2>4, <3>1
  <2>. QED  BY <2>7, <2>8 DEF o
<1>. DEFINE Ok(k) == Course(turn[k]) /\ (Ends(turn[k]) \/ Progress(turn[k]) >= k)
            Bad == {k \in 0..K : ~Ok(k)}
<1>8. Bad = {}
  <2>1. SUFFICES ASSUME Bad # {} PROVE FALSE
    OBVIOUS
  <2>2. PICK k \in Bad : \A i \in Bad : k <= i
    <3>1. Bad \in SUBSET Nat
      BY <1>0
    <3>. HIDE DEF Bad
    <3>. QED  BY <2>1, <3>1, LeastNatural
  <2>. HIDE DEF K
  <2>3. k \in 0..K /\ ~Ok(k)
    BY <2>2
  <2>4. k # 0
    <3>1. Ok(0)
      BY <1>6
    <3>. HIDE DEF Ok
    <3>. QED  BY <2>3, <3>1
  <2>5. k - 1 \in 0..K /\ k \in 1..K /\ ~(k <= k - 1) /\ (k - 1) + 1 = k
    BY <1>0, <2>3, <2>4
  <2>6. Ok(k - 1)
    <3>1. k - 1 \notin Bad
      <4>. HIDE DEF Bad
      <4>. QED  BY <2>2, <2>5
    <3>. HIDE DEF Ok
    <3>. QED  BY <2>5, <3>1
  <2>. DEFINE s == turn[k - 1]  t == turn[k]
  <2>7. /\ s \in States /\ t \in States /\ Course(s) /\ (Ends(s) \/ Progress(s) >= k - 1)
        /\ t = IF Ends(s) \/ Fails(page, s) THEN s ELSE Turn(page, s)
    BY <1>2, <2>5, <2>6
  <2>8. ~(Course(t) /\ (Ends(t) \/ Progress(t) >= k))
    BY <2>3
  <2>. HIDE DEF s, t, Ok, Bad
  <2>9. CASE Ends(s)
    BY <2>7, <2>8, <2>9
  <2>10. CASE ~Ends(s)
    <3>1. /\ ~Fails(page, s) /\ Course(Turn(page, s))
          /\ Progress(Turn(page, s)) >= Progress(s) + 1
      BY <2>7, <2>10, TurnOnCourse
    <3>2. t = Turn(page, s)
      BY <2>7, <2>10, <3>1
    <3>. DEFINE a == Progress(s)  b == Progress(t)
    <3>3. a \in Nat /\ b \in Nat /\ a >= k - 1 /\ b >= a + 1
      <4>1. Course(t)
        BY <3>1, <3>2
      <4>. HIDE DEF Course
      <4>. QED  BY <1>7, <2>7, <2>10, <3>1, <3>2, <4>1
    <3>4. b >= k
      <4>. HIDE DEF a, b
      <4>. QED  BY <2>3, <3>3
    <3>. QED  BY <2>8, <3>1, <3>2, <3>4
  <2>. QED  BY <2>9, <2>10
<1>9. Ok(K)
  <2>. HIDE DEF Ok, K
  <2>. QED  BY <1>0, <1>8
<1>10. Ends(turn[K])
  <2>1. SUFFICES ASSUME ~Ends(turn[K]) PROVE FALSE
    OBVIOUS
  <2>. DEFINE a == Progress(turn[K])  l == Len(P)
  <2>2. a >= K /\ a <= 2 * l /\ a \in Nat
    <3>1. Course(turn[K]) /\ turn[K] \in States /\ a >= K
      BY <1>0, <1>2, <1>9, <2>1
    <3>. HIDE DEF Course
    <3>. QED  BY <1>7, <3>1
  <2>3. l <= PageSize /\ l \in Nat
    BY <1>4
  <2>. HIDE DEF a, l, K
  <2>. QED  BY <1>0, <2>2, <2>3
<1>11. turn[K].out = P
  <2>1. Course(turn[K]) /\ turn[K] \in States
    BY <1>0, <1>2, <1>9
  <2>. HIDE DEF Course, P
  <2>. QED  BY <1>7, <1>10, <2>1
<1>. QED  BY <1>1, <1>10, <1>11

-----------------------------------------------------------------------------
(* The table                                                                *)

MeaningInv(W, R) ==
  /\ W \in [Bytes -> Seq(Bytes)] /\ R \in [Bytes -> 0..Len(tokens)]
  /\ \A b \in Bytes : W[b] # <<>>
  /\ \A b \in Bytes : (\A i \in 1..Len(tokens) : tokens[i][1] # b) => W[b] = <<b>>
  /\ \A i \in 1..Len(tokens) :
       /\ W[tokens[i][1]] = W[tokens[i][2][1]] \o W[tokens[i][2][2]]
       /\ R[tokens[i][2][1]] < R[tokens[i][1]] /\ R[tokens[i][2][2]] < R[tokens[i][1]]

TokenSet == {t[1] : t \in Range(tokens)}

LEMMA TokenSetFacts ==
  ASSUME UsedInv
  PROVE  /\ TokenSet = {tokens[i][1] : i \in 1..Len(tokens)} /\ TokenSet \in SUBSET Bytes
         /\ Cardinality(TokenSet) = Len(tokens)
         /\ Len(tokens) \in Nat /\ Len(tokens) <= StackSize
         /\ \A i \in 1..Len(tokens) : /\ tokens[i][1] \in Bytes /\ tokens[i][2] \in Pairs
                                      /\ tokens[i][2][1] \in Bytes /\ tokens[i][2][2] \in Bytes
<1>. DEFINE n == Len(tokens)  f == [i \in 1..n |-> tokens[i][1]]
<1>1. n \in Nat /\ DOMAIN tokens = 1..n /\ \A i \in 1..n : tokens[i] \in Bytes \X Pairs
  BY DEF UsedInv
<1>2. \A i \in 1..n : /\ tokens[i][1] \in Bytes /\ tokens[i][2] \in Pairs
                      /\ tokens[i][2][1] \in Bytes /\ tokens[i][2][2] \in Bytes
  <2>. SUFFICES ASSUME NEW i \in 1..n
                PROVE  /\ tokens[i][1] \in Bytes /\ tokens[i][2] \in Pairs
                       /\ tokens[i][2][1] \in Bytes /\ tokens[i][2][2] \in Bytes
    OBVIOUS
  <2>1. tokens[i][1] \in Bytes /\ tokens[i][2] \in Pairs
    BY <1>1
  <2>. QED  BY <2>1, PairIsSeq
<1>3. TokenSet = {tokens[i][1] : i \in 1..n}
  <2>1. Range(tokens) = {tokens[i] : i \in 1..n}
    BY <1>1 DEF Range
  <2>. QED  BY <2>1 DEF TokenSet
<1>4. TokenSet \in SUBSET Bytes
  BY <1>2, <1>3
<1>5. f \in Bijection(1..n, TokenSet)
  <2>1. f \in [1..n -> TokenSet] /\ \A b \in TokenSet : \E i \in 1..n : f[i] = b
    BY <1>3
  <2>2. \A i, j \in 1..n : f[i] = f[j] => i = j
    BY DEF UsedInv
  <2>. HIDE DEF f, n
  <2>. QED  BY <2>1, <2>2 DEF Bijection, Injection, Surjection, IsInjective
<1>6. Cardinality(TokenSet) = n
  <2>1. IsFiniteSet(1..n) /\ Cardinality(1..n) = n
    BY <1>1, FS_Interval
  <2>2. ExistsBijection(1..n, TokenSet)
    BY <1>5 DEF ExistsBijection
  <2>. HIDE DEF n
  <2>3. Cardinality(TokenSet) = Cardinality(1..n)
    BY <2>1, <2>2, FS_Bijection
  <2>. QED  BY <2>1, <2>3
<1>7. n <= StackSize
  <2>1. Cardinality(TokenSet) <= Cardinality(Bytes) /\ Cardinality(Bytes) \in Nat
    BY <1>4, CompressAssumption, FS_Subset, FS_CardinalityType
  <2>2. Cardinality(Bytes) <= StackSize /\ StackSize \in Nat
    BY SizesAssumption, CompressAssumption DEF StackAssumption
  <2>. DEFINE c == Cardinality(Bytes)
  <2>3. n <= c /\ c <= StackSize /\ c \in Nat
    BY <1>6, <2>1, <2>2
  <2>. HIDE DEF c, n
  <2>. QED  BY <1>1, <2>2, <2>3
<1>. QED  BY <1>1, <1>2, <1>3, <1>4, <1>6, <1>7

LEMMA PackedFacts ==
  ASSUME UsedInv, marker \in Bytes, stream \in Seq(Bytes)
  PROVE  /\ Packed \in PageSet /\ DOMAIN Packed.table = TokenSet
         /\ Packed.marker = marker /\ Packed.data = stream
         /\ \A i \in 1..Len(tokens) : Packed.table[tokens[i][1]] = tokens[i][2]
         /\ tokens # <<>> => Packed.table # <<>>
<1>. DEFINE n == Len(tokens)
            T == [b \in TokenSet |-> (CHOOSE t \in Range(tokens) : t[1] = b)[2]]
<1>1. Packed = [table |-> T, marker |-> marker, data |-> stream]
  BY DEF Packed, TokenSet
<1>2. Range(tokens) = {tokens[i] : i \in 1..n} /\ n \in Nat
  BY DEF Range, UsedInv
<1>3. /\ TokenSet = {tokens[i][1] : i \in 1..n} /\ TokenSet \in SUBSET Bytes
      /\ \A i \in 1..n : tokens[i][1] \in Bytes /\ tokens[i][2] \in Pairs
  BY TokenSetFacts
<1>4. ASSUME NEW i \in 1..n PROVE tokens[i][1] \in TokenSet /\ T[tokens[i][1]] = tokens[i][2]
  <2>. DEFINE b == tokens[i][1]  c == CHOOSE t \in Range(tokens) : t[1] = b
  <2>1. tokens[i] \in Range(tokens) /\ tokens[i][1] = b /\ b \in TokenSet
    BY <1>2, <1>3
  <2>2. c \in Range(tokens) /\ c[1] = b
    <3>. HIDE DEF b
    <3>. QED  BY <2>1
  <2>3. T[b] = c[2]
    BY <2>1
  <2>. HIDE DEF c, T
  <2>4. PICK k \in 1..n : c = tokens[k]
    BY <1>2, <2>2
  <2>5. k = i
    BY <2>2, <2>4 DEF UsedInv
  <2>. QED  BY <2>1, <2>3, <2>4, <2>5
<1>5. T \in [TokenSet -> Pairs] /\ DOMAIN T = TokenSet
  <2>1. \A b \in TokenSet : T[b] \in Pairs
    <3>. SUFFICES ASSUME NEW b \in TokenSet PROVE T[b] \in Pairs
      OBVIOUS
    <3>1. PICK i \in 1..n : b = tokens[i][1]
      BY <1>3
    <3>. HIDE DEF T
    <3>. QED  BY <1>3, <1>4, <3>1
  <2>2. T = [b \in TokenSet |-> T[b]]
    OBVIOUS
  <2>. HIDE DEF T
  <2>. QED  BY <2>1, <2>2
<1>6. tokens # <<>> => T # <<>>
  <2>. SUFFICES ASSUME tokens # <<>> PROVE T # <<>>
    OBVIOUS
  <2>1. 1 \in 1..n
    BY DEF UsedInv
  <2>2. TokenSet # {}
    BY <1>4, <2>1
  <2>3. DOMAIN <<>> = {}
    OBVIOUS
  <2>. HIDE DEF T
  <2>. QED  BY <1>5, <2>2, <2>3
<1>. HIDE DEF T
<1>7. Packed \in PageSet
  <2>1. T \in UNION {[X -> Pairs] : X \in SUBSET Bytes}
    BY <1>3, <1>5
  <2>. QED  BY <1>1, <2>1 DEF PageSet
<1>. QED  BY <1>1, <1>4, <1>5, <1>6, <1>7

LEMMA PackedExplained ==
  ASSUME UsedInv, marker \in Bytes, stream \in Seq(Bytes), NEW W, NEW R, MeaningInv(W, R)
  PROVE  Explains(Packed, W, R, Len(tokens))
<1>. DEFINE n == Len(tokens)  T == Packed.table
<1>1. /\ TokenSet = {tokens[i][1] : i \in 1..n} /\ TokenSet \in SUBSET Bytes /\ DOMAIN T = TokenSet
      /\ \A i \in 1..n : T[tokens[i][1]] = tokens[i][2]
  BY TokenSetFacts, PackedFacts
<1>. HIDE DEF T
<1>2. \A b \in Bytes \ DOMAIN T : W[b] = <<b>>
  BY <1>1 DEF MeaningInv
<1>3. ASSUME NEW b \in DOMAIN T
      PROVE  W[b] = W[T[b][1]] \o W[T[b][2]] /\ R[T[b][1]] < R[b] /\ R[T[b][2]] < R[b]
  <2>1. PICK i \in 1..n : b = tokens[i][1]
    BY <1>1
  <2>2. T[b] = tokens[i][2]
    BY <1>1, <2>1
  <2>3. /\ W[tokens[i][1]] = W[tokens[i][2][1]] \o W[tokens[i][2][2]]
        /\ R[tokens[i][2][1]] < R[tokens[i][1]] /\ R[tokens[i][2][2]] < R[tokens[i][1]]
    BY DEF MeaningInv
  <2>. QED  BY <2>1, <2>2, <2>3
<1>4. W \in [Bytes -> Seq(Bytes)] /\ R \in [Bytes -> 0..n] /\ \A b \in Bytes : W[b] # <<>>
  BY DEF MeaningInv
<1>. QED  BY <1>2, <1>3, <1>4 DEF Explains, T

\* The data of the page as it is when its last round is over stand for it.
LEMMA PackedDecodes ==
  ASSUME LoopInv, UsedInv, stream \in Seq(Bytes), NEW us, UnitsInv(us),
         NEW W, NEW R, MeaningInv(W, R), Value(W, marker, us) = ThisPage,
         Len(ThisPage) \in 1..PageSize, ~(Len(stream) > Len(ThisPage))
  PROVE  Decompress(Packed) = ThisPage
<1>. DEFINE n == Len(us)  m == marker  U == UnitSet(marker)  page == Packed
            in   == [j \in 1..n + 1 |-> FlattenSeq(Rest(us, j))]
            data == [j \in 1..n + 1 |-> Value(W, m, Rest(us, j))]
<1>0. m \in Bytes /\ us \in Seq(U) /\ stream = FlattenSeq(us) /\ W \in [Bytes -> Seq(Bytes)]
  BY DEF LoopInv, UnitsInv, MeaningInv
<1>1. n \in Nat /\ \A j \in 1..n : us[j] \in U
  BY <1>0, UnitsAreSeqs
<1>2. /\ Rest(us, 1) = us /\ Rest(us, n + 1) = <<>>
      /\ \A j \in 1..n + 1 : Rest(us, j) \in Seq(U)
      /\ \A j \in 1..n : Rest(us, j) = <<us[j]>> \o Rest(us, j + 1)
  <2>. HIDE DEF U
  <2>. QED  BY <1>0, RestFacts
<1>3. /\ page \in PageSet /\ page.marker = m /\ page.data = stream
      /\ tokens # <<>> => page.table # <<>>
  BY <1>0, PackedFacts
<1>. HIDE DEF page
<1>4. \A w \in Seq(U) : FlattenSeq(w) \in Seq(Bytes) /\ Value(W, m, w) \in Seq(Bytes)
                        /\ w \in Seq(Seq(Bytes))
  <2>. SUFFICES ASSUME NEW w \in Seq(U)
                PROVE  FlattenSeq(w) \in Seq(Bytes) /\ Value(W, m, w) \in Seq(Bytes)
                       /\ w \in Seq(Seq(Bytes))
    OBVIOUS
  <2>1. w \in Seq(Seq(Bytes))
    BY <1>0, UnitsAreSeqs
  <2>2. FlattenSeq(w) \in Seq(Bytes)
    BY <2>1, FlattenType
  <2>3. Value(W, m, w) \in Seq(Bytes)
    BY <1>0, ValueType
  <2>. QED  BY <2>1, <2>2, <2>3
<1>5. /\ in \in [1..n + 1 -> Seq(Bytes)] /\ data \in [1..n + 1 -> Seq(Bytes)]
      /\ \A j \in 1..n + 1 : in[j] = FlattenSeq(Rest(us, j)) /\ data[j] = Value(W, m, Rest(us, j))
  BY <1>2, <1>4
<1>. HIDE DEF in, data
<1>6. /\ in[1] = page.data /\ in[n + 1] = <<>> /\ data[n + 1] = <<>> /\ data[1] = ThisPage
  <2>1. 1 \in 1..n + 1 /\ n + 1 \in 1..n + 1
    BY <1>1
  <2>. QED  BY <1>0, <1>2, <1>3, <1>5, <2>1, FlattenEmpty, ValueEmpty
<1>7. ASSUME NEW j \in 1..n
      PROVE  \/ \E x \in Bytes : /\ ~(page.table # <<>> /\ x = page.marker)
                                 /\ in[j] = <<x>> \o in[j + 1] /\ data[j] = W[x] \o data[j + 1]
             \/ \E x \in Bytes : /\ page.table # <<>>
                                 /\ in[j] = <<page.marker>> \o (<<x>> \o in[j + 1])
                                 /\ data[j] = <<x>> \o data[j + 1]
  <2>. DEFINE u == us[j]  w == Rest(us, j + 1)
  <2>1. j \in 1..n + 1 /\ j + 1 \in 1..n + 1
    BY <1>1
  <2>2. u \in U /\ w \in Seq(U) /\ Rest(us, j) = <<u>> \o w
    BY <1>1, <1>2, <2>1
  <2>. HIDE DEF u, w
  <2>3. in[j] = u \o in[j + 1] /\ in[j + 1] \in Seq(Bytes)
    <3>1. u \in Seq(Bytes)
      BY <1>0, <2>2, UnitFacts
    <3>2. FlattenSeq(<<u>> \o w) = u \o FlattenSeq(w)
      BY <1>4, <2>2, <3>1, FlattenCons
    <3>. QED  BY <1>5, <2>1, <2>2, <3>2 DEF w
  <2>4. data[j] = ValueOf(W, m, u) \o data[j + 1]
    <3>1. Value(W, m, <<u>> \o w) = ValueOf(W, m, u) \o Value(W, m, w)
      BY <1>0, <2>2, ValueCons
    <3>. QED  BY <1>5, <2>1, <2>2, <3>1 DEF w
  <2>5. CASE u \in Single(m)
    <3>1. u = <<u[1]>> /\ u[1] \in Bytes /\ u[1] # m
      BY <1>0, <2>5, SingleFacts
    <3>2. u \notin Escape(m)
      BY <1>0, <2>5, NotEscape
    <3>3. ValueOf(W, m, u) = W[u[1]]
      BY <3>2 DEF ValueOf
    <3>. DEFINE x == u[1]
    <3>4. x \in Bytes /\ x # m /\ in[j] = <<x>> \o in[j + 1] /\ data[j] = W[x] \o data[j + 1]
      BY <2>3, <2>4, <3>1, <3>3
    <3>. HIDE DEF x
    <3>. QED  BY <1>3, <3>4
  <2>6. CASE u \in Escape(m)
    <3>1. u = <<m, u[2]>> /\ u[2] \in Bytes
      BY <1>0, <2>6, EscapeFacts
    <3>2. ValueOf(W, m, u) = <<u[2]>>
      BY <2>6 DEF ValueOf
    <3>3. page.table # <<>>
      <4>1. tokens # <<>>
        <5>. SUFFICES ASSUME tokens = <<>> PROVE FALSE
          OBVIOUS
        <5>1. Len(stream) <= Len(ThisPage)
          <6>1. stream \in Seq(Bytes)
            OBVIOUS
          <6>. DEFINE a == Len(stream)  b == Len(ThisPage)
          <6>2. a \in Nat /\ b \in Nat /\ ~(a > b)
            OBVIOUS
          <6>. HIDE DEF a, b
          <6>3. a <= b
            BY <6>2
          <6>. QED  BY <6>3 DEF a, b
        <5>2. NoEscapes(us)
          BY <5>1 DEF UnitsInv
        <5>3. u \in Single(m)
          BY <5>2 DEF NoEscapes, u
        <5>. QED  BY <1>0, <2>6, <5>3, NotEscape
      <4>. QED  BY <1>3, <4>1
    <3>. DEFINE x == u[2]
    <3>4. x \in Bytes /\ in[j] = <<m, x>> \o in[j + 1] /\ data[j] = <<x>> \o data[j + 1]
      BY <2>3, <2>4, <3>1, <3>2
    <3>. HIDE DEF x
    <3>5. <<m, x>> \o in[j + 1] = <<m>> \o (<<x>> \o in[j + 1])
      BY <1>0, <2>3, <3>4, TwoCons
    <3>6. in[j] = <<page.marker>> \o (<<x>> \o in[j + 1])
      BY <1>3, <3>4, <3>5
    <3>. QED  BY <3>3, <3>4, <3>6
  <2>. QED  BY <2>2, <2>5, <2>6 DEF U, UnitSet
<1>8. IsCode(page, W, n, in, data)
  BY <1>1, <1>5, <1>6, <1>7 DEF IsCode
<1>9. Explains(page, W, R, Len(tokens)) /\ Len(tokens) \in Nat /\ Len(tokens) <= StackSize
  BY <1>0, PackedExplained, TokenSetFacts DEF page
<1>10. Len(data[1]) <= PageSize
  <2>1. PageSize \in Nat
    BY CompressAssumption
  <2>. QED  BY <1>6, <2>1
<1>11. Decompress(page) = data[1]
  <2>. DEFINE N == Len(tokens)
  <2>1. N \in Nat /\ N <= StackSize /\ Explains(page, W, R, N)
    BY <1>9
  <2>. HIDE DEF N, n
  <2>. QED  BY <1>3, <1>8, <1>10, <2>1, Decodes
<1>. QED  BY <1>6, <1>11 DEF page

\* A page that is stored as it is decompresses to itself.
LEMMA PlainDecodes ==
  ASSUME NEW m \in Bytes, NEW P \in Seq(Bytes), Len(P) <= PageSize
  PROVE  /\ [table |-> <<>>, marker |-> m, data |-> P] \in PageSet
         /\ Decompress([table |-> <<>>, marker |-> m, data |-> P]) = P
<1>. DEFINE page == [table |-> <<>>, marker |-> m, data |-> P]
            n == Len(P)  W == [b \in Bytes |-> <<b>>]  R == [b \in Bytes |-> 0]
            in == [j \in 1..n + 1 |-> Rest(P, j)]
<1>1. /\ page \in PageSet /\ page.table = <<>> /\ page.marker = m /\ page.data = P
      /\ DOMAIN page.table = {}
  <2>1. <<>> \in [{} -> Pairs] /\ {} \in SUBSET Bytes /\ DOMAIN <<>> = {}
    OBVIOUS
  <2>2. <<>> \in UNION {[X -> Pairs] : X \in SUBSET Bytes}
    BY <2>1
  <2>. QED  BY <2>1, <2>2 DEF PageSet
<1>. HIDE DEF page
<1>2. Explains(page, W, R, 0)
  <2>1. \A b \in Bytes : W[b] = <<b>> /\ <<b>> # <<>>
    OBVIOUS
  <2>2. W \in [Bytes -> Seq(Bytes)] /\ R \in [Bytes -> 0..0]
    OBVIOUS
  <2>. HIDE DEF W, R
  <2>. QED  BY <1>1, <2>1, <2>2 DEF Explains
<1>3. /\ n \in Nat /\ Rest(P, 1) = P /\ Rest(P, n + 1) = <<>>
      /\ \A j \in 1..n + 1 : Rest(P, j) \in Seq(Bytes)
      /\ \A j \in 1..n : Rest(P, j) = <<P[j]>> \o Rest(P, j + 1)
  BY RestFacts
<1>4. IsCode(page, W, n, in, in)
  <2>1. in \in [1..n + 1 -> Seq(Bytes)] /\ \A j \in 1..n + 1 : in[j] = Rest(P, j)
    BY <1>3
  <2>. HIDE DEF in
  <2>2. 1 \in 1..n + 1 /\ n + 1 \in 1..n + 1
    BY <1>3
  <2>3. ASSUME NEW j \in 1..n
        PROVE  \E x \in Bytes : /\ ~(page.table # <<>> /\ x = page.marker)
                                /\ in[j] = <<x>> \o in[j + 1] /\ in[j] = W[x] \o in[j + 1]
    <3>1. j \in 1..n + 1 /\ j + 1 \in 1..n + 1 /\ P[j] \in Bytes
      BY <1>3
    <3>2. W[P[j]] = <<P[j]>>
      BY <3>1
    <3>. HIDE DEF W
    <3>3. in[j] = <<P[j]>> \o in[j + 1] /\ in[j] = W[P[j]] \o in[j + 1]
      BY <1>3, <2>1, <3>1, <3>2
    <3>. QED  BY <1>1, <3>1, <3>3
  <2>. HIDE DEF W
  <2>. QED  BY <1>1, <1>3, <2>1, <2>2, <2>3 DEF IsCode
<1>5. in[1] = P
  BY <1>3
<1>6. Decompress(page) = in[1]
  <2>1. 0 \in Nat /\ 0 <= StackSize
    BY CompressAssumption
  <2>2. Len(in[1]) <= PageSize
    BY <1>5
  <2>. HIDE DEF in, W, R, n
  <2>. QED  BY <1>1, <1>2, <1>4, <2>1, <2>2, Decodes
<1>. QED  BY <1>1, <1>5, <1>6 DEF page

LEMMA StoredFacts ==
  ASSUME LoopInv, UsedInv, CostInv, NEW us, UnitsInv(us),
         NEW W, NEW R, MeaningInv(W, R), Value(W, marker, us) = ThisPage,
         ThisPage \in Seq(Bytes), Len(ThisPage) \in 1..PageSize
  PROVE  /\ Stored \in PageSet /\ Decompress(Stored) = ThisPage
         /\ Size(Stored) <= Len(ThisPage) + 1
<1>1. marker \in Bytes /\ stream \in Seq(Bytes) /\ Len(ThisPage) <= PageSize
  <2>1. stream = FlattenSeq(us) /\ us \in Seq(UnitSet(marker)) /\ marker \in Bytes
    BY DEF UnitsInv, LoopInv
  <2>2. us \in Seq(Seq(Bytes))
    BY <2>1, UnitsAreSeqs
  <2>3. PageSize \in Nat
    BY CompressAssumption
  <2>. QED  BY <2>1, <2>2, <2>3, FlattenType
<1>. DEFINE L == Len(stream)  P == Len(ThisPage)
<1>2. CASE L > P
  <2>. DEFINE page == [table |-> <<>>, marker |-> marker, data |-> ThisPage]
  <2>1. Stored = page
    BY <1>2 DEF Stored
  <2>2. page \in PageSet /\ Decompress(page) = ThisPage
    BY <1>1, PlainDecodes
  <2>3. Size(page) <= P + 1
    <3>1. DOMAIN page.table = {} /\ page.data = ThisPage
      OBVIOUS
    <3>2. Cardinality(DOMAIN page.table) = 0
      BY <3>1, FS_EmptySet
    <3>. HIDE DEF page
    <3>3. Size(page) = P + 1
      BY <3>1, <3>2 DEF Size
    <3>4. P \in Nat
      OBVIOUS
    <3>. HIDE DEF P
    <3>. QED  BY <3>3, <3>4
  <2>. QED  BY <2>1, <2>2, <2>3
<1>3. CASE ~(L > P)
  <2>1. Stored = Packed
    BY <1>3 DEF Stored
  <2>2. Packed \in PageSet /\ Packed.data = stream /\ DOMAIN Packed.table = TokenSet
    BY <1>1, PackedFacts
  <2>3. Decompress(Packed) = ThisPage
    BY <1>1, <1>3, PackedDecodes
  <2>4. Cardinality(TokenSet) = Len(tokens) /\ Len(tokens) \in Nat
    BY TokenSetFacts
  <2>. DEFINE n == Len(tokens)
  <2>5. Size(Packed) = L + TableSize(n)
    <3>1. Cardinality(DOMAIN Packed.table) = n
      BY <2>2, <2>4
    <3>. QED  BY <2>2, <3>1 DEF Size, TableSize
  <2>6. L + TableSize(n) <= P + 1
    <3>1. CASE tokens = <<>>
      <4>1. n = 0 /\ TableSize(n) = 1
        BY <3>1 DEF TableSize
      <4>2. L \in Nat /\ P \in Nat /\ ~(L > P)
        BY <1>1, <1>3
      <4>. HIDE DEF n, L, P
      <4>3. L + 1 <= P + 1
        BY <4>2
      <4>. QED  BY <4>1, <4>3
    <3>2. CASE tokens # <<>>
      BY <3>2 DEF CostInv
    <3>. QED  BY <3>1, <3>2
  <2>. QED  BY <2>1, <2>2, <2>3, <2>5, <2>6
<1>. QED  BY <1>2, <1>3

-----------------------------------------------------------------------------
(* The invariant is inductive                                               *)

RoundsInv ==
  /\ LoopInv /\ UsedInv /\ CostInv
  /\ \E us, W, R : /\ UnitsInv(us) /\ MeaningInv(W, R)
                   /\ Value(W, marker, us) = ThisPage

\* What holds between two steps.  While a page is in rounds there are units that
\* its data are, and a meaning of the bytes by which the units stand for the page.
IInv ==
  /\ PagesInv /\ RoundTrip /\ NeverLarger
  /\ work = "rounds" => RoundsInv

\* An escaped page stands for the page.
LEMMA EscapedValue ==
  ASSUME NEW m \in Bytes, NEW P \in Seq(Bytes),
         NEW W \in [Bytes -> Seq(Bytes)], \A b \in Bytes : W[b] = <<b>>
  PROVE  Value(W, m, EscapedUnits(P, m)) = P
<1>. DEFINE us == EscapedUnits(P, m)  n == Len(us)
            A(j) == Value(W, m, Rest(us, j))
            B(j) == Rest(P, j)
            Bad == {j \in 1..n + 1 : A(j) # B(j)}
<1>0. /\ us \in Seq(UnitSet(m)) /\ n = Len(P) /\ n \in Nat
      /\ \A i \in 1..n : /\ P[i] = m => us[i] = <<m, m>>
                         /\ P[i] # m => us[i] = <<P[i]>>
  <2>1. Len(P) \in Nat
    OBVIOUS
  <2>2. /\ us \in Seq(UnitSet(m)) /\ Len(us) = Len(P)
        /\ \A i \in 1..Len(P) : /\ P[i] = m => us[i] = <<m, m>>
                                /\ P[i] # m => us[i] = <<P[i]>>
    BY EscapedFacts
  <2>. HIDE DEF us
  <2>. QED  BY <2>1, <2>2
<1>. HIDE DEF us
<1>1. /\ Rest(us, 1) = us /\ Rest(us, n + 1) = <<>>
      /\ \A j \in 1..n + 1 : Rest(us, j) \in Seq(UnitSet(m))
      /\ \A j \in 1..n : Rest(us, j) = <<us[j]>> \o Rest(us, j + 1)
  <2>. DEFINE U == UnitSet(m)
  <2>1. us \in Seq(U)
    BY <1>0
  <2>. HIDE DEF U
  <2>2. /\ Rest(us, 1) = us /\ Rest(us, n + 1) = <<>>
        /\ \A j \in 1..n + 1 : Rest(us, j) \in Seq(U)
        /\ \A j \in 1..n : Rest(us, j) = <<us[j]>> \o Rest(us, j + 1)
    BY <2>1, RestFacts
  <2>. QED  BY <2>2 DEF U
<1>2. /\ Rest(P, 1) = P /\ Rest(P, Len(P) + 1) = <<>>
      /\ \A j \in 1..Len(P) : Rest(P, j) = <<P[j]>> \o Rest(P, j + 1)
  BY RestFacts
<1>. HIDE DEF n
<1>3. ASSUME NEW i \in 1..n
      PROVE  us[i] \in UnitSet(m) /\ ValueOf(W, m, us[i]) = <<P[i]>>
  <2>0. P[i] \in Bytes
    BY <1>0
  <2>1. CASE P[i] = m
    <3>1. us[i] = <<m, m>> /\ <<m, m>> \in Escape(m) /\ <<m, m>> \in UnitSet(m)
      BY <1>0, <2>1, EscapeIn
    <3>2. <<m, m>>[2] = m
      OBVIOUS
    <3>. QED  BY <2>1, <3>1, <3>2 DEF ValueOf
  <2>2. CASE P[i] # m
    <3>1. us[i] = <<P[i]>> /\ <<P[i]>> \in Single(m) /\ <<P[i]>> \in UnitSet(m)
      BY <1>0, <2>0, <2>2, SingleIn
    <3>2. <<P[i]>> \notin Escape(m)
      BY <3>1, NotEscape
    <3>3. <<P[i]>>[1] = P[i]
      OBVIOUS
    <3>. QED  BY <2>0, <3>1, <3>2, <3>3 DEF ValueOf
  <2>. QED  BY <2>1, <2>2
<1>4. Bad = {}
  <2>1. SUFFICES ASSUME Bad # {} PROVE FALSE
    OBVIOUS
  <2>2. PICK j \in Bad : \A i \in Bad : i <= j
    <3>1. Bad \in SUBSET (0..n + 1) /\ n + 1 \in Nat
      BY <1>0
    <3>. HIDE DEF Bad
    <3>. QED  BY <2>1, <3>1, GreatestNatural
  <2>3. j \in 1..n + 1 /\ A(j) # B(j)
    BY <2>2
  <2>4. j # n + 1
    <3>1. A(n + 1) = <<>> /\ B(n + 1) = <<>>
      BY <1>0, <1>1, <1>2, ValueEmpty DEF n
    <3>. HIDE DEF A, B
    <3>. QED  BY <2>3, <3>1
  <2>5. j \in 1..n /\ j + 1 \in 1..n + 1 /\ ~(j + 1 <= j)
    BY SMTT(60), <1>0, <2>3, <2>4
  <2>6. A(j + 1) = B(j + 1)
    <3>1. j + 1 \notin Bad
      <4>. HIDE DEF Bad
      <4>. QED  BY <2>2, <2>5
    <3>. HIDE DEF A, B
    <3>. QED  BY <2>5, <3>1
  <2>7. A(j) = <<P[j]>> \o A(j + 1)
    <3>. DEFINE u == us[j]  w == Rest(us, j + 1)
    <3>1. u \in UnitSet(m) /\ w \in Seq(UnitSet(m)) /\ Rest(us, j) = <<u>> \o w
      BY <1>1, <1>3, <2>3, <2>5
    <3>. HIDE DEF u, w
    <3>2. Value(W, m, <<u>> \o w) = ValueOf(W, m, u) \o Value(W, m, w)
      BY <3>1, ValueCons
    <3>. QED  BY <1>3, <2>5, <3>1, <3>2 DEF u, w
  <2>8. B(j) = <<P[j]>> \o B(j + 1)
    BY <1>0, <1>2, <2>5 DEF n
  <2>. HIDE DEF A, B
  <2>. QED  BY <2>3, <2>6, <2>7, <2>8
<1>5. 1 \in 1..n + 1
  BY <1>0
<1>6. A(1) = B(1)
  <2>. HIDE DEF A, B
  <2>. QED  BY <1>4, <1>5
<1>. QED  BY <1>1, <1>2, <1>6 DEF us

LEMMA InitInv == Init => IInv
<1>. SUFFICES ASSUME Init PROVE IInv
  OBVIOUS
<1>1. bytes \in Seq(Bytes) /\ pages = <<>> /\ work = "page"
  BY CompressAssumption DEF Init
<1>2. PagesInv
  BY <1>1 DEF PagesInv
<1>3. DOMAIN pages = {}
  BY <1>1
<1>. QED  BY <1>1, <1>2, <1>3 DEF IInv, RoundTrip, NeverLarger

LEMMA StartPageStep ==
  ASSUME IInv, StartPage
  PROVE  IInv'
<1>. DEFINE P == ThisPage  count == CountBytes(P)  mk == LeastCommonByte(count)
<1>0. /\ bytes \in Seq(Bytes) /\ pages \in Seq(PageSet) /\ Len(pages) \in Nat
      /\ Len(pages) * PageSize < Len(bytes) /\ RoundTrip /\ NeverLarger
  BY DEF IInv, PagesInv, StartPage
<1>1. P \in Seq(Bytes) /\ Len(P) \in 1..PageSize
  BY <1>0, PageFacts
<1>2. bytes' = bytes /\ pages' = pages /\ ThisPage' = P /\ work' = "rounds" /\ tokens' = <<>>
  BY DEF StartPage, ThisPage, Page
<1>3. PagesInv' /\ RoundTrip' /\ NeverLarger'
  BY <1>0, <1>2 DEF PagesInv, RoundTrip, NeverLarger, Page
<1>4. PICK m : m = mk
  OBVIOUS
<1>5. count \in [Bytes -> Nat]
  <2>1. PICK b \in Bytes : TRUE
    BY SomeByte
  <2>. HIDE DEF P
  <2>. QED  BY <1>1, <2>1, EscapedFacts
<1>6. m \in Bytes /\ \A c \in Bytes : count[m] <= count[c]
  <2>. HIDE DEF count
  <2>. QED  BY <1>4, <1>5, LeastExists
<1>7. PICK us : us = EscapedUnits(P, m)
  OBVIOUS
<1>8. /\ us \in Seq(UnitSet(m)) /\ Len(us) = Len(P) /\ Escaped(P, m) = FlattenSeq(us)
      /\ \A b \in Bytes : b # m => Alone(us, b) = count[b]
      /\ Cardinality(EscapesOf(m, us)) = count[m]
      /\ \A i \in 1..Len(P) : P[i] # m => us[i] = <<P[i]>>
  <2>. HIDE DEF P
  <2>. QED  BY <1>1, <1>6, <1>7, EscapedFacts
<1>9. Len(FlattenSeq(us)) = Len(P) + count[m] /\ count[m] \in 0..Len(P)
  BY <1>6, <1>8, LengthOfUnits
<1>10. us # <<>>
  BY <1>1, <1>8
<1>11. /\ marker' = m /\ overhead' = 1 + TokenCost + count[m]
       /\ byteCount' = [count EXCEPT ![m] = Used]
       /\ stream' = FlattenSeq(us) /\ pairCount' = InitPairCount(stream', m)
  BY <1>4, <1>8 DEF StartPage
<1>12. pairCount' = Counted(us)
  BY <1>6, <1>8, <1>10, <1>11, CountsSame
<1>. DEFINE cm == count[m]  L == Len(P)
<1>13. cm \in Nat /\ cm <= L /\ L \in Nat /\ L <= PageSize /\ PageSize \in Nat /\ TokenCost \in Nat
       /\ Used \in Nat
  BY <1>1, <1>9, CompressAssumption DEF Used
<1>14. LoopInv'
  <2>1. Len(stream') <= 2 * PageSize
    <3>1. Len(stream') = L + cm
      BY <1>9, <1>11
    <3>. HIDE DEF L, cm
    <3>2. L + cm <= 2 * PageSize
      BY <1>13
    <3>. QED  BY <3>1, <3>2
  <2>2. overhead' \in Nat
    <3>1. overhead' = 1 + TokenCost + cm
      BY <1>11
    <3>. HIDE DEF cm
    <3>. QED  BY <1>13, <3>1
  <2>3. byteCount' \in [Bytes -> Nat] /\ byteCount'[m] = Used
    <3>. HIDE DEF count
    <3>. QED  BY <1>5, <1>6, <1>11, <1>13
  <2>. QED  BY <1>6, <1>11, <2>1, <2>2, <2>3 DEF LoopInv
<1>15. UsedInv'
  <2>1. Len(tokens') = 0 /\ tokens' \in Seq(Bytes \X Pairs)
    BY <1>2
  <2>2. \A i \in 1..Len(tokens') : FALSE
    BY <2>1
  <2>. QED  BY <2>1, <2>2 DEF UsedInv
<1>16. CostInv'
  <2>1. Len(stream') = L + cm /\ overhead' = 1 + TokenCost + cm /\ Len(ThisPage') = L
    BY <1>2, <1>9, <1>11
  <2>. HIDE DEF L, cm
  <2>2. (L + cm) + 1 + TokenCost = L + (1 + TokenCost + cm)
    BY <1>13
  <2>. QED  BY <1>2, <2>1, <2>2 DEF CostInv
<1>17. cm = 0 => \A i \in 1..Len(us) : us[i] \in Single(m)
  <2>. SUFFICES ASSUME cm = 0, NEW i \in 1..Len(us) PROVE us[i] \in Single(m)
    OBVIOUS
  <2>1. IsFiniteSet(EscapesOf(m, us))
    <3>1. Len(us) \in Nat
      BY <1>8, <1>13
    <3>2. IsFiniteSet(1..Len(us)) /\ EscapesOf(m, us) \in SUBSET (1..Len(us))
      BY <3>1, FS_Interval DEF EscapesOf
    <3>. QED  BY <3>2, FS_Subset
  <2>2. EscapesOf(m, us) = {}
    BY <1>8, <2>1, FS_EmptySet
  <2>3. us[i] \notin Escape(m)
    BY <2>2 DEF EscapesOf
  <2>4. us[i] \in UnitSet(m)
    BY <1>6, <1>8, UnitsAreSeqs
  <2>. QED  BY <2>3, <2>4 DEF UnitSet
<1>18. UnitsInv(us)'
  <2>1. \A b \in Bytes : byteCount'[b] # Used => byteCount'[b] = Alone(us, b)
    <3>. HIDE DEF count
    <3>. QED  BY <1>5, <1>6, <1>8, <1>11
  <2>2. (\E b \in Bytes : byteCount'[b] = 0) => NoEscapes(us)'
    <3>. SUFFICES ASSUME NEW b \in Bytes, byteCount'[b] = 0 PROVE NoEscapes(us)'
      OBVIOUS
    <3>1. b # m
      <4>1. byteCount'[m] = Used
        <5>. HIDE DEF count
        <5>. QED  BY <1>5, <1>6, <1>11
      <4>. QED  BY <4>1 DEF Used
    <3>2. count[b] = 0
      <4>. HIDE DEF count
      <4>. QED  BY <1>5, <1>6, <1>11, <3>1
    <3>3. cm = 0
      <4>1. cm <= 0
        BY <1>6, <3>2
      <4>. HIDE DEF cm
      <4>. QED  BY <1>13, <4>1
    <3>. QED  BY <1>11, <1>17, <3>3 DEF NoEscapes
  <2>3. Len(stream') <= Len(ThisPage') => NoEscapes(us)'
    <3>. SUFFICES ASSUME Len(stream') <= Len(ThisPage') PROVE NoEscapes(us)'
      OBVIOUS
    <3>1. L + cm <= L
      BY <1>2, <1>9, <1>11
    <3>2. cm = 0
      <4>. HIDE DEF L, cm
      <4>. QED  BY <1>13, <3>1
    <3>. QED  BY <1>11, <1>17, <3>2 DEF NoEscapes
  <2>. QED  BY <1>8, <1>10, <1>11, <1>12, <2>1, <2>2, <2>3 DEF UnitsInv
<1>19. PICK W : W = [b \in Bytes |-> <<b>>]
  OBVIOUS
<1>20. PICK R : R = [b \in Bytes |-> 0]
  OBVIOUS
<1>21. /\ W \in [Bytes -> Seq(Bytes)] /\ \A b \in Bytes : W[b] = <<b>> /\ W[b] # <<>>
       /\ R \in [Bytes -> 0..0]
  BY <1>19, <1>20
<1>22. MeaningInv(W, R)'
  <2>1. Len(tokens') = 0
    BY <1>2
  <2>2. \A i \in 1..Len(tokens') : FALSE
    BY <2>1
  <2>. QED  BY <1>21, <2>1, <2>2 DEF MeaningInv
<1>23. Value(W, m, us) = P
  <2>. HIDE DEF P
  <2>. QED  BY <1>1, <1>6, <1>7, <1>21, EscapedValue
<1>24. RoundsInv'
  <2>1. Value(W, marker', us) = ThisPage'
    BY <1>2, <1>11, <1>23
  <2>. QED  BY <1>14, <1>15, <1>16, <1>18, <1>22, <2>1 DEF RoundsInv
<1>. QED  BY <1>3, <1>24 DEF IInv

LEMMA AddPageStep ==
  ASSUME IInv, AddPage
  PROVE  IInv'
<1>0. /\ bytes \in Seq(Bytes) /\ pages \in Seq(PageSet) /\ Len(pages) \in Nat
      /\ Len(pages) * PageSize < Len(bytes) /\ RoundTrip /\ NeverLarger /\ RoundsInv
  BY DEF IInv, PagesInv, AddPage
<1>1. ThisPage \in Seq(Bytes) /\ Len(ThisPage) \in 1..PageSize
  BY <1>0, PageFacts
<1>2. bytes' = bytes /\ pages' = Append(pages, Stored) /\ work' = "page"
  BY DEF AddPage
<1>3. /\ Stored \in PageSet /\ Decompress(Stored) = ThisPage
      /\ Size(Stored) <= Len(ThisPage) + 1
  <2>1. PICK us, W, R : /\ UnitsInv(us) /\ MeaningInv(W, R)
                        /\ Value(W, marker, us) = ThisPage
    BY <1>0 DEF RoundsInv
  <2>2. LoopInv /\ UsedInv /\ CostInv
    BY <1>0 DEF RoundsInv
  <2>. QED  BY <1>1, <2>1, <2>2, StoredFacts
<1>. DEFINE n == Len(pages)
<1>4. /\ pages' \in Seq(PageSet) /\ DOMAIN pages' = 1..n + 1
      /\ \A i \in 1..n : pages'[i] = pages[i] /\ i \in DOMAIN pages
      /\ pages'[n + 1] = Stored
  BY <1>0, <1>2, <1>3, AppendProperties
<1>5. \A i : Page(i)' = Page(i)
  BY <1>2 DEF Page
<1>6. ThisPage = Page(n + 1)
  BY DEF ThisPage
<1>7. ASSUME NEW i \in DOMAIN pages'
      PROVE  Decompress(pages'[i]) = Page(i) /\ Size(pages'[i]) <= Len(Page(i)) + 1
  <2>1. CASE i = n + 1
    BY <1>3, <1>4, <1>6, <2>1
  <2>2. CASE i # n + 1
    <3>1. i \in 1..n
      BY <1>0, <1>4, <2>2
    <3>. QED  BY <1>0, <1>4, <3>1 DEF RoundTrip, NeverLarger
  <2>. QED  BY <2>1, <2>2
<1>8. RoundTrip' /\ NeverLarger'
  <2>1. RoundTrip'
    BY <1>5, <1>7 DEF RoundTrip
  <2>2. NeverLarger'
    BY <1>5, <1>7 DEF NeverLarger
  <2>. QED  BY <2>1, <2>2
<1>9. PagesInv'
  BY <1>0, <1>2, <1>4 DEF PagesInv
<1>. QED  BY <1>2, <1>8, <1>9 DEF IInv

\* A token more costs the table no more than the overhead of its round.
LEMMA TableGrows ==
  /\ TableSize(1) <= 2 + TokenCost
  /\ \A n \in Nat \ {0} :
       /\ TableSize(n) \in Nat /\ TableSize(n + 1) \in Nat
       /\ n < MaskSize => TableSize(n + 1) <= TableSize(n) + TokenCost
       /\ ~(n < MaskSize) => TableSize(n + 1) <= TableSize(n) + (TokenCost - 1)
<1>0. TokenCost \in Nat /\ TokenCost > 0 /\ MaskSize \in Nat
  BY CompressAssumption
<1>1. TableSize(1) <= 2 + TokenCost
  BY <1>0 DEF TableSize
<1>2. ASSUME NEW n \in Nat \ {0}
      PROVE  /\ TableSize(n) \in Nat /\ TableSize(n + 1) \in Nat
             /\ n < MaskSize => TableSize(n + 1) <= TableSize(n) + TokenCost
             /\ ~(n < MaskSize) => TableSize(n + 1) <= TableSize(n) + (TokenCost - 1)
  <2>. DEFINE T == TokenCost  M == MaskSize
              a == T * n  a1 == T * (n + 1)  b == (T - 1) * n  b1 == (T - 1) * (n + 1)
  <2>1. n \in Nat /\ n > 0 /\ n # 0 /\ n + 1 # 0
    OBVIOUS
  <2>2. a \in Nat /\ b \in Nat /\ a1 = a + T /\ b1 = b + (T - 1)
    BY <1>0
  <2>3. n + 1 = M => M + b1 = a1
    BY <1>0
  <2>4. /\ TableSize(n) = IF n < M THEN 2 + a ELSE 2 + M + b
        /\ TableSize(n + 1) = IF n + 1 < M THEN 2 + a1 ELSE 2 + M + b1
    BY <2>1 DEF TableSize
  <2>. HIDE DEF a, a1, b, b1
  <2>. QED  BY <1>0, <2>1, <2>2, <2>3, <2>4
<1>. QED  BY <1>1, <1>2

Added(k, p) == tokens' = Append(tokens, <<k, p>>)

NewMeaning(W, k, p) == \E X, Q : MeaningInv(X, Q)' /\ TokenMeans(W, X, k, p)

\* A round's token, and what it does to the meaning of the bytes.
LEMMA RoundMeaning ==
  ASSUME UsedInv, NEW W, NEW R, MeaningInv(W, R), NEW p \in Pairs,
         NEW k \in Bytes, byteCount[k] # Used, k # p[1], k # p[2],
         Added(k, p)
  PROVE  NewMeaning(W, k, p)
<1>. PICK X : X = [W EXCEPT ![k] = W[p[1]] \o W[p[2]]]
  OBVIOUS
<1>. PICK Q : Q = [R EXCEPT ![k] = Len(tokens) + 1]
  OBVIOUS
<1>a. tokens' = Append(tokens, <<k, p>>)
  BY DEF Added
<1>. DEFINE n == Len(tokens)
<1>0. /\ n \in Nat /\ tokens \in Seq(Bytes \X Pairs)
      /\ \A i \in 1..n : /\ byteCount[tokens[i][1]] = Used
                         /\ byteCount[tokens[i][2][1]] = Used /\ byteCount[tokens[i][2][2]] = Used
      /\ \A i \in 1..n : /\ tokens[i][1] \in Bytes /\ tokens[i][2] \in Pairs
                         /\ tokens[i][2][1] \in Bytes /\ tokens[i][2][2] \in Bytes
  BY TokenSetFacts DEF UsedInv
<1>1. \A i \in 1..n : tokens[i][1] # k /\ tokens[i][2][1] # k /\ tokens[i][2][2] # k
  BY <1>0
<1>2. /\ W \in [Bytes -> Seq(Bytes)] /\ R \in [Bytes -> 0..n] /\ \A b \in Bytes : W[b] # <<>>
      /\ \A b \in Bytes : (\A i \in 1..n : tokens[i][1] # b) => W[b] = <<b>>
      /\ \A i \in 1..n :
           /\ W[tokens[i][1]] = W[tokens[i][2][1]] \o W[tokens[i][2][2]]
           /\ R[tokens[i][2][1]] < R[tokens[i][1]] /\ R[tokens[i][2][2]] < R[tokens[i][1]]
  BY DEF MeaningInv
<1>3. W[k] = <<k>>
  BY <1>1, <1>2
<1>4. p[1] \in Bytes /\ p[2] \in Bytes /\ W[p[1]] \in Seq(Bytes) /\ W[p[2]] \in Seq(Bytes)
      /\ W[p[1]] # <<>>
  <2>1. p[1] \in Bytes /\ p[2] \in Bytes
    BY PairIsSeq
  <2>. QED  BY <1>2, <2>1
<1>5. W[p[1]] \o W[p[2]] \in Seq(Bytes) /\ W[p[1]] \o W[p[2]] # <<>>
  <2>. DEFINE x == W[p[1]]  y == W[p[2]]
  <2>1. x \in Seq(Bytes) /\ y \in Seq(Bytes) /\ x # <<>>
    BY <1>4
  <2>. HIDE DEF x, y
  <2>2. x \o y \in Seq(Bytes) /\ Len(x \o y) = Len(x) + Len(y)
    BY <2>1, ConcatBytes
  <2>3. Len(x) \in Nat /\ Len(x) > 0 /\ Len(y) \in Nat
    BY <2>1
  <2>4. x \o y # <<>>
    <3>1. Len(x \o y) # 0
      BY <2>2, <2>3
    <3>. QED  BY <3>1
  <2>. QED  BY <2>2, <2>4 DEF x, y
<1>. DEFINE xy == W[p[1]] \o W[p[2]]
<1>6. /\ X \in [Bytes -> Seq(Bytes)] /\ X[k] = xy /\ \A b \in Bytes : b # k => X[b] = W[b]
      /\ \A b \in Bytes : X[b] # <<>>
  <2>1. xy \in Seq(Bytes) /\ xy # <<>> /\ X = [W EXCEPT ![k] = xy]
    BY <1>5
  <2>. HIDE DEF xy
  <2>. QED  BY <1>2, <2>1
<1>7. /\ Q \in [Bytes -> 0..n + 1] /\ Q[k] = n + 1
      /\ \A b \in Bytes : b # k => Q[b] = R[b] /\ R[b] \in 0..n
  <2>. DEFINE x == n + 1
  <2>1. Q = [R EXCEPT ![k] = x] /\ R \in [Bytes -> 0..n] /\ n \in Nat
    BY <1>0, <1>2
  <2>2. x \in 0..n + 1 /\ \A i \in 0..n : i \in 0..n + 1
    BY <2>1
  <2>3. R \in [Bytes -> 0..n + 1]
    BY <2>1, <2>2
  <2>. HIDE DEF x, n
  <2>4. Q \in [Bytes -> 0..n + 1] /\ Q[k] = x /\ \A b \in Bytes : b # k => Q[b] = R[b]
    BY <2>1, <2>2, <2>3
  <2>. QED  BY <2>1, <2>4 DEF x
<1>8. /\ Len(tokens') = n + 1 /\ tokens'[n + 1] = <<k, p>>
      /\ \A i \in 1..n : tokens'[i] = tokens[i]
  <2>. DEFINE t == <<k, p>>
  <2>1. t \in Bytes \X Pairs
    OBVIOUS
  <2>. HIDE DEF t
  <2>2. tokens' = Append(tokens, t)
    BY <1>a DEF t
  <2>3. Len(tokens') = n + 1 /\ tokens'[n + 1] = t /\ \A i \in 1..n : tokens'[i] = tokens[i]
    BY <1>0, <2>1, <2>2, AppendProperties
  <2>. QED  BY <2>3 DEF t
<1>. HIDE DEF n
<1>9. ASSUME NEW b \in Bytes, \A i \in 1..n + 1 : tokens'[i][1] # b
      PROVE  X[b] = <<b>>
  <2>1. n + 1 \in 1..n + 1 /\ \A i \in 1..n : i \in 1..n + 1
    BY <1>0
  <2>2. b # k
    <3>1. tokens'[n + 1][1] = k
      BY <1>8
    <3>. QED  BY <1>9, <2>1, <3>1
  <2>3. \A i \in 1..n : tokens[i][1] # b
    BY <1>8, <1>9, <2>1
  <2>. QED  BY <1>2, <1>6, <2>2, <2>3
<1>10. ASSUME NEW i \in 1..n + 1
       PROVE  /\ X[tokens'[i][1]] = X[tokens'[i][2][1]] \o X[tokens'[i][2][2]]
              /\ Q[tokens'[i][2][1]] < Q[tokens'[i][1]] /\ Q[tokens'[i][2][2]] < Q[tokens'[i][1]]
  <2>1. CASE i = n + 1
    <3>1. tokens'[i][1] = k /\ tokens'[i][2] = p
      BY <1>8, <2>1
    <3>2. X[p[1]] = W[p[1]] /\ X[p[2]] = W[p[2]]
      BY <1>4, <1>6
    <3>3. Q[p[1]] < n + 1 /\ Q[p[2]] < n + 1
      BY <1>0, <1>4, <1>7
    <3>. QED  BY <1>6, <1>7, <3>1, <3>2, <3>3
  <2>2. CASE i # n + 1
    <3>1. i \in 1..n
      BY <1>0, <2>2
    <3>. DEFINE a == tokens[i][1]  b == tokens[i][2][1]  c == tokens[i][2][2]
    <3>2. /\ a \in Bytes /\ b \in Bytes /\ c \in Bytes /\ a # k /\ b # k /\ c # k
          /\ W[a] = W[b] \o W[c] /\ R[b] < R[a] /\ R[c] < R[a]
      BY <1>0, <1>1, <1>2, <3>1
    <3>3. tokens'[i][1] = a /\ tokens'[i][2][1] = b /\ tokens'[i][2][2] = c
      BY <1>8, <3>1
    <3>. HIDE DEF a, b, c
    <3>4. X[a] = W[a] /\ X[b] = W[b] /\ X[c] = W[c] /\ Q[a] = R[a] /\ Q[b] = R[b] /\ Q[c] = R[c]
      BY <1>6, <1>7, <3>2
    <3>. QED  BY <3>2, <3>3, <3>4
  <2>. QED  BY <2>1, <2>2
<1>11. MeaningInv(X, Q)'
  BY <1>6, <1>7, <1>8, <1>9, <1>10 DEF MeaningInv
<1>12. TokenMeans(W, X, k, p)
  BY <1>2, <1>3, <1>6 DEF TokenMeans
<1>. QED  BY <1>11, <1>12 DEF NewMeaning

\* A round shrinks the page by what it saves.
LEMMA RoundLength ==
  ASSUME LoopInv, NEW us, UnitsInv(us), NEW p \in Pairs, Round(p)
  PROVE  \E v : /\ IsRewrite(us, v, Token, p) /\ Units(Token, p) = v[1]
                /\ stream' = FlattenSeq(v[1]) /\ pairCount' = Counted(v[1])
                /\ v[1] \in Seq(UnitSet(marker)) /\ v[1] # <<>>
                /\ Len(stream') \in Nat /\ Len(stream) \in Nat
                /\ Len(stream') + pairCount[p] = Len(stream) + byteCount[Token]
<1>1. Worth(p)
  BY DEF Round
<1>2. /\ Token \in Bytes /\ Token # marker /\ byteCount[Token] = Alone(us, Token)
      /\ p[1] # marker /\ p[2] # marker /\ Token # p[1] /\ Token # p[2]
      /\ ~Escapes(Token) => NoEscapes(us)
      /\ \A j \in 1..Len(us) : us[j] = <<Token>> => Escapes(Token)
  BY <1>1, TokenFacts
<1>3. /\ us \in Seq(UnitSet(marker)) /\ us # <<>> /\ stream = FlattenSeq(us)
      /\ pairCount = Counted(us) /\ marker \in Bytes
  BY DEF UnitsInv, LoopInv
<1>4. PICK v : IsRewrite(us, v, Token, p) /\ Units(Token, p) = v[1]
  <2>. DEFINE t == Token
  <2>1. t \in Bytes /\ t # marker /\ (~Escapes(t) => NoEscapes(us))
    BY <1>2
  <2>. HIDE DEF t
  <2>2. \E v : IsRewrite(us, v, t, p) /\ Units(t, p) = v[1]
    BY <1>2, <1>3, <2>1, RewriteExists
  <2>. QED  BY <2>2 DEF t
<1>5. stream' = FlattenSeq(v[1]) /\ pairCount' = Counted(v[1])
  BY <1>4 DEF Round
<1>6. v[1] \in Seq(UnitSet(marker)) /\ v[1] # <<>>
  <2>. DEFINE t == Token
  <2>1. IsRewrite(us, v, t, p)
    BY <1>4
  <2>. HIDE DEF t
  <2>. QED  BY <1>3, <2>1, RewriteNonempty
<1>7. /\ Len(FlattenSeq(v[1])) \in Nat
      /\ Len(FlattenSeq(v[1])) + Counted(us)[p] = Len(FlattenSeq(us)) + Alone(us, Token)
  <2>. DEFINE t == Token
  <2>1. /\ IsRewrite(us, v, t, p) /\ t \in Bytes /\ t # p[1] /\ t # p[2]
        /\ \A j \in 1..Len(us) : us[j] = <<t>> => Escapes(t)
    BY <1>2, <1>4
  <2>. HIDE DEF t
  <2>2. /\ Len(FlattenSeq(v[1])) \in Nat
        /\ Len(FlattenSeq(v[1])) + Counted(us)[p] = Len(FlattenSeq(us)) + Alone(us, t)
    BY <1>3, <2>1, RewriteLength
  <2>. QED  BY <2>2 DEF t
<1>8. Len(stream) \in Nat
  <2>1. us \in Seq(Seq(Bytes))
    BY <1>3, UnitsAreSeqs
  <2>2. stream \in Seq(Bytes)
    BY <1>3, <2>1, FlattenType
  <2>. QED  BY <2>2
<1>. QED  BY <1>2, <1>3, <1>4, <1>5, <1>6, <1>7, <1>8

LEMMA RoundStep ==
  ASSUME IInv, NEW p \in Pairs, Round(p)
  PROVE  IInv'
<1>0. /\ bytes \in Seq(Bytes) /\ pages \in Seq(PageSet) /\ Len(pages) \in Nat
      /\ Len(pages) * PageSize < Len(bytes) /\ RoundTrip /\ NeverLarger
      /\ LoopInv /\ UsedInv /\ CostInv /\ Worth(p)
  BY DEF IInv, PagesInv, RoundsInv, Round
<1>1. PICK us, W, R : /\ UnitsInv(us) /\ MeaningInv(W, R)
                      /\ Value(W, marker, us) = ThisPage
  BY DEF IInv, RoundsInv, Round
<1>2. /\ bytes' = bytes /\ pages' = pages /\ work' = work /\ work = "rounds"
      /\ marker' = marker /\ ThisPage' = ThisPage
      /\ tokens' = Append(tokens, <<Token, p>>)
      /\ overhead' = IF Len(tokens) >= MaskSize THEN TokenCost - 1 ELSE TokenCost
      /\ byteCount' =
           [b \in Bytes |-> IF b \in {Token, p[1], p[2]} THEN Used ELSE byteCount[b]]
  BY DEF Round, ThisPage, Page
<1>3. PagesInv' /\ RoundTrip' /\ NeverLarger'
  BY <1>0, <1>2 DEF PagesInv, RoundTrip, NeverLarger, Page
<1>4. PICK k : k = Token
  OBVIOUS
<1>5. /\ k \in Bytes /\ k # marker /\ byteCount[k] # Used /\ byteCount[k] \in Nat
      /\ \A b \in Bytes : byteCount[k] <= byteCount[b]
      /\ pairCount[p] \in Nat /\ pairCount[p] > byteCount[k] + overhead
      /\ p[1] \in Bytes /\ p[2] \in Bytes
      /\ p[1] \notin {marker, k} /\ p[2] \notin {marker, k}
      /\ ~Escapes(k) => NoEscapes(us)
      /\ \A j \in 1..Len(us) : us[j] = <<k>> => Escapes(k)
  BY <1>0, <1>1, <1>4, TokenFacts
<1>6. PICK v : /\ IsRewrite(us, v, k, p)
               /\ stream' = FlattenSeq(v[1]) /\ pairCount' = Counted(v[1])
               /\ v[1] \in Seq(UnitSet(marker)) /\ v[1] # <<>>
               /\ Len(stream') \in Nat /\ Len(stream) \in Nat
               /\ Len(stream') + pairCount[p] = Len(stream) + byteCount[k]
  BY <1>0, <1>1, <1>4, RoundLength
<1>7. /\ marker \in Bytes /\ overhead \in Nat /\ byteCount \in [Bytes -> Nat]
      /\ byteCount[marker] = Used /\ Len(stream) <= 2 * PageSize
  BY <1>0 DEF LoopInv
<1>8. /\ byteCount' \in [Bytes -> Nat]
      /\ \A b \in Bytes : /\ b \in {k, p[1], p[2]} => byteCount'[b] = Used
                          /\ b \notin {k, p[1], p[2]} => byteCount'[b] = byteCount[b]
  <2>1. Used \in Nat
    BY DEF Used
  <2>. QED  BY <1>2, <1>4, <1>7, <2>1
<1>9. \A b \in Bytes : byteCount[b] = Used => byteCount'[b] = Used
  BY <1>8
<1>. DEFINE n == Len(tokens)  L == Len(stream)  L1 == Len(stream')  P == Len(ThisPage)
            T == TokenCost  M == MaskSize  ov == overhead  ov1 == overhead'
<1>10. /\ L1 + ov + 1 <= L /\ L1 \in Nat /\ L \in Nat /\ ov \in Nat
       /\ T \in Nat /\ T > 0 /\ M \in Nat /\ PageSize \in Nat
  <2>. DEFINE pc == pairCount[p]  kc == byteCount[k]
  <2>1. /\ pc \in Nat /\ kc \in Nat /\ pc > kc + ov /\ L1 + pc = L + kc
        /\ L1 \in Nat /\ L \in Nat /\ ov \in Nat
    BY <1>5, <1>6, <1>7
  <2>. HIDE DEF pc, kc, L, L1, ov
  <2>2. L1 + ov + 1 <= L
    BY <2>1
  <2>. QED  BY <2>1, <2>2, CompressAssumption
<1>11. n \in Nat /\ ov1 = IF n >= M THEN T - 1 ELSE T
  <2>1. n \in Nat
    BY <1>0 DEF UsedInv
  <2>. QED  BY <1>2, <2>1
<1>12. /\ Len(tokens') = n + 1 /\ tokens'[n + 1] = <<k, p>>
       /\ \A i \in 1..n : tokens'[i] = tokens[i]
       /\ tokens' \in Seq(Bytes \X Pairs) /\ tokens' # <<>>
  <2>. DEFINE t == <<k, p>>  S == Bytes \X Pairs
  <2>1. t \in S /\ tokens' = Append(tokens, t) /\ tokens \in Seq(S)
    BY <1>0, <1>2, <1>4, <1>5 DEF UsedInv
  <2>. HIDE DEF t, S
  <2>2. /\ tokens' \in Seq(S) /\ tokens' # <<>> /\ Len(tokens') = n + 1 /\ tokens'[n + 1] = t
        /\ \A i \in 1..n : tokens'[i] = tokens[i]
    BY <2>1, AppendProperties
  <2>. QED  BY <2>2 DEF t, S
<1>13. LoopInv'
  <2>1. L1 <= 2 * PageSize
    <3>1. L <= 2 * PageSize
      BY <1>7
    <3>. HIDE DEF L, L1, ov
    <3>. QED  BY <1>10, <3>1
  <2>2. ov1 \in Nat
    <3>. HIDE DEF ov1, n
    <3>. QED  BY <1>10, <1>11
  <2>. QED  BY <1>2, <1>7, <1>8, <1>9, <2>1, <2>2 DEF LoopInv
<1>14. UsedInv'
  <2>1. /\ \A i \in 1..n :
             /\ tokens[i][1] # marker /\ byteCount[tokens[i][1]] = Used
             /\ byteCount[tokens[i][2][1]] = Used /\ byteCount[tokens[i][2][2]] = Used
             /\ tokens[i][1] \in Bytes /\ tokens[i][2][1] \in Bytes /\ tokens[i][2][2] \in Bytes
        /\ \A i, j \in 1..n : tokens[i][1] = tokens[j][1] => i = j
    BY <1>0, TokenSetFacts DEF UsedInv
  <2>. HIDE DEF n
  <2>2. \A i \in 1..n + 1 : i = n + 1 \/ i \in 1..n
    BY <1>11
  <2>3. ASSUME NEW i \in 1..n + 1
        PROVE  /\ tokens'[i][1] # marker' /\ byteCount'[tokens'[i][1]] = Used
               /\ byteCount'[tokens'[i][2][1]] = Used /\ byteCount'[tokens'[i][2][2]] = Used
    <3>1. CASE i = n + 1
      <4>1. tokens'[i][1] = k /\ tokens'[i][2] = p
        BY <1>12, <3>1
      <4>. QED  BY <1>2, <1>5, <1>8, <4>1
    <3>2. CASE i \in 1..n
      <4>1. tokens'[i] = tokens[i]
        BY <1>12, <3>2
      <4>. QED  BY <1>2, <1>9, <2>1, <3>2, <4>1
    <3>. QED  BY <2>2, <3>1, <3>2
  <2>4. ASSUME NEW i \in 1..n PROVE tokens'[n + 1][1] # tokens'[i][1]
    <3>1. tokens'[n + 1][1] = k /\ tokens'[i] = tokens[i]
      BY <1>12
    <3>. QED  BY <1>5, <2>1, <3>1
  <2>5. ASSUME NEW i \in 1..n + 1, NEW j \in 1..n + 1, tokens'[i][1] = tokens'[j][1]
        PROVE  i = j
    <3>1. CASE i \in 1..n /\ j \in 1..n
      <4>1. tokens'[i] = tokens[i] /\ tokens'[j] = tokens[j]
        BY <1>12, <3>1
      <4>. QED  BY <2>1, <2>5, <3>1, <4>1
    <3>2. CASE i = n + 1 \/ j = n + 1
      BY <2>2, <2>4, <2>5, <3>2
    <3>. QED  BY <2>2, <3>1, <3>2
  <2>. QED  BY <1>12, <2>3, <2>5 DEF UsedInv
<1>15. CostInv'
  <2>1. CASE n = 0
    <3>1. L + 1 + T = P + ov /\ P \in Nat
      <4>1. tokens = <<>>
        BY <1>0, <2>1 DEF UsedInv
      <4>2. ThisPage \in Seq(Bytes)
        BY <1>0, PageFacts
      <4>. QED  BY <1>0, <4>1, <4>2 DEF CostInv
    <3>. DEFINE x == TableSize(n + 1)
    <3>2. x <= 2 + T /\ x \in Int
      <4>1. n + 1 = 1
        BY <2>1
      <4>2. TableSize(1) \in Int
        BY CompressAssumption DEF TableSize
      <4>. QED  BY <4>1, <4>2, TableGrows
    <3>. HIDE DEF x, L, L1, P, ov
    <3>3. L1 + x <= P + 1
      BY <1>10, <3>1, <3>2
    <3>4. ov1 >= T - 1 /\ (n + 1 <= M => ov1 >= T)
      <4>. HIDE DEF ov1, n
      <4>. QED  BY <1>10, <1>11
    <3>. QED  BY <1>2, <1>12, <3>3, <3>4 DEF CostInv, x, L1, P
  <2>2. CASE n # 0
    <3>. DEFINE x == TableSize(n + 1)  y == TableSize(n)
    <3>1. /\ L + y <= P + 1 /\ ov >= T - 1 /\ (n <= M => ov >= T) /\ P \in Nat
      <4>1. tokens # <<>>
        BY <2>2
      <4>2. ThisPage \in Seq(Bytes)
        BY <1>0, PageFacts
      <4>. QED  BY <1>0, <4>1, <4>2 DEF CostInv
    <3>2. /\ x \in Nat /\ y \in Nat /\ (n < M => x <= y + T)
          /\ (~(n < M) => x <= y + (T - 1))
      <4>. HIDE DEF n
      <4>1. n \in Nat \ {0}
        BY <1>11, <2>2
      <4>. QED  BY <4>1, TableGrows
    <3>. HIDE DEF x, y, L, L1, P, ov
    <3>3. L1 + x <= P + 1
      <4>. HIDE DEF n
      <4>1. x <= y + ov
        BY <1>10, <1>11, <3>1, <3>2
      <4>. QED  BY <1>10, <3>1, <3>2, <4>1
    <3>4. ov1 >= T - 1 /\ (n + 1 <= M => ov1 >= T)
      <4>. HIDE DEF ov1, n
      <4>. QED  BY <1>10, <1>11
    <3>. QED  BY <1>2, <1>12, <3>3, <3>4 DEF CostInv, x, L1, P
  <2>. QED  BY <2>1, <2>2
<1>16. us \in Seq(UnitSet(marker)) /\ us # <<>>
       /\ \A b \in Bytes : byteCount[b] # Used => byteCount[b] = Alone(us, b)
  BY <1>1 DEF UnitsInv
<1>17. PICK vs : vs = v[1]
  OBVIOUS
<1>18. UnitsInv(vs)'
  <2>1. ASSUME NEW b \in Bytes, byteCount'[b] # Used
        PROVE  byteCount'[b] = Alone(vs, b)
    <3>1. b \notin {k, p[1], p[2]} /\ byteCount'[b] = byteCount[b]
      BY <1>8, <2>1
    <3>2. Alone(v[1], b) = Alone(us, b)
      BY <1>5, <1>6, <1>7, <1>16, <3>1, RewriteAlone
    <3>. QED  BY <1>16, <1>17, <2>1, <3>1, <3>2
  <2>2. ASSUME NEW b \in Bytes, byteCount'[b] = 0
        PROVE  NoEscapes(vs)'
    <3>1. byteCount[b] = 0
      <4>1. Used # 0
        BY DEF Used
      <4>. QED  BY <1>8, <2>2, <4>1
    <3>2. byteCount[k] = 0
      <4>1. byteCount[k] <= 0
        BY <1>5, <3>1
      <4>. DEFINE kc == byteCount[k]
      <4>2. kc \in Nat /\ kc <= 0
        BY <1>5, <4>1
      <4>. HIDE DEF kc
      <4>3. kc = 0
        BY <4>2
      <4>. QED  BY <4>3 DEF kc
    <3>3. ~Escapes(k) /\ NoEscapes(us)
      BY <1>5, <3>2 DEF Escapes
    <3>4. NoEscapes(v[1])
      BY <1>5, <1>6, <1>7, <1>16, <3>3, RewriteNoEscapes
    <3>. QED  BY <1>2, <1>17, <3>4 DEF NoEscapes
  <2>. QED  BY <1>2, <1>6, <1>12, <1>17, <2>1, <2>2 DEF UnitsInv
<1>19. NewMeaning(W, k, p)
  <2>1. Added(k, p)
    BY <1>2, <1>4 DEF Added
  <2>2. k # p[1] /\ k # p[2]
    BY <1>5
  <2>. QED  BY <1>0, <1>1, <1>5, <2>1, <2>2, RoundMeaning
<1>20. PICK X, Q : MeaningInv(X, Q)' /\ TokenMeans(W, X, k, p)
  BY <1>19 DEF NewMeaning
<1>22. KeepsValue(W, X, us, v)
  <2>1. k # p[1] /\ k # p[2] /\ p[1] # marker /\ p[2] # marker
    BY <1>5
  <2>2. /\ marker \in Bytes /\ us \in Seq(UnitSet(marker)) /\ k \in Bytes /\ k # marker
        /\ p \in Pairs
    BY <1>5, <1>7, <1>16
  <2>3. \A j \in 1..Len(us) : us[j] = <<k>> => Escapes(k)
    BY <1>5
  <2>4. IsRewrite(us, v, k, p) /\ TokenMeans(W, X, k, p)
    BY <1>6, <1>20
  <2>. QED  BY <2>1, <2>2, <2>3, <2>4, RewriteValue
<1>23. RoundsInv'
  <2>1. Value(X, marker', vs) = ThisPage'
    BY <1>1, <1>2, <1>17, <1>22 DEF KeepsValue
  <2>. QED  BY <1>13, <1>14, <1>15, <1>18, <1>20, <2>1 DEF RoundsInv
<1>. QED  BY <1>3, <1>23 DEF IInv

LEMMA StutterStep ==
  ASSUME IInv, UNCHANGED vars
  PROVE  IInv'
<1>1. /\ bytes' = bytes /\ pages' = pages /\ work' = work /\ stream' = stream /\ tokens' = tokens
      /\ marker' = marker /\ overhead' = overhead /\ byteCount' = byteCount
      /\ pairCount' = pairCount
  BY DEF vars, loop
<1>2. PagesInv' /\ RoundTrip' /\ NeverLarger'
  BY <1>1 DEF IInv, PagesInv, RoundTrip, NeverLarger, Page
<1>3. ASSUME work' = "rounds" PROVE RoundsInv'
  <2>1. RoundsInv
    BY <1>1, <1>3 DEF IInv
  <2>2. ThisPage' = ThisPage
    BY <1>1 DEF ThisPage, Page
  <2>3. LoopInv' /\ UsedInv' /\ CostInv'
    BY <1>1, <2>1, <2>2 DEF RoundsInv, LoopInv, UsedInv, CostInv
  <2>4. PICK us, W, R : /\ UnitsInv(us) /\ MeaningInv(W, R)
                        /\ Value(W, marker, us) = ThisPage
    BY <2>1 DEF RoundsInv
  <2>5. UnitsInv(us)' /\ MeaningInv(W, R)' /\ Value(W, marker', us) = ThisPage'
    BY <1>1, <2>2, <2>4 DEF UnitsInv, MeaningInv, NoEscapes
  <2>. QED  BY <2>3, <2>5 DEF RoundsInv
<1>. QED  BY <1>2, <1>3 DEF IInv

LEMMA NextInv ==
  ASSUME IInv, [Next]_vars
  PROVE  IInv'
<1>1. CASE StartPage
  BY <1>1, StartPageStep
<1>2. ASSUME NEW p \in MostCommonPairs, Round(p) PROVE IInv'
  <2>1. p \in Pairs
    BY DEF MostCommonPairs
  <2>. QED  BY <1>2, <2>1, RoundStep
<1>3. CASE AddPage
  BY <1>3, AddPageStep
<1>4. CASE Done \/ UNCHANGED vars
  BY <1>4, StutterStep DEF Done
<1>. QED  BY <1>1, <1>2, <1>3, <1>4 DEF Next

\* Whatever is chosen: the data of a page in its rounds are units that stand for
\* the page, the counts are theirs, tokens are new bytes of acyclic meaning, and
\* the finished pages are right.
THEOREM Invariant == Spec => []IInv
<1>1. Init => IInv
  BY InitInv
<1>2. IInv /\ [Next]_vars => IInv'
  BY NextInv
<1>. QED  BY <1>1, <1>2, PTL DEF Spec

\* Every page decompresses to what it was: whatever the image, whatever order the
\* pairs are gone through in, whatever bytes are escaped and however deep tokens
\* stand for tokens, CBytePair::Decompress gives back what Compress was given,
\* within its stack and its gotos.
THEOREM PagesRoundTrip == Spec => []RoundTrip
<1>1. IInv => RoundTrip
  BY DEF IInv
<1>. QED  BY <1>1, Invariant, PTL

\* A page never takes more than its bytes and an empty table.
THEOREM PagesNeverLarger == Spec => []NeverLarger
<1>1. IInv => NeverLarger
  BY DEF IInv
<1>. QED  BY <1>1, Invariant, PTL

\* The pairs a round counts while it writes are those that a count from the
\* beginning of the new page finds: a pair that the round makes or breaks, a
\* byte it escapes, three equal bytes in a row are counted right.
THEOREM CountsAlwaysAgree == Spec => []CountsAgree
<1>1. IInv => CountsAgree
  <2>. SUFFICES ASSUME IInv, work = "rounds" PROVE pairCount = InitPairCount(stream, marker)
    BY DEF CountsAgree
  <2>1. PICK us : UnitsInv(us)
    BY DEF IInv, RoundsInv
  <2>2. marker \in Bytes
    BY DEF IInv, RoundsInv, LoopInv
  <2>3. /\ us \in Seq(UnitSet(marker)) /\ us # <<>>
        /\ stream = FlattenSeq(us) /\ pairCount = Counted(us)
    BY <2>1 DEF UnitsInv
  <2>. QED  BY <2>2, <2>3, CountsSame
<1>. QED  BY <1>1, Invariant, PTL

\* A round replaces as often as the pair was counted and escapes as often as
\* the token was: what the code asserts when the page is written.
THEOREM RoundsFindAllCounted == Spec => FindsAllCounted
<1>1. IInv /\ [Next]_vars =>
        [\A p \in Pairs : Round(p) => Len(stream') = Len(stream) - Saving(p)]_vars
  <2>. SUFFICES ASSUME IInv, NEW p \in Pairs, Round(p)
                PROVE  Len(stream') = Len(stream) - Saving(p)
    OBVIOUS
  <2>1. PICK us : UnitsInv(us)
    BY DEF IInv, RoundsInv, Round
  <2>2. LoopInv /\ Worth(p)
    BY DEF IInv, RoundsInv, Round
  <2>3. /\ Len(stream') \in Nat /\ Len(stream) \in Nat
        /\ Len(stream') + pairCount[p] = Len(stream) + byteCount[Token]
    BY <2>1, <2>2, RoundLength
  <2>4. pairCount[p] \in Nat /\ byteCount[Token] \in Nat
    BY <2>1, <2>2, TokenFacts
  <2>. DEFINE a == Len(stream')  b == Len(stream)  c == pairCount[p]  d == byteCount[Token]
  <2>5. a \in Nat /\ b \in Nat /\ c \in Nat /\ d \in Nat /\ a + c = b + d
    BY <2>3, <2>4
  <2>. HIDE DEF a, b, c, d
  <2>6. a = b - (c - d)
    BY <2>5
  <2>. QED  BY <2>6 DEF a, b, c, d, Saving
<1>. QED  BY <1>1, Invariant, PTL DEF Spec, FindsAllCounted
=============================================================================
