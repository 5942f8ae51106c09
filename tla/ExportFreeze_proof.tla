------------------------- MODULE ExportFreeze_proof -------------------------
(***************************************************************************)
(* Proofs about the freezing of exports, for any trees, names and ELF      *)
(* files: the frozen file can be read and implements OrdinalRegistry, and  *)
(* what was linked to an image by ordinal finds the function it named.     *)
(***************************************************************************)
EXTENDS ExportFreeze, FiniteSetTheorems, WellFoundedInduction, TLAPS
-----------------------------------------------------------------------------
(* Numbers in order *)

\* Every nonempty set of natural numbers has a least element.
LEMMA LeastNatural ==
  ASSUME NEW S \in SUBSET Nat, S # {}
  PROVE  \E m \in S : \A n \in S : m <= n
<1>1. IsWellFoundedOn(OpToRel(<, Nat), Nat)
  BY NatLessThanWellFounded
<1>2. PICK m \in S : \A n \in S : ~ (<<n, m>> \in OpToRel(<, Nat))
  BY <1>1, WFMin, Zenon
<1>3. \A n \in S : ~ (n < m)
  BY <1>2 DEF OpToRel
<1>. QED  BY <1>3

Increasing(s, n) == \A i, j \in 1..n : i < j => s[i] < s[j]

\* A finite set of numbers is an increasing sequence: its least element, then
\* the others.
LEMMA EnumerationExists ==
  ASSUME NEW S \in SUBSET Nat, IsFiniteSet(S)
  PROVE  \E s \in [1..Cardinality(S) -> S] : Increasing(s, Cardinality(S))
<1>. DEFINE Enumerated(T) == \E s \in [1..Cardinality(T) -> T] : Increasing(s, Cardinality(T))
            Bad == {n \in Nat : \E T \in SUBSET Nat :
                       IsFiniteSet(T) /\ Cardinality(T) = n /\ ~Enumerated(T)}
<1>1. SUFFICES Bad = {}
  BY FS_CardinalityType
<1>2. SUFFICES ASSUME Bad # {} PROVE FALSE
  OBVIOUS
<1>3. PICK n \in Bad : \A m \in Bad : n <= m
  <2>1. Bad \in SUBSET Nat
    OBVIOUS
  <2>. HIDE DEF Bad
  <2>. QED  BY <1>2, <2>1, LeastNatural
<1>4. PICK T \in SUBSET Nat : IsFiniteSet(T) /\ Cardinality(T) = n /\ ~Enumerated(T)
  OBVIOUS
<1>5. T # {}
  <2>1. SUFFICES ASSUME T = {} PROVE FALSE
    OBVIOUS
  <2>2. n = 0
    BY <1>4, <2>1, FS_EmptySet
  <2>3. [i \in 1..0 |-> i] \in [1..n -> T]
    BY <2>2
  <2>4. Increasing([i \in 1..0 |-> i], n)
    BY <2>2 DEF Increasing
  <2>. QED  BY <1>4, <2>3, <2>4
<1>6. PICK x \in T : \A y \in T : x <= y
  BY <1>5, LeastNatural
<1>. DEFINE U == T \ {x}
<1>7. IsFiniteSet(U) /\ Cardinality(U) = n - 1 /\ n - 1 \in Nat
  <2>1. IsFiniteSet(U) /\ Cardinality(U) = n - 1
    BY <1>4, <1>6, FS_RemoveElement
  <2>2. Cardinality(U) \in Nat
    BY <2>1, FS_CardinalityType
  <2>. QED  BY <2>1, <2>2
<1>8. Enumerated(U)
  <2>1. SUFFICES ASSUME ~Enumerated(U) PROVE FALSE
    OBVIOUS
  <2>2. n - 1 \in Bad
    BY <1>7, <2>1
  <2>. QED  BY <1>3, <1>7, <2>2
<1>9. PICK s \in [1..n - 1 -> U] : Increasing(s, n - 1)
  BY <1>7, <1>8
<1>. DEFINE t == [i \in 1..n |-> IF i = 1 THEN x ELSE s[i - 1]]
<1>10. t \in [1..n -> T]
  <2>1. ASSUME NEW i \in 1..n, i # 1 PROVE s[i - 1] \in T
    BY <1>7, <1>9, <2>1
  <2>. QED  BY <2>1, <1>6
<1>11. Increasing(t, n)
  <2>1. ASSUME NEW i \in 1..n, NEW j \in 1..n, i < j PROVE t[i] < t[j]
    <3>1. j - 1 \in 1..n - 1 /\ t[j] = s[j - 1] /\ t[j] \in U
      BY <1>7, <1>9, <2>1
    <3>2. CASE i = 1
      <4>1. t[i] = x /\ x <= t[j] /\ t[j] # x
        BY <3>1, <3>2, <1>6, <2>1
      <4>2. x \in Nat /\ t[j] \in Nat
        BY <3>1, <1>6
      <4>. HIDE DEF t
      <4>. QED  BY <4>1, <4>2
    <3>3. CASE i # 1
      <4>1. i - 1 \in 1..n - 1 /\ i - 1 < j - 1 /\ t[i] = s[i - 1]
        BY <1>7, <2>1, <3>3
      <4>. QED  BY <3>1, <4>1, <1>9 DEF Increasing
    <3>. QED  BY <3>2, <3>3
  <2>. QED  BY <2>1 DEF Increasing
<1>. QED  BY <1>4, <1>10, <1>11

\* InOrder enumerates all of the set.
LEMMA InOrderEnumerates ==
  ASSUME NEW S \in SUBSET Nat, IsFiniteSet(S)
  PROVE  /\ Cardinality(S) \in Nat
         /\ InOrder(S) \in [1..Cardinality(S) -> S]
         /\ \A i, j \in 1..Cardinality(S) : i < j => InOrder(S)[i] < InOrder(S)[j]
         /\ \A x \in S : \E i \in 1..Cardinality(S) : InOrder(S)[i] = x
<1>. DEFINE n == Cardinality(S)
            s == InOrder(S)
<1>1. n \in Nat
  BY FS_CardinalityType
<1>2. s \in [1..n -> S] /\ \A i, j \in 1..n : i < j => s[i] < s[j]
  BY EnumerationExists, Zenon DEF InOrder, Increasing
<1>. HIDE DEF s
<1>3. s \in Injection(1..n, S)
  <2>1. ASSUME NEW i \in 1..n, NEW j \in 1..n, s[i] = s[j] PROVE i = j
    <3>1. s[i] \in Nat /\ s[j] \in Nat
      BY <1>2
    <3>2. ~(i < j) /\ ~(j < i)
      BY <1>2, <2>1, <3>1
    <3>. QED  BY <1>1, <3>2
  <2>2. DOMAIN s = 1..n
    BY <1>2
  <2>. QED  BY <1>2, <2>1, <2>2 DEF Injection, IsInjective
<1>4. Cardinality(1..n) = n
  BY <1>1, FS_Interval
<1>5. s \in Surjection(1..n, S)
  BY <1>3, <1>4, FS_Injection
<1>6. \A x \in S : \E i \in 1..n : s[i] = x
  BY <1>5 DEF Surjection
<1>. QED  BY <1>1, <1>2, <1>6 DEF s

\* An increasing enumeration of a + 1, ..., a + n has them at 1, ..., n.
LEMMA InOrderInterval ==
  ASSUME NEW a \in Nat, NEW n \in Nat
  PROVE  /\ Cardinality(a + 1..a + n) = n
         /\ \A i \in 1..n : InOrder(a + 1..a + n)[i] = a + i
<1>. DEFINE s == InOrder(a + 1..a + n)
            Bad == {i \in 1..n : s[i] # a + i}
<1>1. Cardinality(a + 1..a + n) = n /\ IsFiniteSet(a + 1..a + n)
  <2>1. /\ IsFiniteSet(a + 1..a + n)
        /\ Cardinality(a + 1..a + n) = IF a + 1 > a + n THEN 0 ELSE (a + n) - (a + 1) + 1
    BY FS_Interval
  <2>. QED  BY <2>1
<1>2. /\ s \in [1..n -> a + 1..a + n]
      /\ \A i, j \in 1..n : i < j => s[i] < s[j]
      /\ \A x \in a + 1..a + n : \E i \in 1..n : s[i] = x
  <2>1. (a + 1..a + n) \in SUBSET Nat
    OBVIOUS
  <2>. QED  BY <1>1, <2>1, InOrderEnumerates, Zenon
<1>. HIDE DEF s
<1>3. SUFFICES ASSUME Bad # {} PROVE FALSE
  BY <1>1 DEF s
<1>4. PICK i \in Bad : \A j \in Bad : i <= j
  <2>1. Bad \in SUBSET Nat
    OBVIOUS
  <2>. HIDE DEF Bad
  <2>. QED  BY <1>3, <2>1, LeastNatural
<1>5. i \in 1..n /\ s[i] \in a + 1..a + n /\ s[i] # a + i /\ a + i \in a + 1..a + n
  BY <1>2, <1>4
<1>6. \A j \in 1..n : j < i => s[j] = a + j
  BY <1>4
<1>7. ~(s[i] < a + i)
  <2>1. SUFFICES ASSUME s[i] < a + i PROVE FALSE
    OBVIOUS
  <2>. DEFINE k == s[i] - a
  <2>2. k \in 1..n /\ k < i /\ a + k = s[i]
    BY <1>5, <2>1
  <2>. HIDE DEF k
  <2>3. s[k] = s[i] /\ s[k] < s[i]
    BY <1>2, <1>5, <1>6, <2>2
  <2>. QED  BY <1>5, <2>3
<1>8. PICK j \in 1..n : s[j] = a + i
  BY <1>2, <1>5
<1>9. ~(j < i) /\ j # i
  BY <1>5, <1>6, <1>8
<1>10. s[i] < s[j]
  BY <1>2, <1>5, <1>9
<1>. QED  BY <1>5, <1>7, <1>8, <1>10

LEMMA InOrderIdentity ==
  ASSUME NEW n \in Nat
  PROVE  Cardinality(1..n) = n /\ \A i \in 1..n : InOrder(1..n)[i] = i
<1>1. 0 + 1..0 + n = 1..n
  OBVIOUS
<1>2. /\ Cardinality(0 + 1..0 + n) = n
      /\ \A i \in 1..n : InOrder(0 + 1..0 + n)[i] = 0 + i
  BY InOrderInterval, Zenon
<1>. QED  BY <1>1, <1>2
-----------------------------------------------------------------------------
(* .DEF files *)

Distinct(def) == \A i, j \in DOMAIN def : def[i].name = def[j].name => i = j

LEMMA SeqFacts ==
  ASSUME NEW def \in Seq(Entry)
  PROVE  /\ Len(def) \in Nat /\ DOMAIN def = 1..Len(def)
         /\ \A i \in DOMAIN def : def[i] \in Entry
OBVIOUS

LEMMA ConcatFacts ==
  ASSUME NEW x \in Seq(Entry), NEW y \in Seq(Entry)
  PROVE  /\ x \o y \in Seq(Entry) /\ Len(x \o y) = Len(x) + Len(y)
         /\ Len(x) \in Nat /\ Len(y) \in Nat
         /\ \A i \in 1..Len(x) : (x \o y)[i] = x[i]
         /\ \A i \in Len(x) + 1..Len(x) + Len(y) :
              i - Len(x) \in 1..Len(y) /\ (x \o y)[i] = y[i - Len(x)]
OBVIOUS

LEMMA EntryFacts ==
  ASSUME NEW e \in Entry
  PROVE  e.name \in Names /\ e.name \in Nat /\ e.ord \in Nat /\ e.absent \in BOOLEAN
BY FreezeAssumption DEF Entry

\* The entries at some of the places of a .DEF file: each once, and no others.
LEMMA OnlySelects ==
  ASSUME NEW def \in Seq(Entry), NEW P \in SUBSET DOMAIN def
  PROVE  /\ Cardinality(P) \in Nat
         /\ Only(def, P) \in Seq(Entry)
         /\ Len(Only(def, P)) = Cardinality(P)
         /\ \A i \in 1..Cardinality(P) :
              InOrder(P)[i] \in P /\ Only(def, P)[i] = def[InOrder(P)[i]]
         /\ \A i, j \in 1..Cardinality(P) : InOrder(P)[i] = InOrder(P)[j] => i = j
         /\ \A p \in P : \E i \in 1..Cardinality(P) : InOrder(P)[i] = p
<1>. DEFINE n == Cardinality(P)
            s == InOrder(P)
<1>1. P \in SUBSET Nat /\ IsFiniteSet(P)
  <2>1. P \in SUBSET (1..Len(def)) /\ Len(def) \in Nat
    OBVIOUS
  <2>2. IsFiniteSet(1..Len(def))
    BY <2>1, FS_Interval
  <2>. QED  BY <2>1, <2>2, FS_Subset
<1>2. /\ n \in Nat
      /\ s \in [1..n -> P]
      /\ \A i, j \in 1..n : i < j => s[i] < s[j]
      /\ \A p \in P : \E i \in 1..n : s[i] = p
  BY <1>1, InOrderEnumerates, Zenon
<1>3. Only(def, P) = [i \in 1..n |-> def[s[i]]]
  BY DEF Only
<1>. HIDE DEF n, s
<1>4. \A i \in 1..n : s[i] \in P /\ s[i] \in Nat /\ def[s[i]] \in Entry
  BY <1>1, <1>2
<1>5. ASSUME NEW i \in 1..n, NEW j \in 1..n, s[i] = s[j] PROVE i = j
  BY <1>2, <1>4, <1>5
<1>6. Only(def, P) \in Seq(Entry) /\ Len(Only(def, P)) = n
  BY <1>2, <1>3, <1>4
<1>7. \A i \in 1..n : Only(def, P)[i] = def[s[i]]
  BY <1>3
<1>. QED  BY <1>2, <1>4, <1>5, <1>6, <1>7 DEF n, s

\* All of the places.
LEMMA OnlyAll ==
  ASSUME NEW def \in Seq(Entry)
  PROVE  Only(def, DOMAIN def) = def
<1>1. DOMAIN def = 1..Len(def) /\ Len(def) \in Nat /\ def = [i \in 1..Len(def) |-> def[i]]
  OBVIOUS
<1>2. Cardinality(1..Len(def)) = Len(def) /\ \A i \in 1..Len(def) : InOrder(1..Len(def))[i] = i
  BY <1>1, InOrderIdentity
<1>3. Only(def, DOMAIN def) = [i \in 1..Len(def) |-> def[i]]
  BY <1>1, <1>2 DEF Only
<1>. QED  BY <1>1, <1>3

LEMMA OnlyNone ==
  ASSUME NEW def
  PROVE  Only(def, {}) = <<>>
<1>1. Cardinality({}) = 0
  BY FS_EmptySet
<1>. QED  BY <1>1 DEF Only

LEMMA OnlyDistinct ==
  ASSUME NEW def \in Seq(Entry), Distinct(def), NEW P \in SUBSET DOMAIN def
  PROVE  Distinct(Only(def, P))
<1>. DEFINE d == Only(def, P)
<1>1. DOMAIN d = 1..Cardinality(P)
  BY OnlySelects
<1>2. ASSUME NEW i \in 1..Cardinality(P), NEW j \in 1..Cardinality(P), d[i].name = d[j].name
      PROVE  i = j
  <2>1. d[i] = def[InOrder(P)[i]] /\ d[j] = def[InOrder(P)[j]]
        /\ InOrder(P)[i] \in DOMAIN def /\ InOrder(P)[j] \in DOMAIN def
    BY OnlySelects
  <2>2. InOrder(P)[i] = InOrder(P)[j]
    BY <1>2, <2>1 DEF Distinct
  <2>. QED  BY <2>2, OnlySelects
<1>. QED  BY <1>1, <1>2 DEF Distinct

\* Sorting the entries of a .DEF file whose ordinals are in sequence, from any
\* order they are in.
LEMMA ByOrdinalSorts ==
  ASSUME NEW def \in Seq(Entry), NEW q \in Seq(Entry), InSequence(q),
         Len(def) = Len(q), Range(def) = Range(q)
  PROVE  ByOrdinal(def) = q
<1>. DEFINE n == Len(q)
            s == ByOrdinal(def)
            Bad == {i \in 1..n : s[i] # q[i]}
<1>1. n \in Nat /\ DOMAIN def = 1..n /\ DOMAIN q = 1..n
  OBVIOUS
<1>2. \A i \in 1..n : q[i].ord = i
  BY <1>1 DEF InSequence
<1>3. q \in [DOMAIN def -> Range(def)]
  <2>1. \A i \in 1..n : q[i] \in Range(q)
    BY <1>1 DEF Range
  <2>2. q = [i \in 1..n |-> q[i]]
    BY <1>1
  <2>. QED  BY <1>1, <2>1, <2>2
<1>4. /\ s \in [DOMAIN def -> Range(def)]
      /\ Range(s) = Range(def)
      /\ \A i, j \in DOMAIN def : i < j => s[i].ord <= s[j].ord
  <2>1. \E r \in [DOMAIN def -> Range(def)] :
          /\ Range(r) = Range(def)
          /\ \A i, j \in DOMAIN def : i < j => r[i].ord <= r[j].ord
    BY <1>1, <1>2, <1>3
  <2>. QED  BY <2>1 DEF ByOrdinal
<1>. HIDE DEF s
<1>5. SUFFICES ASSUME Bad # {} PROVE FALSE
  <2>1. SUFFICES ASSUME Bad = {} PROVE s = q
    BY DEF s
  <2>2. \A i \in 1..n : s[i] = q[i]
    BY <2>1
  <2>3. s = [i \in 1..n |-> s[i]] /\ q = [i \in 1..n |-> q[i]]
    BY <1>1, <1>4
  <2>. QED  BY <2>2, <2>3
<1>6. PICK i \in Bad : \A j \in Bad : i <= j
  <2>1. Bad \in SUBSET Nat
    OBVIOUS
  <2>. HIDE DEF Bad
  <2>. QED  BY <1>5, <2>1, LeastNatural
<1>7. i \in 1..n /\ s[i] # q[i] /\ \A j \in 1..n : j < i => s[j] = q[j]
  BY <1>6
<1>8. PICK k \in 1..n : s[i] = q[k]
  <2>1. s[i] \in Range(q)
    BY <1>1, <1>4, <1>7
  <2>. QED  BY <1>1, <2>1 DEF Range
<1>9. k # i /\ s[i].ord = k
  BY <1>2, <1>7, <1>8
<1>10. ~(k < i)
  <2>1. SUFFICES ASSUME k < i PROVE FALSE
    OBVIOUS
  <2>2. s[k] = s[i]
    BY <1>7, <1>8, <2>1
  <2>3. \A a, b \in 1..n : s[a] = s[b] => a = b
    <3>1. q \in [1..n -> Range(q)] /\ \A x \in Range(q) : \E a \in 1..n : q[a] = x
      BY <1>1, <1>3 DEF Range
    <3>2. \A a, b \in DOMAIN q : q[a] = q[b] => a = b
      BY <1>1, <1>2
    <3>3. q \in Surjection(1..n, Range(q)) /\ q \in Injection(1..n, Range(q))
      BY <3>1, <3>2 DEF Surjection, Injection, IsInjective
    <3>4. IsFiniteSet(1..n)
      BY <1>1, FS_Interval
    <3>5. IsFiniteSet(Range(q)) /\ Cardinality(Range(q)) = Cardinality(1..n)
      BY <3>3, <3>4, FS_Surjection
    <3>6. s \in [1..n -> Range(q)] /\ \A x \in Range(q) : \E a \in 1..n : s[a] = x
      <4>1. DOMAIN s = 1..n /\ Range(s) = Range(q)
        BY <1>1, <1>4
      <4>2. \A x \in Range(s) : \E a \in 1..n : s[a] = x
        BY <4>1 DEF Range
      <4>. QED  BY <1>1, <1>4, <4>1, <4>2
    <3>7. s \in Surjection(1..n, Range(q))
      BY <3>6 DEF Surjection
    <3>8. s \in Injection(1..n, Range(q))
      BY <3>4, <3>5, <3>7, FS_Surjection
    <3>. QED  BY <3>6, <3>8 DEF Injection, IsInjective
  <2>. QED  BY <1>7, <2>1, <2>2, <2>3
<1>11. PICK j \in 1..n : s[j] = q[i]
  <2>1. q[i] \in Range(q)
    BY <1>1, <1>7 DEF Range
  <2>2. q[i] \in Range(s)
    BY <1>4, <2>1
  <2>. QED  BY <1>1, <1>4, <2>2 DEF Range
<1>12. s[j].ord = i /\ j # i
  BY <1>2, <1>7, <1>11
<1>13. ~(j < i)
  BY <1>2, <1>7, <1>12
<1>14. s[i].ord <= s[j].ord
  BY <1>1, <1>4, <1>7, <1>12, <1>13
<1>. QED  BY <1>9, <1>10, <1>12, <1>14, <1>7
-----------------------------------------------------------------------------
(* A build *)

FrzInv == frz \in Seq(Entry) /\ InSequence(frz) /\ Distinct(frz)

LEMMA FrzFacts ==
  ASSUME FrzInv
  PROVE  /\ frz \in Seq(Entry) /\ Len(frz) \in Nat /\ DOMAIN frz = 1..Len(frz)
         /\ \A i \in 1..Len(frz) : frz[i] \in Entry /\ frz[i].ord = i
         /\ \A i, j \in 1..Len(frz) : frz[i].name = frz[j].name => i = j
         /\ LastOrdinal(frz) = Len(frz)
<1>1. frz \in Seq(Entry) /\ Len(frz) \in Nat /\ DOMAIN frz = 1..Len(frz)
  BY DEF FrzInv
<1>2. \A i \in 1..Len(frz) : frz[i] \in Entry /\ frz[i].ord = i
  BY <1>1 DEF FrzInv, InSequence
<1>3. \A i, j \in 1..Len(frz) : frz[i].name = frz[j].name => i = j
  BY <1>1 DEF FrzInv, Distinct
<1>4. Ords(frz) \cup {0} = 0..Len(frz)
  <2>1. Ords(frz) = 1..Len(frz)
    BY <1>1, <1>2 DEF Ords
  <2>. QED  BY <1>1, <2>1
<1>5. LastOrdinal(frz) = Len(frz)
  BY <1>1, <1>4 DEF LastOrdinal
<1>. QED  BY <1>1, <1>2, <1>3, <1>5

\* New exports are numbered on from the last frozen ordinal.
LEMMA NewFacts ==
  ASSUME FrzInv, NEW elf \in Elfs
  PROVE  /\ New(elf) \in Seq(Entry) /\ Len(New(elf)) \in Nat
         /\ \A i \in 1..Len(New(elf)) :
              /\ New(elf)[i].name \in elf /\ New(elf)[i].name \notin NamesOf(frz)
              /\ New(elf)[i].ord = Len(frz) + i
              /\ ~New(elf)[i].absent
         /\ \A i, j \in 1..Len(New(elf)) : New(elf)[i].name = New(elf)[j].name => i = j
         /\ elf = {} => New(elf) = <<>>
<1>. DEFINE names == elf \ NamesOf(frz)
            n == Cardinality(names)
            s == InOrder(names)
<1>1. names \in SUBSET Nat /\ names \in SUBSET Names /\ IsFiniteSet(names)
  <2>1. names \in SUBSET elf /\ elf \in SUBSET Names /\ IsFiniteSet(elf) /\ Names \in SUBSET Nat
    BY FreezeAssumption
  <2>. QED  BY <2>1, FS_Subset
<1>2. /\ n \in Nat
      /\ s \in [1..n -> names]
      /\ \A i, j \in 1..n : i < j => s[i] < s[j]
  BY <1>1, InOrderEnumerates, Zenon
<1>3. New(elf) = [i \in 1..n |-> [name |-> s[i], ord |-> Len(frz) + i, absent |-> FALSE]]
  BY FrzFacts DEF New
<1>4. elf = {} => n = 0
  BY FS_EmptySet
<1>. HIDE DEF n, s
<1>5. \A i \in 1..n : s[i] \in names /\ s[i] \in Names /\ s[i] \in Nat
  BY <1>1, <1>2
<1>6. \A i \in 1..n : [name |-> s[i], ord |-> Len(frz) + i, absent |-> FALSE] \in Entry
  BY <1>2, <1>5, FrzFacts DEF Entry
<1>7. New(elf) \in Seq(Entry) /\ Len(New(elf)) = n
  BY <1>2, <1>3, <1>6
<1>8. ASSUME NEW i \in 1..n, NEW j \in 1..n, s[i] = s[j] PROVE i = j
  BY <1>2, <1>5, <1>8
<1>9. \A i \in 1..n : New(elf)[i] = [name |-> s[i], ord |-> Len(frz) + i, absent |-> FALSE]
  BY <1>3
<1>10. n = 0 => New(elf) = <<>>
  BY <1>3
<1>. QED  BY <1>2, <1>4, <1>5, <1>7, <1>8, <1>9, <1>10

\* The frozen exports, then the new ones.
All(elf) == frz \o New(elf)

LEMMA AllFacts ==
  ASSUME FrzInv, NEW elf \in Elfs
  PROVE  /\ All(elf) \in Seq(Entry)
         /\ Len(All(elf)) = Len(frz) + Len(New(elf)) /\ Len(All(elf)) \in Nat
         /\ DOMAIN All(elf) = 1..Len(All(elf))
         /\ \A i \in 1..Len(frz) : All(elf)[i] = frz[i]
         /\ \A i \in Len(frz) + 1..Len(All(elf)) :
              i - Len(frz) \in 1..Len(New(elf)) /\ All(elf)[i] = New(elf)[i - Len(frz)]
         /\ \A i \in 1..Len(New(elf)) :
              Len(frz) + i \in 1..Len(All(elf)) /\ All(elf)[Len(frz) + i] = New(elf)[i]
         /\ InSequence(All(elf))
         /\ Distinct(All(elf))
<1>. DEFINE a == All(elf)
            m == Len(frz)
            n == Len(New(elf))
<1>1. frz \in Seq(Entry) /\ m \in Nat /\ New(elf) \in Seq(Entry) /\ n \in Nat
  BY FrzFacts, NewFacts
<1>2. /\ a \in Seq(Entry) /\ Len(a) = m + n /\ Len(a) \in Nat /\ DOMAIN a = 1..Len(a)
      /\ \A i \in 1..m : a[i] = frz[i]
      /\ \A i \in m + 1..Len(a) : i - m \in 1..n /\ a[i] = New(elf)[i - m]
  BY <1>1 DEF All
<1>. HIDE DEF a, m, n
<1>3. \A i \in 1..n : m + i \in 1..Len(a) /\ a[m + i] = New(elf)[i]
  <2>1. ASSUME NEW i \in 1..n PROVE m + i \in 1..Len(a) /\ a[m + i] = New(elf)[i]
    <3>1. m + i \in m + 1..Len(a) /\ (m + i) - m = i
      BY <1>1, <1>2
    <3>. QED  BY <1>1, <1>2, <3>1
  <2>. QED  BY <2>1
<1>4. \A i \in 1..m : a[i].name \in NamesOf(frz) /\ a[i].ord = i
  BY <1>2, FrzFacts DEF NamesOf, m
<1>5. \A i \in m + 1..Len(a) : a[i].name \notin NamesOf(frz) /\ a[i].ord = i
  <2>1. ASSUME NEW i \in m + 1..Len(a) PROVE a[i].name \notin NamesOf(frz) /\ a[i].ord = i
    <3>1. i - m \in 1..n /\ a[i] = New(elf)[i - m]
      BY <1>2
    <3>2. a[i].name \notin NamesOf(frz) /\ a[i].ord = m + (i - m)
      BY <3>1, NewFacts DEF m, n
    <3>. QED  BY <1>1, <1>2, <3>2
  <2>. QED  BY <2>1
<1>6. \A i \in 1..Len(a) : i \in 1..m \/ i \in m + 1..Len(a)
  BY <1>1, <1>2
<1>7. InSequence(a)
  BY <1>2, <1>4, <1>5, <1>6 DEF InSequence
<1>8. ASSUME NEW i \in 1..Len(a), NEW j \in 1..Len(a), a[i].name = a[j].name PROVE i = j
  <2>1. CASE i \in 1..m /\ j \in 1..m
    BY <1>2, <1>8, <2>1, FrzFacts DEF m
  <2>2. CASE i \in m + 1..Len(a) /\ j \in m + 1..Len(a)
    <3>1. i - m \in 1..n /\ j - m \in 1..n /\ New(elf)[i - m].name = New(elf)[j - m].name
      BY <1>2, <1>8, <2>2
    <3>2. i - m = j - m
      BY <3>1, NewFacts DEF n
    <3>. QED  BY <1>1, <1>2, <3>2
  <2>. QED  BY <1>4, <1>5, <1>6, <1>8, <2>1, <2>2
<1>9. Distinct(a)
  BY <1>2, <1>8 DEF Distinct
<1>. QED  BY <1>2, <1>3, <1>7, <1>9 DEF a, m, n
\* Whether the export list is sorted or not, it is the frozen exports and then
\* the new ones.
LEMMA SymbolsAreAll ==
  ASSUME FrzInv, NEW elf \in Elfs
  PROVE  Symbols(elf) = All(elf)
<1>. DEFINE V == {i \in DOMAIN frz : ~frz[i].absent}
            A == {i \in DOMAIN frz : frz[i].absent}
            new == New(elf)
            def == Valid \o Absents \o new
<1>1. V \in SUBSET DOMAIN frz /\ A \in SUBSET DOMAIN frz /\ V \cup A = DOMAIN frz /\ V \cap A = {}
  OBVIOUS
<1>2. /\ Valid \in Seq(Entry) /\ Len(Valid) = Cardinality(V) /\ Cardinality(V) \in Nat
      /\ \A i \in 1..Cardinality(V) : InOrder(V)[i] \in V /\ Valid[i] = frz[InOrder(V)[i]]
      /\ \A p \in V : \E i \in 1..Cardinality(V) : InOrder(V)[i] = p
  BY <1>1, FrzFacts, OnlySelects, Zenon DEF Valid
<1>3. /\ Absents \in Seq(Entry) /\ Len(Absents) = Cardinality(A) /\ Cardinality(A) \in Nat
      /\ \A i \in 1..Cardinality(A) : InOrder(A)[i] \in A /\ Absents[i] = frz[InOrder(A)[i]]
      /\ \A p \in A : \E i \in 1..Cardinality(A) : InOrder(A)[i] = p
  BY <1>1, FrzFacts, OnlySelects, Zenon DEF Absents
<1>4. IsFiniteSet(V) /\ IsFiniteSet(A) /\ Cardinality(V) + Cardinality(A) = Len(frz)
  <2>1. IsFiniteSet(DOMAIN frz) /\ Cardinality(DOMAIN frz) = Len(frz)
    BY FrzFacts, FS_Interval, InOrderIdentity
  <2>2. IsFiniteSet(V) /\ IsFiniteSet(A)
    BY <1>1, <2>1, FS_Subset
  <2>3. Cardinality(V \cup A) = Cardinality(V) + Cardinality(A) - Cardinality(V \cap A)
    BY <2>2, FS_Union
  <2>4. Cardinality(V \cap A) = 0
    BY <1>1, FS_EmptySet
  <2>. QED  BY <1>1, <1>2, <1>3, <2>1, <2>2, <2>3, <2>4
<1>5. new \in Seq(Entry) /\ Len(new) \in Nat
  BY NewFacts
<1>6. CASE Absents = <<>>
  <2>1. Cardinality(A) = 0
    BY <1>3, <1>6
  <2>2. A = {}
    BY <1>4, <2>1, FS_EmptySet
  <2>3. Valid = frz
    BY <1>1, <2>2, FrzFacts, OnlyAll DEF Valid
  <2>. QED  BY <1>6, <2>3 DEF Symbols, All
<1>7. CASE Absents # <<>>
  <2>. HIDE DEF V, A, new
  <2>. DEFINE v == Cardinality(V)
              a == Cardinality(A)
  <2>1. /\ def \in Seq(Entry) /\ Len(def) = v + a + Len(new)
        /\ \A i \in 1..v : def[i] = Valid[i]
        /\ \A i \in v + 1..v + a : i - v \in 1..a /\ def[i] = Absents[i - v]
        /\ \A i \in v + a + 1..v + a + Len(new) :
             i - (v + a) \in 1..Len(new) /\ def[i] = new[i - (v + a)]
    <3>. DEFINE va == Valid \o Absents
    <3>1. v \in Nat /\ a \in Nat
      BY <1>2, <1>3
    <3>2. /\ va \in Seq(Entry) /\ Len(va) = v + a
          /\ \A i \in 1..v : va[i] = Valid[i]
          /\ \A i \in v + 1..v + a : i - v \in 1..a /\ va[i] = Absents[i - v]
      <4>1. Valid \in Seq(Entry) /\ Len(Valid) = v /\ Absents \in Seq(Entry) /\ Len(Absents) = a
        BY <1>2, <1>3
      <4>. HIDE DEF v, a
      <4>. QED  BY <4>1, ConcatFacts
    <3>. HIDE DEF va, v, a
    <3>3. /\ va \o new \in Seq(Entry) /\ Len(va \o new) = v + a + Len(new)
          /\ \A i \in 1..v + a : (va \o new)[i] = va[i]
          /\ \A i \in v + a + 1..v + a + Len(new) :
               i - (v + a) \in 1..Len(new) /\ (va \o new)[i] = new[i - (v + a)]
      <4>1. /\ va \o new \in Seq(Entry) /\ Len(va \o new) = Len(va) + Len(new)
            /\ \A i \in 1..Len(va) : (va \o new)[i] = va[i]
            /\ \A i \in Len(va) + 1..Len(va) + Len(new) :
                 i - Len(va) \in 1..Len(new) /\ (va \o new)[i] = new[i - Len(va)]
        BY <1>5, <3>2, ConcatFacts, Zenon
      <4>2. Len(va) = v + a
        BY <3>2
      <4>. QED  BY <4>1, <4>2, Zenon
    <3>4. def = va \o new
      BY DEF va
    <3>. HIDE DEF def
    <3>5. \A i \in 1..v : i \in 1..v + a
      BY <3>1
    <3>6. \A i \in v + 1..v + a : i \in 1..v + a
      BY <3>1
    <3>. QED  BY <3>2, <3>3, <3>4, <3>5, <3>6
  <2>2. All(elf) \in Seq(Entry) /\ InSequence(All(elf)) /\ Len(All(elf)) = Len(def)
    BY <1>4, <2>1, AllFacts DEF new
  <2>. HIDE DEF def, v, a
  <2>3. Range(def) \subseteq Range(All(elf))
    <3>1. ASSUME NEW i \in 1..Len(def) PROVE \E j \in 1..Len(All(elf)) : def[i] = All(elf)[j]
      <4>1. CASE i \in 1..v
        <5>1. InOrder(V)[i] \in 1..Len(frz) /\ def[i] = frz[InOrder(V)[i]]
          BY <1>2, <2>1, <4>1, FrzFacts DEF v, V
        <5>2. InOrder(V)[i] \in 1..Len(All(elf)) /\ All(elf)[InOrder(V)[i]] = frz[InOrder(V)[i]]
          BY <5>1, AllFacts, FrzFacts, NewFacts
        <5>. QED  BY <5>1, <5>2
      <4>2. CASE i \in v + 1..v + a
        <5>1. i - v \in 1..a /\ def[i] = Absents[i - v]
          BY <2>1, <4>2
        <5>2. InOrder(A)[i - v] \in 1..Len(frz) /\ def[i] = frz[InOrder(A)[i - v]]
          BY <1>3, <5>1, FrzFacts DEF a, A
        <5>3. InOrder(A)[i - v] \in 1..Len(All(elf))
              /\ All(elf)[InOrder(A)[i - v]] = frz[InOrder(A)[i - v]]
          BY <5>2, AllFacts, FrzFacts, NewFacts
        <5>. QED  BY <5>2, <5>3
      <4>3. CASE i \in v + a + 1..v + a + Len(new)
        <5>1. i - (v + a) \in 1..Len(new) /\ def[i] = new[i - (v + a)]
          BY <2>1, <4>3
        <5>. QED  BY <5>1, AllFacts DEF new
      <4>4. i \in 1..v \/ i \in v + 1..v + a \/ i \in v + a + 1..v + a + Len(new)
        BY <1>2, <1>3, <1>5, <2>1 DEF v, a
      <4>. QED  BY <4>1, <4>2, <4>3, <4>4
    <3>2. DOMAIN def = 1..Len(def) /\ DOMAIN All(elf) = 1..Len(All(elf))
      BY <2>1, AllFacts
    <3>. QED  BY <3>1, <3>2 DEF Range
  <2>4. Range(All(elf)) \subseteq Range(def)
    <3>1. ASSUME NEW j \in 1..Len(All(elf)) PROVE \E i \in 1..Len(def) : def[i] = All(elf)[j]
      <4>1. CASE j \in V
        <5>1. PICK i \in 1..v : InOrder(V)[i] = j
          BY <1>2, <4>1 DEF v
        <5>2. def[i] = frz[j] /\ i \in 1..Len(def)
          BY <1>2, <1>3, <1>5, <2>1, <5>1 DEF v, a
        <5>3. All(elf)[j] = frz[j]
          BY <4>1, AllFacts, FrzFacts DEF V
        <5>. QED  BY <5>2, <5>3
      <4>2. CASE j \in A
        <5>1. PICK i \in 1..a : InOrder(A)[i] = j
          BY <1>3, <4>2 DEF a
        <5>2. v + i \in v + 1..v + a /\ (v + i) - v = i /\ v + i \in 1..Len(def)
          BY <1>2, <1>3, <1>5, <2>1, <5>1 DEF v, a
        <5>3. def[v + i] = Absents[i]
          BY <2>1, <5>2
        <5>4. def[v + i] = frz[j]
          BY <1>3, <5>1, <5>3 DEF a
        <5>5. All(elf)[j] = frz[j]
          BY <4>2, AllFacts, FrzFacts DEF A
        <5>. QED  BY <5>2, <5>4, <5>5
      <4>3. CASE j \in Len(frz) + 1..Len(All(elf))
        <5>. DEFINE k == j - Len(frz)
        <5>1. k \in 1..Len(new) /\ All(elf)[j] = new[k]
          BY <4>3, AllFacts DEF new
        <5>. HIDE DEF k
        <5>2. v + a + k \in v + a + 1..v + a + Len(new) /\ (v + a + k) - (v + a) = k
              /\ v + a + k \in 1..Len(def)
          BY <1>2, <1>3, <1>5, <2>1, <5>1 DEF v, a
        <5>3. def[v + a + k] = new[k]
          BY <2>1, <5>2
        <5>. QED  BY <5>1, <5>2, <5>3
      <4>4. j \in V \/ j \in A \/ j \in Len(frz) + 1..Len(All(elf))
        BY <1>1, FrzFacts DEF V, A
      <4>. QED  BY <4>1, <4>2, <4>3, <4>4
    <3>2. DOMAIN def = 1..Len(def) /\ DOMAIN All(elf) = 1..Len(All(elf))
      BY <2>1, AllFacts
    <3>. QED  BY <3>1, <3>2 DEF Range
  <2>5. ByOrdinal(def) = All(elf)
    <3>1. Range(def) = Range(All(elf))
      BY <2>3, <2>4, Zenon
    <3>. QED  BY <2>1, <2>2, <3>1, ByOrdinalSorts
  <2>. QED  BY <1>7, <2>5 DEF Symbols, def, new
<1>. QED  BY <1>6, <1>7

\* No frozen export that is valid is missing.
LEMMA MissingNone ==
  ASSUME FrzInv, NEW elf \in Elfs, Missing(elf) = {}, NEW i \in 1..Len(frz), ~frz[i].absent
  PROVE  frz[i].name \in elf
<1>. DEFINE V == {j \in DOMAIN frz : ~frz[j].absent}
<1>1. i \in V /\ V \in SUBSET DOMAIN frz
  BY FrzFacts
<1>2. /\ Valid \in Seq(Entry) /\ Len(Valid) = Cardinality(V)
      /\ \A k \in 1..Cardinality(V) : InOrder(V)[k] \in V /\ Valid[k] = frz[InOrder(V)[k]]
      /\ \A p \in V : \E k \in 1..Cardinality(V) : InOrder(V)[k] = p
  BY <1>1, FrzFacts, OnlySelects, Zenon DEF Valid
<1>3. PICK k \in 1..Cardinality(V) : InOrder(V)[k] = i
  BY <1>1, <1>2
<1>4. k \in DOMAIN Valid /\ Valid[k].name = frz[i].name
  BY <1>2, <1>3
<1>5. frz[i].name \in NamesOf(Valid)
  BY <1>4 DEF NamesOf
<1>. QED  BY <1>5 DEF Missing

\* A generated .DEF file holds entries of the symbol list, each at most once.
LEMMA WrittenFacts ==
  ASSUME NEW def \in Seq(Entry), Distinct(def), NEW elf
  PROVE  /\ Written(elf, def) \in Seq(Entry)
         /\ Distinct(Written(elf, def))
         /\ \A i \in DOMAIN Written(elf, def) : \E p \in DOMAIN def : Written(elf, def)[i] = def[p]
<1>. DEFINE N == {i \in DOMAIN def : def[i].name \notin NamesOf(frz)}
            M == {i \in DOMAIN def : def[i].name \in Missing(elf)}
            P == DOMAIN def \ (N \cup M)
            x == Only(def, P)
            y == Only(def, N)
            w == x \o y
<1>1. Written(elf, def) = w
  BY DEF Written
<1>2. /\ x \in Seq(Entry) /\ Distinct(x)
      /\ \A i \in DOMAIN x : InOrder(P)[i] \in P /\ x[i] = def[InOrder(P)[i]]
  <2>1. P \in SUBSET DOMAIN def
    OBVIOUS
  <2>. HIDE DEF P
  <2>2. /\ x \in Seq(Entry) /\ Len(x) = Cardinality(P)
        /\ \A i \in 1..Cardinality(P) : InOrder(P)[i] \in P /\ x[i] = def[InOrder(P)[i]]
    BY <2>1, OnlySelects, Zenon
  <2>. QED  BY <2>1, <2>2, OnlyDistinct
<1>3. /\ y \in Seq(Entry) /\ Distinct(y)
      /\ \A i \in DOMAIN y : InOrder(N)[i] \in N /\ y[i] = def[InOrder(N)[i]]
  <2>1. N \in SUBSET DOMAIN def
    OBVIOUS
  <2>. HIDE DEF N
  <2>2. /\ y \in Seq(Entry) /\ Len(y) = Cardinality(N)
        /\ \A i \in 1..Cardinality(N) : InOrder(N)[i] \in N /\ y[i] = def[InOrder(N)[i]]
    BY <2>1, OnlySelects, Zenon
  <2>. QED  BY <2>1, <2>2, OnlyDistinct
<1>4. \A i \in DOMAIN x : \E p \in DOMAIN def : x[i] = def[p] /\ def[p].name \in NamesOf(frz)
  BY <1>2
<1>5. \A i \in DOMAIN y : \E p \in DOMAIN def : y[i] = def[p] /\ def[p].name \notin NamesOf(frz)
  BY <1>3
<1>. HIDE DEF N, P, x, y
<1>6. /\ w \in Seq(Entry) /\ Len(w) = Len(x) + Len(y) /\ Len(x) \in Nat /\ Len(y) \in Nat
      /\ DOMAIN w = 1..Len(w) /\ DOMAIN x = 1..Len(x) /\ DOMAIN y = 1..Len(y)
      /\ \A i \in 1..Len(x) : w[i] = x[i]
      /\ \A i \in Len(x) + 1..Len(w) : i - Len(x) \in 1..Len(y) /\ w[i] = y[i - Len(x)]
  BY <1>2, <1>3
<1>. HIDE DEF w
<1>7. \A i \in 1..Len(w) : i \in 1..Len(x) \/ i \in Len(x) + 1..Len(w)
  BY <1>6
<1>8. \A i \in DOMAIN w : \E p \in DOMAIN def : w[i] = def[p]
  <2>1. ASSUME NEW i \in 1..Len(x) PROVE \E p \in DOMAIN def : w[i] = def[p]
    BY <1>4, <1>6
  <2>2. ASSUME NEW i \in Len(x) + 1..Len(w) PROVE \E p \in DOMAIN def : w[i] = def[p]
    <3>1. i - Len(x) \in DOMAIN y /\ w[i] = y[i - Len(x)]
      BY <1>6
    <3>. QED  BY <1>5, <3>1
  <2>. QED  BY <1>6, <1>7, <2>1, <2>2
<1>9. ASSUME NEW i \in 1..Len(w), NEW j \in 1..Len(w), w[i].name = w[j].name PROVE i = j
  <2>1. CASE i \in 1..Len(x) /\ j \in 1..Len(x)
    BY <1>2, <1>6, <1>9, <2>1 DEF Distinct
  <2>2. CASE i \in Len(x) + 1..Len(w) /\ j \in Len(x) + 1..Len(w)
    <3>1. i - Len(x) \in DOMAIN y /\ j - Len(x) \in DOMAIN y
          /\ y[i - Len(x)].name = y[j - Len(x)].name
      BY <1>6, <1>9, <2>2
    <3>2. i - Len(x) = j - Len(x)
      BY <1>3, <3>1 DEF Distinct
    <3>. QED  BY <1>6, <3>2
  <2>3. CASE i \in 1..Len(x) /\ j \in Len(x) + 1..Len(w)
    <3>1. w[i].name \in NamesOf(frz)
      BY <1>4, <1>6, <2>3
    <3>2. w[j].name \notin NamesOf(frz)
      BY <1>5, <1>6, <2>3
    <3>. QED  BY <1>9, <3>1, <3>2
  <2>4. CASE j \in 1..Len(x) /\ i \in Len(x) + 1..Len(w)
    <3>1. w[j].name \in NamesOf(frz)
      BY <1>4, <1>6, <2>4
    <3>2. w[i].name \notin NamesOf(frz)
      BY <1>5, <1>6, <2>4
    <3>. QED  BY <1>9, <3>1, <3>2
  <2>. QED  BY <1>7, <2>1, <2>2, <2>3, <2>4
<1>10. Distinct(w)
  BY <1>6, <1>9 DEF Distinct
<1>. QED  BY <1>1, <1>6, <1>8, <1>10

\* With no export missing, the table has each at the place of its ordinal.
LEMMA TableFacts ==
  ASSUME FrzInv, NEW elf \in Elfs, Missing(elf) = {}
  PROVE  /\ Table(elf) \in Seq(Names \cup {NoName})
         /\ Len(Table(elf)) = Len(All(elf))
         /\ \A i \in 1..Len(All(elf)) :
              Table(elf)[i] = IF All(elf)[i].absent THEN NoName ELSE All(elf)[i].name
<1>. DEFINE a == All(elf)
<1>1. a \in Seq(Entry) /\ InSequence(a) /\ DOMAIN a = 1..Len(a)
  BY AllFacts
<1>2. ByOrdinal(a) = a
  BY <1>1, ByOrdinalSorts
<1>3. {i \in DOMAIN a : a[i].name \notin Missing(elf)} = DOMAIN a
  OBVIOUS
<1>4. Only(a, DOMAIN a) = a
  BY <1>1, OnlyAll
<1>5. Table(elf) = [i \in DOMAIN a |-> IF a[i].absent THEN NoName ELSE a[i].name]
  <2>. HIDE DEF a
  <2>1. Only(a, {i \in DOMAIN a : a[i].name \notin Missing(elf)}) = a
    BY <1>3, <1>4
  <2>2. ByOrdinal(frz \o New(elf)) = a
    BY <1>2 DEF a, All
  <2>. QED  BY <2>1, <2>2 DEF Table
<1>. HIDE DEF a
<1>6. \A i \in 1..Len(a) : a[i].name \in Names
  BY <1>1, EntryFacts
<1>. QED  BY <1>1, <1>5, <1>6 DEF a
-----------------------------------------------------------------------------
(* A freeze *)

Comparison == [left : SUBSET DOMAIN frz, new : Seq(Entry), bad : SUBSET Names]
Start == [left |-> DOMAIN frz, new |-> <<>>, bad |-> {}]

\* The first of the entries found is one of them.
FirstHit(hits) == CHOOSE i \in hits : \A j \in hits : i <= j

LEMMA FirstHitFound ==
  ASSUME FrzInv, NEW hits \in SUBSET DOMAIN frz, hits # {}
  PROVE  FirstHit(hits) \in hits /\ \A j \in hits : FirstHit(hits) <= j
<1>1. hits \in SUBSET Nat
  BY FrzFacts
<1>2. \E i \in hits : \A j \in hits : i <= j
  BY <1>1, LeastNatural
<1>. QED  BY <1>2 DEF FirstHit

\* What comparing one generated entry does: it is new, or passed over, or found.
NewEntry(s, e) == [e EXCEPT !.ord = Len(frz) + Len(s.new) + 1]

LEMMA CompareFacts ==
  ASSUME FrzInv, NEW s \in Comparison, NEW e \in Entry
  PROVE  /\ Compare(s, e) \in Comparison
         /\ Hits(e, s.left) \in SUBSET s.left
         /\ Hits(e, s.left) = {} =>
              /\ Compare(s, e).left = s.left
              /\ Compare(s, e).new = Append(s.new, NewEntry(s, e))
              /\ NewEntry(s, e) \in Entry
              /\ NewEntry(s, e).name = e.name /\ NewEntry(s, e).absent = e.absent
              /\ NewEntry(s, e).ord = Len(frz) + Len(s.new) + 1
         /\ Hits(e, s.left) # {} =>
              /\ FirstHit(Hits(e, s.left)) \in s.left
              /\ Compare(s, e).new = s.new
              /\ Compare(s, e).left =
                   IF frz[FirstHit(Hits(e, s.left))].name = e.name
                   THEN s.left \ {FirstHit(Hits(e, s.left))} ELSE s.left
<1>. DEFINE hits == Hits(e, s.left)
            hit  == FirstHit(hits)
            new  == NewEntry(s, e)
<1>1. s.left \in SUBSET DOMAIN frz /\ s.new \in Seq(Entry) /\ s.bad \in SUBSET Names
      /\ Len(s.new) \in Nat
  BY DEF Comparison
<1>2. hits \in SUBSET s.left
  BY DEF Hits
<1>3. /\ new \in Entry /\ new.name = e.name /\ new.absent = e.absent
      /\ new.ord = Len(frz) + Len(s.new) + 1
  BY <1>1, FrzFacts DEF NewEntry, Entry
<1>4. /\ hits = {} => Compare(s, e) = [s EXCEPT !.new = Append(@, new)]
      /\ hits # {} /\ frz[hit].name # e.name => Compare(s, e) = s
      /\ hits # {} /\ frz[hit].name = e.name =>
           Compare(s, e) = [s EXCEPT !.left = @ \ {hit},
                              !.bad = @ \cup (IF frz[hit].ord = e.ord THEN {} ELSE {e.name})]
  BY FrzFacts DEF Compare, FirstHit, NewEntry
<1>5. hits # {} => hit \in s.left
  BY <1>1, <1>2, FirstHitFound
<1>6. e.name \in Names
  BY EntryFacts
<1>. HIDE DEF hits, hit, new
<1>7. CASE hits = {}
  <2>1. Compare(s, e) = [s EXCEPT !.new = Append(@, new)]
    BY <1>4, <1>7
  <2>2. Compare(s, e) \in Comparison /\ Compare(s, e).left = s.left
        /\ Compare(s, e).new = Append(s.new, new)
    <3>1. Append(s.new, new) \in Seq(Entry)
      BY <1>1, <1>3
    <3>. DEFINE r == Append(s.new, new)
    <3>2. Compare(s, e) = [s EXCEPT !.new = r] /\ r \in Seq(Entry)
      BY <2>1, <3>1
    <3>. HIDE DEF r
    <3>3. Compare(s, e) \in Comparison /\ Compare(s, e).left = s.left
          /\ Compare(s, e).new = r
      BY <3>2 DEF Comparison
    <3>. QED  BY <3>3 DEF r
  <2>. QED  BY <1>2, <1>3, <1>7, <2>2 DEF hits, new
<1>8. CASE hits # {} /\ frz[hit].name # e.name
  BY <1>2, <1>4, <1>5, <1>8 DEF hits, hit
<1>9. CASE hits # {} /\ frz[hit].name = e.name
  <2>. DEFINE b == IF frz[hit].ord = e.ord THEN {} ELSE {e.name}
  <2>1. Compare(s, e) = [s EXCEPT !.left = @ \ {hit}, !.bad = @ \cup b]
    BY <1>4, <1>9
  <2>2. b \in SUBSET Names
    BY <1>6
  <2>. HIDE DEF b
  <2>3. Compare(s, e) \in Comparison /\ Compare(s, e).left = s.left \ {hit}
        /\ Compare(s, e).new = s.new
    BY <1>1, <2>1, <2>2 DEF Comparison
  <2>. QED  BY <1>2, <1>5, <1>9, <2>3 DEF hits, hit
<1>. QED  BY <1>7, <1>8, <1>9

\* The comparison of the first m entries of a generated file, one by one.
Runs(f, def, m) ==
  /\ f \in [0..m -> Comparison]
  /\ f[0] = Start
  /\ \A n \in 1..m : f[n] = Compare(f[n - 1], def[n])

LEMMA RunExists ==
  ASSUME FrzInv, NEW def \in Seq(Entry)
  PROVE  \E f : Runs(f, def, Len(def))
<1>. DEFINE Bad == {m \in 0..Len(def) : ~\E f : Runs(f, def, m)}
<1>1. Len(def) \in Nat /\ \A n \in 1..Len(def) : def[n] \in Entry
  BY SeqFacts
<1>2. SUFFICES ASSUME Bad # {} PROVE FALSE
  BY <1>1
<1>3. PICK m \in Bad : \A n \in Bad : m <= n
  <2>1. Bad \in SUBSET Nat
    OBVIOUS
  <2>. HIDE DEF Bad
  <2>. QED  BY <1>2, <2>1, LeastNatural
<1>4. Start \in Comparison
  BY DEF Start, Comparison
<1>5. m # 0
  <2>1. SUFFICES ASSUME m = 0 PROVE FALSE
    OBVIOUS
  <2>2. Runs([n \in 0..0 |-> Start], def, 0)
    BY <1>4 DEF Runs
  <2>. QED  BY <1>3, <2>1, <2>2
<1>6. m \in 1..Len(def) /\ m - 1 \in 0..Len(def) /\ m - 1 \in Nat
  BY <1>1, <1>3, <1>5
<1>7. PICK f : Runs(f, def, m - 1)
  BY <1>3, <1>6
<1>. DEFINE g == [n \in 0..m |-> IF n = m THEN Compare(f[m - 1], def[m]) ELSE f[n]]
<1>8. Compare(f[m - 1], def[m]) \in Comparison
  <2>1. f[m - 1] \in Comparison /\ def[m] \in Entry
    BY <1>1, <1>6, <1>7 DEF Runs
  <2>. QED  BY <2>1, CompareFacts
<1>9. \A n \in 0..m - 1 : g[n] = f[n] /\ f[n] \in Comparison
  BY <1>6, <1>7 DEF Runs
<1>10. g \in [0..m -> Comparison] /\ g[m] = Compare(f[m - 1], def[m])
  <2>1. \A n \in 0..m : n = m \/ n \in 0..m - 1
    BY <1>6
  <2>2. \A n \in 0..m : g[n] \in Comparison
    BY <1>8, <1>9, <2>1
  <2>3. m \in 0..m
    BY <1>6
  <2>. QED  BY <2>2, <2>3
<1>. HIDE DEF g
<1>11. g[0] = Start
  <2>1. 0 \in 0..m - 1 /\ f[0] = Start
    BY <1>6, <1>7 DEF Runs
  <2>. QED  BY <1>9, <2>1
<1>12. ASSUME NEW n \in 1..m PROVE g[n] = Compare(g[n - 1], def[n])
  <2>1. n - 1 \in 0..m - 1 /\ g[n - 1] = f[n - 1]
    BY <1>6, <1>9
  <2>2. CASE n = m
    BY <1>10, <2>1, <2>2
  <2>3. CASE n # m
    <3>1. n \in 1..m - 1 /\ n \in 0..m - 1
      BY <1>6, <2>3
    <3>2. f[n] = Compare(f[n - 1], def[n])
      BY <1>7, <3>1 DEF Runs
    <3>. QED  BY <1>9, <2>1, <3>1, <3>2
  <2>. QED  BY <2>2, <2>3
<1>13. Runs(g, def, m)
  BY <1>10, <1>11, <1>12 DEF Runs
<1>. QED  BY <1>3, <1>13

LEMMA ComparedRuns ==
  ASSUME FrzInv, NEW def \in Seq(Entry)
  PROVE  \E f : Runs(f, def, Len(def)) /\ Compared(def) = f[Len(def)]
<1>. DEFINE N == Len(def)
            IsRun(f) == f = [n \in 0..N |->
              IF n = 0 THEN [left |-> DOMAIN frz, new |-> <<>>, bad |-> {}]
              ELSE Compare(f[n - 1], def[n])]
            run == CHOOSE f : IsRun(f)
<1>1. Compared(def) = run[N]
  BY DEF Compared
<1>2. N \in Nat /\ \A n \in 1..N : def[n] \in Entry
  BY SeqFacts
<1>3. \E f : IsRun(f)
  <2>1. PICK f : Runs(f, def, N)
    BY RunExists
  <2>2. f = [n \in 0..N |-> f[n]]
    BY <2>1 DEF Runs
  <2>3. ASSUME NEW n \in 0..N
        PROVE  f[n] = IF n = 0 THEN Start ELSE Compare(f[n - 1], def[n])
    BY <1>2, <2>1 DEF Runs
  <2>4. f = [n \in 0..N |-> IF n = 0 THEN Start ELSE Compare(f[n - 1], def[n])]
    BY <2>2, <2>3
  <2>. QED  BY <2>4 DEF Start
<1>4. IsRun(run)
  BY <1>3
<1>. HIDE DEF run
<1>5. run = [n \in 0..N |-> IF n = 0 THEN Start ELSE Compare(run[n - 1], def[n])]
  BY <1>4 DEF Start
<1>6. \A n \in 0..N : run[n] = IF n = 0 THEN Start ELSE Compare(run[n - 1], def[n])
  BY <1>5, Zenon
<1>7. run[0] = Start /\ \A n \in 1..N : run[n] = Compare(run[n - 1], def[n])
  BY <1>2, <1>6
<1>. DEFINE Bad == {n \in 0..N : run[n] \notin Comparison}
<1>8. Bad = {}
  <2>1. SUFFICES ASSUME Bad # {} PROVE FALSE
    OBVIOUS
  <2>2. PICK m \in Bad : \A n \in Bad : m <= n
    <3>1. Bad \in SUBSET Nat
      OBVIOUS
    <3>. HIDE DEF Bad
    <3>. QED  BY <2>1, <3>1, LeastNatural
  <2>3. Start \in Comparison
    BY DEF Start, Comparison
  <2>4. m \in 1..N /\ m - 1 \in 0..N /\ run[m - 1] \in Comparison
    BY <1>2, <1>7, <2>2, <2>3
  <2>5. run[m] \in Comparison
    <3>1. def[m] \in Entry /\ run[m] = Compare(run[m - 1], def[m])
      BY <1>2, <1>7, <2>4
    <3>2. Compare(run[m - 1], def[m]) \in Comparison
      BY <2>4, <3>1, CompareFacts, Zenon
    <3>. QED  BY <3>1, <3>2
  <2>. QED  BY <2>2, <2>5
<1>9. run \in [0..N -> Comparison]
  <2>1. \A n \in 0..N : run[n] \in Comparison
    BY <1>8
  <2>. QED  BY <1>5, <2>1
<1>10. Runs(run, def, N)
  BY <1>7, <1>9 DEF Runs
<1>. QED  BY <1>1, <1>10

\* What the comparison of n entries has found new: entries of the generated file
\* whose names are not frozen, once each.  A frozen export that is no longer left
\* was found by its name.
NewSoFar(s, def, n) ==
  /\ \A j \in 1..Len(s.new) :
       /\ s.new[j].ord = Len(frz) + j
       /\ s.new[j].name \notin NamesOf(frz)
       /\ \E k \in 1..n : s.new[j].name = def[k].name /\ s.new[j].absent = def[k].absent
  /\ \A i, j \in 1..Len(s.new) : s.new[i].name = s.new[j].name => i = j
  /\ \A i \in DOMAIN frz \ s.left : \E k \in 1..n : def[k].name = frz[i].name

LEMMA ComparedStep ==
  ASSUME FrzInv, NEW def \in Seq(Entry), Distinct(def), NEW n \in 1..Len(def),
         NEW s \in Comparison, NewSoFar(s, def, n - 1)
  PROVE  NewSoFar(Compare(s, def[n]), def, n)
<1>. DEFINE e == def[n]
            r == Compare(s, e)
            hits == Hits(e, s.left)
            hit == FirstHit(hits)
            x == NewEntry(s, e)
<1>1. /\ e \in Entry /\ Len(def) \in Nat /\ n \in Nat /\ n - 1 \in Nat
      /\ \A k \in 1..n - 1 : k \in 1..n /\ k \in 1..Len(def) /\ k # n
  BY SeqFacts
<1>2. \A k \in 1..n - 1 : def[k].name # e.name
  BY <1>1 DEF Distinct
<1>3. /\ s.left \in SUBSET DOMAIN frz /\ s.new \in Seq(Entry) /\ Len(s.new) \in Nat
      /\ Len(frz) \in Nat
  BY FrzFacts DEF Comparison
<1>4. /\ hits = {} => r.left = s.left /\ r.new = Append(s.new, x) /\ x \in Entry
           /\ x.name = e.name /\ x.absent = e.absent /\ x.ord = Len(frz) + Len(s.new) + 1
      /\ hits # {} => r.new = s.new
           /\ r.left = IF frz[hit].name = e.name THEN s.left \ {hit} ELSE s.left
  <2>1. hits = {} =>
          /\ r.left = s.left /\ r.new = Append(s.new, x) /\ x \in Entry
          /\ x.name = e.name /\ x.absent = e.absent /\ x.ord = Len(frz) + Len(s.new) + 1
    <3>1. e \in Entry
      BY <1>1
    <3>. HIDE DEF e
    <3>. QED  BY <3>1, CompareFacts
  <2>2. hits # {} =>
          /\ r.new = s.new
          /\ r.left = IF frz[hit].name = e.name THEN s.left \ {hit} ELSE s.left
    BY <1>1, CompareFacts
  <2>. QED  BY <2>1, <2>2
<1>5. hits = {} => \A i \in s.left : frz[i].name # e.name
  BY DEF Hits
<1>6. /\ \A j \in 1..Len(s.new) :
           /\ s.new[j].ord = Len(frz) + j
           /\ s.new[j].name \notin NamesOf(frz)
           /\ \E k \in 1..n - 1 : s.new[j].name = def[k].name /\ s.new[j].absent = def[k].absent
      /\ \A i, j \in 1..Len(s.new) : s.new[i].name = s.new[j].name => i = j
      /\ \A i \in DOMAIN frz \ s.left : \E k \in 1..n - 1 : def[k].name = frz[i].name
  BY DEF NewSoFar
<1>. HIDE DEF r, hits, hit, x
<1>7. CASE hits = {}
  <2>1. e.name \notin NamesOf(frz)
    <3>1. SUFFICES ASSUME NEW i \in DOMAIN frz, frz[i].name = e.name PROVE FALSE
      BY DEF NamesOf
    <3>2. i \notin s.left
      BY <1>5, <1>7, <3>1
    <3>. QED  BY <1>2, <1>6, <3>1, <3>2
  <2>2. /\ Len(r.new) = Len(s.new) + 1
        /\ \A j \in 1..Len(s.new) : r.new[j] = s.new[j]
        /\ r.new[Len(s.new) + 1] = x
    <3>1. r.new = Append(s.new, x) /\ x \in Entry
      BY <1>4, <1>7
    <3>. QED  BY <1>3, <3>1
  <2>3. \A j \in 1..Len(r.new) : j \in 1..Len(s.new) \/ j = Len(s.new) + 1
    BY <1>3, <2>2
  <2>4. ASSUME NEW j \in 1..Len(r.new)
        PROVE  /\ r.new[j].ord = Len(frz) + j
               /\ r.new[j].name \notin NamesOf(frz)
               /\ \E k \in 1..n : r.new[j].name = def[k].name /\ r.new[j].absent = def[k].absent
    <3>1. CASE j \in 1..Len(s.new)
      <4>1. r.new[j] = s.new[j]
        BY <2>2, <3>1
      <4>2. PICK k \in 1..n - 1 : s.new[j].name = def[k].name /\ s.new[j].absent = def[k].absent
        BY <1>6, <3>1
      <4>3. k \in 1..n
        BY <1>1
      <4>. QED  BY <1>6, <3>1, <4>1, <4>2, <4>3
    <3>2. CASE j = Len(s.new) + 1
      <4>1. r.new[j] = x /\ n \in 1..n
        BY <1>1, <2>2, <3>2
      <4>. QED  BY <1>3, <1>4, <1>7, <2>1, <3>2, <4>1
    <3>. QED  BY <2>3, <3>1, <3>2
  <2>5. ASSUME NEW j \in 1..Len(s.new) PROVE s.new[j].name # e.name
    BY <1>2, <1>6
  <2>6. ASSUME NEW i \in 1..Len(r.new), NEW j \in 1..Len(r.new), r.new[i].name = r.new[j].name
        PROVE  i = j
    <3>1. CASE i \in 1..Len(s.new) /\ j \in 1..Len(s.new)
      BY <1>6, <2>2, <2>6, <3>1
    <3>2. CASE i = Len(s.new) + 1 /\ j \in 1..Len(s.new)
      BY <1>4, <1>7, <2>2, <2>5, <2>6, <3>2
    <3>3. CASE j = Len(s.new) + 1 /\ i \in 1..Len(s.new)
      BY <1>4, <1>7, <2>2, <2>5, <2>6, <3>3
    <3>. QED  BY <2>3, <3>1, <3>2, <3>3
  <2>7. ASSUME NEW i \in DOMAIN frz \ r.left PROVE \E k \in 1..n : def[k].name = frz[i].name
    BY <1>1, <1>4, <1>6, <1>7
  <2>. QED  BY <2>4, <2>6, <2>7 DEF NewSoFar, r
<1>8. CASE hits # {}
  <2>1. r.new = s.new
    BY <1>4, <1>8
  <2>2. ASSUME NEW j \in 1..Len(s.new)
        PROVE  \E k \in 1..n : s.new[j].name = def[k].name /\ s.new[j].absent = def[k].absent
    BY <1>1, <1>6
  <2>3. ASSUME NEW i \in DOMAIN frz \ r.left PROVE \E k \in 1..n : def[k].name = frz[i].name
    <3>1. CASE i \in s.left
      <4>1. frz[i].name = e.name
        BY <1>4, <1>8, <2>3, <3>1
      <4>. QED  BY <1>1, <4>1
    <3>2. CASE i \notin s.left
      BY <1>1, <1>6, <3>2
    <3>. QED  BY <3>1, <3>2
  <2>. QED  BY <1>6, <2>1, <2>2, <2>3 DEF NewSoFar, r
<1>. QED  BY <1>7, <1>8

\* What efreeze finds new is not frozen, and numbered on from the last ordinal.
LEMMA ComparedFacts ==
  ASSUME FrzInv, NEW def \in Seq(Entry), Distinct(def)
  PROVE  Compared(def) \in Comparison /\ NewSoFar(Compared(def), def, Len(def))
<1>. DEFINE N == Len(def)
<1>1. PICK f : Runs(f, def, N) /\ Compared(def) = f[N]
  BY ComparedRuns
<1>2. N \in Nat
  OBVIOUS
<1>3. /\ f[0] = Start
      /\ \A n \in 0..N : f[n] \in Comparison
      /\ \A n \in 1..N : f[n] = Compare(f[n - 1], def[n])
  BY <1>1 DEF Runs
<1>. DEFINE Bad == {n \in 0..N : ~NewSoFar(f[n], def, n)}
<1>4. Bad = {}
  <2>1. SUFFICES ASSUME Bad # {} PROVE FALSE
    OBVIOUS
  <2>2. PICK m \in Bad : \A n \in Bad : m <= n
    <3>1. Bad \in SUBSET Nat
      OBVIOUS
    <3>. HIDE DEF Bad
    <3>. QED  BY <2>1, <3>1, LeastNatural
  <2>3. NewSoFar(Start, def, 0)
    BY DEF NewSoFar, Start
  <2>4. m # 0
    BY <1>3, <2>2, <2>3
  <2>5. m \in 1..N /\ m - 1 \in 0..N
    BY <1>2, <2>2, <2>4
  <2>6. m - 1 \notin Bad
    BY <1>2, <2>2, <2>5
  <2>7. NewSoFar(f[m - 1], def, m - 1) /\ f[m - 1] \in Comparison
    BY <1>3, <2>5, <2>6
  <2>8. NewSoFar(Compare(f[m - 1], def[m]), def, m)
    BY <2>5, <2>7, ComparedStep
  <2>. QED  BY <1>3, <2>2, <2>5, <2>8
<1>5. N \in 0..N
  BY <1>2
<1>. QED  BY <1>1, <1>3, <1>4, <1>5

\* Marking entries as absent changes nothing else of them.
LEMMA MarkedFacts ==
  ASSUME FrzInv, NEW def
  PROVE  /\ Marked(def) \in Seq(Entry) /\ Len(Marked(def)) = Len(frz)
         /\ \A i \in 1..Len(frz) :
              /\ Marked(def)[i].name = frz[i].name /\ Marked(def)[i].ord = i
              /\ frz[i].absent => Marked(def)[i].absent
<1>. DEFINE x == Marked(def)
            m == Len(frz)
<1>0. m \in Nat /\ DOMAIN frz = 1..m /\ \A i \in 1..m : frz[i] \in Entry /\ frz[i].ord = i
  BY FrzFacts
<1>. DEFINE mark(i) == frz[i].absent \/ i \in Left(def)
<1>1. x = [i \in 1..m |-> [frz[i] EXCEPT !.absent = mark(i)]]
  BY <1>0 DEF Marked
<1>2. \A i \in 1..m : mark(i) \in BOOLEAN
  BY <1>0, EntryFacts
<1>3. \A i \in 1..m : frz[i].absent => mark(i)
  OBVIOUS
<1>. HIDE DEF mark
<1>4. \A i \in 1..m : /\ [frz[i] EXCEPT !.absent = mark(i)] \in Entry
                      /\ [frz[i] EXCEPT !.absent = mark(i)].name = frz[i].name
                      /\ [frz[i] EXCEPT !.absent = mark(i)].ord = frz[i].ord
                      /\ [frz[i] EXCEPT !.absent = mark(i)].absent = mark(i)
  BY <1>0, <1>2 DEF Entry
<1>5. x \in Seq(Entry) /\ Len(x) = m
  <2>. DEFINE y(i) == [frz[i] EXCEPT !.absent = mark(i)]
  <2>1. x = [i \in 1..m |-> y(i)] /\ \A i \in 1..m : y(i) \in Entry
    BY <1>1, <1>4
  <2>. HIDE DEF y, x
  <2>. QED  BY <1>0, <2>1
<1>6. \A i \in 1..m : x[i] = [frz[i] EXCEPT !.absent = mark(i)]
  BY <1>1
<1>. QED  BY <1>0, <1>3, <1>4, <1>5, <1>6

\* The frozen file after a freeze.
Merged(def) == Marked(def) \o Compared(def).new

LEMMA MergedFacts ==
  ASSUME FrzInv, NEW def \in Seq(Entry), Distinct(def),
         \A i \in DOMAIN def : def[i].absent => def[i].name \in NamesOf(frz)
  PROVE  /\ Merged(def) \in Seq(Entry) /\ Len(Merged(def)) \in Nat
         /\ Len(frz) <= Len(Merged(def))
         /\ \A i \in 1..Len(frz) :
              /\ Merged(def)[i].name = frz[i].name
              /\ frz[i].absent => Merged(def)[i].absent
         /\ \A i \in Len(frz) + 1..Len(Merged(def)) : ~Merged(def)[i].absent
         /\ InSequence(Merged(def))
         /\ Distinct(Merged(def))
<1>. DEFINE new == Compared(def).new
            x == Marked(def)
            w == Merged(def)
            m == Len(frz)
<1>1. /\ new \in Seq(Entry) /\ Len(new) \in Nat
      /\ \A j \in 1..Len(new) :
           /\ new[j].ord = m + j
           /\ new[j].name \notin NamesOf(frz)
           /\ \E k \in 1..Len(def) : new[j].name = def[k].name /\ new[j].absent = def[k].absent
      /\ \A i, j \in 1..Len(new) : new[i].name = new[j].name => i = j
  <2>1. Compared(def) \in Comparison /\ NewSoFar(Compared(def), def, Len(def))
    BY ComparedFacts
  <2>2. new \in Seq(Entry)
    BY <2>1 DEF Comparison
  <2>. QED  BY <2>1, <2>2 DEF NewSoFar
<1>2. m \in Nat /\ DOMAIN frz = 1..m /\ \A i \in 1..m : frz[i] \in Entry
      /\ frz[i].ord = i /\ frz[i].name \in NamesOf(frz)
  BY FrzFacts DEF NamesOf
<1>3. /\ x \in Seq(Entry) /\ Len(x) = m
      /\ \A i \in 1..m : /\ x[i].name = frz[i].name /\ x[i].ord = i
                         /\ frz[i].absent => x[i].absent
  BY MarkedFacts
<1>4. \A j \in 1..Len(new) : ~new[j].absent
  BY <1>1, SeqFacts
<1>. HIDE DEF new, x, w, m
<1>5. /\ w \in Seq(Entry) /\ Len(w) = m + Len(new) /\ Len(w) \in Nat /\ DOMAIN w = 1..Len(w)
      /\ \A i \in 1..m : w[i] = x[i]
      /\ \A i \in m + 1..Len(w) : i - m \in 1..Len(new) /\ w[i] = new[i - m]
  <2>1. /\ x \o new \in Seq(Entry) /\ Len(x \o new) = Len(x) + Len(new)
        /\ \A i \in 1..Len(x) : (x \o new)[i] = x[i]
        /\ \A i \in Len(x) + 1..Len(x) + Len(new) :
             i - Len(x) \in 1..Len(new) /\ (x \o new)[i] = new[i - Len(x)]
    BY <1>1, <1>3, ConcatFacts, Zenon
  <2>2. w = x \o new
    BY DEF w, x, new, Merged
  <2>3. Len(w) \in Nat /\ DOMAIN w = 1..Len(w)
    BY <2>1, <2>2, SeqFacts, Zenon
  <2>. QED  BY <1>3, <2>1, <2>2, <2>3, Zenon
<1>6. \A i \in 1..Len(w) : i \in 1..m \/ i \in m + 1..Len(w)
  BY <1>2, <1>5
<1>7. \A i \in 1..m : w[i].name \in NamesOf(frz) /\ w[i].name = frz[i].name /\ w[i].ord = i
                      /\ (frz[i].absent => w[i].absent)
  BY <1>2, <1>3, <1>5
<1>8. ASSUME NEW i \in m + 1..Len(w)
      PROVE  w[i].name \notin NamesOf(frz) /\ w[i].ord = i /\ ~w[i].absent
  <2>1. i - m \in 1..Len(new) /\ w[i] = new[i - m]
    BY <1>5
  <2>2. w[i].name \notin NamesOf(frz) /\ w[i].ord = m + (i - m) /\ ~w[i].absent
    BY <1>1, <1>4, <2>1
  <2>. QED  BY <1>2, <1>5, <2>2
<1>9. ASSUME NEW i \in 1..Len(w), NEW j \in 1..Len(w), w[i].name = w[j].name PROVE i = j
  <2>1. CASE i \in 1..m /\ j \in 1..m
    <3>1. frz[i].name = frz[j].name
      BY <1>7, <1>9, <2>1
    <3>. QED  BY <2>1, <3>1, FrzFacts DEF m
  <2>2. CASE i \in m + 1..Len(w) /\ j \in m + 1..Len(w)
    <3>1. i - m \in 1..Len(new) /\ j - m \in 1..Len(new) /\ new[i - m].name = new[j - m].name
      BY <1>5, <1>9, <2>2
    <3>2. i - m = j - m
      BY <1>1, <3>1
    <3>. QED  BY <1>2, <1>5, <3>2
  <2>. QED  BY <1>6, <1>7, <1>8, <1>9, <2>1, <2>2
<1>10. InSequence(w) /\ Distinct(w)
  BY <1>5, <1>6, <1>7, <1>8, <1>9 DEF InSequence, Distinct
<1>11. Len(frz) <= Len(w)
  BY <1>1, <1>2, <1>5 DEF m
<1>. QED  BY <1>5, <1>7, <1>8, <1>10, <1>11 DEF w, m
-----------------------------------------------------------------------------
(* The invariant *)

\* An entry that a build wrote as absent was absent in the frozen file, which
\* has its name for good.
GenInv ==
  /\ gen \in [Trees -> [made : BOOLEAN, def : Seq(Entry), fresh : BOOLEAN]]
  /\ \A t \in Trees :
       /\ Distinct(gen[t].def)
       /\ \A i \in DOMAIN gen[t].def : gen[t].def[i].absent => gen[t].def[i].name \in NamesOf(frz)

\* An image is never ahead of the frozen file.
DllInv ==
  /\ dll \in [Trees -> [mode : {"none", "frozen", "unfrozen"}, frozen : Nat,
                        table : Seq(Names \cup {NoName}), imports : SUBSET (Names \X Nat)]]
  /\ \A t \in Trees : dll[t].mode = "frozen" => dll[t].frozen <= Len(frz)
  /\ DllServesFrozen
  /\ ImportsMatchTable

FreezeInv == FrzInv /\ GenInv /\ DllInv

\* What makes a .DEF file fit to be frozen next.
GenFits(def) ==
  /\ def \in Seq(Entry) /\ Distinct(def)
  /\ \A i \in DOMAIN def : def[i].absent => def[i].name \in NamesOf(frz)

LEMMA WrittenFits ==
  ASSUME FrzInv, NEW elf \in Elfs
  PROVE  GenFits(Written(elf, Valid)) /\ GenFits(Written(elf, All(elf)))
<1>1. ASSUME NEW def, GenFits(def) PROVE GenFits(Written(elf, def))
  <2>1. def \in Seq(Entry) /\ Distinct(def)
        /\ \A i \in DOMAIN def : def[i].absent => def[i].name \in NamesOf(frz)
    BY <1>1 DEF GenFits
  <2>2. /\ Written(elf, def) \in Seq(Entry)
        /\ Distinct(Written(elf, def))
        /\ \A i \in DOMAIN Written(elf, def) :
             \E p \in DOMAIN def : Written(elf, def)[i] = def[p]
    BY <2>1, WrittenFacts
  <2>. QED  BY <2>1, <2>2 DEF GenFits
<1>2. GenFits(Valid)
  <2>. DEFINE V == {i \in DOMAIN frz : ~frz[i].absent}
  <2>1. V \in SUBSET DOMAIN frz /\ frz \in Seq(Entry) /\ Distinct(frz)
    BY DEF FrzInv
  <2>2. \A i \in V : frz[i].name \in NamesOf(frz)
    BY DEF NamesOf
  <2>. HIDE DEF V
  <2>3. /\ Valid \in Seq(Entry) /\ Distinct(Valid) /\ Len(Valid) = Cardinality(V)
        /\ \A i \in 1..Cardinality(V) : InOrder(V)[i] \in V /\ Valid[i] = frz[InOrder(V)[i]]
    <3>1. Valid = Only(frz, V)
      BY DEF Valid, V
    <3>. QED  BY <2>1, <3>1, OnlySelects, OnlyDistinct
  <2>4. DOMAIN Valid = 1..Cardinality(V)
    BY <2>3
  <2>. QED  BY <2>2, <2>3, <2>4 DEF GenFits
<1>3. GenFits(All(elf))
  <2>. DEFINE a == All(elf)
  <2>1. a \in Seq(Entry) /\ Distinct(a) /\ DOMAIN a = 1..Len(a) /\ Len(a) \in Nat
    BY AllFacts
  <2>2. ASSUME NEW i \in DOMAIN a, a[i].absent PROVE a[i].name \in NamesOf(frz)
    <3>1. CASE i \in 1..Len(frz)
      BY <3>1, AllFacts, FrzFacts DEF NamesOf
    <3>2. CASE i \in Len(frz) + 1..Len(a)
      BY <2>2, <3>2, AllFacts, NewFacts
    <3>. QED  BY <2>1, <3>1, <3>2, FrzFacts
  <2>. QED  BY <2>1, <2>2 DEF GenFits
<1>. QED  BY <1>1, <1>2, <1>3

LEMMA TableType ==
  ASSUME FrzInv, NEW elf \in Elfs
  PROVE  Table(elf) \in Seq(Names \cup {NoName})
<1>. DEFINE a == All(elf)
            P == {i \in DOMAIN a : a[i].name \notin Missing(elf)}
            x == Only(a, P)
<1>1. a \in Seq(Entry) /\ InSequence(a) /\ P \in SUBSET DOMAIN a
  BY AllFacts
<1>2. ByOrdinal(frz \o New(elf)) = a
  BY <1>1, ByOrdinalSorts DEF All
<1>3. x \in Seq(Entry)
  BY <1>1, OnlySelects
<1>4. Table(elf) = [i \in DOMAIN x |-> IF x[i].absent THEN NoName ELSE x[i].name]
  BY <1>2 DEF Table
<1>. HIDE DEF x
<1>5. DOMAIN x = 1..Len(x) /\ Len(x) \in Nat /\ \A i \in 1..Len(x) : x[i].name \in Names
  BY <1>3, SeqFacts, EntryFacts
<1>. QED  BY <1>4, <1>5

\* The table and the imports of a build that misses no frozen export.
TableOf(elf) == IF elf = {} THEN <<>> ELSE Table(elf)

LEMMA ImageFacts ==
  ASSUME FrzInv, NEW elf \in Elfs, Missing(elf) = {}, elf # {} \/ Absents = <<>>
  PROVE  /\ Len(TableOf(elf)) >= Len(frz)
         /\ \A o \in 1..Len(frz) :
              IF TableOf(elf)[o] = NoName THEN frz[o].absent ELSE TableOf(elf)[o] = frz[o].name
         /\ \A i \in Imports(All(elf)) :
              i[2] \in 1..Len(TableOf(elf)) /\ TableOf(elf)[i[2]] = i[1]
<1>. DEFINE a == All(elf)
<1>1. CASE elf = {}
  <2>1. \A i \in 1..Len(frz) : frz[i].absent
    BY <1>1, MissingNone
  <2>. DEFINE A == {i \in DOMAIN frz : frz[i].absent}
  <2>2. Cardinality(A) = 0 /\ IsFiniteSet(A)
    <3>1. A \in SUBSET DOMAIN frz /\ Absents = Only(frz, A)
      BY DEF Absents
    <3>2. IsFiniteSet(DOMAIN frz)
      BY FrzFacts, FS_Interval
    <3>3. Len(Absents) = Cardinality(A)
      BY <3>1, FrzFacts, OnlySelects
    <3>. QED  BY <1>1, <3>1, <3>2, <3>3, FS_Subset
  <2>3. A = {}
    BY <2>2, FS_EmptySet
  <2>4. Len(frz) = 0
    BY <2>1, <2>3, FrzFacts
  <2>5. Len(a) = 0
    BY <1>1, <2>4, AllFacts, NewFacts
  <2>6. Imports(a) = {}
    BY <2>5, AllFacts DEF Imports
  <2>. QED  BY <1>1, <2>4, <2>6 DEF TableOf
<1>2. CASE elf # {}
  <2>1. /\ TableOf(elf) = Table(elf) /\ Len(Table(elf)) = Len(a)
        /\ \A i \in 1..Len(a) : Table(elf)[i] = IF a[i].absent THEN NoName ELSE a[i].name
    BY <1>2, TableFacts DEF TableOf
  <2>2. /\ a \in Seq(Entry) /\ Len(a) \in Nat /\ Len(frz) \in Nat /\ Len(a) >= Len(frz)
        /\ DOMAIN a = 1..Len(a)
        /\ \A i \in 1..Len(frz) : i \in 1..Len(a) /\ a[i] = frz[i] /\ frz[i].name \in Nat
        /\ \A i \in 1..Len(a) : a[i].ord = i
    BY AllFacts, FrzFacts, NewFacts, EntryFacts DEF InSequence
  <2>. HIDE DEF a
  <2>3. ASSUME NEW o \in 1..Len(frz)
        PROVE  IF Table(elf)[o] = NoName THEN frz[o].absent ELSE Table(elf)[o] = frz[o].name
    <3>1. Table(elf)[o] = IF frz[o].absent THEN NoName ELSE frz[o].name
      BY <2>1, <2>2
    <3>2. frz[o].name # NoName
      BY <2>2 DEF NoName
    <3>. QED  BY <3>1, <3>2
  <2>4. ASSUME NEW i \in Imports(a)
        PROVE  i[2] \in 1..Len(a) /\ Table(elf)[i[2]] = i[1]
    <3>1. PICK j \in 1..Len(a) : ~a[j].absent /\ i = <<a[j].name, a[j].ord>>
      BY <2>2 DEF Imports
    <3>2. i[1] = a[j].name /\ i[2] = j
      BY <2>2, <3>1
    <3>. QED  BY <2>1, <3>1, <3>2
  <2>. QED  BY <2>1, <2>2, <2>3, <2>4 DEF a
<1>. QED  BY <1>1, <1>2

LEMMA BuildStep ==
  ASSUME FreezeInv, NEW t \in Trees, NEW elf \in Elfs, NEW unfrozen \in BOOLEAN,
         Build(t, elf, unfrozen)
  PROVE  FreezeInv'
<1>1. frz' = frz /\ FrzInv /\ FrzInv'
  BY DEF Build, FreezeInv, FrzInv, InSequence, Distinct
<1>2. Symbols(elf) = All(elf)
  BY <1>1, SymbolsAreAll
<1>3. ASSUME NEW def, GenFits(def), Generate(t, def) PROVE GenInv'
  <2>1. gen' = [gen EXCEPT ![t] = [made |-> TRUE, def |-> def, fresh |-> TRUE]]
    BY <1>3 DEF Generate
  <2>2. gen' \in [Trees -> [made : BOOLEAN, def : Seq(Entry), fresh : BOOLEAN]]
    BY <1>3, <2>1 DEF FreezeInv, GenInv, GenFits
  <2>3. \A u \in Trees : gen'[u].def = IF u = t THEN def ELSE gen[u].def
    BY <2>1 DEF FreezeInv, GenInv
  <2>4. NamesOf(frz)' = NamesOf(frz)
    BY <1>1 DEF NamesOf
  <2>5. ASSUME NEW u \in Trees
        PROVE  /\ Distinct(gen'[u].def)
               /\ \A i \in DOMAIN gen'[u].def :
                    gen'[u].def[i].absent => gen'[u].def[i].name \in NamesOf(frz)
    BY <1>3, <2>3 DEF FreezeInv, GenInv, GenFits
  <2>. QED  BY <2>2, <2>4, <2>5 DEF GenInv, Distinct
<1>4. ASSUME UNCHANGED gen PROVE GenInv'
  BY <1>1, <1>4 DEF FreezeInv, GenInv, Distinct, NamesOf
<1>5. ASSUME UNCHANGED dll PROVE DllInv'
  BY <1>1, <1>5 DEF FreezeInv, DllInv, DllServesFrozen, ImportsMatchTable
<1>6. CASE BuildFails(t, elf)
  <2>1. GenInv'
    BY <1>1, <1>3, <1>4, <1>6, WrittenFits DEF BuildFails
  <2>. QED  BY <1>1, <1>5, <1>6, <2>1 DEF BuildFails, FreezeInv
<1>7. CASE BuildCrashes(elf, unfrozen)
  BY <1>1, <1>4, <1>5, <1>7 DEF BuildCrashes, FreezeInv
<1>8. CASE BuildWorks(t, elf, unfrozen)
  <2>. DEFINE mode == IF unfrozen THEN "unfrozen" ELSE "frozen"
              image == [mode |-> mode, frozen |-> Len(frz), table |-> TableOf(elf),
                        imports |-> Imports(All(elf))]
  <2>1. GenInv'
    BY <1>1, <1>2, <1>3, <1>8, WrittenFits DEF BuildWorks
  <2>2. dll' = [dll EXCEPT ![t] = image]
    BY <1>2, <1>8 DEF BuildWorks, TableOf
  <2>3. mode = "frozen" => Missing(elf) = {} /\ (elf # {} \/ Absents = <<>>)
    BY <1>8 DEF BuildWorks
  <2>4. image \in [mode : {"none", "frozen", "unfrozen"}, frozen : Nat,
                   table : Seq(Names \cup {NoName}), imports : SUBSET (Names \X Nat)]
    <3>1. TableOf(elf) \in Seq(Names \cup {NoName})
      BY <1>1, TableType DEF TableOf
    <3>2. Imports(All(elf)) \in SUBSET (Names \X Nat)
      <4>1. \A i \in DOMAIN All(elf) : All(elf)[i].name \in Names /\ All(elf)[i].ord \in Nat
        BY <1>1, AllFacts, SeqFacts, EntryFacts
      <4>. QED  BY <4>1 DEF Imports
    <3>. QED  BY <1>1, <3>1, <3>2, FrzFacts
  <2>5. image.mode = "frozen" =>
          /\ image.frozen <= Len(frz)
          /\ Len(image.table) >= image.frozen
          /\ \A o \in 1..image.frozen :
               IF image.table[o] = NoName THEN frz[o].absent ELSE image.table[o] = frz[o].name
          /\ \A i \in image.imports :
               i[2] \in 1..Len(image.table) /\ image.table[i[2]] = i[1]
    BY <1>1, <2>3, ImageFacts, FrzFacts
  <2>. HIDE DEF mode, image
  <2>6. dll \in [Trees -> [mode : {"none", "frozen", "unfrozen"}, frozen : Nat,
                   table : Seq(Names \cup {NoName}), imports : SUBSET (Names \X Nat)]]
    BY DEF FreezeInv, DllInv
  <2>7. \A u \in Trees : dll'[u] = IF u = t THEN image ELSE dll[u]
    BY <2>2, <2>6
  <2>8. dll' \in [Trees -> [mode : {"none", "frozen", "unfrozen"}, frozen : Nat,
                   table : Seq(Names \cup {NoName}), imports : SUBSET (Names \X Nat)]]
    BY <2>2, <2>4, <2>6
  <2>9. ASSUME NEW u \in Trees, dll'[u].mode = "frozen"
        PROVE  /\ dll'[u].frozen <= Len(frz)
               /\ Len(dll'[u].table) >= dll'[u].frozen
               /\ \A o \in 1..dll'[u].frozen :
                    IF dll'[u].table[o] = NoName THEN frz[o].absent
                    ELSE dll'[u].table[o] = frz[o].name
               /\ \A i \in dll'[u].imports :
                    i[2] \in 1..Len(dll'[u].table) /\ dll'[u].table[i[2]] = i[1]
    <3>1. CASE u = t
      BY <2>5, <2>7, <2>9, <3>1
    <3>2. CASE u # t
      <4>1. dll'[u] = dll[u]
        BY <2>7, <3>2
      <4>. QED  BY <2>9, <4>1 DEF FreezeInv, DllInv, DllServesFrozen, ImportsMatchTable
    <3>. QED  BY <3>1, <3>2
  <2>10. DllInv'
    BY <1>1, <2>8, <2>9 DEF DllInv, DllServesFrozen, ImportsMatchTable
  <2>. QED  BY <1>1, <2>1, <2>10 DEF FreezeInv
<1>. QED  BY <1>6, <1>7, <1>8 DEF Build

\* A freeze, with the frozen file only ever growing.
LEMMA FreezeStep ==
  ASSUME FreezeInv, NEW t \in Trees, NEW remove \in BOOLEAN, FreezeWorks(t, remove),
         UNCHANGED dll
  PROVE  /\ FreezeInv'
         /\ Len(frz) <= Len(frz')
         /\ \A i \in 1..Len(frz) :
              frz'[i].name = frz[i].name /\ (frz[i].absent => frz'[i].absent)
         /\ \A i \in Len(frz) + 1..Len(frz') : ~frz'[i].absent
<1>. DEFINE def == gen[t].def
<1>1. def \in Seq(Entry) /\ Distinct(def)
      /\ \A i \in DOMAIN def : def[i].absent => def[i].name \in NamesOf(frz)
  BY DEF FreezeInv, GenInv
<1>2. FrzInv /\ frz' = Merged(def)
  BY DEF FreezeInv, FreezeWorks, Merged
<1>. HIDE DEF def
<1>3. /\ frz' \in Seq(Entry) /\ Len(frz') \in Nat
      /\ Len(frz) <= Len(frz')
      /\ \A i \in 1..Len(frz) :
           frz'[i].name = frz[i].name /\ (frz[i].absent => frz'[i].absent)
      /\ \A i \in Len(frz) + 1..Len(frz') : ~frz'[i].absent
      /\ InSequence(frz') /\ Distinct(frz')
  BY <1>1, <1>2, MergedFacts
<1>4. FrzInv'
  BY <1>3 DEF FrzInv, InSequence, Distinct
<1>5. Len(frz) \in Nat /\ \A i \in 1..Len(frz) : i \in 1..Len(frz')
  BY <1>2, <1>3, FrzFacts
<1>6. NamesOf(frz) \subseteq NamesOf(frz)'
  <2>1. DOMAIN frz = 1..Len(frz) /\ DOMAIN frz' = 1..Len(frz')
    BY <1>2, <1>3, FrzFacts
  <2>. QED  BY <1>3, <1>5, <2>1 DEF NamesOf
<1>7. GenInv'
  <2>1. gen \in [Trees -> [made : BOOLEAN, def : Seq(Entry), fresh : BOOLEAN]]
    BY DEF FreezeInv, GenInv
  <2>2. gen' = gen \/ gen' = [u \in Trees |-> [gen[u] EXCEPT !.fresh = FALSE]]
    BY DEF FreezeWorks
  <2>3. gen' \in [Trees -> [made : BOOLEAN, def : Seq(Entry), fresh : BOOLEAN]]
        /\ \A u \in Trees : gen'[u].def = gen[u].def
    BY <2>1, <2>2
  <2>4. ASSUME NEW u \in Trees
        PROVE  /\ Distinct(gen'[u].def)
               /\ \A i \in DOMAIN gen'[u].def :
                    gen'[u].def[i].absent => gen'[u].def[i].name \in NamesOf(frz)'
    BY <1>6, <2>3 DEF FreezeInv, GenInv
  <2>. QED  BY <2>3, <2>4 DEF GenInv, Distinct
<1>8. DllInv'
  <2>1. dll' = dll /\ DllInv
    BY DEF FreezeInv
  <2>2. ASSUME NEW u \in Trees, dll[u].mode = "frozen"
        PROVE  /\ dll[u].frozen <= Len(frz')
               /\ Len(dll[u].table) >= dll[u].frozen
               /\ \A o \in 1..dll[u].frozen :
                    IF dll[u].table[o] = NoName THEN frz'[o].absent
                    ELSE dll[u].table[o] = frz'[o].name
    <3>1. dll[u].frozen \in Nat /\ dll[u].frozen <= Len(frz)
      BY <2>1, <2>2 DEF DllInv
    <3>2. Len(dll[u].table) >= dll[u].frozen
          /\ \A o \in 1..dll[u].frozen :
               IF dll[u].table[o] = NoName THEN frz[o].absent
               ELSE dll[u].table[o] = frz[o].name
      BY <2>1, <2>2 DEF DllInv, DllServesFrozen
    <3>3. \A o \in 1..dll[u].frozen : o \in 1..Len(frz)
      BY <1>5, <3>1
    <3>. QED  BY <1>3, <1>5, <3>1, <3>2, <3>3
  <2>. QED  BY <2>1, <2>2 DEF DllInv, DllServesFrozen, ImportsMatchTable
<1>. QED  BY <1>3, <1>4, <1>7, <1>8 DEF FreezeInv

LEMMA FreezeInvInductive == Spec => []FreezeInv
<1>1. Init => FreezeInv
  <2>. SUFFICES ASSUME Init PROVE FreezeInv
    OBVIOUS
  <2>1. FrzInv
    BY DEF Init, FrzInv, InSequence, Distinct
  <2>2. GenInv
    <3>1. \A t \in Trees : gen[t] = [made |-> FALSE, def |-> <<>>, fresh |-> FALSE]
      BY DEF Init
    <3>2. gen \in [Trees -> [made : BOOLEAN, def : Seq(Entry), fresh : BOOLEAN]]
      BY DEF Init
    <3>. QED  BY <3>1, <3>2 DEF GenInv, Distinct
  <2>3. DllInv
    <3>1. \A t \in Trees :
            dll[t] = [mode |-> "none", frozen |-> 0, table |-> <<>>, imports |-> {}]
      BY DEF Init
    <3>2. [mode |-> "none", frozen |-> 0, table |-> <<>>, imports |-> {}] \in
            [mode : {"none", "frozen", "unfrozen"}, frozen : Nat,
             table : Seq(Names \cup {NoName}), imports : SUBSET (Names \X Nat)]
      OBVIOUS
    <3>3. dll \in [Trees -> [mode : {"none", "frozen", "unfrozen"}, frozen : Nat,
                   table : Seq(Names \cup {NoName}), imports : SUBSET (Names \X Nat)]]
      BY <3>2 DEF Init
    <3>. QED  BY <3>1, <3>3 DEF DllInv, DllServesFrozen, ImportsMatchTable
  <2>. QED  BY <2>1, <2>2, <2>3 DEF FreezeInv
<1>2. FreezeInv /\ [Next]_vars => FreezeInv'
  <2>. SUFFICES ASSUME FreezeInv, [Next]_vars PROVE FreezeInv'
    OBVIOUS
  <2>1. ASSUME UNCHANGED vars PROVE FreezeInv'
    BY <2>1 DEF vars, FreezeInv, FrzInv, InSequence, Distinct, GenInv, NamesOf, DllInv,
                DllServesFrozen, ImportsMatchTable
  <2>2. ASSUME NEW t \in Trees, NEW b \in BOOLEAN, NEW elf \in Elfs, Build(t, elf, b)
        PROVE  FreezeInv'
    BY <2>2, BuildStep
  <2>3. ASSUME NEW t \in Trees, NEW b \in BOOLEAN, Freeze(t, b) PROVE FreezeInv'
    <3>1. CASE FreezeDies(t, b)
      BY <2>1, <2>3, <3>1 DEF FreezeDies, Freeze, vars
    <3>2. CASE FreezeWorks(t, b)
      BY <2>3, <3>2, FreezeStep DEF Freeze
    <3>. QED  BY <2>3, <3>1, <3>2 DEF Freeze
  <2>. QED  BY <2>1, <2>2, <2>3 DEF Next
<1>. QED  BY <1>1, <1>2, PTL DEF Spec
-----------------------------------------------------------------------------
(* The theorems *)

\* The frozen file can always be read again: efreeze writes the ordinals 1, 2,
\* 3, ... whatever the builds generated and in whatever order the trees freeze.
THEOREM AlwaysReadable == Spec => []FrozenReadable
<1>1. FreezeInv => FrozenReadable
  BY DEF FreezeInv, FrzInv, FrozenReadable
<1>. QED  BY <1>1, FreezeInvInductive, PTL

\* An image built with the frozen exports complete has each ordinal frozen then
\* at its place in the export table, however the file grew since.
THEOREM ImagesServeFrozen == Spec => []DllServesFrozen
<1>1. FreezeInv => DllServesFrozen
  BY DEF FreezeInv, DllInv
<1>. QED  BY <1>1, FreezeInvInductive, PTL

\* The import library of such a build leads to the function it names.
THEOREM ImportsReachTable == Spec => []ImportsMatchTable
<1>1. FreezeInv => ImportsMatchTable
  BY DEF FreezeInv, DllInv
<1>. QED  BY <1>1, FreezeInvInductive, PTL

\* The frozen file is an ordinal registry: elf2e32 and efreeze, with several
\* trees and stale generated files, only add names at its end and mark names as
\* absent for good.
THEOREM ImplementsOrdinalRegistry == Spec => ImplementsRegistry
<1>. DEFINE reg == [i \in DOMAIN frz |-> [name |-> frz[i].name, absent |-> frz[i].absent]]
<1>1. Init => Registry!Init
  BY DEF Init, Registry!Init
<1>2. FreezeInv /\ [Next]_vars => [Registry!Freeze]_reg
  <2>. SUFFICES ASSUME FreezeInv, [Next]_vars, frz' # frz PROVE Registry!Freeze
    OBVIOUS
  <2>1. PICK t \in Trees, b \in BOOLEAN : FreezeWorks(t, b) /\ UNCHANGED dll
    BY DEF Next, vars, Freeze, FreezeDies, Build
  <2>2. /\ FrzInv /\ FrzInv'
        /\ Len(frz) <= Len(frz')
        /\ \A i \in 1..Len(frz) :
             frz'[i].name = frz[i].name /\ (frz[i].absent => frz'[i].absent)
        /\ \A i \in Len(frz) + 1..Len(frz') : ~frz'[i].absent
    BY <2>1, FreezeStep DEF FreezeInv
  <2>3. /\ Len(frz) \in Nat /\ Len(frz') \in Nat
        /\ DOMAIN frz = 1..Len(frz) /\ DOMAIN frz' = 1..Len(frz')
        /\ \A i \in 1..Len(frz) : i \in 1..Len(frz')
        /\ \A i, j \in 1..Len(frz') : frz'[i].name = frz'[j].name => i = j
    BY <2>2 DEF FrzInv, Distinct
  <2>4. /\ DOMAIN reg = 1..Len(frz) /\ Len(reg) = Len(frz)
        /\ \A i \in 1..Len(frz) : reg[i].name = frz[i].name /\ reg[i].absent = frz[i].absent
    BY <2>3
  <2>5. /\ DOMAIN reg' = 1..Len(frz') /\ Len(reg') = Len(frz')
        /\ \A i \in 1..Len(frz') :
             reg'[i].name = frz'[i].name /\ reg'[i].absent = frz'[i].absent
    BY <2>3
  <2>. HIDE DEF reg
  <2>6. Registry!Kept(reg, reg')
    BY <2>2, <2>3, <2>4, <2>5 DEF Registry!Kept
  <2>7. Registry!Unambiguous(reg')
    BY <2>3, <2>5 DEF Registry!Unambiguous
  <2>8. \A o \in DOMAIN reg' \ DOMAIN reg : ~reg'[o].absent
    BY <2>2, <2>3, <2>4, <2>5
  <2>. QED  BY <2>6, <2>7, <2>8 DEF Registry!Freeze, reg
<1>. QED  BY <1>1, <1>2, FreezeInvInductive, PTL DEF Spec, ImplementsRegistry, Registry!Spec
-----------------------------------------------------------------------------
(* Numbering alike *)

\* A file generated from the present frozen one: m entries that are frozen, with
\* their ordinals, and then the new ones, numbered on.
Agreeing(def, m) ==
  /\ m \in 0..Len(def)
  /\ \A i \in 1..m : def[i].ord \in 1..Len(frz) /\ frz[def[i].ord].name = def[i].name
  /\ \A i \in m + 1..Len(def) :
       def[i].name \notin NamesOf(frz) /\ def[i].ord = Len(frz) + (i - m)

FreshInv == \A t \in Trees : gen[t].fresh => \E m \in Nat : Agreeing(gen[t].def, m)

LEMMA ValidAgrees ==
  ASSUME FrzInv, NEW elf \in Elfs
  PROVE  \E m \in Nat : Agreeing(Written(elf, Valid), m)
<1>. DEFINE V == {i \in DOMAIN frz : ~frz[i].absent}
            N == {i \in DOMAIN Valid : Valid[i].name \notin NamesOf(frz)}
            M == {i \in DOMAIN Valid : Valid[i].name \in Missing(elf)}
            P == DOMAIN Valid \ (N \cup M)
            w == Only(Valid, P)
<1>1. /\ Valid \in Seq(Entry) /\ DOMAIN Valid = 1..Cardinality(V)
      /\ \A i \in 1..Cardinality(V) : InOrder(V)[i] \in V /\ Valid[i] = frz[InOrder(V)[i]]
  <2>1. V \in SUBSET DOMAIN frz /\ Valid = Only(frz, V) /\ frz \in Seq(Entry)
    BY DEF Valid, FrzInv
  <2>. HIDE DEF V
  <2>2. /\ Valid \in Seq(Entry) /\ Len(Valid) = Cardinality(V)
        /\ \A i \in 1..Cardinality(V) : InOrder(V)[i] \in V /\ Valid[i] = frz[InOrder(V)[i]]
    BY <2>1, OnlySelects
  <2>. QED  BY <2>2
<1>2. \A i \in DOMAIN Valid :
        /\ Valid[i].name \in NamesOf(frz)
        /\ Valid[i].ord \in 1..Len(frz) /\ frz[Valid[i].ord].name = Valid[i].name
  <2>1. \A p \in V : /\ frz[p].name \in NamesOf(frz)
                     /\ frz[p].ord \in 1..Len(frz) /\ frz[frz[p].ord].name = frz[p].name
    BY FrzFacts DEF NamesOf
  <2>. HIDE DEF V
  <2>. QED  BY <1>1, <2>1
<1>3. N = {} /\ P \in SUBSET DOMAIN Valid
  BY <1>2
<1>. HIDE DEF P
<1>4. w \in Seq(Entry) /\ Len(w) = Cardinality(P)
      /\ \A i \in 1..Cardinality(P) : InOrder(P)[i] \in P /\ w[i] = Valid[InOrder(P)[i]]
  BY <1>1, <1>3, OnlySelects
<1>5. Written(elf, Valid) = w
  <2>1. Only(Valid, N) = <<>>
    BY <1>3, OnlyNone
  <2>2. Written(elf, Valid) = w \o Only(Valid, N)
    BY DEF Written, P
  <2>. HIDE DEF w, N
  <2>. QED  BY <1>4, <2>1, <2>2
<1>6. Agreeing(w, Len(w))
  <2>1. \A i \in 1..Len(w) : w[i].ord \in 1..Len(frz) /\ frz[w[i].ord].name = w[i].name
    BY <1>2, <1>3, <1>4
  <2>2. Len(w) \in Nat
    BY <1>4
  <2>3. \A i \in Len(w) + 1..Len(w) : FALSE
    BY <2>2
  <2>. QED  BY <2>1, <2>2, <2>3 DEF Agreeing
<1>7. Len(w) \in Nat
  BY <1>4
<1>. QED  BY <1>5, <1>6, <1>7

LEMMA AllAgrees ==
  ASSUME FrzInv, NEW elf \in Elfs
  PROVE  \E m \in Nat : Agreeing(Written(elf, All(elf)), m)
<1>. DEFINE a == All(elf)
            n == Len(New(elf))
            N == {i \in DOMAIN a : a[i].name \notin NamesOf(frz)}
            M == {i \in DOMAIN a : a[i].name \in Missing(elf)}
            P == DOMAIN a \ (N \cup M)
            x == Only(a, P)
            y == Only(a, N)
            w == x \o y
<1>1. /\ a \in Seq(Entry) /\ DOMAIN a = 1..Len(a) /\ Len(a) = Len(frz) + n
      /\ Len(frz) \in Nat /\ n \in Nat
      /\ \A i \in 1..Len(a) : a[i].ord = i
      /\ \A i \in 1..Len(frz) : i \in 1..Len(a) /\ a[i] = frz[i] /\ frz[i].name \in NamesOf(frz)
  <2>1. /\ a \in Seq(Entry) /\ DOMAIN a = 1..Len(a) /\ Len(a) = Len(frz) + n
        /\ Len(frz) \in Nat /\ n \in Nat
    BY AllFacts, FrzFacts, NewFacts
  <2>2. \A i \in 1..Len(a) : a[i].ord = i
    BY <2>1, AllFacts DEF InSequence
  <2>3. \A i \in 1..Len(frz) : a[i] = frz[i] /\ frz[i].name \in NamesOf(frz)
    BY AllFacts, FrzFacts DEF NamesOf
  <2>. HIDE DEF a, n
  <2>. QED  BY <2>1, <2>2, <2>3
<1>2. \A i \in Len(frz) + 1..Len(a) : a[i].name \notin NamesOf(frz)
  BY AllFacts, NewFacts
<1>3. N = Len(frz) + 1..Len(frz) + n
  BY <1>1, <1>2
<1>4. \A i \in P : i \in 1..Len(frz)
  BY <1>1, <1>2
<1>5. Written(elf, a) = w
  BY DEF Written
<1>6. P \in SUBSET DOMAIN a /\ N \in SUBSET DOMAIN a
  OBVIOUS
<1>. HIDE DEF P, N, a
<1>7. /\ x \in Seq(Entry) /\ Len(x) = Cardinality(P)
      /\ \A i \in 1..Cardinality(P) : InOrder(P)[i] \in P /\ x[i] = a[InOrder(P)[i]]
  BY <1>1, <1>6, OnlySelects
<1>8. /\ y \in Seq(Entry) /\ Len(y) = n
      /\ \A i \in 1..n : y[i] = a[Len(frz) + i]
  <2>1. Cardinality(N) = n /\ \A i \in 1..n : InOrder(N)[i] = Len(frz) + i
    BY <1>1, <1>3, InOrderInterval
  <2>2. y \in Seq(Entry) /\ Len(y) = Cardinality(N)
        /\ \A i \in 1..Cardinality(N) : y[i] = a[InOrder(N)[i]]
    BY <1>1, <1>6, OnlySelects
  <2>. QED  BY <2>1, <2>2
<1>. HIDE DEF x, y
<1>9. /\ Len(w) = Len(x) + n /\ Len(x) \in Nat
      /\ \A i \in 1..Len(x) : w[i] = x[i]
      /\ \A i \in Len(x) + 1..Len(x) + n : i - Len(x) \in 1..n /\ w[i] = y[i - Len(x)]
  <2>1. /\ Len(w) = Len(x) + Len(y) /\ Len(x) \in Nat
        /\ \A i \in 1..Len(x) : w[i] = x[i]
        /\ \A i \in Len(x) + 1..Len(x) + Len(y) :
             i - Len(x) \in 1..Len(y) /\ w[i] = y[i - Len(x)]
    BY <1>7, <1>8, ConcatFacts, Zenon
  <2>. QED  BY <1>8, <2>1, Zenon
<1>. HIDE DEF w
<1>10. ASSUME NEW i \in 1..Len(x)
       PROVE  w[i].ord \in 1..Len(frz) /\ frz[w[i].ord].name = w[i].name
  <2>1. InOrder(P)[i] \in 1..Len(frz) /\ w[i] = a[InOrder(P)[i]]
    BY <1>4, <1>7, <1>9
  <2>. QED  BY <1>1, <2>1
<1>11. ASSUME NEW i \in Len(x) + 1..Len(w)
       PROVE  w[i].name \notin NamesOf(frz) /\ w[i].ord = Len(frz) + (i - Len(x))
  <2>. DEFINE k == Len(frz) + (i - Len(x))
  <2>1. i - Len(x) \in 1..n /\ w[i] = a[k]
    BY <1>8, <1>9
  <2>2. k \in Len(frz) + 1..Len(a) /\ k \in 1..Len(a)
    BY <1>1, <2>1
  <2>. HIDE DEF k
  <2>3. w[i].name \notin NamesOf(frz) /\ w[i].ord = k
    BY <1>1, <1>2, <2>1, <2>2
  <2>. QED  BY <2>3 DEF k
<1>12. Len(x) \in 0..Len(w)
  BY <1>1, <1>9
<1>13. Agreeing(w, Len(x))
  BY <1>10, <1>11, <1>12 DEF Agreeing
<1>. QED  BY <1>5, <1>9, <1>13 DEF a

LEMMA AgreeingKept ==
  ASSUME frz' = frz, NEW u \in Trees, NEW m \in Nat, NEW def, Agreeing(def, m),
         gen'[u].def = def
  PROVE  (\E k \in Nat : Agreeing(gen[u].def, k))'
<1>1. NamesOf(frz)' = NamesOf(frz)
  BY DEF NamesOf
<1>2. Agreeing(gen[u].def, m)'
  BY <1>1 DEF Agreeing
<1>. QED  BY <1>2

LEMMA FreshInvInductive == Spec => []FreshInv
<1>1. Init => FreshInv
  BY DEF Init, FreshInv
<1>2. FreezeInv /\ FreshInv /\ [Next]_vars => FreshInv'
  <2>. SUFFICES ASSUME FreezeInv, FreshInv, [Next]_vars PROVE FreshInv'
    OBVIOUS
  <2>1. ASSUME frz' = frz, gen' = gen PROVE FreshInv'
    <3>1. SUFFICES ASSUME NEW u \in Trees, gen'[u].fresh
                   PROVE  (\E k \in Nat : Agreeing(gen[u].def, k))'
      BY DEF FreshInv
    <3>2. PICK m \in Nat : Agreeing(gen[u].def, m)
      BY <2>1, <3>1 DEF FreshInv
    <3>. QED  BY <2>1, <3>2, AgreeingKept
  <2>2. ASSUME NEW t \in Trees, NEW def, NEW m \in Nat, Agreeing(def, m), Generate(t, def),
               frz' = frz
        PROVE  FreshInv'
    <3>1. gen \in [Trees -> [made : BOOLEAN, def : Seq(Entry), fresh : BOOLEAN]]
      BY DEF FreezeInv, GenInv
    <3>2. \A u \in Trees : gen'[u] = IF u = t THEN [made |-> TRUE, def |-> def, fresh |-> TRUE]
                                             ELSE gen[u]
      BY <2>2, <3>1 DEF Generate
    <3>3. SUFFICES ASSUME NEW u \in Trees, gen'[u].fresh
                   PROVE  (\E k \in Nat : Agreeing(gen[u].def, k))'
      BY DEF FreshInv
    <3>4. CASE u = t
      BY <2>2, <3>2, <3>4, AgreeingKept
    <3>5. CASE u # t
      <4>1. gen'[u] = gen[u]
        BY <3>2, <3>5
      <4>2. PICK k \in Nat : Agreeing(gen[u].def, k)
        BY <3>3, <4>1 DEF FreshInv
      <4>. QED  BY <2>2, <4>1, <4>2, AgreeingKept
    <3>. QED  BY <3>4, <3>5
  <2>3. ASSUME NEW t \in Trees, NEW b \in BOOLEAN, NEW elf \in Elfs, Build(t, elf, b)
        PROVE  FreshInv'
    <3>1. frz' = frz /\ FrzInv
      BY <2>3 DEF Build, FreezeInv
    <3>2. CASE BuildFails(t, elf)
      BY <2>1, <2>2, <3>1, <3>2, ValidAgrees DEF BuildFails
    <3>3. CASE BuildCrashes(elf, b)
      BY <2>1, <3>1, <3>3 DEF BuildCrashes
    <3>4. CASE BuildWorks(t, elf, b)
      <4>1. Generate(t, Written(elf, All(elf)))
        BY <3>1, <3>4, SymbolsAreAll DEF BuildWorks
      <4>. QED  BY <2>2, <3>1, <4>1, AllAgrees
    <3>. QED  BY <2>3, <3>2, <3>3, <3>4 DEF Build
  <2>4. ASSUME NEW t \in Trees, NEW b \in BOOLEAN, Freeze(t, b) PROVE FreshInv'
    <3>1. CASE frz' = frz
      BY <2>1, <2>4, <3>1 DEF Freeze, FreezeDies, FreezeWorks
    <3>2. CASE frz' # frz
      <4>1. gen' = [u \in Trees |-> [gen[u] EXCEPT !.fresh = FALSE]]
        BY <2>4, <3>2 DEF Freeze, FreezeDies, FreezeWorks
      <4>2. \A u \in Trees : gen'[u].fresh = FALSE
        BY <4>1 DEF FreezeInv, GenInv
      <4>. QED  BY <4>2 DEF FreshInv
    <3>. QED  BY <3>1, <3>2
  <2>. QED  BY <2>1, <2>3, <2>4 DEF Next, vars
<1>. QED  BY <1>1, <1>2, FreezeInvInductive, PTL DEF Spec

\* After n entries of such a file: the frozen ones among them are found, and the
\* new ones are new, in their order.
AlikeSoFar(s, def, m, n) ==
  /\ n <= m => s.new = <<>> /\ \A k \in n + 1..m : def[k].ord \in s.left
  /\ n >= m => Len(s.new) = n - m /\ \A j \in 1..n - m : s.new[j].name = def[m + j].name

LEMMA AlikeStep ==
  ASSUME FrzInv, NEW def \in Seq(Entry), Distinct(def), NEW m \in Nat, Agreeing(def, m),
         NEW n \in 1..Len(def), NEW s \in Comparison, AlikeSoFar(s, def, m, n - 1)
  PROVE  AlikeSoFar(Compare(s, def[n]), def, m, n)
<1>. DEFINE e == def[n]
            r == Compare(s, e)
            hits == Hits(e, s.left)
<1>1. /\ e \in Entry /\ Len(def) \in Nat /\ n \in Nat /\ n - 1 \in Nat /\ m <= Len(def)
      /\ Len(frz) \in Nat /\ DOMAIN frz = 1..Len(frz) /\ \A i \in 1..Len(frz) : frz[i].ord = i
      /\ s.left \in SUBSET DOMAIN frz /\ s.new \in Seq(Entry) /\ Len(s.new) \in Nat
  BY FrzFacts, SeqFacts DEF Comparison, Agreeing
<1>2. /\ \A i \in 1..m : def[i].ord \in 1..Len(frz) /\ frz[def[i].ord].name = def[i].name
      /\ \A i \in m + 1..Len(def) :
           def[i].name \notin NamesOf(frz) /\ def[i].ord = Len(frz) + (i - m)
  BY DEF Agreeing
<1>3. hits # {} =>
        /\ FirstHit(hits) \in hits
        /\ r.new = s.new
        /\ r.left = IF frz[FirstHit(hits)].name = e.name
                    THEN s.left \ {FirstHit(hits)} ELSE s.left
  <2>1. hits # {} => FirstHit(hits) \in hits
    <3>1. hits \in SUBSET DOMAIN frz
      BY <1>1 DEF Hits
    <3>. HIDE DEF hits
    <3>. QED  BY <3>1, FirstHitFound
  <2>2. e \in Entry
    BY <1>1
  <2>. HIDE DEF e
  <2>. QED  BY <2>1, <2>2, CompareFacts
<1>4. hits = {} => r.new = Append(s.new, NewEntry(s, e)) /\ NewEntry(s, e) \in Entry
                   /\ NewEntry(s, e).name = e.name
  <2>1. e \in Entry
    BY <1>1
  <2>. HIDE DEF e
  <2>. QED  BY <2>1, CompareFacts
<1>5. \A i \in hits : i \in s.left /\ (frz[i].name = e.name \/ frz[i].ord = e.ord)
  BY DEF Hits
<1>. HIDE DEF r
<1>6. CASE n <= m
  <2>1. s.new = <<>> /\ \A k \in n..m : def[k].ord \in s.left
    BY <1>1, <1>6 DEF AlikeSoFar
  <2>2. n \in 1..m /\ e.ord \in 1..Len(frz) /\ frz[e.ord].name = e.name /\ e.ord \in s.left
    BY <1>1, <1>2, <1>6, <2>1
  <2>3. e.ord \in hits
    BY <2>2 DEF Hits
  <2>4. \A i \in hits : i = e.ord
    BY <1>1, <1>5, <2>2, FrzFacts
  <2>. HIDE DEF hits
  <2>5. FirstHit(hits) = e.ord
    BY <1>3, <2>3, <2>4
  <2>6. r.new = <<>> /\ r.left = s.left \ {e.ord}
    BY <1>3, <2>1, <2>2, <2>3, <2>5
  <2>7. ASSUME NEW k \in n + 1..m PROVE def[k].ord \in r.left
    <3>1. k \in n..m /\ k \in 1..m /\ k # n /\ k \in DOMAIN def /\ n \in DOMAIN def
      BY <1>1, <2>2
    <3>2. def[k].ord \in s.left /\ frz[def[k].ord].name = def[k].name
      BY <1>2, <2>1, <3>1
    <3>3. def[k].name # e.name
      BY <3>1 DEF Distinct
    <3>. QED  BY <2>2, <2>6, <3>2, <3>3
  <2>8. n >= m => n - m = 0
    BY <1>1, <1>6
  <2>9. n >= m => Len(r.new) = n - m /\ \A j \in 1..n - m : r.new[j].name = def[m + j].name
    BY <2>6, <2>8
  <2>. QED  BY <2>6, <2>7, <2>9 DEF AlikeSoFar, r
<1>7. CASE ~(n <= m)
  <2>1. /\ n - 1 >= m /\ n \in m + 1..Len(def)
        /\ Len(s.new) = n - 1 - m
        /\ \A j \in 1..n - 1 - m : s.new[j].name = def[m + j].name
    <3>1. n - 1 >= m /\ n \in m + 1..Len(def)
      BY <1>1, <1>7
    <3>. QED  BY <3>1 DEF AlikeSoFar
  <2>2. e.name \notin NamesOf(frz) /\ e.ord = Len(frz) + (n - m)
    BY <1>2, <2>1
  <2>3. hits = {}
    <3>1. ASSUME NEW i \in hits PROVE FALSE
      <4>1. i \in 1..Len(frz) /\ frz[i].name # e.name /\ frz[i].ord = i
        BY <1>1, <1>5, <2>2, <3>1 DEF NamesOf
      <4>2. i = e.ord
        BY <1>5, <3>1, <4>1
      <4>. QED  BY <1>1, <2>1, <2>2, <4>1, <4>2
    <3>. QED  BY <3>1
  <2>4. /\ Len(r.new) = Len(s.new) + 1
        /\ \A j \in 1..Len(s.new) : r.new[j] = s.new[j]
        /\ r.new[Len(s.new) + 1].name = e.name
    <3>1. r.new = Append(s.new, NewEntry(s, e)) /\ NewEntry(s, e) \in Entry
          /\ NewEntry(s, e).name = e.name
      BY <1>4, <2>3
    <3>. DEFINE x == NewEntry(s, e)
    <3>. HIDE DEF e, x
    <3>2. r.new = Append(s.new, x) /\ x \in Entry /\ x.name = e.name
      BY <3>1 DEF x
    <3>. QED  BY <1>1, <3>2
  <2>5. Len(r.new) = n - m
    BY <1>1, <2>1, <2>4
  <2>6. ASSUME NEW j \in 1..n - m PROVE r.new[j].name = def[m + j].name
    <3>1. CASE j \in 1..n - 1 - m
      BY <2>1, <2>4, <3>1
    <3>2. CASE j = n - m
      <4>1. m + j = n /\ j = Len(s.new) + 1
        BY <1>1, <2>1, <3>2
      <4>. QED  BY <2>4, <4>1
    <3>3. j \in 1..n - 1 - m \/ j = n - m
      BY <1>1, <2>1
    <3>. QED  BY <3>1, <3>2, <3>3
  <2>. QED  BY <1>7, <2>5, <2>6 DEF AlikeSoFar, r
<1>. QED  BY <1>6, <1>7

LEMMA ComparedAlike ==
  ASSUME FrzInv, NEW def \in Seq(Entry), Distinct(def), NEW m \in Nat, Agreeing(def, m)
  PROVE  AlikeSoFar(Compared(def), def, m, Len(def))
<1>. DEFINE N == Len(def)
<1>1. PICK f : Runs(f, def, N) /\ Compared(def) = f[N]
  BY ComparedRuns
<1>2. N \in Nat
  OBVIOUS
<1>3. /\ f[0] = Start
      /\ \A n \in 0..N : f[n] \in Comparison
      /\ \A n \in 1..N : f[n] = Compare(f[n - 1], def[n])
  BY <1>1 DEF Runs
<1>. DEFINE Bad == {n \in 0..N : ~AlikeSoFar(f[n], def, m, n)}
<1>4. Bad = {}
  <2>1. SUFFICES ASSUME Bad # {} PROVE FALSE
    OBVIOUS
  <2>2. PICK b \in Bad : \A n \in Bad : b <= n
    <3>1. Bad \in SUBSET Nat
      OBVIOUS
    <3>. HIDE DEF Bad
    <3>. QED  BY <2>1, <3>1, LeastNatural
  <2>3. AlikeSoFar(Start, def, m, 0)
    <3>1. \A k \in 1..m : def[k].ord \in DOMAIN frz
      BY FrzFacts DEF Agreeing
    <3>2. Start.new = <<>> /\ Start.left = DOMAIN frz
      BY DEF Start
    <3>3. 0 >= m => m = 0
      OBVIOUS
    <3>. QED  BY <3>1, <3>2, <3>3 DEF AlikeSoFar
  <2>4. b # 0
    BY <1>3, <2>2, <2>3
  <2>5. b \in 1..N /\ b - 1 \in 0..N
    BY <1>2, <2>2, <2>4
  <2>6. b - 1 \notin Bad
    BY <1>2, <2>2, <2>5
  <2>7. AlikeSoFar(f[b - 1], def, m, b - 1) /\ f[b - 1] \in Comparison
    BY <1>3, <2>5, <2>6
  <2>8. AlikeSoFar(Compare(f[b - 1], def[b]), def, m, b)
    BY <2>5, <2>7, AlikeStep
  <2>. QED  BY <1>3, <2>2, <2>5, <2>8
<1>5. N \in 0..N
  BY <1>2
<1>. QED  BY <1>1, <1>4, <1>5

\* An export gets, when it is frozen, the ordinal its build gave it, as long as
\* nobody else froze in between, with -remove or without, and after a build
\* that misses frozen exports too: elf2e32 and efreeze number alike.
THEOREM ToolsNumberAlike == Spec => FreezeKeepsNumbers
<1>. DEFINE Kept ==
       \A t \in Trees, remove \in BOOLEAN :
         FreezeWorks(t, remove) /\ gen[t].fresh =>
           \A e \in Range(gen[t].def) : e.ord \in DOMAIN frz' /\ frz'[e.ord].name = e.name
<1>1. FreezeInv /\ FreshInv /\ [Next]_vars => [Kept]_vars
  <2>. SUFFICES ASSUME FreezeInv, FreshInv, NEW t \in Trees, NEW remove \in BOOLEAN,
                       FreezeWorks(t, remove), gen[t].fresh, NEW e \in Range(gen[t].def)
                PROVE  e.ord \in DOMAIN frz' /\ frz'[e.ord].name = e.name
    BY DEF vars
  <2>. DEFINE def == gen[t].def
              new == Compared(def).new
  <2>1. def \in Seq(Entry) /\ Distinct(def) /\ FrzInv
        /\ \A i \in DOMAIN def : def[i].absent => def[i].name \in NamesOf(frz)
    BY DEF FreezeInv, GenInv
  <2>2. PICK m \in Nat : Agreeing(def, m)
    BY DEF FreshInv
  <2>3. frz' = Merged(def)
    BY DEF FreezeWorks, Merged
  <2>4. PICK i \in 1..Len(def) : e = def[i]
    BY <2>1 DEF Range
  <2>. HIDE DEF def
  <2>5. /\ Len(def) \in Nat /\ m <= Len(def) /\ Len(frz) \in Nat /\ frz' \in Seq(Entry)
        /\ Len(frz) <= Len(frz') /\ Len(frz') \in Nat /\ DOMAIN frz' = 1..Len(frz')
        /\ \A o \in 1..Len(frz) : frz'[o].name = frz[o].name
    BY <2>1, <2>2, <2>3, MergedFacts, FrzFacts DEF Agreeing
  <2>6. CASE i \in 1..m
    <3>1. e.ord \in 1..Len(frz) /\ frz[e.ord].name = e.name
      BY <2>2, <2>4, <2>6 DEF Agreeing
    <3>. QED  BY <2>5, <3>1
  <2>7. CASE i \in m + 1..Len(def)
    <3>. DEFINE j == i - m
                x == Marked(def)
    <3>1. j \in 1..Len(def) - m /\ m + j = i /\ e.ord = Len(frz) + j
      BY <2>2, <2>4, <2>5, <2>7 DEF Agreeing
    <3>2. Len(new) = Len(def) - m /\ new[j].name = def[m + j].name
      BY <2>1, <2>2, <2>5, <3>1, ComparedAlike DEF AlikeSoFar
    <3>3. new \in Seq(Entry) /\ x \in Seq(Entry) /\ Len(x) = Len(frz)
      <4>1. new \in Seq(Entry)
        BY <2>1, ComparedFacts DEF Comparison
      <4>. QED  BY <2>1, <4>1, MarkedFacts
    <3>. HIDE DEF new, x, j
    <3>4. frz' = x \o new
      BY <2>3 DEF Merged, x, new
    <3>5. Len(frz') = Len(frz) + Len(new) /\ frz'[Len(frz) + j] = new[j]
      <4>1. /\ Len(x \o new) = Len(x) + Len(new)
            /\ \A k \in Len(x) + 1..Len(x) + Len(new) : (x \o new)[k] = new[k - Len(x)]
        BY <3>3, ConcatFacts, Zenon
      <4>2. Len(frz) + j \in Len(frz) + 1..Len(frz) + Len(new) /\ (Len(frz) + j) - Len(frz) = j
        BY <2>5, <3>1, <3>2
      <4>. QED  BY <3>3, <3>4, <4>1, <4>2
    <3>. QED  BY <2>4, <2>5, <3>1, <3>2, <3>5
  <2>. QED  BY <2>5, <2>6, <2>7
<1>. QED  BY <1>1, FreezeInvInductive, FreshInvInductive, PTL DEF Spec, FreezeKeepsNumbers
=============================================================================
