----------------------------- MODULE Deflate_proof -----------------------------
(***************************************************************************)
(* Proofs about MDeflater: for every image, hash function and size of the  *)
(* history, the codes that DeflateL emits stand for the image.  The hash   *)
(* chains lead only to strings that are there, and a segment of the        *)
(* longest equal string, read back, is that string, where the two overlap  *)
(* too.                                                                    *)
(***************************************************************************)
EXTENDS Deflate, SequenceTheorems, WellFoundedInduction, TLAPS

-----------------------------------------------------------------------------
(* Least and greatest elements, induction and functions defined by it.      *)

LEMMA LeastNatural ==
  ASSUME NEW S \in SUBSET Nat, S # {}
  PROVE  \E m \in S : \A n \in S : m <= n
<1>1. IsWellFoundedOn(OpToRel(<, Nat), Nat)
  BY NatLessThanWellFounded
<1>2. PICK m \in S : \A n \in S : ~ (<<n, m>> \in OpToRel(<, Nat))
  BY <1>1, WFMin, Zenon
<1>3. \A n \in S : ~ (n < m)
  BY <1>2 DEF OpToRel
<1>. QED  BY <1>3

LEMMA GreatestNatural ==
  ASSUME NEW b \in Nat, NEW S \in SUBSET (0..b), S # {}
  PROVE  \E m \in S : \A n \in S : n <= m
<1>. DEFINE T == {b - n : n \in S}
<1>1. T \in SUBSET Nat /\ T # {}
  <2>1. \A n \in S : b - n \in Nat
    OBVIOUS
  <2>. QED  BY <2>1
<1>2. PICK t \in T : \A u \in T : t <= u
  <2>. HIDE DEF T
  <2>. QED  BY <1>1, LeastNatural
<1>3. PICK m \in S : t = b - m
  BY <1>2
<1>4. ASSUME NEW n \in S PROVE n <= m
  <2>1. t <= b - n
    BY <1>2
  <2>2. m \in Nat /\ n \in Nat
    <3>1. m \in 0..b /\ n \in 0..b
      OBVIOUS
    <3>. HIDE DEF T
    <3>. QED  BY <3>1, SMTT(60)
  <2>. QED  BY <1>3, <2>1, <2>2
<1>. QED  BY <1>4

\* Induction up to n over a set: what holds of 0 and goes on holds of all.
LEMMA Induct ==
  ASSUME NEW n \in Nat, NEW S, 0 \in S, \A i \in 0..n - 1 : i \in S => i + 1 \in S
  PROVE  \A i \in 0..n : i \in S
<1>. DEFINE Bad == {i \in 0..n : i \notin S}
<1>1. SUFFICES ASSUME Bad # {} PROVE FALSE
  OBVIOUS
<1>2. PICK b \in Bad : \A i \in Bad : b <= i
  <2>1. Bad \in SUBSET Nat
    OBVIOUS
  <2>. HIDE DEF Bad
  <2>. QED  BY <1>1, <2>1, LeastNatural
<1>3. b \in 0..n /\ b # 0
  BY <1>2
<1>4. b - 1 \in 0..n - 1 /\ (b - 1) + 1 = b /\ ~(b <= b - 1) /\ b - 1 \in 0..n
  BY <1>3
<1>5. b - 1 \in S
  BY <1>2, <1>4
<1>6. b \in S
  BY <1>4, <1>5
<1>. QED  BY <1>2, <1>6

\* The function on 0..n that begins with init and steps from one value to the next.
IsIteration(f, n, S, init, step) ==
  /\ f \in [0..n -> S] /\ f[0] = init
  /\ \A i \in 1..n : f[i] = step[i][f[i - 1]]

LEMMA IterExists ==
  ASSUME NEW n \in Nat, NEW S, NEW init \in S, NEW step \in [1..n -> [S -> S]]
  PROVE  \E f : IsIteration(f, n, S, init, step)
<1>. DEFINE Good(k) == \E f \in [0..n -> S] :
                         f[0] = init /\ \A i \in 1..k : f[i] = step[i][f[i - 1]]
            R == {k \in 0..n : Good(k)}
<1>1. 0 \in R
  <2>1. PICK f \in [0..n -> S] : f[0] = init
    <3>. DEFINE f == [i \in 0..n |-> init]
    <3>1. f \in [0..n -> S] /\ 0 \in 0..n
      OBVIOUS
    <3>2. f[0] = init
      BY <3>1
    <3>. QED  BY <3>1, <3>2
  <2>2. \A i \in 1..0 : FALSE
    OBVIOUS
  <2>3. Good(0)
    BY <2>1, <2>2, Zenon
  <2>. QED  BY <2>3
<1>2. ASSUME NEW k \in 0..n - 1, k \in R PROVE k + 1 \in R
  <2>1. PICK f \in [0..n -> S] : f[0] = init /\ \A i \in 1..k : f[i] = step[i][f[i - 1]]
    BY <1>2
  <2>. DEFINE g == [f EXCEPT ![k + 1] = step[k + 1][f[k]]]
  <2>2. k + 1 \in 1..n /\ k \in 0..n /\ k + 1 # 0 /\ k + 1 \in 0..n
    OBVIOUS
  <2>3. step[k + 1][f[k]] \in S
    BY <2>2
  <2>4. g \in [0..n -> S] /\ g[k + 1] = step[k + 1][f[k]]
        /\ \A i \in 0..n : i # k + 1 => g[i] = f[i]
    BY <2>2, <2>3
  <2>. HIDE DEF g
  <2>5. ASSUME NEW i \in 1..k + 1 PROVE g[i] = step[i][g[i - 1]]
    <3>1. i - 1 \in 0..n /\ i - 1 # k + 1 /\ i \in 0..n
      BY <2>2
    <3>2. g[i - 1] = f[i - 1]
      BY <2>4, <3>1
    <3>3. CASE i = k + 1
      <4>1. i - 1 = k
        BY <3>3
      <4>. QED  BY <2>4, <3>2, <3>3, <4>1
    <3>4. CASE i # k + 1
      <4>1. i \in 1..k
        BY <3>4
      <4>. QED  BY <2>1, <2>4, <3>1, <3>2, <3>4, <4>1
    <3>. QED  BY <3>3, <3>4
  <2>6. g[0] = init
    BY <2>1, <2>2, <2>4
  <2>7. Good(k + 1)
    BY <2>4, <2>5, <2>6
  <2>. QED  BY <2>2, <2>7
<1>3. n \in 0..n
  OBVIOUS
<1>4. n \in R
  <2>. HIDE DEF R
  <2>. QED  BY <1>1, <1>2, <1>3, Induct
<1>. QED  BY <1>4 DEF IsIteration

-----------------------------------------------------------------------------
(* Quotients                                                                *)

LEMMA DivMod ==
  ASSUME NEW n \in Int, NEW d \in Nat \ {0}
  PROVE  n = d * (n \div d) + (n % d) /\ n % d \in 0..d - 1 /\ n \div d \in Int
<1>. DEFINE q == n \div d  r == n % d
<1>1. n = d * q + r /\ r \in 0..d - 1 /\ q \in Int
  OBVIOUS
<1>. QED  BY <1>1, Zenon

\* Quotient and remainder are unique.
LEMMA DivUnique ==
  ASSUME NEW d \in Nat \ {0}, NEW q \in Int, NEW r \in 0..d - 1,
         NEW a \in Int, NEW b \in 0..d - 1, d * q + r = d * a + b
  PROVE  q = a /\ r = b
<1>1. d * (q - a) = b - r
  <2>1. d * (q - a) = d * q - d * a /\ d * q \in Int /\ d * a \in Int
    OBVIOUS
  <2>. QED  BY <2>1
<1>2. q = a
  <2>1. CASE q - a >= 1
    <3>1. d * (q - a) >= d * 1
      BY <2>1
    <3>. QED  BY <1>1, <3>1
  <2>2. CASE q - a <= -1
    <3>1. d * (q - a) <= d * (-1)
      BY <2>2
    <3>. QED  BY <1>1, <3>1
  <2>. QED  BY <2>1, <2>2
<1>. QED  BY <1>1, <1>2

LEMMA DivBounds ==
  ASSUME NEW n \in Nat, NEW d \in Nat \ {0}, NEW k \in Nat
  PROVE  /\ n \div d \in Nat
         /\ n \div d >= k <=> n >= k * d
<1>. DEFINE q == n \div d  r == n % d
<1>1. n = d * q + r /\ r \in 0..d - 1 /\ q \in Int
  OBVIOUS
<1>. HIDE DEF q, r
<1>2. q >= 0
  <2>1. CASE q <= -1
    <3>1. d * q <= d * (-1)
      BY <1>1, <2>1
    <3>. QED  BY <1>1, <3>1
  <2>. QED  BY <1>1, <2>1
<1>3. d * k = k * d
  OBVIOUS
<1>4. q >= k => n >= k * d
  <2>1. ASSUME q >= k PROVE n >= k * d
    <3>1. d * q >= d * k
      BY <1>1, <2>1
    <3>. QED  BY <1>1, <1>3, <3>1
  <2>. QED  BY <2>1
<1>5. n >= k * d => q >= k
  <2>1. ASSUME n >= k * d, q <= k - 1 PROVE FALSE
    <3>1. d * q <= d * (k - 1) /\ d * (k - 1) = d * k - d
      BY <1>1, <2>1
    <3>. QED  BY <1>1, <1>3, <2>1, <3>1
  <2>. QED  BY <1>1, <2>1
<1>. QED  BY <1>1, <1>2, <1>4, <1>5 DEF q

\* Places in a circular buffer.
LEMMA ModPlaces ==
  ASSUME NEW d \in Nat \ {0}, NEW p \in Int
  PROVE  /\ p % d \in 0..d - 1 /\ (p - d) % d = p % d
         /\ \A q \in Int : q < p /\ p < q + d => q % d # p % d
<1>1. p % d \in 0..d - 1 /\ p = d * (p \div d) + (p % d) /\ p \div d \in Int
  BY DivMod
<1>2. (p - d) % d = p % d
  <2>. DEFINE u == p - d  a == u \div d  b == u % d  q == p \div d  r == p % d
  <2>1. u \in Int /\ u = d * a + b /\ b \in 0..d - 1 /\ a \in Int
    BY DivMod
  <2>2. p = d * q + r /\ r \in 0..d - 1 /\ q \in Int
    BY <1>1
  <2>3. u = p - d
    OBVIOUS
  <2>. HIDE DEF u, a, b, q, r
  <2>4. d * (q - 1) = d * q - d /\ q - 1 \in Int
    BY <2>2
  <2>5. d * a + b = d * (q - 1) + r
    BY <2>1, <2>2, <2>3, <2>4
  <2>6. b = r
    BY <2>1, <2>2, <2>4, <2>5, DivUnique
  <2>. QED  BY <2>6 DEF u, b, r
<1>3. ASSUME NEW q \in Int, q < p, p < q + d, q % d = p % d PROVE FALSE
  <2>. DEFINE a == q \div d  b == p \div d  r == p % d
  <2>1. q = d * a + r /\ p = d * b + r /\ r \in 0..d - 1 /\ a \in Int /\ b \in Int
    BY <1>1, <1>3, DivMod
  <2>. HIDE DEF a, b, r
  <2>2. d * (b - a) = p - q
    <3>1. d * (b - a) = d * b - d * a /\ d * b \in Int /\ d * a \in Int
      BY <2>1
    <3>. QED  BY <2>1, <3>1
  <2>3. CASE b - a >= 1
    <3>1. d * (b - a) >= d * 1
      BY <2>1, <2>3
    <3>. QED  BY <1>3, <2>2, <3>1
  <2>4. CASE b - a <= 0
    <3>1. d * (b - a) <= d * 0
      BY <2>1, <2>4
    <3>. QED  BY <1>3, <2>2, <3>1
  <2>. QED  BY <2>1, <2>3, <2>4
<1>. QED  BY <1>1, <1>2, <1>3

-----------------------------------------------------------------------------
(* Powers of two                                                            *)

LEMMA PowerIs ==
  ASSUME NEW n \in Nat, NEW f \in [0..n -> Nat], f[0] = 1,
         \A i \in 1..n : f[i] = 2 * f[i - 1]
  PROVE  TwoTo(n) = f[n]
<1>. DEFINE IsPower(g) == g = [i \in 0..n |-> IF i = 0 THEN 1 ELSE 2 * g[i - 1]]
            g == CHOOSE g : IsPower(g)
<1>1. IsPower(f)
  <2>1. f = [i \in 0..n |-> f[i]]
    OBVIOUS
  <2>2. \A i \in 0..n : f[i] = IF i = 0 THEN 1 ELSE 2 * f[i - 1]
    OBVIOUS
  <2>. QED  BY <2>1, <2>2
<1>2. IsPower(g)
  BY <1>1
<1>3. TwoTo(n) = g[n]
  BY DEF TwoTo
<1>. HIDE DEF g
<1>4. \A i \in 0..n : g[i] = IF i = 0 THEN 1 ELSE 2 * g[i - 1]
  BY <1>2
<1>. DEFINE S == {i \in 0..n : g[i] = f[i]}
<1>5. 0 \in S
  BY <1>4
<1>6. ASSUME NEW i \in 0..n - 1, i \in S PROVE i + 1 \in S
  <2>1. i + 1 \in 1..n /\ i + 1 \in 0..n /\ (i + 1) - 1 = i /\ i + 1 # 0
    OBVIOUS
  <2>2. g[i + 1] = 2 * g[i] /\ f[i + 1] = 2 * f[i]
    BY <1>4, <2>1
  <2>. QED  BY <1>6, <2>1, <2>2
<1>7. n \in S
  <2>1. n \in 0..n
    OBVIOUS
  <2>. HIDE DEF S
  <2>. QED  BY <1>5, <1>6, <2>1, Induct
<1>. QED  BY <1>3, <1>7

LEMMA PowerExists ==
  ASSUME NEW n \in Nat
  PROVE  \E f \in [0..n -> Nat] :
           /\ f[0] = 1 /\ \A i \in 1..n : f[i] = 2 * f[i - 1]
           /\ \A i \in 0..n : TwoTo(i) = f[i]
<1>. DEFINE step == [i \in 1..n |-> [x \in Nat |-> 2 * x]]
<1>1. step \in [1..n -> [Nat -> Nat]] /\ \A i \in 1..n : \A x \in Nat : step[i][x] = 2 * x
  OBVIOUS
<1>. HIDE DEF step
<1>2. PICK f : IsIteration(f, n, Nat, 1, step)
  <2>1. 1 \in Nat
    OBVIOUS
  <2>. QED  BY <1>1, <2>1, IterExists
<1>a. f \in [0..n -> Nat] /\ f[0] = 1 /\ \A i \in 1..n : f[i] = step[i][f[i - 1]]
  BY <1>2 DEF IsIteration
<1>3. \A i \in 1..n : f[i] = 2 * f[i - 1]
  <2>1. \A i \in 1..n : f[i - 1] \in Nat
    BY <1>a
  <2>. QED  BY <1>1, <1>a, <2>1
<1>4. ASSUME NEW i \in 0..n PROVE TwoTo(i) = f[i]
  <2>. DEFINE g == [j \in 0..i |-> f[j]]
  <2>1. g \in [0..i -> Nat] /\ g[0] = 1 /\ g[i] = f[i] /\ i \in Nat
    BY <1>a
  <2>2. \A j \in 1..i : g[j] = 2 * g[j - 1]
    BY <1>3
  <2>. HIDE DEF g
  <2>. QED  BY <2>1, <2>2, PowerIs
<1>. QED  BY <1>a, <1>3, <1>4

LEMMA TwoToFacts ==
  /\ TwoTo(0) = 1
  /\ \A n \in Nat : /\ TwoTo(n) \in Nat \ {0} /\ TwoTo(n) > n
                    /\ TwoTo(n + 1) = 2 * TwoTo(n)
<1>1. TwoTo(0) = 1
  <2>1. 0 \in Nat /\ 0 \in 0..0
    OBVIOUS
  <2>. QED  BY <2>1, PowerExists
<1>2. ASSUME NEW n \in Nat
      PROVE  TwoTo(n + 1) = 2 * TwoTo(n) /\ TwoTo(n) \in Nat
  <2>1. PICK f \in [0..n + 1 -> Nat] : /\ \A i \in 1..n + 1 : f[i] = 2 * f[i - 1]
                                       /\ \A i \in 0..n + 1 : TwoTo(i) = f[i]
    <3>. DEFINE k == n + 1
    <3>1. k \in Nat
      OBVIOUS
    <3>. HIDE DEF k
    <3>2. \E f \in [0..k -> Nat] : /\ \A i \in 1..k : f[i] = 2 * f[i - 1]
                                   /\ \A i \in 0..k : TwoTo(i) = f[i]
      BY <3>1, PowerExists
    <3>. QED  BY <3>2 DEF k
  <2>2. n + 1 \in 1..n + 1 /\ n \in 0..n + 1 /\ n + 1 \in 0..n + 1 /\ (n + 1) - 1 = n
    OBVIOUS
  <2>. QED  BY <2>1, <2>2
<1>3. ASSUME NEW n \in Nat PROVE TwoTo(n) > n
  <2>. DEFINE S == {i \in 0..n : TwoTo(i) > i}
  <2>1. 0 \in S
    BY <1>1
  <2>2. ASSUME NEW i \in 0..n - 1, i \in S PROVE i + 1 \in S
    <3>. DEFINE a == TwoTo(i)  b == TwoTo(i + 1)
    <3>1. a \in Nat /\ b = 2 * a /\ a > i /\ i \in Nat
      BY <1>2, <2>2
    <3>. HIDE DEF a, b
    <3>2. b > i + 1
      BY <3>1
    <3>. QED  BY <3>2 DEF b
  <2>3. n \in 0..n
    OBVIOUS
  <2>4. n \in S
    <3>. HIDE DEF S
    <3>. QED  BY <2>1, <2>2, <2>3, Induct
  <2>. QED  BY <2>4
<1>. QED  BY <1>1, <1>2, <1>3

-----------------------------------------------------------------------------
(* Numbers as codes with extra bits                                         *)

\* The number of extra bits is the least with which the rest is a code.
LEMMA ExtraFacts ==
  ASSUME NEW n \in Nat
  PROVE  /\ Extra(n) \in 0..n /\ n \div TwoTo(Extra(n)) < 2 * Mantissa
         /\ \A y \in 0..Extra(n) - 1 : n \div TwoTo(y) >= 2 * Mantissa
<1>. DEFINE q(x) == n \div TwoTo(x)
            S == {x \in 0..n : q(x) < 2 * Mantissa}
            IsExtra(x) == q(x) < 2 * Mantissa /\ \A y \in 0..x - 1 : q(y) >= 2 * Mantissa
<1>0. Mantissa \in Nat \ {0}
  BY DeflateAssumption
<1>1. \A x \in Nat : q(x) \in Nat
  BY TwoToFacts, DivBounds
<1>2. q(n) = 0
  <2>. DEFINE d == TwoTo(n)  k == n \div d
  <2>1. d \in Nat \ {0} /\ d > n
    BY TwoToFacts
  <2>. HIDE DEF d
  <2>2. k \in Nat /\ (k >= 1 <=> n >= 1 * d)
    BY <2>1, DivBounds
  <2>. HIDE DEF k
  <2>3. k = 0
    BY <2>1, <2>2
  <2>. QED  BY <2>3 DEF k, d
<1>. HIDE DEF q
<1>3. n \in S
  BY <1>0, <1>2
<1>4. PICK x \in S : \A y \in S : x <= y
  <2>1. S \in SUBSET Nat
    OBVIOUS
  <2>. HIDE DEF S
  <2>. QED  BY <1>3, <2>1, LeastNatural
<1>5. ASSUME NEW y \in 0..x - 1 PROVE q(y) >= 2 * Mantissa
  <2>1. y \in 0..n /\ ~(x <= y) /\ x \in 0..n
    BY <1>4
  <2>2. y \notin S
    <3>. HIDE DEF S
    <3>. QED  BY <1>4, <2>1
  <2>3. ~(q(y) < 2 * Mantissa)
    BY <2>1, <2>2
  <2>. QED  BY <1>0, <1>1, <2>1, <2>3
<1>6. \E z \in 0..n : IsExtra(z)
  BY <1>4, <1>5
<1>7. Extra(n) = CHOOSE z \in 0..n : IsExtra(z)
  BY DEF Extra, q
<1>8. Extra(n) \in 0..n /\ IsExtra(Extra(n))
  <2>. HIDE DEF IsExtra
  <2>. QED  BY <1>6, <1>7, Zenon
<1>. QED  BY <1>8 DEF q

\* The leading bits: below 2 * Mantissa, and from Mantissa on when there are extra
\* bits.
IsLeading(n, x, d, q, r) ==
  /\ x \in Nat /\ d \in Nat \ {0} /\ q \in Nat /\ r \in 0..d - 1
  /\ x = Extra(n) /\ d = TwoTo(x) /\ q = n \div d /\ r = n % d /\ n = d * q + r
  /\ q < 2 * Mantissa /\ (x > 0 => q >= Mantissa)
  /\ CodeOf(n) = x * Mantissa + q

LEMMA LeadingBits ==
  ASSUME NEW n \in Nat
  PROVE  \E x, d, q, r : IsLeading(n, x, d, q, r)
<1>. DEFINE x == Extra(n)  d == TwoTo(x)  q == n \div d  r == n % d  M == Mantissa
<1>0. M \in Nat \ {0}
  BY DeflateAssumption
<1>1. x \in Nat /\ q < 2 * M /\ \A y \in 0..x - 1 : n \div TwoTo(y) >= 2 * M
  BY ExtraFacts
<1>2. d \in Nat \ {0}
  <2>. HIDE DEF x
  <2>. QED  BY <1>1, TwoToFacts
<1>3. q \in Nat /\ (q >= M <=> n >= M * d)
  <2>. HIDE DEF d
  <2>. QED  BY <1>0, <1>2, DivBounds
<1>4. n = d * q + r /\ r \in 0..d - 1
  <2>. HIDE DEF d
  <2>1. n \in Int
    OBVIOUS
  <2>. QED  BY <1>2, <2>1, DivMod
<1>5. ASSUME x > 0 PROVE q >= M
  <2>. DEFINE y == x - 1  e == TwoTo(y)  k == n \div e  m == 2 * M
  <2>1. y \in Nat /\ y \in 0..x - 1 /\ y + 1 = x
    <3>. HIDE DEF x
    <3>. QED  BY <1>1, <1>5
  <2>2. k >= m
    <3>. HIDE DEF x
    <3>. QED  BY <1>1, <2>1
  <2>. HIDE DEF y
  <2>3. e \in Nat \ {0} /\ d = 2 * e
    BY <2>1, TwoToFacts
  <2>4. n >= m * e
    <3>. HIDE DEF e
    <3>1. m \in Nat
      BY <1>0
    <3>. HIDE DEF m
    <3>. QED  BY <2>2, <2>3, <3>1, DivBounds
  <2>5. m * e = M * d
    <3>. HIDE DEF e, d, M
    <3>. QED  BY <1>0, <2>3
  <2>. QED  BY <1>3, <2>4, <2>5
<1>6. CodeOf(n) = x * M + q
  BY DEF CodeOf
<1>7. r \in Nat
  <2>. HIDE DEF d, r
  <2>. QED  BY <1>2, <1>4
<1>8. /\ x = Extra(n) /\ d = TwoTo(x) /\ q = n \div d /\ r = n % d
  OBVIOUS
<1>. HIDE DEF x, d, q, r, M
<1>9. IsLeading(n, x, d, q, r)
  BY <1>1, <1>2, <1>3, <1>4, <1>5, <1>6, <1>8 DEF IsLeading, M
<1>. QED  BY <1>9

ExtraBits(n) == IF Extra(n) = 0 THEN 0 ELSE n % TwoTo(Extra(n))

IsCode(M, x, q, c) == c = x * M + q

\* Code x * M + q of x > 0 extra bits gives x and q back.
LEMMA CodeParts ==
  ASSUME NEW M \in Nat \ {0}, NEW x \in Nat \ {0}, NEW q \in M..2 * M - 1,
         NEW c, IsCode(M, x, q, c)
  PROVE  c \in Nat /\ c >= 2 * M /\ c \div M = x + 1 /\ c - x * M = q
<1>. DEFINE y == x + 1  e == q - M  a == c \div M  b == c % M  w == x * M
<1>1. w \in Nat /\ w = M * x /\ M * y = M * x + M
  OBVIOUS
<1>2. e \in 0..M - 1 /\ y \in Int
  OBVIOUS
<1>3. M * y >= M * 2
  OBVIOUS
<1>4. c = w + q /\ q = e + M
  BY DEF IsCode
<1>. HIDE DEF y, e, w
<1>5. c \in Nat /\ c = M * y + e /\ c >= 2 * M /\ c - w = q
  BY <1>1, <1>2, <1>3, <1>4
<1>6. c = M * a + b /\ b \in 0..M - 1 /\ a \in Int
  <2>1. c \in Int
    BY <1>5
  <2>. QED  BY <2>1, DivMod, Zenon
<1>. HIDE DEF a, b
<1>7. a = y
  <2>1. M * a + b = M * y + e
    BY <1>5, <1>6
  <2>. QED  BY <1>2, <1>6, <2>1, DivUnique
<1>. QED  BY <1>5, <1>7 DEF a, y, w

\* What SegmentL writes, InflateL reads.
LEMMA NumberBack ==
  ASSUME NEW n \in Nat
  PROVE  /\ CodeOf(n) \in Nat /\ Extra(n) \in Nat /\ ExtraOf(CodeOf(n)) = Extra(n)
         /\ NumberOf(CodeOf(n), ExtraBits(n)) = n
<1>0. Mantissa \in Nat \ {0}
  BY DeflateAssumption
<1>1. PICK x, d, q, r : IsLeading(n, x, d, q, r)
  BY LeadingBits
<1>. DEFINE c == CodeOf(n)
<1>2. /\ x \in Nat /\ d \in Nat \ {0} /\ q \in Nat /\ r \in 0..d - 1
      /\ x = Extra(n) /\ d = TwoTo(x) /\ r = n % d /\ n = d * q + r
      /\ q < 2 * Mantissa /\ (x > 0 => q >= Mantissa) /\ c = x * Mantissa + q
  BY <1>1 DEF IsLeading
<1>. HIDE DEF c
<1>3. CASE x = 0
  <2>1. d = 1
    BY <1>2, <1>3, TwoToFacts
  <2>2. r = 0 /\ n = q /\ c = q
    <3>1. d * q = q /\ x * Mantissa = 0
      BY <1>0, <1>2, <1>3, <2>1
    <3>2. n = d * q + r /\ r \in 0..d - 1 /\ q \in Nat /\ c = x * Mantissa + q
      BY <1>2
    <3>. QED  BY <2>1, <3>1, <3>2
  <2>3. ExtraOf(c) = 0 /\ ExtraBits(n) = 0
    BY <1>2, <1>3, <2>2 DEF ExtraOf, ExtraBits
  <2>4. NumberOf(c, 0) = (c - 0 * Mantissa) * 1 + 0
    BY <1>2, <1>3, <2>1, <2>3 DEF NumberOf
  <2>5. (c - 0 * Mantissa) * 1 + 0 = c
    <3>1. c \in Nat
      BY <1>2, <2>2, Zenon
    <3>2. 0 * Mantissa = 0
      BY <1>0
    <3>. QED  BY <3>1, <3>2
  <2>. QED  BY <1>2, <1>3, <2>2, <2>3, <2>4, <2>5 DEF c
<1>4. CASE x # 0
  <2>1. x \in Nat \ {0} /\ q \in Mantissa..2 * Mantissa - 1
    BY <1>0, <1>2, <1>4
  <2>. DEFINE M == Mantissa
  <2>a. IsCode(M, x, q, c) /\ M \in Nat \ {0}
    BY <1>0, <1>2 DEF IsCode
  <2>. HIDE DEF M
  <2>b. q \in M..2 * M - 1
    BY <2>1 DEF M
  <2>c. c \in Nat /\ c >= 2 * M /\ c \div M = x + 1 /\ c - x * M = q
    BY <2>1, <2>a, <2>b, CodeParts
  <2>2. c \in Nat /\ c >= 2 * Mantissa /\ c \div Mantissa = x + 1 /\ c - x * Mantissa = q
    BY <2>c DEF M
  <2>3. ExtraOf(c) = x
    BY <1>0, <1>2, <2>2 DEF ExtraOf
  <2>4. ExtraBits(n) = r
    BY <1>2, <1>4 DEF ExtraBits
  <2>5. NumberOf(c, r) = q * d + r
    BY <1>2, <2>2, <2>3 DEF NumberOf
  <2>6. q * d = d * q
    BY <1>2
  <2>. QED  BY <1>2, <2>2, <2>3, <2>4, <2>5, <2>6 DEF c
<1>. QED  BY <1>3, <1>4

\* Greater numbers have greater codes.
LEMMA CodesGrow ==
  ASSUME NEW n \in Nat, NEW N \in Nat, n <= N
  PROVE  CodeOf(n) <= CodeOf(N)
<1>0. Mantissa \in Nat \ {0}
  BY DeflateAssumption
<1>1. PICK x, d, q, r : IsLeading(n, x, d, q, r)
  BY LeadingBits
<1>2. PICK y, e, p, s : IsLeading(N, y, e, p, s)
  BY LeadingBits
<1>3. /\ x \in Nat /\ d \in Nat \ {0} /\ q \in Nat /\ q = n \div d
      /\ x = Extra(n) /\ d = TwoTo(x) /\ q < 2 * Mantissa /\ CodeOf(n) = x * Mantissa + q
  BY <1>1 DEF IsLeading
<1>4. /\ y \in Nat /\ e \in Nat \ {0} /\ p \in Nat /\ p = N \div e /\ e = TwoTo(y)
      /\ p < 2 * Mantissa /\ (y > 0 => p >= Mantissa) /\ CodeOf(N) = y * Mantissa + p
  BY <1>2 DEF IsLeading
<1>5. \A k \in Nat : n \div e >= k => p >= k
  <2>1. ASSUME NEW k \in Nat, n \div e >= k PROVE p >= k
    <3>1. n >= k * e /\ k * e \in Nat
      BY <1>4, <2>1, DivBounds
    <3>2. N >= k * e
      BY <3>1
    <3>. QED  BY <1>4, <3>2, DivBounds
  <2>. QED  BY <2>1
<1>6. x <= y
  <2>. SUFFICES ASSUME y \in 0..x - 1 PROVE FALSE
    BY <1>3, <1>4
  <2>1. n \div e >= 2 * Mantissa
    BY <1>3, <1>4, ExtraFacts
  <2>2. 2 * Mantissa \in Nat
    BY <1>0
  <2>3. p >= 2 * Mantissa
    BY <1>5, <2>1, <2>2
  <2>. QED  BY <1>0, <1>4, <2>3
<1>7. CASE x = y
  <2>1. n \div e >= q
    BY <1>3, <1>4, <1>7
  <2>2. p >= q
    BY <1>3, <1>5, <2>1
  <2>3. x * Mantissa = y * Mantissa /\ x * Mantissa \in Nat
    BY <1>0, <1>3, <1>7
  <2>. QED  BY <1>3, <1>4, <2>2, <2>3
<1>8. CASE x + 1 <= y
  <2>. DEFINE a == x * Mantissa  b == y * Mantissa
  <2>1. a \in Nat /\ b \in Nat /\ a + Mantissa <= b
    <3>. DEFINE k == y - (x + 1)
    <3>1. k \in Nat /\ y = x + 1 + k
      BY <1>3, <1>4, <1>8
    <3>. HIDE DEF k
    <3>2. k * Mantissa \in Nat /\ a \in Nat /\ b = a + Mantissa + k * Mantissa
      BY <1>0, <1>3, <3>1
    <3>. QED  BY <1>0, <3>2
  <2>2. CodeOf(n) = a + q /\ CodeOf(N) = b + p /\ p >= Mantissa
    BY <1>3, <1>4, <1>8
  <2>. HIDE DEF a, b
  <2>. QED  BY <1>0, <1>3, <1>4, <2>1, <2>2
<1>. QED  BY <1>3, <1>4, <1>6, <1>7, <1>8

-----------------------------------------------------------------------------
(* Beginnings of the image                                                  *)

LEMMA PrefixFacts ==
  ASSUME NEW D, NEW d \in Seq(D), NEW k \in 0..Len(d)
  PROVE  /\ SubSeq(d, 1, k) \in Seq(D) /\ Len(SubSeq(d, 1, k)) = k
         /\ \A i \in 1..k : SubSeq(d, 1, k)[i] = d[i]
OBVIOUS

LEMMA PrefixGrows ==
  ASSUME NEW D, NEW d \in Seq(D), NEW k \in 0..Len(d) - 1
  PROVE  Append(SubSeq(d, 1, k), d[k + 1]) = SubSeq(d, 1, k + 1)
<1>. DEFINE s == SubSeq(d, 1, k)  t == SubSeq(d, 1, k + 1)  u == Append(s, d[k + 1])
<1>1. k \in 0..Len(d) /\ k + 1 \in 0..Len(d) /\ k + 1 \in 1..Len(d) /\ d[k + 1] \in D
  OBVIOUS
<1>2. s \in Seq(D) /\ Len(s) = k /\ \A i \in 1..k : s[i] = d[i]
  BY <1>1, PrefixFacts
<1>3. t \in Seq(D) /\ Len(t) = k + 1 /\ \A i \in 1..k + 1 : t[i] = d[i]
  BY <1>1, PrefixFacts
<1>4. u \in Seq(D) /\ Len(u) = k + 1 /\ \A i \in 1..k + 1 : u[i] = d[i]
  <2>. HIDE DEF s
  <2>. QED  BY <1>1, <1>2
<1>. HIDE DEF s, t, u
<1>5. u = t
  BY <1>3, <1>4, SeqEqual
<1>. QED  BY <1>5 DEF u, s, t

\* A segment that overlaps itself, read back, is the string it was found for.
LEMMA RepeatIs ==
  ASSUME NEW D, NEW d \in Seq(D), NEW q \in Nat, NEW len \in Nat, NEW off \in 1..q,
         q + len <= Len(d), \A i \in 0..len - 1 : d[q + i + 1] = d[q - off + i + 1]
  PROVE  Repeat(SubSeq(d, 1, q), len, off) = SubSeq(d, 1, q + len)
<1>. DEFINE s == SubSeq(d, 1, q)
            IsRepeat(r) == r = [n \in 0..len |-> IF n = 0 THEN s
                                  ELSE Append(r[n - 1], r[n - 1][Len(s) + n - off])]
            f == [n \in 0..len |-> SubSeq(d, 1, q + n)]
            g == CHOOSE r : IsRepeat(r)
<1>1. Len(s) = q
  BY PrefixFacts
<1>2. \A n \in 0..len : f[n] = SubSeq(d, 1, q + n)
  OBVIOUS
<1>3. f[0] = s
  BY <1>2
<1>. HIDE DEF s, f
<1>4. ASSUME NEW n \in 1..len
      PROVE  f[n] = Append(f[n - 1], f[n - 1][Len(s) + n - off])
  <2>. DEFINE k == q + (n - 1)
  <2>1. k \in 0..Len(d) - 1 /\ k \in 0..Len(d) /\ n - 1 \in 0..len /\ n \in 0..len
        /\ k + 1 = q + n /\ n - 1 \in 0..len - 1
    OBVIOUS
  <2>2. q + (n - off) \in 1..k /\ q + (n - off) = q - off + (n - 1) + 1
        /\ q + (n - 1) + 1 = k + 1
    OBVIOUS
  <2>3. d[k + 1] = d[q + (n - off)]
    BY <2>1, <2>2
  <2>4. f[n - 1] = SubSeq(d, 1, k) /\ f[n] = SubSeq(d, 1, k + 1)
    BY <1>2, <2>1
  <2>. HIDE DEF k
  <2>5. f[n - 1][q + (n - off)] = d[q + (n - off)]
    BY <2>1, <2>2, <2>4, PrefixFacts
  <2>6. Append(SubSeq(d, 1, k), d[k + 1]) = SubSeq(d, 1, k + 1)
    BY <2>1, PrefixGrows
  <2>. QED  BY <1>1, <2>3, <2>4, <2>5, <2>6
<1>5. IsRepeat(f)
  <2>1. f = [n \in 0..len |-> f[n]]
    BY DEF f
  <2>2. ASSUME NEW n \in 0..len
        PROVE  f[n] = IF n = 0 THEN s ELSE Append(f[n - 1], f[n - 1][Len(s) + n - off])
    <3>1. CASE n = 0
      BY <1>3, <3>1
    <3>2. CASE n # 0
      <4>1. n \in 1..len
        BY <3>2
      <4>2. f[n] = Append(f[n - 1], f[n - 1][Len(s) + n - off])
        BY <1>4, <4>1
      <4>. QED  BY <3>2, <4>2, Zenon
    <3>. QED  BY <3>1, <3>2
  <2>. QED  BY <2>1, <2>2
<1>6. IsRepeat(g)
  <2>. HIDE DEF IsRepeat
  <2>. QED  BY <1>5
<1>7. Repeat(s, len, off) = g[len]
  BY DEF Repeat
<1>. HIDE DEF g
<1>8. \A n \in 0..len : g[n] = IF n = 0 THEN s
                               ELSE Append(g[n - 1], g[n - 1][Len(s) + n - off])
  BY <1>6
<1>. DEFINE S == {n \in 0..len : g[n] = f[n]}
<1>9. 0 \in S
  BY <1>3, <1>8
<1>10. ASSUME NEW n \in 0..len - 1, n \in S PROVE n + 1 \in S
  <2>. DEFINE m == n + 1
  <2>1. m \in 1..len /\ m \in 0..len /\ m - 1 = n /\ m # 0
    OBVIOUS
  <2>. HIDE DEF m
  <2>2. g[n] = f[n]
    BY <1>10
  <2>3. g[m] = Append(g[m - 1], g[m - 1][Len(s) + m - off])
    BY <1>8, <2>1
  <2>4. f[m] = Append(f[m - 1], f[m - 1][Len(s) + m - off])
    BY <1>4, <2>1
  <2>5. g[m] = f[m]
    BY <2>1, <2>2, <2>3, <2>4
  <2>. QED  BY <2>1, <2>5 DEF m
<1>11. len \in S
  <2>1. len \in 0..len
    OBVIOUS
  <2>. HIDE DEF S
  <2>. QED  BY <1>9, <1>10, <2>1, Induct
<1>12. g[len] = f[len] /\ len \in 0..len
  BY <1>11
<1>. QED  BY <1>2, <1>7, <1>12 DEF s

-----------------------------------------------------------------------------
(* What codes stand for                                                     *)

CodeSet == ({"lit", "dist"} \X Nat) \cup ({"extra"} \X Nat \X Nat)

\* The states of the expansion of cs, one after each code; the last of them.
IsExpansion(u, cs) ==
  u = [i \in 0..Len(cs) |-> IF i = 0 THEN Start ELSE Expand(u[i - 1], cs[i])]

StandsFor(cs, s) == cs \in Seq(CodeSet) /\ \E u : IsExpansion(u, cs) /\ u[Len(cs)] = s

LEMMA StandsForNothing == StandsFor(<<>>, Start)
<1>. DEFINE u == [i \in 0..0 |-> Start]
<1>1. \A i \in 0..0 : i = 0
  OBVIOUS
<1>2. u = [i \in 0..0 |-> IF i = 0 THEN Start ELSE Expand(u[i - 1], <<>>[i])]
  BY <1>1
<1>3. u[0] = Start
  BY <1>1
<1>4. <<>> \in Seq(CodeSet) /\ Len(<<>>) = 0
  BY EmptySeq
<1>. HIDE DEF u
<1>5. IsExpansion(u, <<>>)
  BY <1>2, <1>4 DEF IsExpansion
<1>. QED  BY <1>3, <1>4, <1>5 DEF StandsFor

\* One more code is expanded after the others.
LEMMA StandsForAppend ==
  ASSUME NEW cs, NEW s, StandsFor(cs, s), NEW c \in CodeSet
  PROVE  StandsFor(Append(cs, c), Expand(s, c))
<1>. DEFINE ds == Append(cs, c)  n == Len(cs)
<1>1. PICK u : IsExpansion(u, cs) /\ u[n] = s
  BY DEF StandsFor
<1>2. cs \in Seq(CodeSet) /\ n \in Nat
  BY DEF StandsFor
<1>3. ds \in Seq(CodeSet) /\ Len(ds) = n + 1 /\ ds[n + 1] = c /\ \A i \in 1..n : ds[i] = cs[i]
  BY <1>2, AppendProperties
<1>. DEFINE v == [i \in 0..n + 1 |-> IF i = n + 1 THEN Expand(s, c) ELSE u[i]]
<1>4. v[n + 1] = Expand(s, c) /\ \A i \in 0..n : v[i] = u[i]
  <2>1. n + 1 \in 0..n + 1 /\ \A i \in 0..n : i \in 0..n + 1 /\ i # n + 1
    BY <1>2
  <2>. QED  BY <2>1
<1>5. \A i \in 0..n : u[i] = IF i = 0 THEN Start ELSE Expand(u[i - 1], cs[i])
  BY <1>1 DEF IsExpansion
<1>6. v = [i \in 0..n + 1 |-> v[i]]
  OBVIOUS
<1>. HIDE DEF v, ds, n
<1>7. ASSUME NEW i \in 0..n + 1
      PROVE  v[i] = IF i = 0 THEN Start ELSE Expand(v[i - 1], ds[i])
  <2>1. CASE i = n + 1
    <3>1. i - 1 = n /\ i - 1 \in 0..n /\ i # 0
      BY <1>2, <2>1
    <3>2. v[i - 1] = s
      BY <1>1, <1>4, <3>1
    <3>3. v[i] = Expand(s, c) /\ ds[i] = c
      BY <1>3, <1>4, <2>1
    <3>. QED  BY <3>1, <3>2, <3>3, Zenon
  <2>2. CASE i # n + 1
    <3>1. i \in 0..n
      BY <1>2, <2>2
    <3>2. v[i] = u[i]
      BY <1>4, <3>1
    <3>3. CASE i = 0
      BY <1>5, <3>1, <3>2, <3>3, Zenon
    <3>4. CASE i # 0
      <4>1. i - 1 \in 0..n /\ i \in 1..n
        BY <1>2, <3>1, <3>4
      <4>2. v[i - 1] = u[i - 1] /\ ds[i] = cs[i]
        BY <1>3, <1>4, <4>1
      <4>3. u[i] = Expand(u[i - 1], cs[i])
        BY <1>5, <3>1, <3>4, Zenon
      <4>. QED  BY <3>2, <3>4, <4>2, <4>3, Zenon
    <3>. QED  BY <3>3, <3>4
  <2>. QED  BY <2>1, <2>2
<1>8. IsExpansion(v, ds)
  <2>1. v = [i \in 0..n + 1 |-> IF i = 0 THEN Start ELSE Expand(v[i - 1], ds[i])]
    BY <1>6, <1>7
  <2>. QED  BY <1>3, <2>1 DEF IsExpansion
<1>. QED  BY <1>3, <1>4, <1>8 DEF StandsFor, ds

\* The codes stand for one thing only.
LEMMA StandsForMeaning ==
  ASSUME NEW s, StandsFor(codes, s)
  PROVE  Meaning = s.out
<1>. DEFINE n == Len(codes)  g == CHOOSE u : IsExpansion(u, codes)
<1>1. PICK f : IsExpansion(f, codes) /\ f[n] = s
  BY DEF StandsFor
<1>2. IsExpansion(g, codes)
  BY <1>1
<1>3. Meaning = g[n].out
  BY DEF Meaning, IsExpansion
<1>4. n \in Nat
  BY DEF StandsFor
<1>5. /\ \A i \in 0..n : f[i] = IF i = 0 THEN Start ELSE Expand(f[i - 1], codes[i])
      /\ \A i \in 0..n : g[i] = IF i = 0 THEN Start ELSE Expand(g[i - 1], codes[i])
  <2>. HIDE DEF g
  <2>. QED  BY <1>1, <1>2 DEF IsExpansion
<1>. HIDE DEF g, n
<1>. DEFINE S == {i \in 0..n : g[i] = f[i]}
<1>6. 0 \in S
  <2>1. 0 \in 0..n
    BY <1>4
  <2>. QED  BY <1>5, <2>1
<1>7. ASSUME NEW i \in 0..n - 1, i \in S PROVE i + 1 \in S
  <2>. DEFINE m == i + 1
  <2>1. m \in 0..n /\ m - 1 = i /\ m # 0
    BY <1>4
  <2>. HIDE DEF m
  <2>2. g[m] = Expand(g[m - 1], codes[m]) /\ f[m] = Expand(f[m - 1], codes[m])
    BY <1>5, <2>1, Zenon
  <2>3. g[m] = f[m]
    BY <1>7, <2>1, <2>2
  <2>. QED  BY <2>1, <2>3 DEF m
<1>8. n \in S
  <2>1. n \in 0..n
    BY <1>4
  <2>. HIDE DEF S
  <2>. QED  BY <1>4, <1>6, <1>7, <2>1, Induct
<1>. QED  BY <1>1, <1>3, <1>8

\* Bytes and a length; bytes alone.
Pending(b, l) == [out |-> b, len |-> l, code |-> 0]
Expanded(b)   == Pending(b, 0)

LEMMA StandsForLiteral ==
  ASSUME NEW cs, NEW b, StandsFor(cs, Expanded(b)), NEW byte \in Symbols(Literals)
  PROVE  StandsFor(Append(cs, LitLen(byte)), Expanded(Append(b, byte)))
<1>1. byte \in Nat /\ byte < Literals /\ LitLen(byte) = <<"lit", byte>>
  BY DeflateAssumption DEF Symbols, LitLen
<1>2. LitLen(byte) \in CodeSet
  BY <1>1 DEF CodeSet
<1>3. Expand(Expanded(b), LitLen(byte)) = Expanded(Append(b, byte))
  <2>1. Expand(Expanded(b), LitLen(byte)) = Literal(Expanded(b), byte)
    BY <1>1 DEF Expand
  <2>2. Literal(Expanded(b), byte) = Expanded(Append(b, byte))
    BY DEF Literal, Expanded, Pending
  <2>. QED  BY <2>1, <2>2
<1>4. StandsFor(Append(cs, LitLen(byte)), Expand(Expanded(b), LitLen(byte)))
  <2>. HIDE DEF LitLen
  <2>. QED  BY <1>2, StandsForAppend
<1>. QED  BY <1>3, <1>4

\* A number as one code, or as a code and its extra bits.
LEMMA StandsForNumber ==
  ASSUME NEW cs, NEW b, NEW l \in Nat, NEW n \in Nat, NEW c \in CodeSet,
         StandsFor(cs, Pending(b, l)),
         Expand(Pending(b, l), c) = NumberCode(Pending(b, l), CodeOf(n))
  PROVE  /\ ExtraL(n) \in Seq(CodeSet)
         /\ StandsFor(Append(cs, c) \o ExtraL(n), WholeNumber(Pending(b, l), n))
<1>. DEFINE s == Pending(b, l)  ds == Append(cs, c)  k == CodeOf(n)
<1>1. /\ k \in Nat /\ Extra(n) \in Nat /\ ExtraOf(k) = Extra(n)
      /\ NumberOf(k, ExtraBits(n)) = n
  BY NumberBack
<1>2. StandsFor(ds, NumberCode(s, k))
  <2>1. StandsFor(Append(cs, c), Expand(s, c))
    BY StandsForAppend
  <2>. QED  BY <2>1
<1>3. ds \in Seq(CodeSet)
  BY <1>2 DEF StandsFor
<1>. HIDE DEF s, ds, k
<1>4. CASE Extra(n) = 0
  <2>1. ExtraL(n) = <<>> /\ ExtraBits(n) = 0
    BY <1>4 DEF ExtraL, ExtraBits
  <2>2. NumberCode(s, k) = WholeNumber(s, n)
    BY <1>1, <1>4, <2>1 DEF NumberCode
  <2>3. ds \o <<>> = ds /\ <<>> \in Seq(CodeSet)
    BY <1>3, ConcatEmptySeq, EmptySeq
  <2>. QED  BY <1>2, <2>1, <2>2, <2>3 DEF s, ds
<1>5. CASE Extra(n) # 0
  <2>. DEFINE x == Extra(n)  r == n % TwoTo(x)  e == <<"extra", r, x>>
              t == [s EXCEPT !.code = k]
  <2>1. ExtraL(n) = <<e>> /\ ExtraBits(n) = r
    BY <1>5 DEF ExtraL, ExtraBits
  <2>2. NumberCode(s, k) = t
    BY <1>1, <1>5 DEF NumberCode
  <2>3. t.code = k /\ t.len = l /\ t.out = b /\ WholeNumber(t, n) = WholeNumber(s, n)
    BY DEF s, Pending, WholeNumber
  <2>4. e \in CodeSet /\ e[1] = "extra" /\ e[2] = r
    <3>. DEFINE d == TwoTo(x)
    <3>1. d \in Nat \ {0}
      BY <1>1, TwoToFacts
    <3>. HIDE DEF d
    <3>2. n % d \in Nat
      BY <3>1
    <3>3. r \in Nat
      BY <3>2 DEF d
    <3>. HIDE DEF r, x
    <3>. QED  BY <1>1, <3>3 DEF CodeSet, x
  <2>. HIDE DEF e, t, r, x
  <2>5. StandsFor(Append(ds, e), Expand(t, e))
    BY <1>2, <2>2, <2>4, StandsForAppend
  <2>6. Expand(t, e) = WholeNumber(t, NumberOf(t.code, r))
    BY <2>4 DEF Expand
  <2>7. NumberOf(t.code, r) = n
    BY <1>1, <2>1, <2>3
  <2>8. Append(ds, e) = ds \o <<e>> /\ <<e>> \in Seq(CodeSet)
    BY <1>3, <2>4, AppendIsConcat
  <2>. QED  BY <2>1, <2>3, <2>5, <2>6, <2>7, <2>8 DEF s, ds
<1>. QED  BY <1>4, <1>5

\* A segment stands for the bytes before it, repeated.
LEMMA StandsForSegment ==
  ASSUME NEW cs, NEW b, StandsFor(cs, Expanded(b)), NEW m,
         m.len \in MinLength..MaxLength, m.off \in 1..MaxDistance
  PROVE  StandsFor(cs \o Segment(m), Expanded(Repeat(b, m.len, m.off)))
<1>. DEFINE l == m.len - MinLength  o == m.off - 1
            c == LitLen(Literals + CodeOf(l))  d == Offset(CodeOf(o))
            x == ExtraL(l)  y == ExtraL(o)
            s == Pending(b, 0)  t == Pending(b, m.len)
<1>1. /\ l \in Nat /\ o \in Nat /\ l + MinLength = m.len /\ o + 1 = m.off /\ m.len # 0
      /\ MaxLength - MinLength \in Nat /\ l <= MaxLength - MinLength /\ m.len \in Nat
  BY DeflateAssumption
<1>. HIDE DEF l, o
<1>2. /\ CodeOf(l) \in Nat /\ CodeOf(o) \in Nat /\ EEos \in Nat
      /\ Literals + CodeOf(l) \in Literals..EEos - 1
  <2>1. CodeOf(l) \in Nat /\ CodeOf(o) \in Nat /\ CodeOf(MaxLength - MinLength) \in Nat
    BY <1>1, NumberBack
  <2>2. CodeOf(l) <= CodeOf(MaxLength - MinLength)
    BY <1>1, CodesGrow
  <2>. DEFINE i == CodeOf(l)  k == CodeOf(MaxLength - MinLength)
  <2>3. EEos = (Literals + k) + 1
    BY DEF EEos
  <2>4. i \in Nat /\ k \in Nat /\ i <= k
    BY <2>1, <2>2
  <2>. HIDE DEF i, k
  <2>5. EEos \in Nat /\ Literals + i \in Literals..EEos - 1
    BY <2>3, <2>4, DeflateAssumption
  <2>. QED  BY <2>1, <2>5 DEF i
<1>3. /\ c = <<"lit", Literals + CodeOf(l)>> /\ d = <<"dist", CodeOf(o)>>
      /\ c \in CodeSet /\ d \in CodeSet
  BY <1>2, DeflateAssumption DEF CodeSet, LitLen, Offset
<1>4. Expand(s, c) = NumberCode(s, CodeOf(l))
  <2>1. /\ ~(Literals + CodeOf(l) < Literals) /\ Literals + CodeOf(l) < EEos
        /\ (Literals + CodeOf(l)) - Literals = CodeOf(l)
    BY <1>2, DeflateAssumption
  <2>. QED  BY <1>3, <2>1 DEF Expand
<1>5. Expand(t, d) = NumberCode(t, CodeOf(o))
  BY <1>3 DEF Expand
<1>6. WholeNumber(s, l) = t
  <2>1. s.len = 0 /\ s.out = b
    BY DEF Pending
  <2>. QED  BY <1>1, <2>1 DEF WholeNumber, Pending
<1>7. WholeNumber(t, o) = Expanded(Repeat(b, m.len, m.off))
  BY <1>1 DEF WholeNumber, Pending, Expanded
<1>8. cs \in Seq(CodeSet)
  BY DEF StandsFor
<1>. HIDE DEF c, d
<1>9. x \in Seq(CodeSet) /\ StandsFor(Append(cs, c) \o x, t)
  <2>1. StandsFor(cs, Pending(b, 0)) /\ 0 \in Nat
    BY DEF Expanded
  <2>2. ExtraL(l) \in Seq(CodeSet) /\ StandsFor(Append(cs, c) \o ExtraL(l), WholeNumber(Pending(b, 0), l))
    BY <1>1, <1>3, <1>4, <2>1, StandsForNumber
  <2>. QED  BY <1>6, <2>2
<1>. DEFINE as == Append(cs, c) \o x
<1>10. y \in Seq(CodeSet) /\ StandsFor(Append(as, d) \o y, Expanded(Repeat(b, m.len, m.off)))
  <2>. HIDE DEF as, x
  <2>1. StandsFor(as, Pending(b, m.len))
    BY <1>9 DEF as
  <2>2. ExtraL(o) \in Seq(CodeSet) /\ StandsFor(Append(as, d) \o ExtraL(o), WholeNumber(Pending(b, m.len), o))
    BY <1>1, <1>3, <1>5, <2>1, StandsForNumber
  <2>. QED  BY <1>7, <2>2
<1>11. Segment(m) = <<c>> \o x \o <<d>> \o y
  BY DEF Segment, c, d, l, o
<1>. HIDE DEF x, y, s, t
<1>12. cs \o (<<c>> \o x \o <<d>> \o y) = Append(as, d) \o y
  <2>1. <<c>> \in Seq(CodeSet) /\ <<d>> \in Seq(CodeSet)
    BY <1>3
  <2>2. Append(cs, c) = cs \o <<c>> /\ cs \o <<c>> \in Seq(CodeSet)
    BY <1>3, <1>8, AppendIsConcat, AppendProperties
  <2>3. as \in Seq(CodeSet)
    BY <1>9, <2>2, ConcatProperties
  <2>4. Append(as, d) = as \o <<d>>
    <3>. HIDE DEF as
    <3>. QED  BY <1>3, <2>3, AppendIsConcat
  <2>5. as = cs \o (<<c>> \o x) /\ <<c>> \o x \in Seq(CodeSet)
    BY <1>8, <1>9, <2>1, <2>2, ConcatAssociative, ConcatProperties
  <2>. DEFINE z == <<c>> \o x  v == z \o <<d>>
  <2>6. v \in Seq(CodeSet) /\ as \o <<d>> = cs \o v
    <3>. HIDE DEF as, z
    <3>. QED  BY <1>8, <2>1, <2>5, ConcatAssociative, ConcatProperties DEF z
  <2>7. (cs \o v) \o y = cs \o (v \o y)
    <3>. HIDE DEF v
    <3>. QED  BY <1>8, <1>10, <2>6, ConcatAssociative
  <2>. QED  BY <2>4, <2>6, <2>7
<1>. QED  BY <1>10, <1>11, <1>12

-----------------------------------------------------------------------------
(* The chains of the hash                                                   *)

\* A link from q leads to a position of the image, or too far.
LinkOk(o, q) == o \in Int /\ o >= 1 /\ (o <= q \/ o > MaxDistance)

\* The positions before p have been entered; MaxDistance of them have links.
Hashes == [last : [Buckets -> Int], offset : [History -> Int]]

HashOk(hash, p) ==
  /\ hash \in Hashes
  /\ \A h \in Buckets : hash.last[h] \in 0..p - 1 \/ hash.last[h] = -MaxDistance - 1
  /\ \A q \in Nat : q < p /\ q + MaxDistance >= p => LinkOk(hash.offset[q % MaxDistance], q)

LEMMA HashInBuckets ==
  ASSUME NEW p \in Nat, data \in Seq(Symbols(Literals)), p + 2 < Len(data)
  PROVE  Hash(At(p), At(p + 1), At(p + 2)) \in Buckets
<1>1. At(p) \in Symbols(Literals) /\ At(p + 1) \in Symbols(Literals) /\ At(p + 2) \in Symbols(Literals)
  <2>1. /\ p + 1 \in 1..Len(data) /\ (p + 1) + 1 \in 1..Len(data) /\ (p + 2) + 1 \in 1..Len(data)
    OBVIOUS
  <2>. HIDE DEF Symbols
  <2>. QED  BY <2>1, ElementOfSeq DEF At
<1>. DEFINE t == <<At(p), At(p + 1), At(p + 2)>>
<1>2. t \in Triples /\ t[1] = At(p) /\ t[2] = At(p + 1) /\ t[3] = At(p + 2)
  BY <1>1 DEF Triples
<1>. HIDE DEF t
<1>3. Hash(t[1], t[2], t[3]) \in Buckets
  BY <1>2 DEF Buckets
<1>. QED  BY <1>2, <1>3

LEMMA Slots ==
  ASSUME NEW p \in Nat
  PROVE  /\ p % MaxDistance \in History
         /\ (p - MaxDistance) % MaxDistance = p % MaxDistance
         /\ \A q \in Int : q < p /\ p < q + MaxDistance => q % MaxDistance # p % MaxDistance
<1>1. MaxDistance \in Nat \ {0} /\ p \in Int
  BY DeflateAssumption
<1>2. /\ p % MaxDistance \in 0..MaxDistance - 1
      /\ (p - MaxDistance) % MaxDistance = p % MaxDistance
      /\ \A q \in Int : q < p /\ p < q + MaxDistance => q % MaxDistance # p % MaxDistance
  BY <1>1, ModPlaces, Zenon
<1>. QED  BY <1>2, Zenon DEF History

LEMMA FirstIn ==
  ASSUME NEW p \in Nat, NEW hash \in Hashes,
         data \in Seq(Symbols(Literals)), p + 2 < Len(data)
  PROVE  First(hash, p) \in Hashes
<1>. DEFINE h == Hash(At(p), At(p + 1), At(p + 2))  slot == p % MaxDistance
            link == Lesser(p - hash.last[h], 2 * MaxDistance)
<1>1. h \in Buckets
  BY HashInBuckets
<1>. HIDE DEF h
<1>2. hash.last \in [Buckets -> Int] /\ hash.offset \in [History -> Int]
  BY DEF Hashes
<1>3. hash.last[h] \in Int /\ slot \in History
  BY <1>1, <1>2, Slots
<1>4. link \in Int
  BY <1>3, DeflateAssumption DEF Lesser
<1>5. First(hash, p) = [last   |-> [hash.last EXCEPT ![h] = p],
                        offset |-> [hash.offset EXCEPT ![slot] = link]]
  BY DEF First, h
<1>. HIDE DEF slot, link
<1>6. [hash.last EXCEPT ![h] = p] \in [Buckets -> Int]
  BY <1>1, <1>2
<1>7. [hash.offset EXCEPT ![slot] = link] \in [History -> Int]
  BY <1>2, <1>4
<1>. QED  BY <1>5, <1>6, <1>7 DEF Hashes

LEMMA FirstOk ==
  ASSUME NEW p \in Nat, NEW hash, HashOk(hash, p),
         data \in Seq(Symbols(Literals)), p + 2 < Len(data)
  PROVE  HashOk(First(hash, p), p + 1)
<1>. DEFINE h == Hash(At(p), At(p + 1), At(p + 2))
            slot == p % MaxDistance  link == Lesser(p - hash.last[h], 2 * MaxDistance)
            new == First(hash, p)
<1>0. MaxDistance \in Nat \ {0}
  BY DeflateAssumption
<1>1. h \in Buckets
  BY HashInBuckets
<1>. HIDE DEF h
<1>2. slot \in History /\ \A q \in Int : q < p /\ p < q + MaxDistance => q % MaxDistance # slot
  BY Slots
<1>3. hash.last[h] \in Int /\ (hash.last[h] \in 0..p - 1 \/ hash.last[h] = -MaxDistance - 1)
  BY <1>0, <1>1 DEF HashOk, Hashes
<1>4. LinkOk(link, p)
  BY <1>0, <1>3 DEF LinkOk, Lesser
<1>5. /\ new \in Hashes
      /\ new.last = [hash.last EXCEPT ![h] = p]
      /\ new.offset = [hash.offset EXCEPT ![slot] = link]
  BY FirstIn DEF First, h, HashOk
<1>. HIDE DEF slot, link, new
<1>6. /\ new \in Hashes
      /\ \A k \in Buckets : new.last[k] = IF k = h THEN p ELSE hash.last[k]
      /\ \A k \in History : new.offset[k] = IF k = slot THEN link ELSE hash.offset[k]
  BY <1>1, <1>2, <1>4, <1>5 DEF HashOk, LinkOk, Hashes
<1>7. ASSUME NEW k \in Buckets
      PROVE  new.last[k] \in 0..(p + 1) - 1 \/ new.last[k] = -MaxDistance - 1
  <2>1. hash.last[k] \in 0..p - 1 \/ hash.last[k] = -MaxDistance - 1
    BY DEF HashOk
  <2>. QED  BY <1>6, <2>1
<1>8. ASSUME NEW q \in Nat, q < p + 1, q + MaxDistance >= p + 1
      PROVE  LinkOk(new.offset[q % MaxDistance], q)
  <2>. DEFINE r == q % MaxDistance
  <2>1. r \in History
    BY Slots
  <2>2. CASE q = p
    <3>1. new.offset[r] = link
      BY <1>6, <2>1, <2>2 DEF slot
    <3>. QED  BY <1>4, <2>2, <3>1
  <2>3. CASE q < p
    <3>1. r # slot
      <4>1. q \in Int /\ p < q + MaxDistance
        BY <1>0, <1>8
      <4>. QED  BY <1>2, <2>3, <4>1, Zenon
    <3>2. LinkOk(hash.offset[r], q)
      <4>1. q + MaxDistance >= p
        BY <1>0, <1>8
      <4>. QED  BY <2>3, <4>1 DEF HashOk
    <3>. HIDE DEF r
    <3>3. new.offset[r] = hash.offset[r]
      BY <1>6, <2>1, <3>1
    <3>. QED  BY <3>2, <3>3 DEF r
  <2>. QED  BY <1>8, <2>2, <2>3
<1>9. HashOk(new, p + 1)
  BY <1>6, <1>7, <1>8 DEF HashOk
<1>. QED  BY <1>9 DEF new

LEMMA FirstsOk ==
  ASSUME NEW p \in Nat, NEW n \in Nat, NEW hash, HashOk(hash, p),
         data \in Seq(Symbols(Literals)), n > 0 => p + n + 1 < Len(data)
  PROVE  HashOk(Firsts(hash, p, n), p + n)
<1>. DEFINE IsAfter(f) == f = [i \in 0..n |-> IF i = 0 THEN hash ELSE First(f[i - 1], p + i - 1)]
            step == [i \in 1..n |-> [s \in Hashes |-> First(s, p + i - 1)]]
            g == CHOOSE f : IsAfter(f)
<1>1. ASSUME NEW i \in 1..n PROVE p + i - 1 \in Nat /\ (p + i - 1) + 2 < Len(data)
  OBVIOUS
<1>2. hash \in Hashes
  BY DEF HashOk
<1>3. PICK f : IsIteration(f, n, Hashes, hash, step)
  <2>1. ASSUME NEW i \in 1..n, NEW s \in Hashes PROVE First(s, p + i - 1) \in Hashes
    <3>. DEFINE q == p + i - 1
    <3>1. q \in Nat /\ q + 2 < Len(data)
      BY <1>1
    <3>. HIDE DEF q
    <3>2. First(s, q) \in Hashes
      BY <3>1, FirstIn
    <3>. QED  BY <3>2 DEF q
  <2>2. step \in [1..n -> [Hashes -> Hashes]]
    BY <2>1
  <2>. HIDE DEF step
  <2>. QED  BY <1>2, <2>2, IterExists
<1>4. /\ f \in [0..n -> Hashes] /\ f[0] = hash
      /\ \A i \in 1..n : f[i] = step[i][f[i - 1]]
  BY <1>3 DEF IsIteration
<1>5. IsAfter(f)
  <2>1. f = [i \in 0..n |-> f[i]]
    BY <1>4
  <2>2. ASSUME NEW i \in 0..n PROVE f[i] = IF i = 0 THEN hash ELSE First(f[i - 1], p + i - 1)
    <3>1. CASE i = 0
      BY <1>4, <3>1
    <3>2. CASE i # 0
      <4>1. i \in 1..n /\ i - 1 \in 0..n
        BY <3>2
      <4>2. f[i] = step[i][f[i - 1]] /\ f[i - 1] \in Hashes
        BY <1>4, <4>1
      <4>3. f[i] = First(f[i - 1], p + i - 1)
        BY <4>1, <4>2
      <4>. QED  BY <3>2, <4>3, Zenon
    <3>. QED  BY <3>1, <3>2
  <2>. QED  BY <2>1, <2>2
<1>6. IsAfter(g)
  <2>. HIDE DEF IsAfter
  <2>. QED  BY <1>5
<1>7. Firsts(hash, p, n) = g[n]
  BY DEF Firsts
<1>. HIDE DEF g, step
<1>8. \A i \in 0..n : g[i] = IF i = 0 THEN hash ELSE First(g[i - 1], p + i - 1)
  BY <1>6
<1>. DEFINE S == {i \in 0..n : HashOk(g[i], p + i)}
<1>9. 0 \in S
  <2>1. g[0] = hash /\ p + 0 = p /\ 0 \in 0..n
    BY <1>8
  <2>. QED  BY <2>1
<1>10. ASSUME NEW i \in 0..n - 1, i \in S PROVE i + 1 \in S
  <2>. DEFINE j == i + 1  q == p + i
  <2>1. j \in 1..n /\ j \in 0..n /\ j # 0 /\ j - 1 = i /\ p + j - 1 = q /\ q + 1 = p + j
    OBVIOUS
  <2>2. q \in Nat /\ q + 2 < Len(data)
    BY <1>1, <2>1
  <2>3. HashOk(g[i], q)
    BY <1>10
  <2>. HIDE DEF j, q
  <2>4. g[j] = First(g[i], q)
    <3>1. g[j] = First(g[j - 1], p + j - 1)
      BY <1>8, <2>1, Zenon
    <3>. QED  BY <2>1, <3>1
  <2>5. HashOk(First(g[i], q), q + 1)
    BY <2>2, <2>3, FirstOk
  <2>6. HashOk(g[j], p + j)
    BY <2>1, <2>4, <2>5
  <2>. QED  BY <2>1, <2>6 DEF j
<1>11. n \in S
  <2>1. n \in 0..n
    OBVIOUS
  <2>. HIDE DEF S
  <2>. QED  BY <1>9, <1>10, <2>1, Induct
<1>. QED  BY <1>7, <1>11

-----------------------------------------------------------------------------
(* The match                                                                *)

\* One step along a chain from p.
ChainOk(o, p) == o \in Int /\ o >= 1 /\ (o <= p \/ o > MaxDistance)

LEMMA ChainStep ==
  ASSUME NEW p \in Nat, NEW hash, HashOk(hash, p + 1), NEW o, ChainOk(o, p), ~(o > MaxDistance)
  PROVE  ChainOk(o + hash.offset[(p - o) % MaxDistance], p)
<1>. DEFINE q == p - o  l == hash.offset[q % MaxDistance]
<1>0. MaxDistance \in Nat \ {0}
  BY DeflateAssumption
<1>1. o \in 1..p /\ o <= MaxDistance
  BY <1>0 DEF ChainOk
<1>2. \A k \in Nat : k < p + 1 /\ k + MaxDistance >= p + 1 => LinkOk(hash.offset[k % MaxDistance], k)
  BY DEF HashOk
<1>3. CASE o = MaxDistance
  <2>1. q % MaxDistance = p % MaxDistance
    BY <1>3, Slots
  <2>2. p < p + 1 /\ p + MaxDistance >= p + 1
    BY <1>0
  <2>3. LinkOk(hash.offset[p % MaxDistance], p)
    BY <1>2, <2>2
  <2>4. LinkOk(l, p)
    BY <2>1, <2>3
  <2>. HIDE DEF l
  <2>5. ChainOk(o + l, p)
    BY <1>0, <1>3, <2>4 DEF LinkOk, ChainOk
  <2>. QED  BY <2>5 DEF l
<1>4. CASE o # MaxDistance
  <2>1. q \in Nat /\ q < p + 1 /\ q + MaxDistance >= p + 1
    BY <1>0, <1>1, <1>4
  <2>2. LinkOk(l, q)
    <3>. HIDE DEF q
    <3>. QED  BY <1>2, <2>1
  <2>3. q = p - o
    OBVIOUS
  <2>. HIDE DEF l, q
  <2>4. ChainOk(o + l, p)
    BY <1>0, <1>1, <2>2, <2>3 DEF LinkOk, ChainOk
  <2>. QED  BY <2>4 DEF l, q
<1>. QED  BY <1>3, <1>4

\* A chain stays in the image.
LEMMA ChainIn ==
  ASSUME NEW p \in Nat, NEW hash, HashOk(hash, p + 1)
  PROVE  Chain(hash, p) \subseteq {o \in 1..p : o <= MaxDistance}
<1>. DEFINE n == MaxDistance - 1
            next(o) == IF o > MaxDistance THEN o ELSE o + hash.offset[(p - o) % MaxDistance]
            first == hash.offset[p % MaxDistance]
            Good == {o \in Int : ChainOk(o, p)}
            step == [i \in 1..n |-> [o \in Good |-> next(o)]]
            IsChain(f) == f = [i \in History |->
              IF i = 0 THEN hash.offset[p % MaxDistance]
              ELSE IF f[i - 1] > MaxDistance THEN f[i - 1]
              ELSE f[i - 1] + hash.offset[(p - f[i - 1]) % MaxDistance]]
            g == CHOOSE f : IsChain(f)
<1>0. MaxDistance \in Nat \ {0}
  BY DeflateAssumption
<1>1. n \in Nat /\ History = 0..n
  BY <1>0 DEF History
<1>2. first \in Good
  <2>1. p < p + 1 /\ p + MaxDistance >= p + 1
    BY <1>0
  <2>2. LinkOk(first, p)
    BY <2>1 DEF HashOk
  <2>. HIDE DEF first
  <2>. QED  BY <2>2 DEF LinkOk, ChainOk
<1>3. ASSUME NEW o \in Good PROVE next(o) \in Good
  <2>1. CASE o > MaxDistance
    BY <2>1
  <2>2. CASE ~(o > MaxDistance)
    <3>1. ChainOk(o + hash.offset[(p - o) % MaxDistance], p)
      BY <2>2, ChainStep
    <3>2. next(o) = o + hash.offset[(p - o) % MaxDistance]
      BY <2>2
    <3>3. ChainOk(next(o), p)
      BY <3>1, <3>2
    <3>. HIDE DEF next
    <3>. QED  BY <3>3 DEF ChainOk
  <2>. QED  BY <2>1, <2>2
<1>. HIDE DEF n, first, Good
<1>4. step \in [1..n -> [Good -> Good]]
  BY <1>3
<1>5. PICK f : IsIteration(f, n, Good, first, step)
  <2>. HIDE DEF step
  <2>. QED  BY <1>1, <1>2, <1>4, IterExists
<1>6. /\ f \in [0..n -> Good] /\ f[0] = first
      /\ \A i \in 1..n : f[i] = step[i][f[i - 1]]
  <2>. HIDE DEF step
  <2>. QED  BY <1>5 DEF IsIteration
<1>7. ASSUME NEW i \in 1..n PROVE f[i] = next(f[i - 1]) /\ i \in 0..n /\ i # 0
  <2>1. i - 1 \in 0..n /\ i \in 0..n /\ i # 0
    BY <1>1
  <2>2. f[i] = step[i][f[i - 1]] /\ f[i - 1] \in Good
    BY <1>6, <2>1
  <2>. HIDE DEF next
  <2>. QED  BY <2>1, <2>2
<1>8. IsChain(f)
  <2>1. f = [i \in History |-> f[i]]
    BY <1>1, <1>6
  <2>2. ASSUME NEW i \in History
        PROVE  f[i] = IF i = 0 THEN hash.offset[p % MaxDistance] ELSE next(f[i - 1])
    <3>1. CASE i = 0
      BY <1>6, <3>1 DEF first
    <3>2. CASE i # 0
      <4>1. i \in 1..n
        BY <1>1, <3>2
      <4>. HIDE DEF next
      <4>. QED  BY <1>7, <3>2, <4>1, Zenon
    <3>. QED  BY <3>1, <3>2
  <2>. QED  BY <2>1, <2>2
<1>9. IsChain(g)
  <2>. HIDE DEF IsChain
  <2>. QED  BY <1>8
<1>10. Chain(hash, p) = {o \in {g[i] : i \in History} : o <= MaxDistance}
  BY DEF Chain
<1>. HIDE DEF g
<1>11. \A i \in History : g[i] = IF i = 0 THEN first ELSE next(g[i - 1])
  BY <1>9 DEF first
<1>. HIDE DEF next
<1>. DEFINE S == {i \in 0..n : g[i] \in Good}
<1>12. 0 \in S
  <2>1. 0 \in History /\ 0 \in 0..n
    BY <1>1
  <2>. QED  BY <1>2, <1>11, <2>1
<1>13. ASSUME NEW i \in 0..n - 1, i \in S PROVE i + 1 \in S
  <2>. DEFINE j == i + 1
  <2>1. j \in History /\ j \in 0..n /\ j # 0 /\ j - 1 = i
    BY <1>1
  <2>. HIDE DEF j
  <2>2. g[j] = next(g[j - 1])
    BY <1>11, <2>1, Zenon
  <2>3. g[j] \in Good
    BY <1>3, <1>13, <2>1, <2>2
  <2>. QED  BY <2>1, <2>3 DEF j
<1>14. \A i \in 0..n : g[i] \in Good
  <2>1. \A i \in 0..n : i \in S
    <3>. HIDE DEF S
    <3>. QED  BY <1>1, <1>12, <1>13, Induct
  <2>. QED  BY <2>1
<1>15. ASSUME NEW o \in Chain(hash, p) PROVE o \in 1..p /\ o <= MaxDistance
  <2>1. o \in Good /\ o <= MaxDistance
    BY <1>1, <1>10, <1>14
  <2>. QED  BY <1>0, <2>1 DEF Good, ChainOk
<1>. QED  BY <1>15

\* The strings at p and o before it are equal as far as Equal says.
LEMMA EqualIs ==
  ASSUME NEW p \in 0..Len(data), NEW o, Len(data) \in Nat
  PROVE  /\ Equal(p, o) \in 0..Lesser(End - p, MaxLength)
         /\ \A i \in 0..Equal(p, o) - 1 : At(p + i) = At(p - o + i)
<1>. DEFINE limit == Lesser(End - p, MaxLength)
            Stop(l) == l = limit \/ At(p + l) # At(p - o + l)
            IsEqual(l) == /\ \A i \in 0..l - 1 : At(p + i) = At(p - o + i)
                          /\ Stop(l)
            S == {l \in 0..limit : Stop(l)}
<1>1. limit \in Nat
  BY DeflateAssumption DEF End, Lesser
<1>. HIDE DEF limit
<1>2. limit \in S
  BY <1>1
<1>3. PICK l \in S : \A k \in S : l <= k
  <2>1. S \in SUBSET Nat
    BY <1>1
  <2>. HIDE DEF S
  <2>. QED  BY <1>2, <2>1, LeastNatural
<1>4. ASSUME NEW i \in 0..l - 1 PROVE At(p + i) = At(p - o + i)
  <2>1. i \in 0..limit /\ ~(l <= i)
    BY <1>1, <1>3
  <2>2. ~Stop(i)
    BY <1>3, <2>1
  <2>. QED  BY <2>2
<1>5. \E k \in 0..limit : IsEqual(k)
  BY <1>3, <1>4
<1>6. Equal(p, o) = CHOOSE k \in 0..limit : IsEqual(k)
  BY DEF Equal, limit
<1>7. Equal(p, o) \in 0..limit /\ IsEqual(Equal(p, o))
  <2>. HIDE DEF IsEqual
  <2>. QED  BY <1>5, <1>6, Zenon
<1>. QED  BY <1>7 DEF limit

\* A match at p: there is none, or the strings are equal.
IsMatch(m, p) ==
  \/ m = NoMatch
  \/ /\ m.off \in 1..p /\ m.off <= MaxDistance
     /\ m.len \in 0..Lesser(End - p, MaxLength)
     /\ \A i \in 0..m.len - 1 : At(p + i) = At(p - m.off + i)

LEMMA MatchIs ==
  ASSUME NEW p \in 0..Len(data), NEW hash, HashOk(hash, p + 1), Len(data) \in Nat
  PROVE  IsMatch(Match(hash, p), p)
<1>. DEFINE chain == Chain(hash, p)
            best(o) == \A q \in chain : Equal(p, o) > Equal(p, q)
                                        \/ (Equal(p, o) = Equal(p, q) /\ o <= q)
            nearest == CHOOSE o \in chain : best(o)
            limit == Lesser(End - p, MaxLength)
<1>1. p \in Nat /\ limit \in Nat
  BY DeflateAssumption DEF End, Lesser
<1>2. chain \subseteq {o \in 1..p : o <= MaxDistance}
  BY <1>1, ChainIn
<1>3. Match(hash, p) = IF chain = {} THEN NoMatch ELSE [len |-> Equal(p, nearest), off |-> nearest]
  BY DEF Match
<1>4. \A o : Equal(p, o) \in 0..limit
  BY EqualIs
<1>. HIDE DEF chain, limit
<1>5. CASE chain # {}
  <2>. DEFINE L == {Equal(p, o) : o \in chain}
  <2>1. PICK l \in L : \A k \in L : k <= l
    <3>1. L \in SUBSET (0..limit) /\ L # {}
      BY <1>4, <1>5
    <3>. HIDE DEF L
    <3>. QED  BY <1>1, <3>1, GreatestNatural
  <2>. DEFINE O == {o \in chain : Equal(p, o) = l}
  <2>2. PICK o \in O : \A q \in O : o <= q
    <3>1. O \in SUBSET Nat /\ O # {}
      BY <1>1, <1>2, <2>1
    <3>. HIDE DEF O
    <3>. QED  BY <3>1, LeastNatural
  <2>3. best(o)
    <3>1. ASSUME NEW q \in chain
          PROVE  Equal(p, o) > Equal(p, q) \/ (Equal(p, o) = Equal(p, q) /\ o <= q)
      <4>1. Equal(p, q) <= l /\ Equal(p, o) = l
        BY <2>1, <2>2
      <4>2. Equal(p, q) \in 0..limit /\ l \in 0..limit
        BY <1>4, <2>1
      <4>3. Equal(p, q) = l => o <= q
        BY <2>2
      <4>. QED  BY <1>1, <4>1, <4>2, <4>3
    <3>. QED  BY <3>1
  <2>4. nearest \in chain
    <3>1. \E q \in chain : best(q)
      BY <2>2, <2>3
    <3>. HIDE DEF best
    <3>. QED  BY <3>1, Zenon
  <2>. HIDE DEF nearest
  <2>. DEFINE m == [len |-> Equal(p, nearest), off |-> nearest]
  <2>5. Match(hash, p) = m /\ m.off = nearest /\ m.len = Equal(p, nearest)
    BY <1>3, <1>5
  <2>6. nearest \in 1..p /\ nearest <= MaxDistance
    BY <1>2, <2>4
  <2>7. Equal(p, nearest) \in 0..limit
        /\ \A i \in 0..Equal(p, nearest) - 1 : At(p + i) = At(p - nearest + i)
    BY <1>4, EqualIs
  <2>. HIDE DEF m
  <2>8. IsMatch(m, p)
    BY <2>5, <2>6, <2>7 DEF IsMatch, limit
  <2>. QED  BY <2>5, <2>8
<1>6. CASE chain = {}
  BY <1>3, <1>6 DEF IsMatch
<1>. QED  BY <1>5, <1>6

-----------------------------------------------------------------------------
(* The codes emitted                                                        *)

\* The codes cs stand for the image up to position p.
Covers(cs, p) == StandsFor(cs, Expanded(SubSeq(data, 1, p)))

\* A segment of a match takes them on by its length.
LEMMA SegmentCovers ==
  ASSUME data \in Seq(Symbols(Literals)), NEW p \in 0..Len(data), NEW cs, Covers(cs, p),
         NEW m, IsMatch(m, p), m.len >= MinLength
  PROVE  p + m.len \in 0..Len(data) /\ m.len \in Nat /\ Covers(cs \o Segment(m), p + m.len)
<1>0. MinLength \in Nat /\ MinLength > 2 /\ MaxLength \in Nat /\ Len(data) \in Nat
  BY DeflateAssumption
<1>1. m # NoMatch
  BY <1>0 DEF NoMatch
<1>2. /\ m.off \in 1..p /\ m.off <= MaxDistance
      /\ m.len \in 0..Lesser(End - p, MaxLength)
      /\ \A i \in 0..m.len - 1 : At(p + i) = At(p - m.off + i)
  BY <1>1 DEF IsMatch
<1>. DEFINE len == m.len  off == m.off
<1>3. len \in Nat /\ len <= Len(data) - p /\ len <= MaxLength /\ len >= MinLength
  BY <1>0, <1>2 DEF Lesser, End
<1>4. m.len \in MinLength..MaxLength /\ m.off \in 1..MaxDistance
  BY <1>0, <1>2, <1>3, DeflateAssumption
<1>5. StandsFor(cs \o Segment(m), Expanded(Repeat(SubSeq(data, 1, p), m.len, m.off)))
  BY <1>4, StandsForSegment DEF Covers
<1>6. \A i \in 0..len - 1 : data[p + i + 1] = data[p - off + i + 1]
  BY <1>2 DEF At
<1>7. p \in Nat /\ off \in 1..p /\ p + len <= Len(data)
  BY <1>0, <1>2, <1>3
<1>. HIDE DEF len, off
<1>8. Repeat(SubSeq(data, 1, p), len, off) = SubSeq(data, 1, p + len)
  BY <1>3, <1>6, <1>7, RepeatIs
<1>9. p + len \in 0..Len(data)
  BY <1>0, <1>3, <1>7
<1>. QED  BY <1>3, <1>5, <1>8, <1>9 DEF Covers, len, off

LEMMA LiteralCovers ==
  ASSUME data \in Seq(Symbols(Literals)), NEW p \in 0..Len(data) - 1, NEW cs, Covers(cs, p)
  PROVE  Covers(Append(cs, LitLen(At(p))), p + 1)
<1>1. At(p) \in Symbols(Literals) /\ At(p) = data[p + 1]
  <2>1. p + 1 \in 1..Len(data)
    OBVIOUS
  <2>. HIDE DEF Symbols
  <2>. QED  BY <2>1, ElementOfSeq DEF At
<1>2. Append(SubSeq(data, 1, p), data[p + 1]) = SubSeq(data, 1, p + 1)
  BY PrefixGrows
<1>3. StandsFor(Append(cs, LitLen(At(p))), Expanded(Append(SubSeq(data, 1, p), At(p))))
  BY <1>1, StandsForLiteral DEF Covers
<1>. QED  BY <1>1, <1>2, <1>3 DEF Covers

\* The bytes from p to the end, one by one.
LEMMA LiteralsCover ==
  ASSUME data \in Seq(Symbols(Literals)), NEW p \in 0..Len(data), NEW cs, Covers(cs, p)
  PROVE  StandsFor(cs \o [i \in 1..End - p |-> LitLen(At(p + i - 1))], Expanded(data))
<1>. DEFINE k == Len(data) - p  lit(i) == LitLen(At(p + i - 1))
            w(j) == [i \in 1..j |-> lit(i)]
            S == {j \in 0..k : Covers(cs \o w(j), p + j)}
<1>0. Len(data) \in Nat /\ k \in Nat /\ cs \in Seq(CodeSet)
  BY DEF Covers, StandsFor
<1>1. ASSUME NEW i \in 1..k PROVE lit(i) \in CodeSet
  <2>1. p + i \in 1..Len(data) /\ (p + i - 1) + 1 = p + i
    BY <1>0
  <2>2. data[p + i] \in Symbols(Literals)
    <3>. HIDE DEF Symbols
    <3>. QED  BY <2>1, ElementOfSeq
  <2>3. At(p + i - 1) \in Nat
    BY <2>1, <2>2, DeflateAssumption DEF At, Symbols
  <2>. HIDE DEF At
  <2>. QED  BY <2>3 DEF LitLen, CodeSet
<1>. HIDE DEF lit
<1>2. \A j \in 0..k : w(j) \in Seq(CodeSet) /\ Len(w(j)) = j
  BY <1>0, <1>1
<1>3. 0 \in S
  <2>1. w(0) = <<>>
    OBVIOUS
  <2>2. cs \o <<>> = cs
    BY <1>0, ConcatEmptySeq
  <2>3. Covers(cs \o w(0), p + 0)
    <3>1. cs \o w(0) = cs /\ p + 0 = p
      BY <2>1, <2>2
    <3>. HIDE DEF w
    <3>. QED  BY <3>1
  <2>4. 0 \in 0..k
    BY <1>0
  <2>. QED  BY <2>3, <2>4, Zenon
<1>4. ASSUME NEW j \in 0..k - 1, j \in S PROVE j + 1 \in S
  <2>. DEFINE c == lit(j + 1)  ds == cs \o w(j)  q == p + j
  <2>1. q \in 0..Len(data) - 1 /\ j \in 0..k /\ j + 1 \in 1..k /\ j + 1 \in 0..k
        /\ p + (j + 1) - 1 = q /\ q + 1 = p + (j + 1)
    BY <1>0
  <2>2. Covers(ds, q)
    BY <1>4
  <2>3. c = LitLen(At(q)) /\ c \in CodeSet
    BY <1>1, <2>1 DEF lit
  <2>4. w(j + 1) = Append(w(j), c) /\ w(j) \in Seq(CodeSet)
    BY <1>0, <1>1, <1>2, <2>1
  <2>. HIDE DEF w, c, q
  <2>5. Covers(Append(ds, c), q + 1)
    <3>. HIDE DEF ds
    <3>. QED  BY <2>1, <2>2, <2>3, LiteralCovers
  <2>6. Append(ds, c) = cs \o w(j + 1)
    <3>1. w(j + 1) = w(j) \o <<c>> /\ <<c>> \in Seq(CodeSet)
      BY <2>3, <2>4, AppendIsConcat
    <3>2. ds \in Seq(CodeSet)
      BY <1>0, <2>4, ConcatProperties
    <3>3. Append(ds, c) = ds \o <<c>>
      <4>. HIDE DEF ds
      <4>. QED  BY <2>3, <3>2, AppendIsConcat
    <3>4. (cs \o w(j)) \o <<c>> = cs \o (w(j) \o <<c>>)
      <4>. DEFINE v == w(j)  u == <<c>>
      <4>1. v \in Seq(CodeSet) /\ u \in Seq(CodeSet)
        BY <2>4, <3>1
      <4>. HIDE DEF v, u
      <4>2. (cs \o v) \o u = cs \o (v \o u)
        BY <1>0, <4>1, ConcatAssociative
      <4>. QED  BY <4>2 DEF v, u
    <3>. QED  BY <3>1, <3>3, <3>4
  <2>. QED  BY <2>1, <2>5, <2>6
<1>5. k \in S
  <2>1. k \in 0..k
    BY <1>0
  <2>. HIDE DEF S, k
  <2>. QED  BY <1>0, <1>3, <1>4, <2>1, Induct
<1>6. SubSeq(data, 1, Len(data)) = data
  OBVIOUS
<1>7. p + k = Len(data) /\ End - p = k
  BY <1>0 DEF End
<1>8. w(k) = [i \in 1..End - p |-> LitLen(At(p + i - 1))]
  BY <1>7 DEF lit
<1>9. StandsFor(cs \o w(k), Expanded(data))
  <2>. HIDE DEF w, k
  <2>. QED  BY <1>5, <1>6, <1>7 DEF Covers
<1>. QED  BY <1>8, <1>9

-----------------------------------------------------------------------------
(* The invariant                                                            *)

\* The match that waits was found one position back.
Waiting == prev = NoMatch \/ (ptr >= 1 /\ prev.len >= MinLength /\ IsMatch(prev, ptr - 1))

Covered == IF prev = NoMatch THEN ptr ELSE ptr - 1

DInv ==
  /\ data \in Seq(Symbols(Literals))
  /\ pc \in {"deflate", "rest"} => ptr \in 0..Len(data) /\ Waiting /\ Covers(codes, Covered)
  /\ pc = "deflate" => /\ ptr + MinLength - 1 < Len(data)
                       /\ HashOk([last |-> iHash, offset |-> iOffset], ptr)
  /\ pc \notin {"deflate", "rest"} => StandsFor(codes, Expanded(data))

LEMMA DInvInit == Init => DInv
<1>. SUFFICES ASSUME Init PROVE DInv
  OBVIOUS
<1>. USE DEF Init
<1>0. MaxDistance \in Nat \ {0} /\ MinLength \in Nat
  BY DeflateAssumption
<1>1. data \in Seq(Symbols(Literals)) /\ Len(data) \in Nat
  BY DeflateAssumption
<1>2. ptr \in 0..Len(data) /\ Waiting /\ Covered = 0
  BY <1>1 DEF Waiting, Covered
<1>3. Covers(codes, 0)
  <2>1. SubSeq(data, 1, 0) = <<>>
    BY <1>1
  <2>2. Start = Expanded(<<>>)
    BY DEF Start, Expanded, Pending
  <2>. QED  BY <2>1, <2>2, StandsForNothing DEF Covers
<1>4. ASSUME pc = "deflate" PROVE ptr + MinLength - 1 < Len(data)
  BY <1>0, <1>1, <1>4
<1>5. HashOk([last |-> iHash, offset |-> iOffset], ptr)
  <2>1. [last |-> iHash, offset |-> iOffset] \in Hashes
    BY <1>0 DEF Hashes
  <2>2. \A h \in Buckets : iHash[h] = -MaxDistance - 1
    OBVIOUS
  <2>3. \A q \in Nat : ~(q < ptr)
    OBVIOUS
  <2>. QED  BY <2>1, <2>2, <2>3 DEF HashOk
<1>6. pc \in {"deflate", "rest"}
  OBVIOUS
<1>. QED  BY <1>1, <1>2, <1>3, <1>4, <1>5, <1>6 DEF DInv

\* A turn that goes on or leaves the loop keeps the invariant when it has covered
\* as much as it should.
LEMMA DInvKept ==
  ASSUME data \in Seq(Symbols(Literals)), data' = data, pc' \in {"deflate", "rest"},
         ptr' \in 0..Len(data), Waiting', Covers(codes', Covered'),
         pc' = "deflate" => /\ ptr' + MinLength - 1 < Len(data)
                            /\ HashOk([last |-> iHash', offset |-> iOffset'], ptr')
  PROVE  DInv'
<1>1. Covers(codes, Covered)'
  BY DEF Covers
<1>2. HashOk([last |-> iHash, offset |-> iOffset], ptr)' <=>
        HashOk([last |-> iHash', offset |-> iOffset'], ptr')
  BY DEF HashOk
<1>. QED  BY <1>1, <1>2 DEF DInv

LEMMA DInvDeflate ==
  ASSUME DInv, Deflate
  PROVE  DInv'
<1>. DEFINE old == [last |-> iHash, offset |-> iOffset]
            hash == First(old, ptr)
            m == Match(hash, ptr)
            skipped == Lesser(prev.len - 2, End - 3 - ptr)
            full == Firsts(hash, ptr + 1, skipped)
<1>0. MinLength \in Nat /\ MinLength > 2 /\ MaxLength \in Nat
  BY DeflateAssumption
<1>1. /\ data \in Seq(Symbols(Literals)) /\ Len(data) \in Nat /\ ptr \in 0..Len(data)
      /\ Waiting /\ Covers(codes, Covered) /\ HashOk(old, ptr)
      /\ ptr + MinLength - 1 < Len(data) /\ data' = data
  BY DEF DInv, Deflate
<1>2. ptr \in Nat /\ ptr + 2 < Len(data) /\ End = Len(data)
  BY <1>0, <1>1 DEF End
<1>3. HashOk(hash, ptr + 1)
  <2>. HIDE DEF old
  <2>. QED  BY <1>1, <1>2, FirstOk
<1>4. IsMatch(m, ptr)
  <2>. HIDE DEF hash
  <2>. QED  BY <1>1, <1>3, MatchIs
<1>5. /\ pc' = IF ptr' + MinLength - 1 < End THEN "deflate" ELSE "rest"
      /\ \/ /\ m.len < prev.len
            /\ codes' = codes \o Segment(prev) /\ prev' = NoMatch
            /\ ptr' = ptr + prev.len - 1
            /\ iHash' = full.last /\ iOffset' = full.offset
         \/ /\ ~(m.len < prev.len)
            /\ ptr' = ptr + 1
            /\ iHash' = hash.last /\ iOffset' = hash.offset
            /\ \/ /\ m.len < MinLength
                  /\ codes' = Append(codes, LitLen(At(ptr))) /\ prev' = prev
               \/ /\ ~(m.len < MinLength)
                  /\ codes' = IF prev = NoMatch THEN codes ELSE Append(codes, LitLen(At(ptr - 1)))
                  /\ prev' = m
  BY DEF Deflate
<1>. HIDE DEF m, hash, full
<1>6. m.len \in Nat
  BY <1>0, <1>2, <1>4 DEF IsMatch, NoMatch, Lesser
<1>7. pc' \in {"deflate", "rest"} /\ (pc' = "deflate" => ptr' + MinLength - 1 < Len(data))
  BY <1>2, <1>5
<1>8. prev # NoMatch =>
        /\ ptr >= 1 /\ prev.len >= MinLength /\ IsMatch(prev, ptr - 1)
        /\ Covers(codes, ptr - 1) /\ ptr - 1 \in 0..Len(data) - 1 /\ ptr - 1 \in 0..Len(data)
  BY <1>1, <1>2 DEF Waiting, Covered
<1>9. prev = NoMatch => prev.len = 0 /\ Covers(codes, ptr)
  BY <1>1 DEF NoMatch, Covered
<1>10. ASSUME NEW s, HashOk(s, ptr'), iHash' = s.last, iOffset' = s.offset
       PROVE  HashOk([last |-> iHash', offset |-> iOffset'], ptr')
  <2>1. s = [last |-> s.last, offset |-> s.offset]
    BY <1>10 DEF HashOk, Hashes
  <2>2. s = [last |-> iHash', offset |-> iOffset']
    BY <1>10, <2>1
  <2>. QED  BY <1>10, <2>2
\* The match that waits is the better one: its segment is emitted, and the
\* positions under it are entered in the hash.
<1>11. CASE m.len < prev.len
  <2>1. /\ codes' = codes \o Segment(prev) /\ prev' = NoMatch /\ ptr' = ptr + prev.len - 1
        /\ iHash' = full.last /\ iOffset' = full.offset
    BY <1>5, <1>11
  <2>2. prev # NoMatch
    BY <1>6, <1>9, <1>11
  <2>3. /\ (ptr - 1) + prev.len \in 0..Len(data) /\ prev.len \in Nat
        /\ Covers(codes', (ptr - 1) + prev.len)
    BY <1>1, <1>8, <2>1, <2>2, SegmentCovers
  <2>4. (ptr - 1) + prev.len = ptr' /\ ptr' \in Nat
    BY <1>2, <2>1, <2>3
  <2>5. Waiting' /\ Covered' = ptr'
    BY <2>1 DEF Waiting, Covered, NoMatch
  <2>6. skipped \in Nat /\ skipped <= End - 3 - ptr /\ skipped <= prev.len - 2
        /\ (skipped = prev.len - 2 \/ skipped = End - 3 - ptr)
    <3>1. prev.len - 2 \in Nat /\ End - 3 - ptr \in Nat
      BY <1>0, <1>2, <1>8, <2>2, <2>3
    <3>. QED  BY <3>1 DEF Lesser
  <2>. HIDE DEF skipped
  <2>7. HashOk(full, (ptr + 1) + skipped)
    <3>1. ptr + 1 \in Nat /\ (ptr + 1) + skipped + 1 < Len(data)
      BY <1>2, <2>6
    <3>. QED  BY <1>1, <1>3, <2>6, <3>1, FirstsOk DEF full
  <2>8. ASSUME pc' = "deflate"
        PROVE  HashOk([last |-> iHash', offset |-> iOffset'], ptr')
    <3>1. ptr' + MinLength - 1 < Len(data)
      BY <1>7, <2>8
    <3>2. (ptr + 1) + skipped = ptr'
      BY <1>0, <1>1, <1>2, <2>3, <2>4, <2>6, <3>1
    <3>3. HashOk(full, ptr')
      BY <2>7, <3>2
    <3>. QED  BY <1>10, <2>1, <3>3
  <2>. QED  BY <1>1, <1>7, <2>3, <2>4, <2>5, <2>8, DInvKept
\* One position on.
<1>12. ASSUME ~(m.len < prev.len)
       PROVE  /\ ptr' = ptr + 1 /\ ptr' \in 0..Len(data)
              /\ HashOk([last |-> iHash', offset |-> iOffset'], ptr')
  <2>1. ptr' = ptr + 1 /\ iHash' = hash.last /\ iOffset' = hash.offset
    BY <1>5, <1>12
  <2>2. HashOk(hash, ptr')
    BY <1>3, <2>1
  <2>. QED  BY <1>2, <1>10, <2>1, <2>2
\* No match: a literal.
<1>13. CASE ~(m.len < prev.len) /\ m.len < MinLength
  <2>1. codes' = Append(codes, LitLen(At(ptr))) /\ prev' = prev
    BY <1>5, <1>13
  <2>a. ASSUME prev # NoMatch PROVE prev.len \in Nat
    <3>. QED  BY <1>0, <1>2, <1>8, <2>a DEF IsMatch, Lesser
  <2>2. prev = NoMatch
    BY <1>0, <1>6, <1>8, <1>13, <2>a
  <2>3. Waiting' /\ Covered' = ptr'
    BY <2>1, <2>2 DEF Waiting, Covered
  <2>4. Covers(codes', ptr + 1)
    <3>1. ptr \in 0..Len(data) - 1
      BY <1>2
    <3>. QED  BY <1>1, <1>9, <2>1, <2>2, <3>1, LiteralCovers
  <2>. QED  BY <1>1, <1>7, <1>12, <1>13, <2>3, <2>4, DInvKept
\* The match waits, instead of the one that waited.
<1>14. CASE ~(m.len < prev.len) /\ ~(m.len < MinLength)
  <2>1. /\ codes' = IF prev = NoMatch THEN codes ELSE Append(codes, LitLen(At(ptr - 1)))
        /\ prev' = m
    BY <1>5, <1>14
  <2>2. Covers(codes', ptr)
    <3>1. CASE prev = NoMatch
      BY <1>9, <2>1, <3>1
    <3>2. CASE prev # NoMatch
      <4>1. Covers(codes', (ptr - 1) + 1)
        BY <1>1, <1>8, <2>1, <3>2, LiteralCovers
      <4>2. (ptr - 1) + 1 = ptr
        BY <1>2
      <4>. QED  BY <4>1, <4>2
    <3>. QED  BY <3>1, <3>2
  <2>3. m.len >= MinLength /\ m # NoMatch
    BY <1>0, <1>6, <1>14 DEF NoMatch
  <2>4. ptr' >= 1 /\ ptr' - 1 = ptr
    BY <1>2, <1>12, <1>14
  <2>5. Waiting'
    <3>1. IsMatch(prev', ptr' - 1)
      BY <1>4, <2>1, <2>4
    <3>2. IsMatch(prev, ptr - 1)'
      BY <1>1, <3>1 DEF IsMatch, NoMatch, End, At
    <3>. QED  BY <2>1, <2>3, <2>4, <3>2 DEF Waiting
  <2>6. Covered' = ptr
    <3>1. prev' # NoMatch
      BY <2>1, <2>3
    <3>. QED  BY <2>4, <3>1 DEF Covered, NoMatch
  <2>. QED  BY <1>1, <1>7, <1>12, <1>14, <2>2, <2>5, <2>6, DInvKept
<1>. QED  BY <1>11, <1>13, <1>14

LEMMA DInvRest ==
  ASSUME DInv, Rest
  PROVE  DInv'
<1>. DEFINE stop == IF prev = NoMatch THEN ptr ELSE ptr + prev.len - 1
            segment1 == IF prev = NoMatch THEN <<>> ELSE Segment(prev)
            cs == codes \o segment1
            lits == [i \in 1..End - stop |-> LitLen(At(stop + i - 1))]
<1>1. /\ data \in Seq(Symbols(Literals)) /\ Len(data) \in Nat /\ ptr \in 0..Len(data)
      /\ Waiting /\ Covers(codes, Covered) /\ data' = data /\ pc' = "encode"
      /\ codes' = codes \o segment1 \o lits \o <<LitLen(EEos)>>
  BY DEF DInv, Rest
<1>2. Covers(cs, stop) /\ stop \in 0..Len(data)
  <2>1. CASE prev = NoMatch
    <3>1. codes \o <<>> = codes
      BY <1>1, ConcatEmptySeq DEF Covers, StandsFor
    <3>. QED  BY <1>1, <2>1, <3>1 DEF Covered
  <2>2. CASE prev # NoMatch
    <3>1. /\ ptr - 1 \in 0..Len(data) /\ Covers(codes, ptr - 1)
          /\ IsMatch(prev, ptr - 1) /\ prev.len >= MinLength
      BY <1>1, <2>2 DEF Waiting, Covered
    <3>2. /\ (ptr - 1) + prev.len \in 0..Len(data) /\ prev.len \in Nat
          /\ Covers(codes \o Segment(prev), (ptr - 1) + prev.len)
      BY <1>1, <3>1, SegmentCovers
    <3>3. (ptr - 1) + prev.len = stop
      <4>1. stop = ptr + prev.len - 1
        BY <2>2
      <4>. HIDE DEF stop
      <4>. QED  BY <1>1, <3>2, <4>1
    <3>4. cs = codes \o Segment(prev)
      BY <2>2
    <3>. HIDE DEF cs, stop
    <3>. QED  BY <3>2, <3>3, <3>4
  <2>. QED  BY <2>1, <2>2
<1>. HIDE DEF stop, segment1
<1>3. StandsFor(cs \o lits, Expanded(data))
  <2>. HIDE DEF cs
  <2>. QED  BY <1>1, <1>2, LiteralsCover
<1>. DEFINE ds == cs \o lits  e == LitLen(EEos)
<1>4. e \in CodeSet /\ Expand(Expanded(data), e) = Expanded(data)
  <2>1. CodeOf(MaxLength - MinLength) \in Nat
    <3>1. MaxLength - MinLength \in Nat
      BY DeflateAssumption
    <3>. QED  BY <3>1, NumberBack
  <2>2. EEos \in Nat /\ ~(EEos < Literals) /\ ~(EEos < EEos)
    <3>. DEFINE k == CodeOf(MaxLength - MinLength)
    <3>1. EEos = (Literals + k) + 1 /\ k \in Nat
      BY <2>1 DEF EEos
    <3>. HIDE DEF k
    <3>. QED  BY <3>1, DeflateAssumption
  <2>3. e = <<"lit", EEos>>
    BY DEF LitLen
  <2>. QED  BY <2>2, <2>3 DEF Expand, CodeSet
<1>5. StandsFor(Append(ds, e), Expanded(data)) /\ ds \in Seq(CodeSet)
  <2>1. StandsFor(ds, Expanded(data))
    BY <1>3
  <2>. HIDE DEF ds, e
  <2>. QED  BY <1>4, <2>1, StandsForAppend DEF StandsFor
<1>6. codes' = Append(ds, e)
  <2>1. codes' = ds \o <<e>>
    BY <1>1
  <2>. HIDE DEF ds, e
  <2>. QED  BY <1>4, <1>5, <2>1, AppendIsConcat
<1>. HIDE DEF ds
<1>7. StandsFor(codes', Expanded(data'))
  BY <1>1, <1>5, <1>6
<1>. QED  BY <1>1, <1>7 DEF DInv

LEMMA DInvStep == DInv /\ [Next]_vars => DInv'
<1>. SUFFICES ASSUME DInv, [Next]_vars PROVE DInv'
  OBVIOUS
<1>1. CASE Deflate
  BY <1>1, DInvDeflate
<1>2. CASE Rest
  BY <1>2, DInvRest
\* The codes are written and read, and change no more.
<1>3. ASSUME pc \notin {"deflate", "rest"}, pc' \notin {"deflate", "rest"},
             UNCHANGED <<data, codes>>
      PROVE  DInv'
  <2>1. data \in Seq(Symbols(Literals)) /\ StandsFor(codes, Expanded(data))
    BY <1>3 DEF DInv
  <2>2. StandsFor(codes', Expanded(data'))
    BY <1>3, <2>1
  <2>. QED  BY <1>3, <2>1, <2>2 DEF DInv
<1>4. CASE Encode
  BY <1>3, <1>4 DEF Encode, deflater
<1>5. CASE ReadLitLen
  BY <1>3, <1>5 DEF ReadLitLen, InLoop, deflater
<1>6. CASE ReadDistance
  BY <1>3, <1>6 DEF ReadDistance, InLoop, deflater
<1>7. CASE UseHistory
  BY <1>3, <1>7 DEF UseHistory, InLoop, deflater
<1>8. CASE Return
  BY <1>3, <1>8 DEF Return, deflater
<1>9. CASE UNCHANGED vars
  BY <1>9 DEF vars, deflater, inflater, DInv, Waiting, Covered, Covers, IsMatch, At, End, HashOk
<1>10. CASE Stopped
  BY <1>9, <1>10 DEF Stopped
<1>. QED  BY <1>1, <1>2, <1>4, <1>5, <1>6, <1>7, <1>8, <1>9, <1>10 DEF Next

\* What has been emitted always stands for the image as far as it has been
\* compared, and in the end for the image.
THEOREM CodesStandForImage == Spec => []CodesCover
<1>1. DInv => CodesCover
  <2>. SUFFICES ASSUME DInv PROVE CodesCover
    OBVIOUS
  <2>1. CASE pc \in {"deflate", "rest"}
    <3>1. StandsFor(codes, Expanded(SubSeq(data, 1, Covered)))
      BY <2>1 DEF DInv, Covers
    <3>2. Meaning = SubSeq(data, 1, Covered)
      BY <3>1, StandsForMeaning DEF Expanded, Pending
    <3>. QED  BY <2>1, <3>2 DEF CodesCover, Covered
  <2>2. CASE pc \notin {"deflate", "rest"}
    <3>1. Meaning = data
      BY <2>2, StandsForMeaning DEF DInv, Expanded, Pending
    <3>. QED  BY <2>2, <3>1 DEF CodesCover
  <2>. QED  BY <2>1, <2>2
<1>. QED  BY <1>1, DInvInit, DInvStep, PTL DEF Spec
=============================================================================
