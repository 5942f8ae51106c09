--------------------------- MODULE CommRxBuf_proof ---------------------------
(***************************************************************************)
(* Proofs about CommRxBuf for every capacity, word size, width of the      *)
(* sequence numbers and set of terminators: its pointers, count and        *)
(* sequence numbers agree, no operation overwrites an unread character,    *)
(* and, as long as no rescan meets a long length, the buffer implements    *)
(* the queue of RxQueue.  For that BlockInv says what the info bytes hold: *)
(* the unread characters are blocks that end in the events, each with its  *)
(* length stored at its first character.                                   *)
(***************************************************************************)
EXTENDS CommRxBuf, WellFoundedInduction, TLAPS

\* Every nonempty set of natural numbers has a least element.
LEMMA LeastNatural ==
  ASSUME NEW S \in SUBSET Nat, S # {}
  PROVE  \E m \in S : \A n \in S : m <= n
<1>1. IsWellFoundedOn(OpToRel(<, Nat), Nat)
  BY NatLessThanWellFounded
<1>2. PICK m \in S : \A n \in S : ~ (<<n, m>> \in OpToRel(<, Nat))
  BY <1>1, WFMin, Zenon
<1>3. \A n \in S : ~ (n < m)
  BY <1>2 DEF OpToRel
<1>. QED  BY <1>3

\* Every nonempty set of natural numbers below a bound has a greatest element.
LEMMA GreatestNatural ==
  ASSUME NEW b \in Nat, NEW S \in SUBSET (0..b), S # {}
  PROVE  \E m \in S : \A n \in S : n <= m
<1>. DEFINE T == {b - n : n \in S}
<1>1. T \in SUBSET Nat /\ T # {}
  <2>1. \A n \in S : b - n \in Nat
    OBVIOUS
  <2>2. T # {}
    OBVIOUS
  <2>. QED  BY <2>1, <2>2
<1>2. PICK t \in T : \A n \in T : t <= n
  BY <1>1, LeastNatural
<1>3. PICK m \in S : t = b - m
  BY <1>2
<1>4. \A n \in S : t <= b - n
  BY <1>2
<1>. QED  BY <1>3, <1>4

-----------------------------------------------------------------------------
(* Info bytes *)

LEMMA Sizes == /\ Unit \in Nat \ {0} /\ LongMark \in Nat /\ Unit = LongMark + 1
               /\ ByteSize \in Nat \ {0} /\ ByteSize = 16 * Unit
               /\ TermFlag = 8 * Unit /\ ErrorFlag = Unit
  BY WordAssumption DEF Unit, ByteSize, TermFlag, ErrorFlag

LEMMA ModRange ==
  ASSUME NEW u \in Nat \ {0}, NEW b \in Nat
  PROVE  b % u \in 0..u - 1 /\ b % u <= b
  OBVIOUS

LEMMA DivRange ==
  ASSUME NEW u \in Nat \ {0}, NEW b \in Nat, NEW m \in Nat, b < m * u
  PROVE  b \div u \in 0..m - 1
<1>. DEFINE q == b \div u
            r == b % u
<1>1. b = u * q + r /\ r \in 0..u - 1 /\ q \in Int
  OBVIOUS
<1>. HIDE DEF q, r
<1>2. q >= 0
  <2>1. CASE q <= -1
    <3>1. u * q <= u * (-1)
      BY <2>1, <1>1
    <3>. QED  BY <3>1, <1>1
  <2>. QED  BY <2>1, <1>1
<1>3. q < m
  <2>1. CASE q >= m
    <3>1. u * q >= u * m
      BY <2>1, <1>1
    <3>2. u * m = m * u
      OBVIOUS
    <3>. QED  BY <3>1, <3>2, <1>1
  <2>. QED  BY <2>1, <1>1
<1>. QED  BY <1>1, <1>2, <1>3 DEF q

LEMMA HighHalf ==
  ASSUME NEW u \in Nat \ {0}, NEW b \in 0..16 * u - 1
  PROVE  b - (b % u) \in 0..15 * u
<1>1. b \in Nat /\ b \div u \in 0..15
  BY DivRange
<1>. DEFINE q == b \div u
            r == b % u
<1>2. b = u * q + r
  BY <1>1
<1>3. q \in 0..15 /\ r \in Int
  BY <1>1
<1>. HIDE DEF q, r
<1>4. u * q <= u * 15 /\ u * q >= u * 0 /\ u * q \in Int
  BY <1>3
<1>. QED  BY <1>2, <1>3, <1>4 DEF r

Infos == [Index -> 0..ByteSize - 1]

\* A length that fits the bytes a word has.
Fits(n) == n \in Nat /\ (n < ByteSize \/ (WordSize > 1 /\ n < ByteSize * ByteSize))

LEMMA LengthFits == \A n \in 0..Length : Fits(n)
<1>. DEFINE b == 16 * (LongMark + 1)
<1>1. b = ByteSize
  BY Sizes
<1>2. Length < b \/ (WordSize > 1 /\ Length < b * b)
  BY ByteAssumption
<1>. HIDE DEF b
<1>3. ByteSize * ByteSize \in Nat
  BY Sizes
<1>. QED  BY <1>1, <1>2, <1>3, LengthAssumption, Sizes DEF Fits

LEMMA WordByteRange ==
  ASSUME NEW n, Fits(n), NEW k \in 0..WordSize - 1
  PROVE  WordByte(n, k) \in 0..ByteSize - 1
<1>. n \in Nat /\ ByteSize \in Nat \ {0}
  BY Sizes DEF Fits
<1>1. CASE k = 0
  BY <1>1, ModRange DEF WordByte
<1>2. CASE k = 1
  <2>1. n \div ByteSize \in 0..ByteSize - 1
    <3>1. CASE n < ByteSize
      <4>1. n \div ByteSize \in 0..1 - 1
        BY <3>1, DivRange
      <4>. QED  BY <4>1
    <3>2. CASE n < ByteSize * ByteSize
      BY <3>2, DivRange
    <3>. QED  BY <3>1, <3>2 DEF Fits
  <2>. QED  BY <1>2, <2>1 DEF WordByte
<1>3. CASE k > 1
  BY <1>3 DEF WordByte
<1>. QED  BY <1>1, <1>2, <1>3, WordAssumption

\* The word after an info byte lies in the buffer.
LEMMA WordInside ==
  ASSUME NEW p \in Index
  PROVE  WordAt(p) \in Nat /\ WordAt(p) + WordSize <= Length
<1>. DEFINE k == (p + WordSize) \div WordSize
            l == Length \div WordSize
<1>1. k \in Nat
  <2>1. p + WordSize < (p + WordSize + 1) * WordSize
    <3>1. (p + WordSize + 1) * WordSize >= (p + WordSize + 1) * 1
      BY WordAssumption DEF Index
    <3>. QED  BY <3>1, WordAssumption DEF Index
  <2>. QED  BY <2>1, DivRange, WordAssumption DEF Index
<1>2. Length = WordSize * l /\ l \in Int
  BY LengthAssumption, WordAssumption
<1>3. WordAt(p) = IF k * WordSize >= Length THEN 0 ELSE k * WordSize
  BY DEF WordAt
<1>. HIDE DEF k, l
<1>4. CASE k * WordSize < Length
  <2>1. k < l
    <3>1. CASE k >= l
      <4>1. WordSize * k >= WordSize * l
        BY <3>1, <1>1, <1>2, WordAssumption
      <4>2. WordSize * k = k * WordSize
        BY <1>1, WordAssumption
      <4>3. WordSize * k \in Int /\ WordSize * l \in Int
        BY <1>1, <1>2, WordAssumption
      <4>. QED  BY <4>1, <4>2, <4>3, <1>2, <1>4, LengthAssumption
    <3>. QED  BY <3>1, <1>1, <1>2
  <2>2. WordSize * (k + 1) <= WordSize * l
    BY <2>1, <1>1, <1>2, WordAssumption
  <2>3. WordSize * (k + 1) = k * WordSize + WordSize /\ k * WordSize \in Nat
    BY <1>1, WordAssumption
  <2>. QED  BY <2>2, <2>3, <1>2, <1>3, <1>4
<1>5. CASE ~(k * WordSize < Length)
  <2>1. k * WordSize \in Nat
    BY <1>1, WordAssumption
  <2>2. l >= 1
    <3>1. CASE l <= 0
      <4>1. WordSize * l <= WordSize * 0
        BY <3>1, <1>2, WordAssumption
      <4>. QED  BY <4>1, <1>2, LengthAssumption, WordAssumption
    <3>. QED  BY <3>1, <1>2
  <2>3. WordSize * l >= WordSize * 1
    BY <2>2, <1>2, WordAssumption
  <2>. QED  BY <2>1, <2>3, <1>2, <1>3, <1>5, LengthAssumption, WordAssumption
<1>. QED  BY <1>4, <1>5

LEMMA HalfBytes ==
  ASSUME NEW b \in 0..ByteSize - 1
  PROVE  Low(b) \in 0..LongMark /\ High(b) \in 0..15 * Unit
<1>1. b \in 0..16 * Unit - 1 /\ b \in Nat /\ Unit \in Nat \ {0}
  BY Sizes
<1>2. b % Unit \in 0..Unit - 1
  BY <1>1, ModRange
<1>3. b - (b % Unit) \in 0..15 * Unit
  BY <1>1, HighHalf
<1>. QED  BY <1>2, <1>3, Sizes DEF Low, High

LEMMA BlockFits ==
  ASSUME NEW inf \in Infos, NEW p \in Index
  PROVE  Fits(BlockSize(inf, p))
<1>1. Low(inf[p]) \in 0..LongMark
  BY HalfBytes DEF Infos
<1>2. LongMark < ByteSize
  BY Sizes
<1>. DEFINE w == WordAt(p)
<1>3. w \in Index /\ (WordSize > 1 => w + 1 \in Index)
  BY WordInside, WordAssumption, LengthAssumption DEF Index
<1>. HIDE DEF w
<1>4. Fits(WordValue(inf, w))
  <2>1. inf[w] \in 0..ByteSize - 1
    BY <1>3 DEF Infos
  <2>2. CASE WordSize > 1
    <3>1. inf[w + 1] \in 0..ByteSize - 1
      BY <1>3, <2>2 DEF Infos
    <3>. DEFINE x == inf[w]
                y == inf[w + 1]
    <3>2. x \in 0..ByteSize - 1 /\ y \in 0..ByteSize - 1 /\ ByteSize \in Nat \ {0}
      BY <2>1, <3>1, Sizes
    <3>. HIDE DEF x, y
    <3>3. ByteSize * y <= ByteSize * (ByteSize - 1) /\ ByteSize * y \in Nat
      BY <3>2
    <3>4. ByteSize * (ByteSize - 1) = ByteSize * ByteSize - ByteSize
      BY <3>2
    <3>5. x + ByteSize * y \in Nat /\ x + ByteSize * y < ByteSize * ByteSize
      BY <3>2, <3>3, <3>4
    <3>. QED  BY <3>5, <2>2 DEF Fits, WordValue, x, y
  <2>3. CASE ~(WordSize > 1)
    BY <2>1, <2>3, Sizes DEF Fits, WordValue
  <2>. QED  BY <2>2, <2>3
<1>5. Fits(Low(inf[p]))
  BY <1>1, <1>2, Sizes DEF Fits
<1>. QED  BY <1>4, <1>5 DEF BlockSize, w

LEMMA StoreWordType ==
  ASSUME NEW inf \in Infos, NEW w \in Nat, NEW n, Fits(n)
  PROVE  StoreWord(inf, w, n) \in Infos
<1>. SUFFICES ASSUME NEW i \in Index
              PROVE  (IF InWord(i, w) THEN WordByte(n, i - w) ELSE inf[i]) \in 0..ByteSize - 1
  BY DEF StoreWord, Infos
<1>1. CASE InWord(i, w)
  BY <1>1, WordByteRange, WordAssumption DEF InWord, Index
<1>2. CASE ~InWord(i, w)
  BY <1>2 DEF Infos
<1>. QED  BY <1>1, <1>2

LEMMA StoreCountType ==
  ASSUME NEW inf \in Infos, NEW p \in Index, NEW n, Fits(n)
  PROVE  StoreCount(inf, p, n) \in Infos
<1>1. \A m \in 0..LongMark : High(inf[p]) + m \in 0..ByteSize - 1
  BY HalfBytes, Sizes DEF Infos
<1>2. \A m \in 0..LongMark : [inf EXCEPT ![p] = High(@) + m] \in Infos
  BY <1>1 DEF Infos
<1>3. CASE n < LongMark
  BY <1>2, <1>3, Sizes DEF StoreCount, Fits
<1>4. CASE ~(n < LongMark)
  <2>1. [inf EXCEPT ![p] = High(@) + LongMark] \in Infos
    BY <1>2, Sizes
  <2>. QED  BY <1>4, <2>1, StoreWordType, WordInside DEF StoreCount
<1>. QED  BY <1>3, <1>4

LEMMA TermBytes ==
  ASSUME NEW b \in 0..ByteSize - 1
  PROVE  Unterm(b) \in 0..ByteSize - 1 /\ AsTerm(b) \in 0..ByteSize - 1
  BY Sizes DEF Unterm, AsTerm

-----------------------------------------------------------------------------
(* Pointers and sequence numbers *)

LEMMA SeqRange == \A a \in SeqNums, n \in 0..Length : SeqAdd(a, n) \in SeqNums
  BY SeqAssumption, LengthAssumption DEF SeqNums, SeqAdd

\* The front moves on by n.
LEMMA SeqAhead ==
  ASSUME NEW a \in SeqNums, NEW b \in SeqNums, NEW n \in 0..Length,
         SeqDiff(a, b) \in 0..Length, SeqDiff(a, b) + n <= Length
  PROVE  SeqDiff(SeqAdd(a, n), b) = SeqDiff(a, b) + n
  BY SeqAssumption, LengthAssumption DEF SeqNums, SeqAdd, SeqDiff

\* The rear moves on by n.
LEMMA SeqBehind ==
  ASSUME NEW a \in SeqNums, NEW b \in SeqNums, NEW n \in 0..Length,
         SeqDiff(a, b) \in 0..Length
  PROVE  SeqDiff(a, SeqAdd(b, n)) = SeqDiff(a, b) - n
  BY SeqAssumption, LengthAssumption DEF SeqNums, SeqAdd, SeqDiff

LEMMA SeqBetween ==
  ASSUME NEW a \in SeqNums, NEW b \in SeqNums, NEW c \in SeqNums,
         SeqDiff(a, c) \in 0..Length, SeqDiff(b, c) \in 0..Length
  PROVE  SeqDiff(a, b) = SeqDiff(a, c) - SeqDiff(b, c)
  BY SeqAssumption, LengthAssumption DEF SeqNums, SeqDiff

LEMMA SeqSelf ==
  ASSUME NEW a \in SeqNums
  PROVE  SeqDiff(a, a) = 0 /\ \A n \in 0..Length : SeqDiff(SeqAdd(a, n), a) = n
  BY SeqAssumption, LengthAssumption DEF SeqNums, SeqAdd, SeqDiff

LEMMA Wrapped ==
  ASSUME NEW p \in Index
  PROVE  /\ \A n \in 0..Length : Wrap(p + n) \in Index
         /\ \A m, n \in 0..Length : m + n <= Length
              => Wrap(Wrap(p + m) + n) = Wrap(p + m + n)
         /\ \A m, n \in 0..Length - 1 : Wrap(p + m) = Wrap(p + n) => m = n
         /\ Wrap(p) = p
  BY LengthAssumption DEF Wrap, Index

\* What the steps keep.
IInv == TypeOK /\ PointersAgree

LEMMA InitIInv == ASSUME Init PROVE IInv
<1>1. info \in [Index -> 0..ByteSize - 1]
  BY Sizes DEF Init
<1>2. charAt \in [Index -> Chars]
  BY CharsAssumption DEF Init
<1>3. iCount \in 0..Length /\ iInsP \in Index /\ iRemP \in Index
  BY LengthAssumption DEF Init, Index
<1>4. 0 \in SeqNums
  BY SeqAssumption, LengthAssumption DEF SeqNums
<1>5. PointersAgree
  BY <1>4, SeqSelf, LengthAssumption DEF Init, PointersAgree, LastOffset, Wrap
<1>. QED  BY <1>1, <1>2, <1>3, <1>4, <1>5 DEF Init, IInv, TypeOK

\* PutChar: the count of the new block starts at the character after the last
\* event, which is unread and in the buffer.
PutCounts ==
  LET insP   == Wrap(iInsP + 1)
      insSeq == SeqAdd(iInsSeqNum, 1)
      count  == SeqDiff(insSeq, iLastSeqNum)
      first  == IF insP < count THEN insP - count + Length ELSE insP - count
  IN  /\ insP \in Index /\ insP = Wrap(iRemP + (iCount + 1))
      /\ insSeq \in SeqNums /\ SeqDiff(insSeq, iRemSeqNum) = iCount + 1
      /\ count \in 1..Length /\ count = iCount + 1 - LastOffset
      /\ first \in Index /\ first = Wrap(iRemP + LastOffset)

LEMMA PutCountsRight ==
  ASSUME IInv, iCount < Length
  PROVE  PutCounts
<1>. DEFINE insP   == Wrap(iInsP + 1)
            insSeq == SeqAdd(iInsSeqNum, 1)
            count  == SeqDiff(insSeq, iLastSeqNum)
            first  == IF insP < count THEN insP - count + Length ELSE insP - count
<1>1. /\ iCount \in 0..Length - 1 /\ iInsP \in Index /\ iRemP \in Index
      /\ iInsSeqNum \in SeqNums /\ iRemSeqNum \in SeqNums /\ iLastSeqNum \in SeqNums
      /\ iInsP = Wrap(iRemP + iCount)
      /\ SeqDiff(iInsSeqNum, iRemSeqNum) = iCount
      /\ SeqDiff(iLastSeqNum, iRemSeqNum) \in 0..iCount
      /\ Length \in Nat \ {0}
  BY LengthAssumption DEF IInv, TypeOK, PointersAgree, LastOffset
<1>2. insP \in Index /\ insP = Wrap(iRemP + (iCount + 1))
  <2>1. 1 \in 0..Length /\ iCount \in 0..Length /\ iCount + 1 <= Length
    BY <1>1
  <2>2. Wrap(Wrap(iRemP + iCount) + 1) = Wrap(iRemP + iCount + 1)
    BY <1>1, <2>1, Wrapped
  <2>3. iRemP + iCount + 1 = iRemP + (iCount + 1)
    BY <1>1 DEF Index
  <2>4. Wrap(iRemP + (iCount + 1)) \in Index
    BY <1>1, Wrapped
  <2>. QED  BY <1>1, <2>2, <2>3, <2>4
<1>3. insSeq \in SeqNums /\ SeqDiff(insSeq, iRemSeqNum) = iCount + 1
  <2>1. 1 \in 0..Length /\ iCount \in 0..Length /\ iCount + 1 <= Length
    BY <1>1
  <2>2. SeqDiff(SeqAdd(iInsSeqNum, 1), iRemSeqNum) = SeqDiff(iInsSeqNum, iRemSeqNum) + 1
    BY <1>1, <2>1, SeqAhead
  <2>. QED  BY <1>1, <2>1, <2>2, SeqRange
<1>4. count = iCount + 1 - SeqDiff(iLastSeqNum, iRemSeqNum)
  <2>1. SeqDiff(iLastSeqNum, iRemSeqNum) \in 0..Length /\ iCount + 1 \in 0..Length
    BY <1>1
  <2>2. SeqDiff(insSeq, iRemSeqNum) \in 0..Length
    BY <1>3, <2>1
  <2>. HIDE DEF insSeq
  <2>3. SeqDiff(insSeq, iLastSeqNum)
          = SeqDiff(insSeq, iRemSeqNum) - SeqDiff(iLastSeqNum, iRemSeqNum)
    BY <1>1, <1>3, <2>1, <2>2, SeqBetween
  <2>. QED  BY <1>1, <1>3, <2>1, <2>3
<1>5. count \in 1..Length
  BY <1>1, <1>4
<1>6. first \in Index /\ first = Wrap(iRemP + LastOffset)
  <2>. HIDE DEF insSeq, count
  <2>1. first \in Index
    BY <1>1, <1>2, <1>5 DEF Index
  <2>2. count = iCount + 1 - LastOffset /\ LastOffset \in 0..iCount
    BY <1>1, <1>4 DEF LastOffset
  <2>. HIDE DEF insP
  <2>3. first = Wrap(iRemP + LastOffset)
    BY <1>1, <1>2, <1>5, <2>2 DEF Wrap, Index, insP
  <2>. QED  BY <2>1, <2>3
<1>. QED  BY <1>2, <1>3, <1>4, <1>5, <1>6 DEF PutCounts, LastOffset

LEMMA PutKeeps ==
  ASSUME IInv, NEW c \in Chars, NEW bad \in BOOLEAN, PutChar(c, bad)
  PROVE  IInv'
<1>. DEFINE f      == Flags(c, bad)
            put    == [info EXCEPT ![iInsP] = f]
            insP   == Wrap(iInsP + 1)
            insSeq == SeqAdd(iInsSeqNum, 1)
            count  == SeqDiff(insSeq, iLastSeqNum)
            first  == IF insP < count THEN insP - count + Length ELSE insP - count
<1>1. /\ iCount \in 0..Length - 1 /\ iInsP \in Index /\ iRemP \in Index
      /\ iLastSeqNum \in SeqNums /\ iRemSeqNum \in SeqNums
      /\ SeqDiff(iLastSeqNum, iRemSeqNum) \in 0..iCount
      /\ Length \in Nat \ {0}
  BY LengthAssumption DEF IInv, TypeOK, PointersAgree, LastOffset, PutChar, Full
<1>2. /\ insP \in Index /\ insP = Wrap(iRemP + (iCount + 1))
      /\ insSeq \in SeqNums /\ SeqDiff(insSeq, iRemSeqNum) = iCount + 1
      /\ count \in 1..Length /\ first \in Index
  <2>1. PutCounts
    BY <1>1, PutCountsRight
  <2>. QED  BY <2>1 DEF PutCounts
<1>3. put \in Infos
  <2>1. f \in 0..ByteSize - 1
    BY Sizes DEF Flags
  <2>. QED  BY <2>1 DEF Infos, IInv, TypeOK
<1>4. StoreCount(put, first, count) \in Infos
  BY <1>2, <1>3, LengthFits, StoreCountType
<1>. HIDE DEF f, put, insP, insSeq, count, first
<1>5. /\ charAt' = [charAt EXCEPT ![iInsP] = c]
      /\ iInsP' = insP /\ iCount' = iCount + 1 /\ iInsSeqNum' = insSeq
      /\ \/ info' = StoreCount(put, first, count) /\ iLastSeqNum' = insSeq
         \/ info' = put /\ iLastSeqNum' = iLastSeqNum
      /\ long' \in BOOLEAN
      /\ UNCHANGED <<iRemP, iRemSeqNum, terms, hung>>
  BY <1>2 DEF PutChar, f, put, insP, insSeq, count, first, IInv, TypeOK
<1>6. TypeOK'
  BY <1>1, <1>2, <1>3, <1>4, <1>5 DEF IInv, TypeOK, Infos
<1>7. PointersAgree'
  BY <1>1, <1>2, <1>5 DEF PointersAgree, LastOffset
<1>. QED  BY <1>6, <1>7 DEF IInv

\* ClientWrite: what it takes is at most what is there, however long the block
\* says it is.
ReadCount(n) ==
  LET blocksz == BlockSize(info, iRemP)
  IN  Lesser(IF blocksz > 0 THEN Lesser(blocksz, n) ELSE n, iCount)

LEMMA ReadKeeps ==
  ASSUME IInv, NEW n \in 0..MaxRead, ClientWrite(n)
  PROVE  /\ IInv'
         /\ ReadCount(n) \in 0..iCount
         /\ iRemP' = Wrap(iRemP + ReadCount(n))
         /\ SeqDiff(iRemSeqNum', iRemSeqNum) = ReadCount(n)
         /\ iCount' = iCount - ReadCount(n)
         /\ charAt' = charAt
         /\ LastOffset' = IF ReadCount(n) > LastOffset THEN 0 ELSE LastOffset - ReadCount(n)
<1>. DEFINE blocksz == BlockSize(info, iRemP)
            length  == IF blocksz > 0 THEN Lesser(blocksz, n) ELSE n
            maxcopy == Lesser(length, iCount)
            remP    == Wrap(iRemP + maxcopy)
            remSeq  == SeqAdd(iRemSeqNum, maxcopy)
<1>1. /\ iCount \in 1..Length /\ iInsP \in Index /\ iRemP \in Index
      /\ iInsSeqNum \in SeqNums /\ iRemSeqNum \in SeqNums /\ iLastSeqNum \in SeqNums
      /\ iInsP = Wrap(iRemP + iCount)
      /\ SeqDiff(iInsSeqNum, iRemSeqNum) = iCount
      /\ SeqDiff(iLastSeqNum, iRemSeqNum) \in 0..iCount
      /\ Length \in Nat \ {0}
      /\ info \in Infos
  BY LengthAssumption DEF IInv, TypeOK, PointersAgree, LastOffset, ClientWrite, Infos
<1>2. Fits(blocksz) /\ blocksz \in Nat
  BY <1>1, BlockFits DEF Fits
<1>3. maxcopy \in 0..iCount
  BY <1>1, <1>2, ReadAssumption DEF Lesser
<1>4. Fits(blocksz - maxcopy) \/ ~(blocksz > maxcopy)
  BY <1>1, <1>2, <1>3, Sizes DEF Fits
<1>. HIDE DEF blocksz, length, maxcopy
<1>5. remP \in Index /\ remSeq \in SeqNums
  <2>1. maxcopy \in 0..Length
    BY <1>1, <1>3
  <2>. QED  BY <1>1, <2>1, Wrapped, SeqRange
<1>6. iInsP = Wrap(remP + (iCount - maxcopy))
  <2>1. maxcopy \in 0..Length /\ iCount - maxcopy \in 0..Length
        /\ maxcopy + (iCount - maxcopy) <= Length
    BY <1>1, <1>3
  <2>2. Wrap(Wrap(iRemP + maxcopy) + (iCount - maxcopy))
          = Wrap(iRemP + maxcopy + (iCount - maxcopy))
    BY <1>1, <2>1, Wrapped
  <2>3. iRemP + maxcopy + (iCount - maxcopy) = iRemP + iCount
    BY <1>1, <1>3 DEF Index
  <2>. QED  BY <1>1, <2>2, <2>3
<1>7. /\ SeqDiff(remSeq, iRemSeqNum) = maxcopy
      /\ SeqDiff(iInsSeqNum, remSeq) = iCount - maxcopy
      /\ SeqDiff(iLastSeqNum, remSeq) = SeqDiff(iLastSeqNum, iRemSeqNum) - maxcopy
      /\ SeqDiff(remSeq, iLastSeqNum) = maxcopy - SeqDiff(iLastSeqNum, iRemSeqNum)
  <2>1. maxcopy \in 0..Length /\ iCount \in 0..Length
        /\ SeqDiff(iLastSeqNum, iRemSeqNum) \in 0..Length
        /\ SeqDiff(iInsSeqNum, iRemSeqNum) \in 0..Length
    BY <1>1, <1>3
  <2>2. SeqDiff(remSeq, iRemSeqNum) = maxcopy
    BY <1>1, <2>1, SeqSelf
  <2>3. SeqDiff(iInsSeqNum, remSeq) = iCount - maxcopy
    BY <1>1, <2>1, SeqBehind
  <2>4. SeqDiff(iLastSeqNum, remSeq) = SeqDiff(iLastSeqNum, iRemSeqNum) - maxcopy
    BY <1>1, <2>1, SeqBehind
  <2>5. SeqDiff(remSeq, iLastSeqNum) = maxcopy - SeqDiff(iLastSeqNum, iRemSeqNum)
    <3>. HIDE DEF remSeq
    <3>1. SeqDiff(remSeq, iLastSeqNum)
            = SeqDiff(remSeq, iRemSeqNum) - SeqDiff(iLastSeqNum, iRemSeqNum)
      BY <1>1, <1>5, <2>1, <2>2, SeqBetween
    <3>. QED  BY <3>1, <2>2
  <2>. QED  BY <2>2, <2>3, <2>4, <2>5
<1>8. StoreCount(info, remP, blocksz - maxcopy) \in Infos \/ ~(blocksz > maxcopy)
  BY <1>1, <1>4, <1>5, StoreCountType
<1>. HIDE DEF remP, remSeq
<1>9. /\ iRemP' = remP /\ iRemSeqNum' = remSeq /\ iCount' = iCount - maxcopy
      /\ iLastSeqNum' = LastSeqAfter(remSeq)
      /\ info' = IF blocksz > maxcopy
                 THEN StoreCount(info, remP, blocksz - maxcopy) ELSE info
      /\ long' \in BOOLEAN
      /\ UNCHANGED <<charAt, iInsP, iInsSeqNum, terms, hung>>
  BY DEF ClientWrite, blocksz, length, maxcopy, remP, remSeq, IInv, TypeOK
<1>10. /\ iLastSeqNum' \in SeqNums /\ SeqDiff(iLastSeqNum', remSeq) \in 0..iCount - maxcopy
       /\ LastOffset' = IF maxcopy > LastOffset THEN 0 ELSE LastOffset - maxcopy
  <2>1. CASE SeqDiff(remSeq, iLastSeqNum) > 0
    <3>1. iLastSeqNum' = remSeq
      BY <1>9, <2>1 DEF LastSeqAfter
    <3>2. SeqDiff(remSeq, remSeq) = 0
      BY <1>5, SeqSelf
    <3>. QED  BY <1>1, <1>3, <1>5, <1>7, <1>9, <2>1, <3>1, <3>2 DEF LastOffset
  <2>2. CASE ~(SeqDiff(remSeq, iLastSeqNum) > 0)
    BY <1>1, <1>3, <1>7, <1>9, <2>2 DEF LastSeqAfter, LastOffset
  <2>. QED  BY <2>1, <2>2
<1>11. info' \in Infos
  BY <1>1, <1>8, <1>9
<1>12. TypeOK'
  BY <1>1, <1>3, <1>5, <1>9, <1>10, <1>11 DEF IInv, TypeOK, Infos
<1>13. PointersAgree'
  BY <1>1, <1>3, <1>6, <1>7, <1>9, <1>10 DEF PointersAgree, LastOffset
<1>14. IInv'
  BY <1>12, <1>13 DEF IInv
<1>15. iRemP' = Wrap(iRemP + maxcopy) /\ SeqDiff(iRemSeqNum', iRemSeqNum) = maxcopy
  BY <1>7, <1>9 DEF remP
<1>16. ReadCount(n) = maxcopy
  BY DEF ReadCount, maxcopy, length, blocksz
<1>. QED  BY <1>3, <1>9, <1>10, <1>14, <1>15, <1>16

-----------------------------------------------------------------------------
(* The rescan of the terminators *)

\* Pass 2 leaves info bytes.
LEMMA StrippedType ==
  ASSUME info \in Infos
  PROVE  Stripped \in Infos
<1>. DEFINE starts == StripStarts
            ends   == {o + StripLength(o) - 1 : o \in starts}
            longs  == {o \in starts : Low(info[At(o)]) = LongMark}
            cut(i) == IF \E o \in longs : InWord(i, WordAt(At(o))) THEN 0
                      ELSE IF OffsetOf(i) \in starts \ longs THEN High(info[i])
                      ELSE info[i]
<1>1. \A i \in Index : cut(i) \in 0..ByteSize - 1
  <2>1. \A i \in Index : High(info[i]) \in 0..ByteSize - 1
    BY HalfBytes, Sizes DEF Infos
  <2>. HIDE DEF starts, longs
  <2>. QED  BY <2>1, Sizes DEF Infos
<1>. HIDE DEF starts, ends, cut
<1>2. \A i \in Index : (IF OffsetOf(i) \in ends THEN Unterm(cut(i)) ELSE cut(i)) \in 0..ByteSize - 1
  BY <1>1, TermBytes
<1>3. Stripped = [i \in Index |-> IF OffsetOf(i) \in ends THEN Unterm(cut(i)) ELSE cut(i)]
  BY DEF Stripped, starts, ends, cut
<1>. QED  BY <1>2, <1>3 DEF Infos

LEMMA FlaggedType ==
  ASSUME NEW inf \in Infos, NEW T
  PROVE  Flagged(inf, T) \in Infos
  BY TermBytes DEF Flagged, Infos

\* Pass 3: every length it stores is at most the number of unread characters.
LEMMA RecountedType ==
  ASSUME NEW inf \in Infos, iCount \in 0..Length, iRemP \in Index
  PROVE  Recounted(inf) \in Infos
<1>. DEFINE events  == EventOffsets(inf)
            firsts  == {f \in {0} \cup {e + 1 : e \in events} : \E e \in events : e >= f}
            size(f) == 1 + (CHOOSE e \in events : e >= f
                              /\ \A d \in events : d >= f => d >= e) - f
            longs   == {f \in firsts : size(f) >= LongMark}
            over(i) == {f \in longs : InWord(i, WordAt(At(f)))}
            byte(i) == IF over(i) # {}
                       THEN LET f == CHOOSE f \in over(i) : TRUE
                            IN  WordByte(size(f), i - WordAt(At(f)))
                       ELSE IF OffsetOf(i) \in firsts
                       THEN High(inf[i]) + Lesser(size(OffsetOf(i)), LongMark)
                       ELSE inf[i]
<1>1. events \subseteq 0..iCount - 1
  BY DEF EventOffsets
<1>2. \A f \in firsts : size(f) \in 1..Length
  <2>. SUFFICES ASSUME NEW f \in firsts PROVE size(f) \in 1..Length
    OBVIOUS
  <2>1. f \in Nat
    BY <1>1
  <2>. DEFINE later == {e \in events : e >= f}
  <2>2. later # {} /\ later \in SUBSET Nat
    BY <1>1
  <2>. HIDE DEF later
  <2>3. PICK m \in later : \A n \in later : m <= n
    BY <2>2, LeastNatural
  <2>4. m \in events /\ m >= f /\ \A d \in events : d >= f => d >= m
    BY <1>1, <2>1, <2>3 DEF later
  <2>. DEFINE next == CHOOSE e \in events : e >= f /\ \A d \in events : d >= f => d >= e
  <2>5. next \in events /\ next >= f
    <3>. HIDE DEF events, firsts
    <3>. QED  BY <2>4
  <2>. HIDE DEF next
  <2>6. size(f) = 1 + next - f
    BY DEF next
  <2>. QED  BY <1>1, <2>1, <2>5, <2>6, LengthAssumption
<1>4. \A f \in firsts : f \in 0..Length
  BY <1>1, LengthAssumption
<1>. HIDE DEF events, firsts, size
<1>3. \A i \in Index : byte(i) \in 0..ByteSize - 1
  <2>. SUFFICES ASSUME NEW i \in Index PROVE byte(i) \in 0..ByteSize - 1
    OBVIOUS
  <2>1. CASE over(i) # {}
    <3>. DEFINE f == CHOOSE f \in over(i) : TRUE
    <3>1. f \in over(i)
      BY <2>1
    <3>. HIDE DEF f
    <3>2. f \in firsts /\ InWord(i, WordAt(At(f)))
      BY <3>1
    <3>3. Fits(size(f))
      BY <1>2, <3>2, LengthFits
    <3>4. i - WordAt(At(f)) \in 0..WordSize - 1
      <4>1. WordAt(At(f)) \in Int
        <5>1. f \in 0..Length
          BY <3>2, <1>4
        <5>2. At(f) \in Index
          BY <5>1, Wrapped DEF At
        <5>. QED  BY <5>2, WordInside
      <4>. QED  BY <3>2, <4>1, WordAssumption DEF InWord, Index
    <3>5. WordByte(size(f), i - WordAt(At(f))) \in 0..ByteSize - 1
      BY <3>3, <3>4, WordByteRange
    <3>. QED  BY <2>1, <3>5 DEF f
  <2>2. CASE over(i) = {}
    <3>1. inf[i] \in 0..ByteSize - 1 /\ High(inf[i]) \in 0..15 * Unit
      BY HalfBytes DEF Infos
    <3>2. OffsetOf(i) \in firsts => Lesser(size(OffsetOf(i)), LongMark) \in 0..LongMark
      BY <1>2, Sizes DEF Lesser
    <3>. QED  BY <2>2, <3>1, <3>2, Sizes
  <2>. QED  BY <2>1, <2>2
<1>. HIDE DEF byte
<1>5. Recounted(inf) = [i \in Index |-> byte(i)]
  BY DEF Recounted, byte, events, firsts, size
<1>. QED  BY <1>3, <1>5 DEF Infos

\* The last event is one of the characters it is looked for in.
LEMMA LastEventIs ==
  ASSUME NEW b \in Nat, NEW E \in SUBSET (0..b - 1)
  PROVE  /\ LastEvent(E) \in 0..b /\ E \in SUBSET (0..LastEvent(E) - 1)
         /\ LastEvent(E) > 0 => LastEvent(E) - 1 \in E
         /\ LastEvent(E) > 0 <=> E # {}
<1>1. CASE E = {}
  <2>1. LastEvent(E) = 0
    BY <1>1 DEF LastEvent
  <2>. QED  BY <1>1, <2>1
<1>2. CASE E # {}
  <2>. DEFINE last == CHOOSE e \in E : \A d \in E : d <= e
  <2>1. b - 1 \in Nat
    <3>1. PICK e \in E : TRUE
      BY <1>2
    <3>2. e \in 0..b - 1
      BY <3>1
    <3>. QED  BY <3>2
  <2>2. \E m \in E : \A n \in E : n <= m
    BY <1>2, <2>1, GreatestNatural
  <2>3. last \in E /\ \A d \in E : d <= last
    BY <2>2
  <2>4. LastEvent(E) = 1 + last
    BY <1>2 DEF LastEvent
  <2>. HIDE DEF last
  <2>5. last \in 0..b - 1 /\ LastEvent(E) - 1 = last
    BY <2>3, <2>4
  <2>6. \A e \in E : e \in 0..last
    BY <2>3
  <2>. QED  BY <1>2, <2>3, <2>4, <2>5, <2>6
<1>. QED  BY <1>1, <1>2

LEMMA RescanKeeps ==
  ASSUME IInv, NEW T \in TermSets, RescanTerminators(T)
  PROVE  /\ IInv' /\ UNCHANGED <<charAt, iCount, iInsP, iRemP, iInsSeqNum, iRemSeqNum>>
         /\ ~RescanHangs => LastOffset' = LastEvent(EventOffsets(Flagged(Stripped, T)))
<1>1. /\ iCount \in 0..Length /\ iRemP \in Index /\ info \in Infos
      /\ iInsSeqNum \in SeqNums /\ iRemSeqNum \in SeqNums /\ iLastSeqNum \in SeqNums
  BY DEF IInv, TypeOK, Infos
<1>2. CASE RescanHangs
  <2>1. UNCHANGED <<buffer, seqs, long>> /\ hung' \in BOOLEAN /\ terms' \in TermSets
    BY <1>2 DEF RescanTerminators
  <2>. QED  BY <1>2, <2>1 DEF IInv, TypeOK, PointersAgree, LastOffset, buffer, seqs
<1>3. CASE ~RescanHangs
  <2>. DEFINE flagged == Flagged(Stripped, T)
              last    == LastEvent(EventOffsets(flagged))
  <2>1. flagged \in Infos
    BY <1>1, StrippedType, FlaggedType
  <2>2. Recounted(flagged) \in Infos
    BY <1>1, <2>1, RecountedType
  <2>3. last \in 0..iCount
    <3>1. iCount \in Nat /\ EventOffsets(flagged) \in SUBSET (0..iCount - 1)
      BY <1>1, LengthAssumption DEF EventOffsets
    <3>. HIDE DEF flagged
    <3>. QED  BY <3>1, LastEventIs
  <2>4. /\ info' = Recounted(flagged)
        /\ iLastSeqNum' = SeqAdd(iRemSeqNum, last)
        /\ terms' \in TermSets /\ hung' = hung /\ long' \in BOOLEAN
        /\ UNCHANGED <<charAt, iCount, iInsP, iRemP, iInsSeqNum, iRemSeqNum>>
    BY <1>3 DEF RescanTerminators, IInv, TypeOK
  <2>. HIDE DEF flagged, last
  <2>5. last \in 0..Length
    BY <1>1, <2>3, LengthAssumption
  <2>6. iLastSeqNum' \in SeqNums /\ SeqDiff(iLastSeqNum', iRemSeqNum) = last
    BY <1>1, <2>4, <2>5, SeqRange, SeqSelf
  <2>7. TypeOK'
    BY <2>2, <2>4, <2>6 DEF IInv, TypeOK, Infos
  <2>8. PointersAgree'
    BY <2>3, <2>4, <2>6 DEF IInv, PointersAgree, LastOffset
  <2>9. LastOffset' = last
    BY <2>4, <2>6 DEF LastOffset
  <2>. QED  BY <2>4, <2>7, <2>8, <2>9 DEF IInv, flagged, last
<1>. QED  BY <1>2, <1>3

-----------------------------------------------------------------------------
(* Pointers, counts and unread characters *)

LEMMA ResetKeeps ==
  ASSUME IInv, Reset
  PROVE  IInv' /\ iCount' = 0
<1>1. 0 \in SeqNums /\ 0 \in Index /\ 0 \in 0..Length
  BY SeqAssumption, LengthAssumption DEF SeqNums, Index
<1>2. TypeOK'
  BY <1>1 DEF Reset, IInv, TypeOK
<1>3. PointersAgree'
  BY <1>1, SeqSelf, LengthAssumption DEF Reset, PointersAgree, LastOffset, Wrap
<1>. QED  BY <1>2, <1>3 DEF IInv, Reset

\* The steps that only report a result.
Reports == UNCHANGED <<buffer, seqs, terms, hung, long>>

LEMMA ReportKeeps ==
  ASSUME IInv, Reports
  PROVE  IInv'
  BY DEF Reports, IInv, TypeOK, PointersAgree, LastOffset, buffer, seqs

LEMMA NextIInv == ASSUME IInv, [Next]_vars PROVE IInv'
<1>1. ASSUME NEW c \in Chars, NEW bad \in BOOLEAN, PutChar(c, bad) PROVE IInv'
  BY <1>1, PutKeeps
<1>2. ASSUME NEW c \in Chars, NEW bad \in BOOLEAN, PutOverflow(c, bad) PROVE IInv'
  BY <1>2, ReportKeeps DEF PutOverflow, Reports
<1>3. ASSUME NEW n \in 0..MaxRead, ClientWrite(n) PROVE IInv'
  BY <1>3, ReadKeeps
<1>4. ASSUME NEW n \in 0..MaxRead, ReadEmpty(n) PROVE IInv'
  BY <1>4, ReportKeeps DEF ReadEmpty, Reports
<1>5. ASSUME NEW T \in TermSets, RescanTerminators(T) PROVE IInv'
  BY <1>5, RescanKeeps
<1>6. CASE Reset
  BY <1>6, ResetKeeps
<1>7. CASE UNCHANGED vars
  BY <1>7, ReportKeeps DEF vars, Reports
<1>. QED  BY <1>1, <1>2, <1>3, <1>4, <1>5, <1>6, <1>7 DEF Next

\* Every info byte is a byte and every pointer lies in the buffer, whatever the
\* stored lengths say.
THEOREM TypeCorrect == Spec => []TypeOK
<1>1. Spec => []IInv
  BY InitIInv, NextIInv, PTL DEF Spec
<1>2. IInv => TypeOK
  BY DEF IInv
<1>. QED  BY <1>1, <1>2, PTL

\* The insertion and removal pointers, the count and the three sequence numbers
\* agree, for every width of the sequence numbers and however often they wrap.
THEOREM PointersAlwaysAgree == Spec => []PointersAgree
<1>1. Spec => []IInv
  BY InitIInv, NextIInv, PTL DEF Spec
<1>2. IInv => PointersAgree
  BY DEF IInv
<1>. QED  BY <1>1, <1>2, PTL

\* What UnreadIntact says of one step.
Intact ==
  \A o \in 0..iCount' - 1 :
    LET n == SeqDiff(iRemSeqNum', iRemSeqNum)
    IN  n + o < iCount /\ n >= 0
          => charAt'[Wrap(iRemP' + o)] = charAt[Wrap(iRemP + n + o)]

LEMMA StepIntact == ASSUME IInv, [Next]_vars PROVE Intact
<1>1. /\ iCount \in 0..Length /\ iRemP \in Index /\ iRemSeqNum \in SeqNums
      /\ Length \in Nat \ {0} /\ iInsP = Wrap(iRemP + iCount)
      /\ SeqDiff(iRemSeqNum, iRemSeqNum) = 0
  BY SeqSelf, LengthAssumption DEF IInv, TypeOK, PointersAgree
<1>2. ASSUME UNCHANGED <<charAt, iCount, iRemP, iRemSeqNum>> PROVE Intact
  <2>1. \A o \in 0..iCount - 1 : iRemP + 0 + o = iRemP + o
    BY <1>1 DEF Index
  <2>. QED  BY <1>1, <1>2, <2>1 DEF Intact
<1>3. ASSUME NEW c \in Chars, NEW bad \in BOOLEAN, PutChar(c, bad) PROVE Intact
  <2>1. /\ iCount \in 0..Length - 1
        /\ charAt' = [charAt EXCEPT ![iInsP] = c]
        /\ UNCHANGED <<iRemP, iRemSeqNum>>
    BY <1>1, <1>3 DEF PutChar, Full
  <2>. SUFFICES ASSUME NEW o \in 0..iCount' - 1, 0 + o < iCount
                PROVE  charAt'[Wrap(iRemP + o)] = charAt[Wrap(iRemP + 0 + o)]
    BY <1>1, <2>1 DEF Intact
  <2>2. o \in 0..Length - 1 /\ iCount \in 0..Length - 1 /\ o # iCount /\ o < iCount
    BY <1>1, <2>1
  <2>3. Wrap(iRemP + o) # iInsP
    BY <1>1, <2>2, Wrapped
  <2>4. Wrap(iRemP + o) \in Index
    BY <1>1, <2>2, Wrapped
  <2>5. iRemP + 0 + o = iRemP + o
    BY <1>1, <2>2 DEF Index
  <2>. QED  BY <2>1, <2>3, <2>4, <2>5 DEF IInv, TypeOK
<1>4. ASSUME NEW n \in 0..MaxRead, ClientWrite(n) PROVE Intact
  <2>. DEFINE m == ReadCount(n)
  <2>1. /\ m \in 0..iCount /\ iRemP' = Wrap(iRemP + m)
        /\ SeqDiff(iRemSeqNum', iRemSeqNum) = m
        /\ iCount' = iCount - m /\ charAt' = charAt
    BY <1>4, ReadKeeps
  <2>. HIDE DEF m
  <2>. SUFFICES ASSUME NEW o \in 0..iCount - m - 1
                PROVE  Wrap(Wrap(iRemP + m) + o) = Wrap(iRemP + m + o)
    BY <2>1 DEF Intact
  <2>2. o \in 0..Length /\ m \in 0..Length /\ m + o <= Length
    BY <1>1, <2>1
  <2>. QED  BY <1>1, <2>2, Wrapped
<1>5. ASSUME NEW T \in TermSets, RescanTerminators(T) PROVE Intact
  BY <1>2, <1>5, RescanKeeps
<1>6. CASE Reset
  BY <1>6, ResetKeeps DEF Intact
<1>7. ASSUME NEW c \in Chars, NEW bad \in BOOLEAN, PutOverflow(c, bad) PROVE Intact
  BY <1>2, <1>7 DEF PutOverflow, buffer, seqs
<1>8. ASSUME NEW n \in 0..MaxRead, ReadEmpty(n) PROVE Intact
  BY <1>2, <1>8 DEF ReadEmpty, buffer, seqs
<1>9. CASE UNCHANGED vars
  BY <1>2, <1>9 DEF vars, buffer, seqs
<1>. QED  BY <1>3, <1>4, <1>5, <1>6, <1>7, <1>8, <1>9 DEF Next

\* No operation overwrites a character that is still to be read.
THEOREM UnreadStaysIntact == Spec => UnreadIntact
<1>1. IInv /\ [Next]_vars => [Intact]_vars
  BY StepIntact
<1>2. Spec => []IInv
  BY InitIInv, NextIInv, PTL DEF Spec
<1>3. Spec => [][Intact]_vars
  BY <1>1, <1>2, PTL DEF Spec
<1>. QED  BY <1>3 DEF UnreadIntact, Intact

-----------------------------------------------------------------------------
(* The blocks of the unread characters *)

\* The info byte of the character at offset o from a removal pointer r.
Pos(r, o) == Wrap(r + o)

\* The block that starts at offset f ends in the event at offset e.
IsStart(E, f)   == f = 0 \/ f - 1 \in E
Closes(E, f, e) == e \in E /\ f <= e /\ \A d \in E : d >= f => e <= d

\* The length stored for the block at f is s; only a long one is marked as long.
Sized(inf, r, f, s) ==
  BlockSize(inf, Pos(r, f)) = s /\ (Low(inf[Pos(r, f)]) = LongMark => s >= LongMark)

\* The characters before offset last are the blocks that end in the events E, each
\* with its length.
Framed(inf, r, last, E) ==
  /\ E \in SUBSET (0..last - 1)
  /\ last > 0 => last - 1 \in E
  /\ \A e \in E : High(inf[Pos(r, e)]) # 0
  /\ \A f \in 0..last - 1, e \in E :
       IsStart(E, f) /\ Closes(E, f, e) => Sized(inf, r, f, e - f + 1)

\* So are the n unread characters, and no event follows.
Blocks(inf, r, last, n, E) ==
  Framed(inf, r, last, E) /\ \A o \in last..n - 1 : inf[Pos(r, o)] = 0

\* No info byte holds a part of a long length.
Clean(inf, r, n, E) ==
  \A o \in 0..n - 1 :
    /\ Low(inf[Pos(r, o)]) # LongMark
    /\ o \notin E => High(inf[Pos(r, o)]) = 0
    /\ ~IsStart(E, o) => Low(inf[Pos(r, o)]) = 0

\* BlockEnds, for any info bytes.
EndsIn(inf, r, last) ==
  LET from[o \in 0..Length] ==
        IF o >= last THEN {}
        ELSE LET b == BlockSize(inf, Wrap(r + o))
             IN  IF b \in 1..last - o THEN {o + b - 1} \cup from[o + b]
                 ELSE {o}
  IN  from[0]

\* What the steps keep, for the refinement.
BlockInv ==
  /\ IInv
  /\ Blocks(info, iRemP, LastOffset, iCount, BlockEnds)
  /\ ~long => Clean(info, iRemP, iCount, BlockEnds)

-----------------------------------------------------------------------------
(* Recursion that only looks ahead *)

\* From offset o of 0..b the next offset to look at is after o.
Ahead(b, stop, next) == \A o \in 0..b : ~stop[o] => next[o] \in o + 1..b

Gathers(f, m, b, base, stop, next) ==
  f = [o \in m..b |-> IF stop[o] THEN base[o] ELSE base[o] \cup f[next[o]]]

LEMMA GatherExists ==
  ASSUME NEW b \in Nat, NEW base, NEW stop, NEW next, Ahead(b, stop, next)
  PROVE  \E f : Gathers(f, 0, b, base, stop, next)
<1>. DEFINE Good == {m \in 0..b + 1 : \E f : Gathers(f, m, b, base, stop, next)}
<1>1. b + 1 \in Good
  <2>1. \A o : o \notin b + 1..b
    OBVIOUS
  <2>. DEFINE f == [o \in b + 1..b |-> {}]
  <2>2. f = [o \in b + 1..b |-> IF stop[o] THEN base[o] ELSE base[o] \cup f[next[o]]]
    BY <2>1
  <2>. HIDE DEF f
  <2>3. Gathers(f, b + 1, b, base, stop, next)
    BY <2>2 DEF Gathers
  <2>. QED  BY <2>3
<1>2. PICK m \in Good : \A n \in Good : m <= n
  <2>1. Good \in SUBSET Nat
    OBVIOUS
  <2>. HIDE DEF Good
  <2>. QED  BY <1>1, <2>1, LeastNatural
<1>3. CASE m = 0
  BY <1>2, <1>3
<1>4. CASE m # 0
  <2>1. m \in 1..b + 1 /\ m - 1 \in 0..b
    BY <1>2, <1>4
  <2>2. PICK f : Gathers(f, m, b, base, stop, next)
    BY <1>2
  <2>3. /\ DOMAIN f = m..b
        /\ \A o \in m..b : f[o] = IF stop[o] THEN base[o] ELSE base[o] \cup f[next[o]]
    BY <2>2, Zenon DEF Gathers
  <2>. DEFINE k == m - 1
              new == IF stop[k] THEN base[k] ELSE base[k] \cup f[next[k]]
              g == [o \in k..b |-> IF o = k THEN new ELSE f[o]]
  <2>4. /\ k \in k..b /\ g[k] = new
        /\ \A o \in m..b : o \in k..b /\ o # k /\ g[o] = f[o]
        /\ \A o \in k..b : o = k \/ o \in m..b
        /\ \A o \in k..b : o \in 0..b /\ (~stop[o] => next[o] \in m..b)
    BY <2>1 DEF Ahead
  <2>5. DOMAIN g = k..b
    OBVIOUS
  <2>. HIDE DEF g
  <2>6. ASSUME NEW o \in k..b
        PROVE  g[o] = IF stop[o] THEN base[o] ELSE base[o] \cup g[next[o]]
    <3>1. ~stop[o] => g[next[o]] = f[next[o]]
      BY <2>4
    <3>. QED  BY <2>3, <2>4, <3>1
  <2>7. g = [o \in k..b |-> IF stop[o] THEN base[o] ELSE base[o] \cup g[next[o]]]
    <3>1. g = [o \in k..b |-> g[o]]
      BY <2>5 DEF g
    <3>. QED  BY <2>6, <3>1
  <2>8. k \in Good
    BY <2>1, <2>7 DEF Gathers
  <2>. QED  BY <1>2, <2>1, <2>8
<1>. QED  BY <1>3, <1>4

\* The events found from block to block are those of the blocks.
LEMMA EndsFound ==
  ASSUME NEW inf \in Infos, NEW r \in Index, NEW last \in 0..Length,
         NEW E, Framed(inf, r, last, E)
  PROVE  EndsIn(inf, r, last) = E
<1>. DEFINE size(o) == BlockSize(inf, Wrap(r + o))
            IsEnds(f) == f = [o \in 0..Length |->
              IF o >= last THEN {}
              ELSE LET b == BlockSize(inf, Wrap(r + o))
                   IN  IF b \in 1..last - o THEN {o + b - 1} \cup f[o + b] ELSE {o}]
            from == CHOOSE f : IsEnds(f)
            goes(o) == o < last /\ size(o) \in 1..last - o
            base == [o \in 0..Length |->
                       IF o >= last THEN {} ELSE IF goes(o) THEN {o + size(o) - 1} ELSE {o}]
            stop == [o \in 0..Length |-> ~goes(o)]
            next == [o \in 0..Length |-> o + size(o)]
<1>0. Length \in Nat
  BY LengthAssumption
<1>1. EndsIn(inf, r, last) = from[0]
  BY DEF EndsIn
<1>2. Ahead(Length, stop, next)
  <2>. HIDE DEF size
  <2>. SUFFICES ASSUME NEW o \in 0..Length, ~stop[o] PROVE next[o] \in o + 1..Length
    BY DEF Ahead
  <2>1. goes(o) /\ next[o] = o + size(o)
    OBVIOUS
  <2>. QED  BY <1>0, <2>1
<1>3. PICK f : Gathers(f, 0, Length, base, stop, next)
  <2>. HIDE DEF base, stop, next
  <2>. QED  BY <1>0, <1>2, GatherExists
<1>4. IsEnds(f)
  <2>1. f = [o \in 0..Length |-> IF stop[o] THEN base[o] ELSE base[o] \cup f[next[o]]]
    BY <1>3 DEF Gathers
  <2>. HIDE DEF size
  <2>2. ASSUME NEW o \in 0..Length
        PROVE  (IF stop[o] THEN base[o] ELSE base[o] \cup f[next[o]])
                 = (IF o >= last THEN {}
                    ELSE IF size(o) \in 1..last - o THEN {o + size(o) - 1} \cup f[o + size(o)]
                         ELSE {o})
    <3>1. (stop[o] <=> ~goes(o)) /\ next[o] = o + size(o)
      OBVIOUS
    <3>2. base[o] = IF o >= last THEN {} ELSE IF goes(o) THEN {o + size(o) - 1} ELSE {o}
      OBVIOUS
    <3>. HIDE DEF stop, base, next
    <3>3. CASE o >= last
      BY <1>0, <3>1, <3>2, <3>3
    <3>4. CASE o < last /\ size(o) \in 1..last - o
      BY <1>0, <3>1, <3>2, <3>4
    <3>5. CASE o < last /\ size(o) \notin 1..last - o
      BY <1>0, <3>1, <3>2, <3>5
    <3>. QED  BY <1>0, <3>3, <3>4, <3>5
  <2>. HIDE DEF stop, base, next
  <2>3. f = [o \in 0..Length |->
               IF o >= last THEN {}
               ELSE IF size(o) \in 1..last - o THEN {o + size(o) - 1} \cup f[o + size(o)]
                    ELSE {o}]
    BY <2>1, <2>2
  <2>. QED  BY <2>3 DEF size
<1>5. IsEnds(from)
  BY <1>4
<1>. HIDE DEF from
<1>6. \A o \in 0..Length :
        from[o] = IF o >= last THEN {}
                  ELSE LET b == BlockSize(inf, Wrap(r + o))
                       IN  IF b \in 1..last - o THEN {o + b - 1} \cup from[o + b] ELSE {o}
  <2>. DEFINE rhs(o) == IF o >= last THEN {}
                  ELSE LET b == BlockSize(inf, Wrap(r + o))
                       IN  IF b \in 1..last - o THEN {o + b - 1} \cup from[o + b] ELSE {o}
  <2>1. from = [o \in 0..Length |-> rhs(o)]
    BY <1>5, Zenon
  <2>. HIDE DEF rhs
  <2>2. \A o \in 0..Length : from[o] = rhs(o)
    BY <2>1
  <2>. QED  BY <2>2 DEF rhs
<1>7. (\A e \in E : e \in 0..last - 1 /\ e \in Nat) /\ (last > 0 => last - 1 \in E)
  BY <1>0 DEF Framed
<1>. DEFINE After(o) == {e \in E : e >= o}
            Bad == {o \in 0..Length : IsStart(E, o) /\ from[o] # After(o)}
<1>8. Bad = {}
  <2>1. SUFFICES ASSUME Bad # {} PROVE FALSE
    OBVIOUS
  <2>2. PICK o \in Bad : \A p \in Bad : p <= o
    <3>1. Bad \in SUBSET (0..Length)
      OBVIOUS
    <3>. HIDE DEF Bad
    <3>. QED  BY <1>0, <2>1, <3>1, GreatestNatural
  <2>3. o \in 0..Length /\ IsStart(E, o) /\ from[o] # After(o)
    BY <2>2
  <2>4. o < last
    <3>1. SUFFICES ASSUME o >= last PROVE FALSE
      BY <2>3
    <3>2. from[o] = {}
      BY <1>6, <2>3, <3>1
    <3>3. After(o) = {}
      BY <1>0, <1>7, <2>3, <3>1
    <3>. QED  BY <2>3, <3>2, <3>3
  <2>5. PICK e \in After(o) : \A d \in After(o) : e <= d
    <3>1. last - 1 \in After(o)
      BY <1>7, <2>3, <2>4
    <3>2. After(o) \in SUBSET Nat
      BY <1>0, <1>7
    <3>. HIDE DEF After
    <3>. QED  BY <3>1, <3>2, LeastNatural
  <2>6. e \in E /\ e \in o..last - 1 /\ Closes(E, o, e)
    BY <1>7, <2>3, <2>5 DEF Closes
  <2>7. size(o) = e - o + 1
    BY <2>3, <2>4, <2>6 DEF Framed, Sized, Pos
  <2>8. from[o] = {e} \cup from[e + 1]
    <3>1. size(o) \in 1..last - o /\ o + size(o) - 1 = e /\ o + size(o) = e + 1
      BY <2>3, <2>4, <2>6, <2>7
    <3>2. from[o] = IF o >= last THEN {}
                    ELSE IF size(o) \in 1..last - o
                         THEN {o + size(o) - 1} \cup from[o + size(o)] ELSE {o}
      BY <1>6, <2>3
    <3>. HIDE DEF size
    <3>. QED  BY <2>3, <2>4, <3>1, <3>2
  <2>9. from[e + 1] = After(e + 1)
    <3>1. e + 1 \in 0..Length /\ e + 1 > o /\ IsStart(E, e + 1)
      BY <1>0, <2>3, <2>6 DEF IsStart
    <3>. QED  BY <2>2, <2>3, <3>1
  <2>10. After(o) = {e} \cup After(e + 1)
    <3>1. ASSUME NEW d \in After(o) PROVE d \in {e} \cup After(e + 1)
      <4>1. d \in E /\ d \in Nat /\ e \in Nat /\ e <= d
        BY <1>7, <2>5, <3>1
      <4>. QED  BY <4>1
    <3>2. ASSUME NEW d \in After(e + 1) PROVE d \in After(o)
      <4>1. d \in E /\ d \in Nat /\ e \in Nat /\ e + 1 <= d /\ o <= e
        BY <1>0, <1>7, <2>3, <2>6, <3>2
      <4>. QED  BY <2>3, <4>1
    <3>. QED  BY <2>5, <3>1, <3>2
  <2>. QED  BY <2>3, <2>8, <2>9, <2>10
<1>9. from[0] = After(0)
  BY <1>0, <1>8 DEF IsStart
<1>10. After(0) = E
  BY <1>0, <1>7
<1>. QED  BY <1>1, <1>9, <1>10

-----------------------------------------------------------------------------
(* Halves of info bytes, and the words of long lengths *)

LEMMA DivMod ==
  ASSUME NEW u \in Nat \ {0}, NEW q \in Nat, NEW m \in 0..u - 1
  PROVE  (u * q + m) % u = m /\ (u * q + m) \div u = q
<1>. DEFINE x == u * q + m
            d == x \div u
            k == x % u
<1>1. u * q \in Nat
  OBVIOUS
<1>2. x \in Nat
  BY <1>1
<1>. HIDE DEF x
<1>3. x = u * d + k /\ k \in 0..u - 1 /\ d \in Int
  BY <1>2
<1>. HIDE DEF d, k
<1>4. u * (q - d) = k - m
  <2>1. u * (q - d) = u * q - u * d
    BY <1>3
  <2>. QED  BY <1>1, <1>3, <2>1 DEF x
<1>5. q = d
  <2>1. CASE q - d >= 1
    <3>1. u * (q - d) >= u * 1
      BY <1>3, <2>1
    <3>. QED  BY <1>3, <1>4, <3>1
  <2>2. CASE q - d <= -1
    <3>1. u * (q - d) <= u * (-1)
      BY <1>3, <2>2
    <3>. QED  BY <1>3, <1>4, <3>1
  <2>. QED  BY <1>3, <2>1, <2>2
<1>. QED  BY <1>1, <1>3, <1>4, <1>5 DEF x, d, k

LEMMA DivParts ==
  ASSUME NEW u \in Nat \ {0}, NEW b \in Nat, b < 16 * u
  PROVE  \E q \in 0..15 : b = u * q + (b % u)
<1>. DEFINE q == b \div u
            k == b % u
<1>1. b = u * q + k
  OBVIOUS
<1>2. q \in 0..15
  BY DivRange
<1>. HIDE DEF q, k
<1>3. \E d \in 0..15 : b = u * d + k
  BY <1>1, <1>2
<1>. QED  BY <1>3 DEF k

\* A byte is its two halves.
LEMMA Halves ==
  ASSUME NEW b \in 0..ByteSize - 1
  PROVE  /\ Low(b) \in 0..LongMark /\ High(b) \in 0..15 * Unit /\ b = High(b) + Low(b)
         /\ \E q \in 0..15 : High(b) = Unit * q
<1>1. Low(b) \in 0..LongMark /\ High(b) \in 0..15 * Unit
  BY HalfBytes
<1>2. b = High(b) + Low(b)
  BY <1>1 DEF High
<1>3. b \in Nat /\ Unit \in Nat \ {0} /\ b < 16 * Unit
  BY Sizes
<1>4. PICK q \in 0..15 : b = Unit * q + (b % Unit)
  BY <1>3, DivParts
<1>6. b = Unit * q + Low(b)
  BY <1>4 DEF Low
<1>7. Unit * q \in Nat
  BY <1>3
<1>. QED  BY <1>1, <1>2, <1>3, <1>6, <1>7

LEMMA HalvesOf ==
  ASSUME NEW q \in 0..15, NEW m \in 0..LongMark
  PROVE  Low(Unit * q + m) = m /\ High(Unit * q + m) = Unit * q
<1>1. Unit \in Nat \ {0} /\ m \in 0..Unit - 1 /\ q \in Nat
  BY Sizes
<1>2. Unit * q \in Nat
  BY <1>1
<1>3. (Unit * q + m) % Unit = m
  BY <1>1, DivMod
<1>. QED  BY <1>1, <1>2, <1>3 DEF Low, High

\* The low half is written, the high half stays.
LEMMA LowWritten ==
  ASSUME NEW b \in 0..ByteSize - 1, NEW m \in 0..LongMark
  PROVE  Low(High(b) + m) = m /\ High(High(b) + m) = High(b)
<1>1. PICK q \in 0..15 : High(b) = Unit * q
  BY Halves
<1>. QED  BY <1>1, HalvesOf

LEMMA FlagBytes ==
  /\ Low(0) = 0 /\ High(0) = 0
  /\ Low(TermFlag) = 0 /\ High(TermFlag) = TermFlag /\ TermFlag > 0
  /\ Low(ErrorFlag) = 0 /\ High(ErrorFlag) = ErrorFlag /\ ErrorFlag > 0
<1>1. 0 \in 0..LongMark /\ Unit \in Nat \ {0}
  BY Sizes
<1>2. Unit * 0 + 0 = 0 /\ Unit * 8 + 0 = TermFlag /\ Unit * 1 + 0 = ErrorFlag
  BY <1>1, Sizes
<1>3. Low(0) = 0 /\ High(0) = Unit * 0
  BY <1>1, <1>2, HalvesOf
<1>4. Low(TermFlag) = 0 /\ High(TermFlag) = Unit * 8
  BY <1>1, <1>2, HalvesOf
<1>5. Low(ErrorFlag) = 0 /\ High(ErrorFlag) = Unit * 1
  BY <1>1, <1>2, HalvesOf
<1>. QED  BY <1>1, <1>3, <1>4, <1>5, Sizes

\* The terminator flag of a high half is decided afresh.
LEMMA Reflagged ==
  ASSUME NEW b \in 0..ByteSize - 1, NEW h, h = High(b)
  PROVE  /\ Unterm(h) \in 0..ByteSize - 1 /\ AsTerm(Unterm(h)) \in 0..ByteSize - 1
         /\ Low(Unterm(h)) = 0 /\ High(Unterm(h)) = Unterm(h)
         /\ Low(AsTerm(Unterm(h))) = 0 /\ High(AsTerm(Unterm(h))) = AsTerm(Unterm(h))
         /\ AsTerm(Unterm(h)) = Unterm(h) + TermFlag
         /\ Unterm(0) = 0
<1>1. PICK q \in 0..15 : h = Unit * q
  BY Halves
<1>. DEFINE k == IF q >= 8 THEN q - 8 ELSE q
<1>2. Unit \in Nat \ {0} /\ TermFlag = 8 * Unit /\ ByteSize = 16 * Unit /\ 0 \in 0..LongMark
  BY Sizes
<1>3. k \in 0..7 /\ k \in 0..15 /\ k + 8 \in 0..15
  OBVIOUS
<1>4. Unterm(h) = Unit * k
  <2>1. q >= 8 => Unit * q >= Unit * 8
    BY <1>2
  <2>2. q <= 7 => Unit * q <= Unit * 7
    BY <1>2
  <2>3. Unit * (q - 8) = Unit * q - Unit * 8
    BY <1>2
  <2>4. Unit * q \in Int
    BY <1>2
  <2>. QED  BY <1>1, <1>2, <2>1, <2>2, <2>3, <2>4 DEF Unterm
<1>. HIDE DEF k
<1>5. Unit * k <= Unit * 7 /\ Unit * k >= Unit * 0 /\ Unit * k \in Int
  BY <1>2, <1>3
<1>6. Unterm(Unterm(h)) = Unterm(h)
  BY <1>2, <1>4, <1>5 DEF Unterm
<1>7. Unit * (k + 8) = Unit * k + TermFlag
  BY <1>2, <1>3
<1>8. AsTerm(Unterm(h)) = Unit * (k + 8)
  BY <1>4, <1>6, <1>7 DEF AsTerm
<1>9. Low(Unit * k + 0) = 0 /\ High(Unit * k + 0) = Unit * k
  BY <1>2, <1>3, HalvesOf
<1>10. Low(Unit * (k + 8) + 0) = 0 /\ High(Unit * (k + 8) + 0) = Unit * (k + 8)
  BY <1>2, <1>3, HalvesOf
<1>11. Unit * k + 0 = Unit * k /\ Unit * (k + 8) + 0 = Unit * (k + 8)
  BY <1>2, <1>5, <1>7
<1>12. Unterm(0) = 0
  BY <1>2 DEF Unterm
<1>. QED  BY <1>2, <1>4, <1>5, <1>7, <1>8, <1>9, <1>10, <1>11, <1>12

LEMMA PosFacts ==
  ASSUME NEW r \in Index
  PROVE  /\ \A o \in 0..Length : Pos(r, o) \in Index
         /\ \A m, o \in 0..Length : m + o <= Length => Pos(Pos(r, m), o) = Pos(r, m + o)
         /\ \A m, o \in 0..Length - 1 : Pos(r, m) = Pos(r, o) => m = o
         /\ \A i \in Index : \E o \in 0..Length - 1 : i = Pos(r, o)
         /\ Pos(r, 0) = r
<1>1. \A o \in 0..Length : Pos(r, o) \in Index
  BY Wrapped DEF Pos
<1>2. \A m, o \in 0..Length : m + o <= Length => Pos(Pos(r, m), o) = Pos(r, m + o)
  <2>1. \A m, o \in 0..Length : r + (m + o) = r + m + o
    BY LengthAssumption DEF Index
  <2>. QED  BY <2>1, Wrapped DEF Pos
<1>3. \A m, o \in 0..Length - 1 : Pos(r, m) = Pos(r, o) => m = o
  BY Wrapped DEF Pos
<1>4. ASSUME NEW i \in Index PROVE \E o \in 0..Length - 1 : i = Pos(r, o)
  <2>1. CASE i >= r
    <3>1. i - r \in 0..Length - 1 /\ i = Pos(r, i - r)
      BY <2>1, LengthAssumption DEF Pos, Wrap, Index
    <3>. QED  BY <3>1
  <2>2. CASE ~(i >= r)
    <3>1. i - r + Length \in 0..Length - 1 /\ i = Pos(r, i - r + Length)
      BY <2>2, LengthAssumption DEF Pos, Wrap, Index
    <3>. QED  BY <3>1
  <2>. QED  BY <2>1, <2>2
<1>5. Pos(r, 0) = r
  BY LengthAssumption DEF Pos, Wrap, Index
<1>. QED  BY <1>1, <1>2, <1>3, <1>4, <1>5

\* The word of a block starts at most a word after the block.
LEMMA WordNear ==
  ASSUME NEW p \in Index
  PROVE  \E d \in 1..WordSize : p + d <= Length /\ WordAt(p) = Wrap(p + d)
<1>0. WordSize \in Nat \ {0} /\ Length \in Nat \ {0} /\ p \in 0..Length - 1
  BY WordAssumption, LengthAssumption DEF Index
<1>. DEFINE k == (p + WordSize) \div WordSize
            m == (p + WordSize) % WordSize
            l == Length \div WordSize
<1>1. p + WordSize = WordSize * k + m /\ m \in 0..WordSize - 1 /\ k \in Int
  BY <1>0
<1>2. Length = WordSize * l /\ l \in Int
  BY <1>0, LengthAssumption
<1>3. WordAt(p) = IF k * WordSize >= Length THEN 0 ELSE k * WordSize
  BY DEF WordAt
<1>. HIDE DEF k, m, l
<1>4. k <= l
  <2>1. CASE k >= l + 1
    <3>1. WordSize * k >= WordSize * (l + 1) /\ WordSize * k \in Int /\ WordSize * l \in Int
      BY <2>1, <1>0, <1>1, <1>2
    <3>2. WordSize * (l + 1) = WordSize * l + WordSize
      BY <1>0, <1>2
    <3>. QED  BY <3>1, <3>2, <1>0, <1>1, <1>2
  <2>. QED  BY <2>1, <1>1, <1>2
<1>5. WordSize * k <= WordSize * l /\ WordSize * k \in Int /\ k * WordSize = WordSize * k
  BY <1>0, <1>1, <1>2, <1>4
<1>. DEFINE d == WordSize - m
<1>6. d \in 1..WordSize /\ p + d = k * WordSize /\ p + d <= Length
  BY <1>0, <1>1, <1>2, <1>5
<1>7. WordAt(p) = Wrap(p + d)
  BY <1>0, <1>3, <1>6 DEF Wrap
<1>. QED  BY <1>6, <1>7

\* The word of a long block lies inside the block, before its last character.
LEMMA WordInBlock ==
  ASSUME NEW r \in Index, NEW f \in Nat, NEW s \in Nat, s >= LongMark, f + s <= Length
  PROVE  \E d \in 1..WordSize : \A k \in 0..WordSize - 1 :
           f + d + k \in f + 1..f + s - 2 /\ WordAt(Pos(r, f)) + k = Pos(r, f + d + k)
<1>. DEFINE p == Pos(r, f)
<1>0. /\ WordSize \in Nat \ {0} /\ Length \in Nat \ {0} /\ LongMark \in Nat
      /\ LongMark > 2 * WordSize /\ f \in 0..Length - 1
  BY WordAssumption, LengthAssumption
<1>1. p \in Index /\ p \in 0..Length - 1
  <2>1. f \in 0..Length
    BY <1>0
  <2>. QED  BY <2>1, PosFacts DEF Index
<1>2. PICK d \in 1..WordSize : p + d <= Length /\ WordAt(p) = Wrap(p + d)
  BY <1>1, WordNear
<1>3. WordAt(p) \in Nat /\ WordAt(p) + WordSize <= Length
  BY <1>1, WordInside
<1>. HIDE DEF p
<1>4. ASSUME NEW k \in 0..WordSize - 1
      PROVE  f + d + k \in f + 1..f + s - 2 /\ WordAt(p) + k = Pos(r, f + d + k)
  <2>1. f + d + k \in f + 1..f + s - 2
    BY <1>0
  <2>2. d + k \in 0..Length /\ f \in 0..Length /\ f + (d + k) <= Length /\ f + (d + k) = f + d + k
    BY <1>0, <2>1
  <2>3. Pos(p, d + k) = Pos(r, f + d + k)
    BY <2>2, PosFacts DEF p
  <2>4. Pos(p, d + k) = WordAt(p) + k
    BY <1>0, <1>1, <1>2, <1>3 DEF Pos, Wrap
  <2>. QED  BY <2>1, <2>3, <2>4
<1>. QED  BY <1>4 DEF p

LEMMA WordCovers ==
  ASSUME NEW r \in Index, NEW f \in Nat, NEW s \in Nat, s >= LongMark, f + s <= Length,
         NEW o \in 0..Length - 1, InWord(Pos(r, o), WordAt(Pos(r, f)))
  PROVE  o \in f + 1..f + s - 2
<1>. DEFINE w == WordAt(Pos(r, f))
            k == Pos(r, o) - w
<1>0. WordSize \in Nat \ {0} /\ Length \in Nat \ {0} /\ f \in 0..Length - 1 /\ f \in 0..Length
  BY WordAssumption, LengthAssumption
<1>1. w \in Nat /\ Pos(r, o) \in Int
  <2>1. Pos(r, f) \in Index /\ Pos(r, o) \in Index
    BY <1>0, PosFacts
  <2>. QED  BY <2>1, WordInside DEF Index
<1>2. k \in 0..WordSize - 1 /\ w + k = Pos(r, o)
  BY <1>0, <1>1 DEF InWord
<1>3. PICK d \in 1..WordSize : \A j \in 0..WordSize - 1 :
        f + d + j \in f + 1..f + s - 2 /\ w + j = Pos(r, f + d + j)
  BY WordInBlock
<1>. HIDE DEF w, k
<1>4. f + d + k \in f + 1..f + s - 2 /\ Pos(r, o) = Pos(r, f + d + k)
  BY <1>2, <1>3
<1>5. f + d + k \in 0..Length - 1
  BY <1>0, <1>4
<1>6. o = f + d + k
  BY <1>4, <1>5, PosFacts
<1>. QED  BY <1>4, <1>6

\* The length of a block is in the block.
LEMMA SizeLocal ==
  ASSUME NEW old, NEW new, NEW r \in Index, NEW f \in Nat, NEW s \in Nat, f + s <= Length,
         Sized(old, r, f, s), Low(new[Pos(r, f)]) = Low(old[Pos(r, f)]),
         \A o \in f + 1..f + s - 2 : new[Pos(r, o)] = old[Pos(r, o)]
  PROVE  Sized(new, r, f, s)
<1>. DEFINE p == Pos(r, f)
            w == WordAt(p)
<1>1. CASE Low(old[p]) = LongMark
  <2>1. s >= LongMark /\ s = WordValue(old, w)
    BY <1>1 DEF Sized, BlockSize
  <2>2. PICK d \in 1..WordSize : \A k \in 0..WordSize - 1 :
          f + d + k \in f + 1..f + s - 2 /\ w + k = Pos(r, f + d + k)
    BY <2>1, WordInBlock
  <2>3. 0 \in 0..WordSize - 1 /\ (WordSize > 1 => 1 \in 0..WordSize - 1)
    BY WordAssumption
  <2>4. w + 0 = w
    <3>1. p \in Index
      <4>1. f \in 0..Length
        BY LengthAssumption
      <4>. QED  BY <4>1, PosFacts
    <3>. QED  BY <3>1, WordInside
  <2>. HIDE DEF p, w
  <2>5. new[w] = old[w] /\ (WordSize > 1 => new[w + 1] = old[w + 1])
    BY <2>2, <2>3, <2>4
  <2>6. WordValue(new, w) = WordValue(old, w)
    BY <2>5 DEF WordValue
  <2>. QED  BY <1>1, <2>1, <2>6 DEF Sized, BlockSize, p, w
<1>2. CASE Low(old[p]) # LongMark
  BY <1>2 DEF Sized, BlockSize
<1>. QED  BY <1>1, <1>2

\* A length is read from its word as it was written.
LEMMA WordRead ==
  ASSUME NEW inf \in Infos, NEW w \in Nat, w + WordSize <= Length, NEW n, Fits(n)
  PROVE  WordValue(StoreWord(inf, w, n), w) = n
<1>0. /\ WordSize \in Nat \ {0} /\ Length \in Nat /\ n \in Nat /\ ByteSize \in Nat \ {0}
      /\ w \in Index /\ (WordSize > 1 => w + 1 \in Index)
  BY WordAssumption, LengthAssumption, Sizes DEF Fits, Index
<1>1. StoreWord(inf, w, n)[w] = n % ByteSize
  BY <1>0 DEF StoreWord, InWord, WordByte
<1>2. CASE WordSize > 1
  <2>1. StoreWord(inf, w, n)[w + 1] = n \div ByteSize
    <3>1. InWord(w + 1, w) /\ w + 1 - w = 1
      BY <1>0, <1>2 DEF InWord
    <3>. QED  BY <1>0, <1>2, <3>1 DEF StoreWord, WordByte
  <2>2. n = ByteSize * (n \div ByteSize) + (n % ByteSize) /\ n % ByteSize \in Nat
        /\ ByteSize * (n \div ByteSize) \in Int
    <3>. DEFINE b == ByteSize
    <3>1. b \in Nat \ {0}
      BY <1>0
    <3>. HIDE DEF b
    <3>2. n = b * (n \div b) + (n % b) /\ n % b \in Nat /\ b * (n \div b) \in Int
      BY <1>0, <3>1
    <3>. QED  BY <3>2 DEF b
  <2>3. (n % ByteSize) + ByteSize * (n \div ByteSize) = n
    BY <2>2
  <2>. QED  BY <1>1, <1>2, <2>1, <2>3 DEF WordValue
<1>3. CASE ~(WordSize > 1)
  <2>1. n < ByteSize
    BY <1>3 DEF Fits
  <2>2. ByteSize * 0 + n = n /\ n \in 0..ByteSize - 1
    BY <1>0, <2>1
  <2>3. n % ByteSize = n
    BY <1>0, <2>2, DivMod
  <2>. QED  BY <1>0, <1>1, <1>3, <2>3 DEF WordValue
<1>. QED  BY <1>2, <1>3

\* Writing the length s of the block at f changes info bytes of the block only, and
\* not the event at its end.
CountWritten(old, new, r, f, s) ==
  /\ new \in Infos /\ Sized(new, r, f, s)
  /\ High(new[Pos(r, f)]) = High(old[Pos(r, f)])
  /\ Low(new[Pos(r, f)]) = Lesser(s, LongMark)
  /\ \A o \in 0..Length - 1 :
       o # f /\ (s < LongMark \/ o < f \/ o >= f + s - 1) => new[Pos(r, o)] = old[Pos(r, o)]

LEMMA StoredCount ==
  ASSUME NEW inf \in Infos, NEW r \in Index, NEW f \in Nat, NEW s \in Nat \ {0}, f + s <= Length
  PROVE  CountWritten(inf, StoreCount(inf, Pos(r, f), s), r, f, s)
<1>. DEFINE p == Pos(r, f)
            w == WordAt(p)
            new == StoreCount(inf, p, s)
<1>0. /\ Length \in Nat \ {0} /\ f \in 0..Length - 1 /\ f \in 0..Length /\ s \in 0..Length
      /\ LongMark \in Nat \ {0}
  BY LengthAssumption, WordAssumption
<1>1. p \in Index /\ inf[p] \in 0..ByteSize - 1
  BY <1>0, PosFacts DEF Infos
<1>2. Fits(s)
  BY <1>0, LengthFits
<1>3. new \in Infos
  BY <1>1, <1>2, StoreCountType
<1>4. ASSUME NEW m \in 0..LongMark
      PROVE  Low(High(inf[p]) + m) = m /\ High(High(inf[p]) + m) = High(inf[p])
  BY <1>1, LowWritten
<1>5. ASSUME NEW o \in 0..Length - 1, o # f PROVE Pos(r, o) # p /\ Pos(r, o) \in Index
  <2>1. o \in 0..Length
    BY <1>0
  <2>2. \A m, n \in 0..Length - 1 : Pos(r, m) = Pos(r, n) => m = n
    BY PosFacts
  <2>3. Pos(r, o) \in Index
    BY <2>1, PosFacts
  <2>. QED  BY <1>0, <1>5, <2>2, <2>3
<1>. HIDE DEF p, w, new
<1>6. CASE s < LongMark
  <2>1. new = [inf EXCEPT ![p] = High(inf[p]) + s] /\ s \in 0..LongMark /\ Lesser(s, LongMark) = s
    BY <1>0, <1>6 DEF StoreCount, new, Lesser
  <2>2. new[p] = High(inf[p]) + s
    BY <1>1, <2>1 DEF Infos
  <2>3. Low(new[p]) = s /\ High(new[p]) = High(inf[p]) /\ s # LongMark
    BY <1>0, <1>4, <1>6, <2>1, <2>2
  <2>4. \A o \in 0..Length - 1 : o # f => new[Pos(r, o)] = inf[Pos(r, o)]
    BY <1>5, <2>1 DEF Infos
  <2>5. Sized(new, r, f, s)
    BY <2>3 DEF Sized, BlockSize, p
  <2>6. \A o \in 0..Length - 1 :
          o # f /\ (s < LongMark \/ o < f \/ o >= f + s - 1) => new[Pos(r, o)] = inf[Pos(r, o)]
    BY <2>4
  <2>7. High(new[p]) = High(inf[p]) /\ Low(new[p]) = Lesser(s, LongMark)
    BY <2>1, <2>3
  <2>. QED  BY <1>3, <2>5, <2>6, <2>7, Zenon DEF CountWritten, new, p
<1>7. CASE ~(s < LongMark)
  <2>. DEFINE x == [inf EXCEPT ![p] = High(inf[p]) + LongMark]
  <2>0. s >= LongMark /\ LongMark \in 0..LongMark /\ Lesser(s, LongMark) = LongMark
    BY <1>0, <1>7 DEF Lesser
  <2>1. x[p] = High(inf[p]) + LongMark /\ \A i \in Index : i # p => x[i] = inf[i]
    BY <1>1 DEF Infos
  <2>2. x \in Infos
    <3>1. High(inf[p]) + LongMark \in 0..ByteSize - 1
      BY <1>1, HalfBytes, Sizes
    <3>. QED  BY <3>1 DEF Infos
  <2>3. new = StoreWord(x, w, s)
    BY <1>7 DEF StoreCount, new, w
  <2>. HIDE DEF x
  <2>4. ASSUME NEW o \in 0..Length - 1, o <= f \/ o >= f + s - 1
        PROVE  new[Pos(r, o)] = x[Pos(r, o)]
    <3>1. ~InWord(Pos(r, o), w)
      BY <2>0, <2>4, WordCovers DEF p, w
    <3>2. Pos(r, o) \in Index
      BY <2>4, <1>0, PosFacts
    <3>. QED  BY <2>3, <3>1, <3>2 DEF StoreWord
  <2>5. new[p] = x[p]
    BY <1>0, <2>4 DEF p
  <2>6. WordValue(new, w) = s
    BY <1>1, <1>2, <2>2, <2>3, WordInside, WordRead DEF w
  <2>7. Low(new[p]) = LongMark /\ High(new[p]) = High(inf[p])
    BY <1>4, <2>0, <2>1, <2>5
  <2>8. \A o \in 0..Length - 1 : o # f /\ (o < f \/ o >= f + s - 1)
          => new[Pos(r, o)] = inf[Pos(r, o)]
    BY <1>0, <1>5, <2>1, <2>4
  <2>9. Sized(new, r, f, s)
    BY <2>0, <2>6, <2>7 DEF Sized, BlockSize, p, w
  <2>10. \A o \in 0..Length - 1 :
           o # f /\ (s < LongMark \/ o < f \/ o >= f + s - 1) => new[Pos(r, o)] = inf[Pos(r, o)]
    BY <1>7, <2>8
  <2>11. High(new[p]) = High(inf[p]) /\ Low(new[p]) = Lesser(s, LongMark)
    BY <2>0, <2>7
  <2>. QED  BY <1>3, <2>9, <2>10, <2>11, Zenon DEF CountWritten, new, p
<1>. QED  BY <1>6, <1>7

-----------------------------------------------------------------------------
(* What the operations do to the blocks *)

LEMMA EndFacts ==
  ASSUME NEW inf, NEW r, NEW last \in Nat, NEW E, Framed(inf, r, last, E)
  PROVE  /\ \A e \in E : e \in 0..last - 1 /\ e \in Nat
         /\ last > 0 => last - 1 \in E
         /\ last = 0 => E = {}
  BY DEF Framed

\* While the info bytes of the blocks stay, so do the blocks.
LEMMA FramesKept ==
  ASSUME NEW inf \in Infos, NEW r \in Index, NEW last \in 0..Length,
         NEW E, Framed(inf, r, last, E),
         NEW new, \A o \in 0..last - 1 : new[Pos(r, o)] = inf[Pos(r, o)]
  PROVE  Framed(new, r, last, E)
<1>0. last \in Nat /\ Length \in Nat /\ \A e \in E : e \in 0..last - 1 /\ e \in Nat
  BY LengthAssumption, EndFacts
<1>1. \A e \in E : High(new[Pos(r, e)]) # 0
  BY <1>0 DEF Framed
<1>2. ASSUME NEW f \in 0..last - 1, NEW e \in E, IsStart(E, f), Closes(E, f, e)
      PROVE  Sized(new, r, f, e - f + 1)
  <2>1. Sized(inf, r, f, e - f + 1)
    BY <1>2 DEF Framed
  <2>2. f <= e /\ e - f + 1 \in Nat /\ f + (e - f + 1) <= Length /\ f \in Nat
    BY <1>0, <1>2 DEF Closes
  <2>3. new[Pos(r, f)] = inf[Pos(r, f)]
    BY <1>2
  <2>4. \A o \in f + 1..f + (e - f + 1) - 2 : new[Pos(r, o)] = inf[Pos(r, o)]
    <3>1. \A o \in f + 1..f + (e - f + 1) - 2 : o \in 0..last - 1
      BY <1>0, <2>2
    <3>. QED  BY <3>1
  <2>. QED  BY <2>1, <2>2, <2>3, <2>4, SizeLocal
<1>. QED  BY <1>0, <1>1, <1>2 DEF Framed

\* A character without flags arrives after n others.
PlainPut(inf, new, r, n, last, E) ==
  /\ Blocks(new, r, last, n + 1, E)
  /\ Clean(inf, r, n, E) => Clean(new, r, n + 1, E)
  /\ \A o \in 0..n - 1 : new[Pos(r, o)] = inf[Pos(r, o)]

LEMMA PutPlain ==
  ASSUME NEW inf \in Infos, NEW r \in Index, NEW n \in 0..Length - 1, NEW last \in 0..n,
         NEW E, Blocks(inf, r, last, n, E),
         NEW new, new = [inf EXCEPT ![Pos(r, n)] = 0]
  PROVE  PlainPut(inf, new, r, n, last, E)
<1>0. /\ Length \in Nat \ {0} /\ last \in Nat /\ n \in Nat
      /\ last \in 0..Length /\ n \in last..Length
      /\ \A e \in E : e \in 0..last - 1 /\ e \in Nat
  BY LengthAssumption, EndFacts DEF Blocks
<1>1. Pos(r, n) \in Index /\ new[Pos(r, n)] = 0
  <2>1. n \in 0..Length
    BY <1>0
  <2>2. Pos(r, n) \in Index
    BY <2>1, PosFacts
  <2>. QED  BY <2>2 DEF Infos
<1>2. ASSUME NEW o \in 0..n - 1 PROVE new[Pos(r, o)] = inf[Pos(r, o)]
  <2>1. o \in 0..Length - 1 /\ o \in 0..Length /\ o # n
    BY <1>0
  <2>2. Pos(r, o) # Pos(r, n) /\ Pos(r, o) \in Index
    BY <2>1, PosFacts
  <2>. QED  BY <2>2 DEF Infos
<1>3. \A o \in 0..n : o \in 0..n - 1 \/ o = n
  BY <1>0
<1>4. Framed(new, r, last, E)
  <2>1. \A o \in 0..last - 1 : new[Pos(r, o)] = inf[Pos(r, o)]
    BY <1>0, <1>2
  <2>. QED  BY <1>0, <2>1, FramesKept DEF Blocks
<1>5. \A o \in last..n + 1 - 1 : new[Pos(r, o)] = 0
  <2>1. \A o \in last..n + 1 - 1 : o = n \/ (o \in last..n - 1 /\ o \in 0..n - 1)
    BY <1>0
  <2>2. \A o \in last..n - 1 : inf[Pos(r, o)] = 0
    BY DEF Blocks
  <2>. QED  BY <1>1, <1>2, <2>1, <2>2
<1>6. Blocks(new, r, last, n + 1, E)
  BY <1>4, <1>5 DEF Blocks
<1>7. ASSUME Clean(inf, r, n, E) PROVE Clean(new, r, n + 1, E)
  <2>1. Low(0) = 0 /\ High(0) = 0 /\ LongMark # 0
    BY FlagBytes, WordAssumption
  <2>2. \A o \in 0..n : o = n \/ o \in 0..n - 1
    BY <1>0
  <2>. QED  BY <1>1, <1>2, <1>7, <2>1, <2>2 DEF Clean
<1>. QED  BY <1>2, <1>6, <1>7 DEF PlainPut

\* A character with flags arrives after n others and closes a block.
EventPut(inf, put, new, r, n, last, E, fl) ==
  /\ Blocks(new, r, n + 1, n + 1, E \cup {n})
  /\ Clean(inf, r, n, E) /\ n + 1 - last < LongMark => Clean(new, r, n + 1, E \cup {n})
  /\ \A e \in E : new[Pos(r, e)] = inf[Pos(r, e)]
  /\ High(new[Pos(r, n)]) = fl

LEMMA PutEvent ==
  ASSUME NEW inf \in Infos, NEW r \in Index, NEW n \in 0..Length - 1, NEW last \in 0..n,
         NEW E, Blocks(inf, r, last, n, E),
         NEW fl \in 0..ByteSize - 1, fl # 0, High(fl) = fl, Low(fl) = 0,
         NEW put, put = [inf EXCEPT ![Pos(r, n)] = fl],
         NEW new, new = StoreCount(put, Pos(r, last), n + 1 - last)
  PROVE  EventPut(inf, put, new, r, n, last, E, fl)
<1>. DEFINE s == n + 1 - last
            E2 == E \cup {n}
<1>0. /\ Length \in Nat \ {0} /\ last \in Nat /\ n \in Nat
      /\ last \in 0..Length /\ n \in last..Length
      /\ \A e \in E : e \in 0..last - 1 /\ e \in Nat
      /\ last > 0 => last - 1 \in E
      /\ s \in Nat \ {0} /\ last + s = n + 1 /\ last + s <= Length
      /\ n \in 0..Length - 1 /\ last \in 0..Length - 1 /\ LongMark \in Nat \ {0}
  BY LengthAssumption, WordAssumption, EndFacts DEF Blocks
<1>1. \A o \in 0..Length - 1 : Pos(r, o) \in Index /\ (o # n => Pos(r, o) # Pos(r, n))
  <2>1. \A o \in 0..Length - 1 : o \in 0..Length
    BY <1>0
  <2>2. \A m, o \in 0..Length - 1 : Pos(r, m) = Pos(r, o) => m = o
    BY PosFacts
  <2>3. \A o \in 0..Length - 1 : Pos(r, o) \in Index
    BY <2>1, PosFacts
  <2>. QED  BY <1>0, <2>2, <2>3
<1>2. /\ put \in Infos /\ put[Pos(r, n)] = fl
      /\ \A o \in 0..Length - 1 : o # n => put[Pos(r, o)] = inf[Pos(r, o)]
  BY <1>0, <1>1 DEF Infos
<1>. HIDE DEF s
<1>3. /\ Sized(new, r, last, s)
      /\ High(new[Pos(r, last)]) = High(put[Pos(r, last)])
      /\ Low(new[Pos(r, last)]) = Lesser(s, LongMark)
      /\ \A o \in 0..Length - 1 :
           o # last /\ (s < LongMark \/ o < last \/ o >= last + s - 1)
             => new[Pos(r, o)] = put[Pos(r, o)]
  <2>1. new = StoreCount(put, Pos(r, last), s)
    BY DEF s
  <2>2. put \in Infos /\ last \in Nat /\ s \in Nat \ {0} /\ last + s <= Length
    BY <1>0, <1>2
  <2>3. CountWritten(put, new, r, last, s)
    BY <2>1, <2>2, StoredCount
  <2>. QED  BY <2>3 DEF CountWritten
<1>4. High(new[Pos(r, n)]) = fl
  <2>1. CASE n = last
    BY <1>2, <1>3, <2>1
  <2>2. CASE n # last
    <3>1. n >= last + s - 1
      BY <1>0
    <3>2. new[Pos(r, n)] = put[Pos(r, n)]
      BY <1>0, <1>3, <2>2, <3>1
    <3>. QED  BY <1>2, <3>2
  <2>. QED  BY <2>1, <2>2
<1>5. ASSUME NEW o \in 0..last - 1 PROVE new[Pos(r, o)] = inf[Pos(r, o)]
  <2>1. o \in 0..Length - 1 /\ o # n /\ o # last /\ o < last
    BY <1>0
  <2>. QED  BY <1>2, <1>3, <2>1
<1>6. Framed(new, r, last, E)
  BY <1>0, <1>5, FramesKept DEF Blocks
<1>7. E2 \in SUBSET (0..n) /\ n \in E2
  BY <1>0
<1>8. \A e \in E2 : High(new[Pos(r, e)]) # 0
  BY <1>4, <1>6 DEF Framed
<1>9. ASSUME NEW f \in 0..n, NEW e \in E2, IsStart(E2, f), Closes(E2, f, e)
      PROVE  Sized(new, r, f, e - f + 1)
  <2>1. f \in Nat /\ e \in Nat /\ f <= n /\ f <= e
    BY <1>0, <1>9 DEF Closes
  <2>2. IsStart(E, f)
    <3>1. f - 1 # n
      BY <1>0, <2>1
    <3>. QED  BY <1>9, <3>1 DEF IsStart
  <2>3. CASE f < last
    <3>1. last - 1 \in E2 /\ last - 1 >= f
      BY <1>0, <2>1, <2>3
    <3>2. e <= last - 1
      BY <1>9, <3>1 DEF Closes
    <3>3. e \in E /\ Closes(E, f, e)
      BY <1>0, <1>9, <3>2 DEF Closes
    <3>4. f \in 0..last - 1
      BY <1>0, <2>1, <2>3
    <3>. QED  BY <1>6, <2>2, <3>3, <3>4 DEF Framed
  <2>4. CASE f = last
    <3>1. e = n
      BY <1>0, <2>1, <2>4
    <3>2. e - f + 1 = s
      BY <1>0, <2>4, <3>1
    <3>. QED  BY <1>3, <2>4, <3>2
  <2>5. CASE f > last
    <3>1. f - 1 \in E /\ f # 0
      BY <1>0, <2>1, <2>2, <2>5 DEF IsStart
    <3>. QED  BY <1>0, <2>1, <2>5, <3>1
  <2>. QED  BY <1>0, <2>1, <2>3, <2>4, <2>5
<1>10. Blocks(new, r, n + 1, n + 1, E2)
  <2>1. \A o : o \notin n + 1..n + 1 - 1
    BY <1>0
  <2>. HIDE DEF E2
  <2>2. Framed(new, r, n + 1, E2)
    <3>. DEFINE m == n + 1
    <3>1. E2 \in SUBSET (0..m - 1) /\ (m > 0 => m - 1 \in E2)
      BY <1>0, <1>7
    <3>2. \A f \in 0..m - 1, e \in E2 :
            IsStart(E2, f) /\ Closes(E2, f, e) => Sized(new, r, f, e - f + 1)
      <4>1. 0..m - 1 = 0..n
        BY <1>0
      <4>. HIDE DEF m
      <4>. QED  BY <1>9, <4>1
    <3>. HIDE DEF m
    <3>3. Framed(new, r, m, E2)
      BY <1>8, <3>1, <3>2 DEF Framed
    <3>. QED  BY <3>3 DEF m
  <2>. QED  BY <2>1, <2>2 DEF Blocks
<1>11. ASSUME Clean(inf, r, n, E), s < LongMark PROVE Clean(new, r, n + 1, E2)
  <2>. HIDE DEF E2
  <2>. SUFFICES ASSUME NEW o \in 0..n
                PROVE  /\ Low(new[Pos(r, o)]) # LongMark
                       /\ o \notin E2 => High(new[Pos(r, o)]) = 0
                       /\ ~IsStart(E2, o) => Low(new[Pos(r, o)]) = 0
    <3>1. 0..n = 0..(n + 1) - 1
      BY <1>0
    <3>. QED  BY <3>1, Zenon DEF Clean
  <2>1. o \in Nat /\ o \in 0..Length - 1 /\ o <= n /\ (o = n \/ o \in 0..n - 1)
    BY <1>0
  <2>2. o # last => new[Pos(r, o)] = put[Pos(r, o)]
    BY <1>3, <1>11, <2>1
  <2>3. o \in 0..n - 1 /\ o >= last => inf[Pos(r, o)] = 0
    BY <1>0 DEF Blocks
  <2>4. o # n => put[Pos(r, o)] = inf[Pos(r, o)]
    BY <1>2, <2>1
  <2>5. Low(new[Pos(r, last)]) # LongMark
    BY <1>0, <1>3, <1>11 DEF Lesser
  <2>6. IsStart(E2, last)
    BY <1>0 DEF IsStart, E2
  <2>7. High(0) = 0 /\ Low(0) = 0
    BY FlagBytes
  <2>8. CASE o = last
    <3>1. o \notin E2 => High(put[Pos(r, o)]) = 0
      BY <2>1, <2>3, <2>4, <2>7, <2>8 DEF E2
    <3>. QED  BY <1>3, <2>5, <2>6, <2>8, <3>1
  <2>9. CASE o # last /\ o = n
    BY <1>0, <1>2, <2>2, <2>9 DEF E2
  <2>10. CASE o # last /\ o # n
    <3>1. o \in 0..n - 1 /\ (o \notin E2 => o \notin E) /\ (~IsStart(E2, o) => ~IsStart(E, o))
      BY <2>1, <2>10 DEF IsStart, E2
    <3>. QED  BY <1>11, <2>2, <2>4, <2>10, <3>1 DEF Clean
  <2>. QED  BY <2>8, <2>9, <2>10
<1>12. \A e \in E : new[Pos(r, e)] = inf[Pos(r, e)]
  BY <1>0, <1>5
<1>. QED  BY <1>4, <1>10, <1>11, <1>12 DEF s, EventPut

\* The events at and after offset m, counted from there.
Shift(E, m) == {o \in 0..Length : m + o \in E}

\* A read of m characters before the first event, where there are no events.
LEMMA ReadNoEvent ==
  ASSUME NEW inf \in Infos, NEW r \in Index, NEW n \in 0..Length,
         NEW E, Blocks(inf, r, 0, n, E), NEW m \in 0..n
  PROVE  /\ E = {} /\ Blocks(inf, Pos(r, m), 0, n - m, {})
         /\ Clean(inf, r, n, E) => Clean(inf, Pos(r, m), n - m, {})
<1>0. Length \in Nat /\ n \in Nat /\ m \in Nat /\ m \in 0..Length /\ E = {}
  BY LengthAssumption, EndFacts DEF Blocks
<1>1. ASSUME NEW o \in 0..n - m - 1
      PROVE  /\ o \in 0..Length /\ m + o \in 0..n - 1 /\ Pos(Pos(r, m), o) = Pos(r, m + o)
             /\ inf[Pos(r, m + o)] = 0
  <2>1. o \in 0..Length /\ m + o \in 0..n - 1 /\ m + o <= Length
    BY <1>0
  <2>2. Pos(Pos(r, m), o) = Pos(r, m + o)
    BY <1>0, <2>1, PosFacts
  <2>. QED  BY <2>1, <2>2 DEF Blocks
<1>2. Framed(inf, Pos(r, m), 0, {})
  BY DEF Framed
<1>3. Blocks(inf, Pos(r, m), 0, n - m, {})
  BY <1>1, <1>2 DEF Blocks
<1>4. Clean(inf, Pos(r, m), n - m, {})
  BY <1>1, FlagBytes, WordAssumption DEF Clean
<1>. QED  BY <1>0, <1>3, <1>4

\* A read of m characters up to the first event, at offset e: what is left of the
\* first block has the rest of its length.
BlockRead(inf, new, r, n, last, E, e, m) ==
  /\ Blocks(new, Pos(r, m), last - m, n - m, Shift(E, m))
  /\ Clean(inf, r, n, E) => Clean(new, Pos(r, m), n - m, Shift(E, m))
  /\ \A x \in Shift(E, m) : High(new[Pos(Pos(r, m), x)]) = High(inf[Pos(r, m + x)])

LEMMA ReadInBlock ==
  ASSUME NEW inf \in Infos, NEW r \in Index, NEW n \in 0..Length, NEW last \in 0..n,
         NEW E, Blocks(inf, r, last, n, E), NEW e \in E, Closes(E, 0, e),
         NEW m \in 0..e + 1,
         NEW new, new = IF e + 1 > m THEN StoreCount(inf, Pos(r, m), e + 1 - m) ELSE inf
  PROVE  BlockRead(inf, new, r, n, last, E, e, m)
<1>. DEFINE E2 == Shift(E, m)
            r2 == Pos(r, m)
            s  == e + 1 - m
<1>0. /\ Length \in Nat /\ n \in Nat /\ last \in Nat /\ m \in Nat /\ m \in 0..Length
      /\ \A d \in E : d \in 0..last - 1 /\ d \in Nat /\ e <= d
      /\ e \in Nat /\ last > 0 /\ last - 1 \in E /\ m <= last /\ e < last
      /\ LongMark \in Nat \ {0} /\ last - m \in Nat
  BY LengthAssumption, WordAssumption, EndFacts DEF Blocks, Closes
<1>1. ASSUME NEW o \in 0..n - m
      PROVE  o \in 0..Length /\ m + o \in 0..Length /\ m + o \in 0..n /\ Pos(r2, o) = Pos(r, m + o)
  <2>1. o \in 0..Length /\ m + o \in 0..Length /\ m + o \in 0..n /\ m + o <= Length
    BY <1>0
  <2>. QED  BY <1>0, <2>1, PosFacts
<1>2. \A x \in E2 : x \in Nat /\ m + x \in E /\ x \in 0..n - m /\ x \in 0..(last - m) - 1
                    /\ m + x >= e
  BY <1>0 DEF Shift
<1>3. \A d \in E : d >= m => d - m \in E2
  BY <1>0 DEF Shift
<1>. HIDE DEF E2, r2, s
<1>4. m <= e => CountWritten(inf, new, r, m, s)
  <2>1. SUFFICES ASSUME m <= e PROVE CountWritten(inf, new, r, m, s)
    OBVIOUS
  <2>2. new = StoreCount(inf, Pos(r, m), s) /\ s \in Nat \ {0} /\ m + s <= Length
    BY <1>0, <2>1 DEF s
  <2>. QED  BY <1>0, <2>2, StoredCount
<1>5. m > e => new = inf /\ m = e + 1
  BY <1>0
\* Nothing changes but before the event, where nothing is a start, and the new start.
<1>6. ASSUME NEW o \in 0..Length - 1, o >= e, o # m \/ m > e
      PROVE  new[Pos(r, o)] = inf[Pos(r, o)]
  <2>1. CASE m <= e
    <3>1. o # m /\ o >= m + s - 1
      BY <1>0, <1>6, <2>1 DEF s
    <3>. QED  BY <1>4, <2>1, <3>1 DEF CountWritten
  <2>2. CASE m > e
    BY <1>5, <2>2
  <2>. QED  BY <1>0, <2>1, <2>2
<1>7. m <= e => High(new[Pos(r, m)]) = High(inf[Pos(r, m)])
  BY <1>4 DEF CountWritten
<1>8. ASSUME NEW x \in E2 PROVE High(new[Pos(r2, x)]) = High(inf[Pos(r, m + x)])
  <2>1. x \in 0..n - m /\ x \in Nat /\ m + x \in 0..Length - 1 /\ m + x >= e
    BY <1>0, <1>2
  <2>2. Pos(r2, x) = Pos(r, m + x)
    BY <1>1, <2>1
  <2>3. CASE m + x = m /\ m <= e
    BY <1>7, <2>2, <2>3
  <2>4. CASE m + x # m \/ m > e
    BY <1>6, <2>1, <2>2, <2>4
  <2>. QED  BY <1>0, <2>3, <2>4
<1>9. ASSUME NEW f \in 0..(last - m) - 1, NEW x \in E2, IsStart(E2, f), Closes(E2, f, x)
      PROVE  Sized(new, r2, f, x - f + 1)
  <2>1. /\ f \in Nat /\ x \in Nat /\ f <= x /\ x - f + 1 \in Nat
        /\ m + x \in E /\ f \in 0..n - m /\ m + x < last
    BY <1>0, <1>2, <1>9 DEF Closes
  <2>2. Pos(r2, f) = Pos(r, m + f)
    BY <1>1, <2>1
  <2>3. Closes(E, m + f, m + x)
    <3>1. ASSUME NEW d \in E, d >= m + f PROVE m + x <= d
      <4>1. d - m \in E2 /\ d - m >= f
        BY <1>0, <1>3, <2>1, <3>1
      <4>. QED  BY <1>0, <1>9, <2>1, <4>1 DEF Closes
    <3>. QED  BY <1>0, <2>1, <3>1 DEF Closes
  <2>4. ASSUME IsStart(E, m + f), m + f >= e + 1 PROVE Sized(new, r, m + f, x - f + 1)
    <3>1. m + f \in 0..last - 1 /\ (m + x) - (m + f) + 1 = x - f + 1
      BY <1>0, <2>1
    <3>2. Sized(inf, r, m + f, x - f + 1)
      <4>1. Sized(inf, r, m + f, (m + x) - (m + f) + 1)
        BY <2>1, <2>3, <2>4, <3>1 DEF Blocks, Framed
      <4>. QED  BY <3>1, <4>1
    <3>3. \A o \in m + f..(m + f) + (x - f + 1) - 2 :
            new[Pos(r, o)] = inf[Pos(r, o)]
      <4>. SUFFICES ASSUME NEW o \in m + f..(m + f) + (x - f + 1) - 2
                    PROVE  new[Pos(r, o)] = inf[Pos(r, o)]
        OBVIOUS
      <4>1. o \in 0..Length - 1 /\ o >= e /\ (o # m \/ m > e)
        BY <1>0, <2>1, <2>4
      <4>. QED  BY <1>6, <4>1
    <3>4. new[Pos(r, m + f)] = inf[Pos(r, m + f)]
      <4>1. m + f \in 0..Length - 1 /\ m + f >= e /\ (m + f # m \/ m > e)
        BY <1>0, <2>1, <2>4
      <4>. QED  BY <1>6, <4>1
    <3>5. /\ m + f \in Nat /\ (m + f) + (x - f + 1) <= Length
          /\ \A o \in (m + f) + 1..(m + f) + (x - f + 1) - 2 :
               o \in m + f..(m + f) + (x - f + 1) - 2
      BY <1>0, <2>1
    <3>. QED  BY <2>1, <3>2, <3>3, <3>4, <3>5, SizeLocal
  <2>5. CASE f # 0
    <3>1. m + (f - 1) \in E /\ m + (f - 1) = m + f - 1
      BY <1>0, <1>2, <1>9, <2>1, <2>5 DEF IsStart
    <3>2. IsStart(E, m + f) /\ m + f >= e + 1
      BY <1>0, <2>1, <3>1 DEF IsStart
    <3>. QED  BY <2>2, <2>4, <3>2 DEF Sized
  <2>6. CASE f = 0 /\ m > e
    <3>1. IsStart(E, m + f) /\ m + f >= e + 1
      BY <1>0, <1>5, <2>6 DEF IsStart
    <3>. QED  BY <2>2, <2>4, <3>1 DEF Sized
  <2>7. CASE f = 0 /\ m <= e
    <3>1. m + x <= e /\ m + x >= e
      BY <1>0, <1>2, <2>3, <2>7 DEF Closes
    <3>2. x - f + 1 = s /\ m + f = m
      BY <1>0, <2>1, <2>7, <3>1 DEF s
    <3>3. Sized(new, r, m, s)
      BY <1>4, <2>7 DEF CountWritten
    <3>. QED  BY <2>2, <3>2, <3>3 DEF Sized
  <2>. QED  BY <1>0, <2>1, <2>5, <2>6, <2>7
<1>10. Framed(new, r2, last - m, E2)
  <2>1. E2 \in SUBSET (0..(last - m) - 1)
    BY <1>2
  <2>2. last - m > 0 => (last - m) - 1 \in E2
    <3>1. SUFFICES ASSUME last - m > 0 PROVE (last - m) - 1 \in E2
      OBVIOUS
    <3>2. last - 1 >= m /\ (last - 1) - m = (last - m) - 1
      BY <1>0, <3>1
    <3>. QED  BY <1>0, <1>3, <3>2
  <2>3. \A x \in E2 : High(new[Pos(r2, x)]) # 0
    BY <1>2, <1>8 DEF Blocks, Framed
  <2>. QED  BY <1>9, <2>1, <2>2, <2>3 DEF Framed
<1>11. ASSUME NEW o \in last - m..(n - m) - 1 PROVE new[Pos(r2, o)] = 0
  <2>1. o \in 0..n - m /\ m + o \in last..n - 1 /\ m + o \in 0..Length - 1 /\ m + o >= e
        /\ (m + o # m \/ m > e)
    BY <1>0
  <2>2. inf[Pos(r, m + o)] = 0
    BY <2>1 DEF Blocks
  <2>. QED  BY <1>1, <1>6, <2>1, <2>2
<1>12. Blocks(new, r2, last - m, n - m, E2)
  BY <1>10, <1>11 DEF Blocks
<1>13. ASSUME Clean(inf, r, n, E) PROVE Clean(new, r2, n - m, E2)
  <2>1. m <= e => s < LongMark
    <3>1. Low(inf[Pos(r, 0)]) # LongMark
      <4>1. 0 \in 0..n - 1
        BY <1>0
      <4>. QED  BY <1>13, <4>1 DEF Clean
    <3>2. Sized(inf, r, 0, e + 1)
      <4>1. 0 \in 0..last - 1 /\ IsStart(E, 0) /\ e - 0 + 1 = e + 1
        BY <1>0 DEF IsStart
      <4>2. Sized(inf, r, 0, e - 0 + 1)
        BY <4>1 DEF Blocks, Framed
      <4>. QED  BY <4>1, <4>2
    <3>3. Low(inf[Pos(r, 0)]) = e + 1
      BY <3>1, <3>2 DEF Sized, BlockSize
    <3>4. Low(inf[Pos(r, 0)]) \in 0..LongMark
      <4>1. Pos(r, 0) \in Index
        BY <1>0, PosFacts
      <4>. QED  BY <4>1, HalfBytes DEF Infos
    <3>. QED  BY <1>0, <3>1, <3>3, <3>4 DEF s
  <2>2. ASSUME NEW o \in 0..Length - 1, o # m \/ m > e PROVE new[Pos(r, o)] = inf[Pos(r, o)]
    <3>1. CASE m <= e
      BY <1>0, <1>4, <2>1, <2>2, <3>1 DEF CountWritten
    <3>2. CASE m > e
      BY <1>5, <3>2
    <3>. QED  BY <1>0, <3>1, <3>2
  <2>. SUFFICES ASSUME NEW o \in 0..(n - m) - 1
                PROVE  /\ Low(new[Pos(r2, o)]) # LongMark
                       /\ o \notin E2 => High(new[Pos(r2, o)]) = 0
                       /\ ~IsStart(E2, o) => Low(new[Pos(r2, o)]) = 0
    BY DEF Clean
  <2>3. /\ o \in Nat /\ o \in 0..n - m /\ m + o \in 0..n - 1 /\ m + o \in 0..Length - 1
        /\ Pos(r2, o) = Pos(r, m + o)
    BY <1>0, <1>1
  <2>4. o \notin E2 => m + o \notin E
    BY <2>3, <1>1 DEF E2, Shift
  <2>5. ~IsStart(E2, o) => o # 0 /\ ~IsStart(E, m + o)
    <3>1. o # 0 /\ m + o - 1 \in E => o - 1 \in E2
      <4>1. o # 0 => (m + o - 1) - m = o - 1 /\ m + o - 1 >= m
        BY <1>0, <2>3
      <4>. QED  BY <1>3, <4>1
    <3>. QED  BY <1>0, <2>3, <3>1 DEF IsStart
  <2>6. /\ Low(inf[Pos(r, m + o)]) # LongMark
        /\ m + o \notin E => High(inf[Pos(r, m + o)]) = 0
        /\ ~IsStart(E, m + o) => Low(inf[Pos(r, m + o)]) = 0
    BY <1>13, <2>3 DEF Clean
  <2>7. CASE o # 0 \/ m > e
    <3>1. new[Pos(r2, o)] = inf[Pos(r, m + o)]
      <4>1. m + o # m \/ m > e
        BY <1>0, <2>3, <2>7
      <4>. QED  BY <2>2, <2>3, <4>1
    <3>. QED  BY <2>4, <2>5, <2>6, <3>1
  <2>8. CASE o = 0 /\ m <= e
    <3>1. m + o = m
      BY <1>0, <2>8
    <3>2. Low(new[Pos(r, m)]) # LongMark /\ High(new[Pos(r, m)]) = High(inf[Pos(r, m)])
      BY <1>0, <1>4, <2>1, <2>8 DEF CountWritten, Lesser
    <3>. QED  BY <2>3, <2>4, <2>5, <2>6, <2>8, <3>1, <3>2
  <2>. QED  BY <1>0, <2>7, <2>8
<1>. QED  BY <1>8, <1>12, <1>13 DEF E2, r2, BlockRead

-----------------------------------------------------------------------------
(* The rescan, and the blocks *)

LEMMA AtPos == \A o : At(o) = Pos(iRemP, o)
  BY DEF At, Pos

\* Every event closes a block, which starts after the event before it.
LEMMA OpenerExists ==
  ASSUME NEW E \in SUBSET Nat, NEW e \in E
  PROVE  \E f \in 0..e : IsStart(E, f) /\ Closes(E, f, e)
<1>. DEFINE before == {d \in E : d < e}
<1>1. CASE before = {}
  <2>1. IsStart(E, 0) /\ Closes(E, 0, e) /\ 0 \in 0..e
    BY <1>1 DEF IsStart, Closes
  <2>. QED  BY <2>1
<1>2. CASE before # {}
  <2>1. e - 1 \in Nat /\ before \in SUBSET (0..e - 1)
    <3>1. e \in Nat /\ \A d \in before : d \in Nat /\ d < e
      OBVIOUS
    <3>2. PICK d \in before : TRUE
      BY <1>2
    <3>. HIDE DEF before
    <3>3. e - 1 \in Nat
      BY <3>1, <3>2
    <3>. QED  BY <3>1, <3>3
  <2>. HIDE DEF before
  <2>2. PICK d \in before : \A c \in before : c <= d
    BY <1>2, <2>1, GreatestNatural
  <2>3. /\ d \in E /\ d \in Nat /\ d < e /\ d + 1 \in 0..e /\ d + 1 - 1 = d
        /\ \A c \in E : c < e => c <= d
    BY <2>2 DEF before
  <2>4. IsStart(E, d + 1) /\ Closes(E, d + 1, e)
    BY <2>3 DEF IsStart, Closes
  <2>. QED  BY <2>3, <2>4
<1>. QED  BY <1>1, <1>2

\* From a start before the last event, the event that closes the block.
LEMMA CloserExists ==
  ASSUME NEW E \in SUBSET Nat, NEW last \in Nat, last - 1 \in E, NEW f \in 0..last - 1
  PROVE  \E e \in E : Closes(E, f, e)
<1>. DEFINE later == {e \in E : e >= f}
<1>1. later \in SUBSET Nat /\ last - 1 \in later
  <2>1. last - 1 >= f
    OBVIOUS
  <2>. QED  BY <2>1
<1>. HIDE DEF later
<1>2. PICK e \in later : \A d \in later : e <= d
  BY <1>1, LeastNatural
<1>3. e \in E /\ Closes(E, f, e)
  BY <1>2 DEF later, Closes
<1>. QED  BY <1>3

LEMMA StripLengths ==
  ASSUME info \in Infos, iRemP \in Index, iCount \in 0..Length, NEW last \in 0..iCount,
         NEW E, Blocks(info, iRemP, last, iCount, E), Clean(info, iRemP, iCount, E)
  PROVE  /\ \A o \in 0..iCount - 1 : StripLength(o) \in Nat
         /\ \A f \in 0..last - 1, e \in E :
              IsStart(E, f) /\ Closes(E, f, e) => StripLength(f) = e - f + 1
         /\ \A o \in last..iCount - 1 : StripLength(o) = iCount - o
<1>0. Length \in Nat /\ iCount \in Nat /\ last \in Nat
  BY LengthAssumption
<1>1. ASSUME NEW o \in 0..iCount - 1 PROVE StripLength(o) \in Nat
  <2>1. At(o) \in Index
    <3>1. o \in 0..Length
      BY <1>0
    <3>. QED  BY <3>1, AtPos, PosFacts
  <2>2. BlockSize(info, At(o)) \in Nat
    BY <2>1, BlockFits DEF Fits
  <2>. QED  BY <1>0, <2>2 DEF StripLength
<1>2. ASSUME NEW f \in 0..last - 1, NEW e \in E, IsStart(E, f), Closes(E, f, e)
      PROVE  StripLength(f) = e - f + 1
  <2>1. BlockSize(info, At(f)) = e - f + 1
    BY <1>2, AtPos DEF Blocks, Framed, Sized
  <2>2. Low(info[At(f)]) # LongMark
    <3>1. f \in 0..iCount - 1
      BY <1>0
    <3>. QED  BY <3>1, AtPos DEF Clean
  <2>3. Low(info[At(f)]) = e - f + 1 /\ e - f + 1 > 0
    <3>1. f <= e /\ e \in Nat
      BY <1>0, <1>2 DEF Closes, Blocks, Framed
    <3>. QED  BY <2>1, <2>2, <3>1 DEF BlockSize
  <2>4. info[At(f)] \notin {0, TermFlag}
    BY <2>3, FlagBytes
  <2>. QED  BY <2>1, <2>4 DEF StripLength
<1>3. ASSUME NEW o \in last..iCount - 1 PROVE StripLength(o) = iCount - o
  <2>1. info[At(o)] = 0
    BY AtPos DEF Blocks
  <2>. QED  BY <2>1 DEF StripLength
<1>. QED  BY <1>1, <1>2, <1>3

\* Pass 2 stops at the start of every block, and of what follows the last one.
LEMMA StripStartsAre ==
  ASSUME info \in Infos, iRemP \in Index, iCount \in 0..Length, NEW last \in 0..iCount,
         NEW E, Blocks(info, iRemP, last, iCount, E), Clean(info, iRemP, iCount, E)
  PROVE  StripStarts = {f \in 0..iCount - 1 : IsStart(E, f)}
<1>. DEFINE len(o) == StripLength(o)
            IsStarts(f) == f = [o \in 0..Length |->
              IF o >= iCount THEN {}
              ELSE IF StripLength(o) = 0 THEN {o}
              ELSE {o} \cup f[Lesser(o + StripLength(o), Length)]]
            from == CHOOSE f : IsStarts(f)
            goes(o) == o < iCount /\ len(o) # 0
            base == [o \in 0..Length |-> IF o >= iCount THEN {} ELSE {o}]
            stop == [o \in 0..Length |-> ~goes(o)]
            next == [o \in 0..Length |-> Lesser(o + len(o), Length)]
<1>0. /\ Length \in Nat /\ iCount \in Nat /\ last \in Nat /\ iCount <= Length
      /\ \A e \in E : e \in 0..last - 1 /\ e \in Nat
      /\ last > 0 => last - 1 \in E
  BY LengthAssumption, EndFacts DEF Blocks
<1>1. StripStarts = from[0]
  BY DEF StripStarts
<1>2. \A o \in 0..iCount - 1 : len(o) \in Nat
  BY StripLengths
<1>3. Ahead(Length, stop, next)
  <2>. HIDE DEF len
  <2>. SUFFICES ASSUME NEW o \in 0..Length, ~stop[o] PROVE next[o] \in o + 1..Length
    BY DEF Ahead
  <2>1. goes(o) /\ next[o] = Lesser(o + len(o), Length)
    OBVIOUS
  <2>2. o \in 0..iCount - 1
    BY <1>0, <2>1
  <2>. QED  BY <1>0, <1>2, <2>1, <2>2 DEF Lesser
<1>4. PICK f : Gathers(f, 0, Length, base, stop, next)
  <2>. HIDE DEF base, stop, next
  <2>. QED  BY <1>0, <1>3, GatherExists
<1>5. IsStarts(f)
  <2>1. f = [o \in 0..Length |-> IF stop[o] THEN base[o] ELSE base[o] \cup f[next[o]]]
    BY <1>4 DEF Gathers
  <2>. HIDE DEF len
  <2>2. ASSUME NEW o \in 0..Length
        PROVE  (IF stop[o] THEN base[o] ELSE base[o] \cup f[next[o]])
                 = (IF o >= iCount THEN {}
                    ELSE IF len(o) = 0 THEN {o}
                    ELSE {o} \cup f[Lesser(o + len(o), Length)])
    <3>1. (stop[o] <=> ~goes(o)) /\ next[o] = Lesser(o + len(o), Length)
      OBVIOUS
    <3>2. base[o] = IF o >= iCount THEN {} ELSE {o}
      OBVIOUS
    <3>. HIDE DEF stop, base, next
    <3>3. CASE o >= iCount
      BY <1>0, <3>1, <3>2, <3>3
    <3>4. CASE o < iCount /\ len(o) = 0
      BY <1>0, <3>1, <3>2, <3>4
    <3>5. CASE o < iCount /\ len(o) # 0
      <4>1. ~stop[o] /\ ~(o >= iCount)
        BY <1>0, <3>1, <3>5
      <4>. QED  BY <3>1, <3>2, <3>5, <4>1
    <3>. QED  BY <1>0, <3>3, <3>4, <3>5
  <2>. HIDE DEF stop, base, next
  <2>3. f = [o \in 0..Length |->
               IF o >= iCount THEN {}
               ELSE IF len(o) = 0 THEN {o}
               ELSE {o} \cup f[Lesser(o + len(o), Length)]]
    BY <2>1, <2>2
  <2>. QED  BY <2>3 DEF len
<1>6. IsStarts(from)
  BY <1>5
<1>. HIDE DEF from
<1>7. \A o \in 0..Length :
        from[o] = IF o >= iCount THEN {}
                  ELSE IF len(o) = 0 THEN {o}
                  ELSE {o} \cup from[Lesser(o + len(o), Length)]
  <2>. DEFINE rhs(o) == IF o >= iCount THEN {}
                  ELSE IF len(o) = 0 THEN {o}
                  ELSE {o} \cup from[Lesser(o + len(o), Length)]
  <2>1. from = [o \in 0..Length |-> rhs(o)]
    BY <1>6, Zenon
  <2>. HIDE DEF rhs
  <2>2. \A o \in 0..Length : from[o] = rhs(o)
    BY <2>1
  <2>. QED  BY <2>2 DEF rhs
<1>8. /\ \A f0 \in 0..last - 1, e \in E :
            IsStart(E, f0) /\ Closes(E, f0, e) => len(f0) = e - f0 + 1
      /\ \A o \in last..iCount - 1 : len(o) = iCount - o
  BY StripLengths
<1>. HIDE DEF len
<1>. DEFINE Starts(o) == {s \in 0..iCount - 1 : s >= o /\ IsStart(E, s)}
            Bad == {o \in 0..Length : IsStart(E, o) /\ from[o] # Starts(o)}
<1>9. Bad = {}
  <2>1. SUFFICES ASSUME Bad # {} PROVE FALSE
    OBVIOUS
  <2>2. PICK o \in Bad : \A p \in Bad : p <= o
    <3>1. Bad \in SUBSET (0..Length)
      OBVIOUS
    <3>. HIDE DEF Bad
    <3>. QED  BY <1>0, <2>1, <3>1, GreatestNatural
  <2>3. o \in 0..Length /\ o \in Nat /\ IsStart(E, o) /\ from[o] # Starts(o)
    BY <1>0, <2>2
  <2>4. o < iCount
    <3>1. SUFFICES ASSUME o >= iCount PROVE FALSE
      BY <1>0, <2>3
    <3>2. from[o] = {}
      BY <1>7, <2>3, <3>1
    <3>3. Starts(o) = {}
      BY <1>0, <2>3, <3>1
    <3>. QED  BY <2>3, <3>2, <3>3
  <2>5. CASE o < last
    <3>1. PICK e \in E : Closes(E, o, e)
      <4>1. E \in SUBSET Nat /\ last - 1 \in E /\ o \in 0..last - 1
        BY <1>0, <2>3, <2>5
      <4>. QED  BY <1>0, <4>1, CloserExists
    <3>2. e \in Nat /\ o <= e /\ e < last
      BY <1>0, <3>1 DEF Closes
    <3>3. len(o) = e - o + 1
      <4>1. o \in 0..last - 1
        BY <1>0, <2>3, <2>5
      <4>. QED  BY <1>8, <2>3, <3>1, <4>1
    <3>4. from[o] = {o} \cup from[e + 1]
      <4>1. len(o) # 0 /\ Lesser(o + len(o), Length) = e + 1
        BY <1>0, <2>3, <3>2, <3>3 DEF Lesser
      <4>2. from[o] = IF o >= iCount THEN {}
                      ELSE IF len(o) = 0 THEN {o}
                      ELSE {o} \cup from[Lesser(o + len(o), Length)]
        BY <1>7, <2>3
      <4>. QED  BY <1>0, <2>3, <2>4, <4>1, <4>2
    <3>5. from[e + 1] = Starts(e + 1)
      <4>1. e + 1 \in 0..Length /\ e + 1 > o /\ IsStart(E, e + 1)
        BY <1>0, <2>3, <3>2 DEF IsStart
      <4>. QED  BY <2>2, <2>3, <4>1
    <3>6. Starts(o) = {o} \cup Starts(e + 1)
      <4>1. ASSUME NEW s \in Starts(o) PROVE s \in {o} \cup Starts(e + 1)
        <5>1. s \in 0..iCount - 1 /\ s >= o /\ IsStart(E, s)
          BY <4>1
        <5>2. CASE s = o
          BY <5>2
        <5>3. CASE s # o
          <6>1. s - 1 \in E /\ s - 1 >= o
            BY <1>0, <2>3, <5>1, <5>3 DEF IsStart
          <6>2. e <= s - 1
            BY <3>1, <6>1 DEF Closes
          <6>. QED  BY <1>0, <3>2, <5>1, <6>2
        <5>. QED  BY <5>2, <5>3
      <4>2. ASSUME NEW s \in Starts(e + 1) PROVE s \in Starts(o)
        BY <1>0, <2>3, <3>2, <4>2
      <4>3. o \in Starts(o)
        BY <1>0, <2>3, <2>4
      <4>. QED  BY <4>1, <4>2, <4>3
    <3>. QED  BY <2>3, <3>4, <3>5, <3>6
  <2>6. CASE ~(o < last)
    <3>1. o \in last..iCount - 1 /\ o \in 0..iCount - 1
      BY <1>0, <2>3, <2>4, <2>6
    <3>2. len(o) = iCount - o
      BY <1>8, <3>1
    <3>3. from[o] = {o} \cup from[iCount]
      <4>1. len(o) # 0 /\ Lesser(o + len(o), Length) = iCount
        BY <1>0, <2>3, <2>4, <3>2 DEF Lesser
      <4>2. from[o] = IF o >= iCount THEN {}
                      ELSE IF len(o) = 0 THEN {o}
                      ELSE {o} \cup from[Lesser(o + len(o), Length)]
        BY <1>7, <2>3
      <4>. QED  BY <1>0, <2>3, <2>4, <4>1, <4>2
    <3>4. from[iCount] = {}
      <4>1. iCount \in 0..Length /\ iCount >= iCount
        BY <1>0
      <4>. QED  BY <1>7, <4>1
    <3>5. Starts(o) = {o}
      <4>1. ASSUME NEW s \in Starts(o) PROVE s = o
        <5>1. s \in 0..iCount - 1 /\ s >= o /\ IsStart(E, s)
          BY <4>1
        <5>2. s # 0 => s - 1 \in 0..last - 1
          BY <1>0, <5>1 DEF IsStart
        <5>. QED  BY <1>0, <2>3, <2>6, <5>1, <5>2
      <4>. QED  BY <2>3, <3>1, <4>1
    <3>. QED  BY <2>3, <3>3, <3>4, <3>5
  <2>. QED  BY <2>5, <2>6
<1>10. from[0] = Starts(0)
  BY <1>0, <1>9 DEF IsStart
<1>11. Starts(0) = {s \in 0..iCount - 1 : IsStart(E, s)}
  BY <1>0
<1>. QED  BY <1>1, <1>10, <1>11

\* OffsetOf is the way back.
LEMMA OffsetBack ==
  ASSUME iRemP \in Index, NEW o \in 0..Length - 1
  PROVE  At(o) \in Index /\ OffsetOf(At(o)) = o
  BY LengthAssumption DEF Index, At, Wrap, OffsetOf

\* Passes 1 and 2 leave the error flags.
LEMMA StrippedFacts ==
  ASSUME info \in Infos, iRemP \in Index, iCount \in 0..Length, NEW last \in 0..iCount,
         NEW E, Blocks(info, iRemP, last, iCount, E), Clean(info, iRemP, iCount, E)
  PROVE  /\ ~RescanHangs
         /\ \A o \in 0..iCount - 1 : Stripped[At(o)] = Unterm(High(info[At(o)]))
<1>. DEFINE starts == StripStarts
            ends   == {o + StripLength(o) - 1 : o \in starts}
            longs  == {o \in starts : Low(info[At(o)]) = LongMark}
            cut(i) == IF \E o \in longs : InWord(i, WordAt(At(o))) THEN 0
                      ELSE IF OffsetOf(i) \in starts \ longs THEN High(info[i])
                      ELSE info[i]
<1>0. /\ Length \in Nat /\ iCount \in Nat /\ last \in Nat /\ iCount <= Length
      /\ \A e \in E : e \in 0..last - 1 /\ e \in Nat
  BY LengthAssumption, EndFacts DEF Blocks
<1>1. starts = {f \in 0..iCount - 1 : IsStart(E, f)}
  BY StripStartsAre
<1>2. /\ \A f \in 0..last - 1, e \in E :
           IsStart(E, f) /\ Closes(E, f, e) => StripLength(f) = e - f + 1
      /\ \A o \in last..iCount - 1 : StripLength(o) = iCount - o
  BY StripLengths
<1>3. Stripped = [i \in Index |-> IF OffsetOf(i) \in ends THEN Unterm(cut(i)) ELSE cut(i)]
  BY DEF Stripped
<1>4. longs = {}
  BY <1>1, AtPos DEF Clean
<1>. HIDE DEF starts, longs
<1>5. ASSUME NEW f \in starts PROVE StripLength(f) # 0
  <2>1. f \in 0..iCount - 1 /\ IsStart(E, f)
    BY <1>1
  <2>2. CASE f < last
    <3>1. f \in 0..last - 1 /\ last - 1 \in E /\ E \in SUBSET Nat
      BY <1>0, <2>1, <2>2 DEF Blocks, Framed
    <3>2. PICK e \in E : Closes(E, f, e)
      BY <1>0, <3>1, CloserExists
    <3>3. StripLength(f) = e - f + 1 /\ f <= e
      BY <1>2, <2>1, <3>1, <3>2 DEF Closes
    <3>. QED  BY <1>0, <2>1, <3>3
  <2>3. CASE ~(f < last)
    <3>1. f \in last..iCount - 1
      BY <1>0, <2>1, <2>3
    <3>. QED  BY <1>0, <1>2, <3>1
  <2>. QED  BY <2>2, <2>3
<1>6. ~RescanHangs
  BY <1>5 DEF RescanHangs, starts
<1>7. ASSUME NEW o \in 0..iCount - 1 PROVE Stripped[At(o)] = Unterm(High(info[At(o)]))
  <2>1. o \in 0..Length - 1 /\ o \in Nat
    BY <1>0
  <2>2. At(o) \in Index /\ OffsetOf(At(o)) = o /\ info[At(o)] \in 0..ByteSize - 1
    BY <2>1, OffsetBack DEF Infos
  <2>3. cut(At(o)) = High(info[At(o)])
    <3>1. cut(At(o)) = IF o \in starts THEN High(info[At(o)]) ELSE info[At(o)]
      BY <1>4, <2>2
    <3>. HIDE DEF cut
    <3>2. o \notin starts => Low(info[At(o)]) = 0
      BY <1>1, AtPos DEF Clean
    <3>3. info[At(o)] = High(info[At(o)]) + Low(info[At(o)]) /\ High(info[At(o)]) \in Int
      BY <2>2, Halves
    <3>. QED  BY <3>1, <3>2, <3>3
  <2>4. Stripped[At(o)] = IF o \in ends THEN Unterm(High(info[At(o)])) ELSE High(info[At(o)])
    <3>. HIDE DEF cut, ends
    <3>. QED  BY <1>3, <2>2, <2>3
  <2>5. o \in E => o \in ends
    <3>1. SUFFICES ASSUME o \in E PROVE o \in ends
      OBVIOUS
    <3>2. E \in SUBSET Nat
      BY <1>0
    <3>3. PICK f \in 0..o : IsStart(E, f) /\ Closes(E, f, o)
      BY <3>1, <3>2, OpenerExists
    <3>4. f \in 0..last - 1 /\ f \in 0..iCount - 1 /\ f \in starts /\ f \in Nat
      BY <1>0, <1>1, <2>1, <3>1, <3>3
    <3>5. StripLength(f) = o - f + 1
      BY <1>2, <3>1, <3>3, <3>4
    <3>6. o = f + StripLength(f) - 1
      BY <2>1, <3>4, <3>5
    <3>. QED  BY <3>4, <3>6
  <2>6. o \notin E => High(info[At(o)]) = 0
    BY AtPos DEF Clean
  <2>7. Unterm(0) = 0
    BY <2>2, Reflagged
  <2>. HIDE DEF ends
  <2>. QED  BY <2>4, <2>5, <2>6, <2>7
<1>. QED  BY <1>6, <1>7

\* So pass 3 finds each character with the flags it has afresh, and no length.
Afresh(o, T) ==
  IF charAt[At(o)] \in T THEN AsTerm(Unterm(High(info[At(o)]))) ELSE Unterm(High(info[At(o)]))

LEMMA FlaggedFacts ==
  ASSUME info \in Infos, iRemP \in Index, iCount \in 0..Length, NEW last \in 0..iCount,
         NEW E, Blocks(info, iRemP, last, iCount, E), Clean(info, iRemP, iCount, E),
         NEW T
  PROVE  /\ Flagged(Stripped, T) \in Infos
         /\ \A o \in 0..iCount - 1 :
              /\ Flagged(Stripped, T)[At(o)] = Afresh(o, T)
              /\ Low(Afresh(o, T)) = 0 /\ High(Afresh(o, T)) = Afresh(o, T)
<1>1. Flagged(Stripped, T) \in Infos
  BY StrippedType, FlaggedType
<1>2. ASSUME NEW o \in 0..iCount - 1
      PROVE  /\ Flagged(Stripped, T)[At(o)] = Afresh(o, T)
             /\ Low(Afresh(o, T)) = 0 /\ High(Afresh(o, T)) = Afresh(o, T)
  <2>1. o \in 0..Length - 1
    BY LengthAssumption
  <2>2. At(o) \in Index /\ OffsetOf(At(o)) = o /\ OffsetOf(At(o)) < iCount
    BY <2>1, OffsetBack, LengthAssumption
  <2>3. Stripped[At(o)] = Unterm(High(info[At(o)]))
    BY StrippedFacts
  <2>4. Flagged(Stripped, T)[At(o)] = Afresh(o, T)
    BY <2>2, <2>3 DEF Flagged, Afresh
  <2>5. info[At(o)] \in 0..ByteSize - 1
    BY <2>2 DEF Infos
  <2>. QED  BY <2>4, <2>5, Reflagged DEF Afresh
<1>. QED  BY <1>1, <1>2

\* Two blocks do not share a character that is not the last of its block.
LEMMA BlocksApart ==
  ASSUME NEW E \in SUBSET Nat, NEW f \in Nat, NEW g \in Nat, NEW d \in Nat, NEW e \in Nat,
         IsStart(E, f), Closes(E, f, d), IsStart(E, g), Closes(E, g, e),
         NEW o \in Nat, f <= o, o <= d, g <= o, o <= e
  PROVE  f = g
<1>1. CASE f < g
  <2>1. g - 1 \in E /\ g - 1 >= f
    BY <1>1 DEF IsStart
  <2>. QED  BY <1>1, <2>1 DEF Closes
<1>2. CASE g < f
  <2>1. f - 1 \in E /\ f - 1 >= g
    BY <1>2 DEF IsStart
  <2>. QED  BY <1>2, <2>1 DEF Closes
<1>. QED  BY <1>1, <1>2

\* Pass 3 writes the length of every block, and nothing after the last event.
LEMMA RecountedFacts ==
  ASSUME iRemP \in Index, iCount \in 0..Length, NEW inf \in Infos,
         \A o \in 0..iCount - 1 : Low(inf[At(o)]) = 0
  PROVE  LET E    == EventOffsets(inf)
             last == LastEvent(E)
             new  == Recounted(inf)
         IN  /\ Blocks(new, iRemP, last, iCount, E)
             /\ (\A o \in 0..iCount - 1 : Low(new[At(o)]) # LongMark)
                  => Clean(new, iRemP, iCount, E)
             /\ \A e \in E : High(new[At(e)]) = High(inf[At(e)])
<1>. DEFINE E       == EventOffsets(inf)
            last    == LastEvent(E)
            new     == Recounted(inf)
            firsts  == {f \in {0} \cup {e + 1 : e \in E} : \E e \in E : e >= f}
            size(f) == 1 + (CHOOSE e \in E : e >= f
                              /\ \A d \in E : d >= f => d >= e) - f
            longs   == {f \in firsts : size(f) >= LongMark}
            over(i) == {f \in longs : InWord(i, WordAt(At(f)))}
            byte(i) == IF over(i) # {}
                       THEN LET f == CHOOSE f \in over(i) : TRUE
                            IN  WordByte(size(f), i - WordAt(At(f)))
                       ELSE IF OffsetOf(i) \in firsts
                       THEN High(inf[i]) + Lesser(size(OffsetOf(i)), LongMark)
                       ELSE inf[i]
<1>0. /\ Length \in Nat /\ iCount \in Nat /\ iCount <= Length /\ LongMark \in Nat \ {0}
      /\ E \in SUBSET (0..iCount - 1)
  BY LengthAssumption, WordAssumption DEF EventOffsets
<1>1. /\ \A o \in 0..iCount - 1 : o \in E <=> High(inf[At(o)]) # 0
      /\ new = [i \in Index |-> byte(i)]
  BY DEF EventOffsets, Recounted
<1>2. new \in Infos
  BY RecountedType
<1>. HIDE DEF E, new
<1>3. /\ last \in 0..iCount /\ last \in Nat /\ E \in SUBSET (0..last - 1) /\ E \in SUBSET Nat
      /\ (last > 0 => last - 1 \in E) /\ \A e \in E : e \in 0..last - 1 /\ e \in Nat
  <2>1. last \in 0..iCount /\ E \in SUBSET (0..last - 1) /\ (last > 0 => last - 1 \in E)
    BY <1>0, LastEventIs
  <2>. HIDE DEF last
  <2>. QED  BY <1>0, <2>1
<1>. HIDE DEF last
<1>4. \A f : f \in firsts <=> f \in 0..last - 1 /\ IsStart(E, f)
  <2>1. ASSUME NEW f \in firsts PROVE f \in 0..last - 1 /\ IsStart(E, f)
    <3>1. PICK e \in E : e >= f
      OBVIOUS
    <3>2. f = 0 \/ \E d \in E : f = d + 1
      OBVIOUS
    <3>. HIDE DEF firsts
    <3>3. f \in Nat /\ IsStart(E, f)
      BY <1>3, <3>2 DEF IsStart
    <3>. QED  BY <1>3, <3>1, <3>3
  <2>2. ASSUME NEW f \in 0..last - 1, IsStart(E, f) PROVE f \in firsts
    <3>1. last - 1 \in E /\ last - 1 >= f
      BY <1>3
    <3>2. f # 0 => f - 1 \in E /\ f = (f - 1) + 1
      BY <2>2 DEF IsStart
    <3>. QED  BY <3>1, <3>2
  <2>. HIDE DEF firsts
  <2>. QED  BY <2>1, <2>2
<1>5. \A f \in firsts : \E e \in E : Closes(E, f, e)
  <2>. SUFFICES ASSUME NEW f \in firsts PROVE \E e \in E : Closes(E, f, e)
    OBVIOUS
  <2>1. f \in 0..last - 1
    BY <1>4
  <2>2. last - 1 \in E
    BY <1>3, <2>1
  <2>. QED  BY <1>3, <2>1, <2>2, CloserExists
<1>. HIDE DEF firsts
<1>6. ASSUME NEW f \in firsts, NEW e \in E, Closes(E, f, e)
      PROVE  size(f) = e - f + 1 /\ size(f) \in Nat \ {0} /\ f + size(f) <= last
  <2>. DEFINE next == CHOOSE e1 \in E : e1 >= f /\ \A d \in E : d >= f => d >= e1
  <2>0. f \in Nat /\ e \in Nat /\ f <= e /\ e < last
    BY <1>3, <1>4, <1>6 DEF Closes
  <2>1. e >= f /\ \A d \in E : d >= f => d >= e
    BY <1>3, <1>6, <2>0 DEF Closes
  <2>2. next \in E /\ next >= f /\ \A d \in E : d >= f => d >= next
    BY <2>1
  <2>3. size(f) = 1 + next - f
    OBVIOUS
  <2>. HIDE DEF next, size
  <2>4. next = e
    BY <1>3, <2>0, <2>1, <2>2
  <2>. QED  BY <1>3, <2>0, <2>3, <2>4
<1>. HIDE DEF size
\* A long length lies inside its block.
<1>7. ASSUME NEW o \in 0..Length - 1, NEW f \in over(At(o))
      PROVE  /\ f \in longs /\ f \in firsts /\ f \in Nat /\ IsStart(E, f)
             /\ \E e \in E : Closes(E, f, e) /\ e \in Nat /\ f < o /\ o < e /\ e < last
  <2>1. f \in longs /\ f \in firsts /\ size(f) >= LongMark /\ InWord(At(o), WordAt(At(f)))
    OBVIOUS
  <2>2. PICK e \in E : Closes(E, f, e)
    BY <1>5, <2>1
  <2>3. size(f) = e - f + 1 /\ size(f) \in Nat /\ f + size(f) <= Length
    <3>1. size(f) = e - f + 1 /\ size(f) \in Nat \ {0} /\ f + size(f) <= last
      BY <1>6, <2>1, <2>2
    <3>2. f \in Nat
      BY <1>4, <2>1
    <3>. HIDE DEF over
    <3>. QED  BY <1>0, <1>3, <3>1, <3>2
  <2>4. f \in Nat /\ IsStart(E, f) /\ e \in Nat /\ e < last
    BY <1>3, <1>4, <2>1
  <2>5. o \in f + 1..f + size(f) - 2
    BY <2>1, <2>3, <2>4, AtPos, WordCovers
  <2>6. f < o /\ o < e
    BY <2>3, <2>4, <2>5
  <2>. QED  BY <2>1, <2>2, <2>4, <2>6
<1>8. ASSUME NEW o \in 0..Length - 1, o \in firsts \/ o \in E \/ o >= last
      PROVE  over(At(o)) = {}
  <2>. SUFFICES ASSUME NEW f \in over(At(o)) PROVE FALSE
    OBVIOUS
  <2>1. /\ f \in Nat /\ IsStart(E, f)
        /\ \E e \in E : Closes(E, f, e) /\ e \in Nat /\ f < o /\ o < e /\ e < last
    BY <1>7
  <2>2. PICK e \in E : Closes(E, f, e) /\ e \in Nat /\ f < o /\ o < e /\ e < last
    BY <2>1
  <2>3. o \in firsts => o - 1 \in E /\ o - 1 >= f
    BY <1>4, <2>1, <2>2 DEF IsStart
  <2>. QED  BY <1>3, <1>8, <2>1, <2>2, <2>3 DEF Closes
<1>9. ASSUME NEW o \in 0..Length - 1, NEW f \in over(At(o)), NEW g \in over(At(o)) PROVE f = g
  <2>1. /\ f \in Nat /\ IsStart(E, f)
        /\ \E e \in E : Closes(E, f, e) /\ e \in Nat /\ f < o /\ o < e /\ e < last
    BY <1>7
  <2>2. /\ g \in Nat /\ IsStart(E, g)
        /\ \E e \in E : Closes(E, g, e) /\ e \in Nat /\ g < o /\ o < e /\ e < last
    BY <1>7
  <2>3. PICK d \in E : Closes(E, f, d) /\ d \in Nat /\ f < o /\ o < d
    BY <2>1
  <2>4. PICK e \in E : Closes(E, g, e) /\ e \in Nat /\ g < o /\ o < e
    BY <2>2
  <2>5. f <= o /\ o <= d /\ g <= o /\ o <= e /\ o \in Nat
    BY <2>1, <2>2, <2>3, <2>4
  <2>. QED  BY <1>3, <2>1, <2>2, <2>3, <2>4, <2>5, BlocksApart
<1>10. ASSUME NEW o \in 0..iCount - 1
       PROVE  /\ o \in 0..Length - 1 /\ o \in 0..Length /\ At(o) \in Index /\ OffsetOf(At(o)) = o
              /\ inf[At(o)] \in 0..ByteSize - 1
  <2>1. o \in 0..Length - 1 /\ o \in 0..Length
    BY <1>0
  <2>. QED  BY <2>1, OffsetBack DEF Infos
\* The three kinds of info bytes.
<1>11. ASSUME NEW f \in firsts
       PROVE  new[At(f)] = High(inf[At(f)]) + Lesser(size(f), LongMark)
  <2>1. f \in 0..iCount - 1
    BY <1>3, <1>4
  <2>2. over(At(f)) = {}
    BY <1>8, <1>10, <2>1
  <2>3. byte(At(f)) = High(inf[At(f)]) + Lesser(size(OffsetOf(At(f))), LongMark)
    <3>. HIDE DEF over
    <3>. QED  BY <1>10, <2>1, <2>2
  <2>. HIDE DEF byte
  <2>. QED  BY <1>1, <1>10, <2>1, <2>3
<1>12. ASSUME NEW o \in 0..iCount - 1, o \notin firsts, over(At(o)) = {}
       PROVE  new[At(o)] = inf[At(o)]
  <2>1. byte(At(o)) = inf[At(o)]
    <3>. HIDE DEF over
    <3>. QED  BY <1>10, <1>12
  <2>. HIDE DEF byte
  <2>. QED  BY <1>1, <1>10, <2>1
<1>13. ASSUME NEW o \in 0..Length - 1, NEW f \in over(At(o))
       PROVE  new[At(o)] = WordByte(size(f), At(o) - WordAt(At(f)))
  <2>1. At(o) \in Index
    BY OffsetBack
  <2>. DEFINE g == CHOOSE g \in over(At(o)) : TRUE
  <2>2. g \in over(At(o))
    BY <1>13
  <2>3. byte(At(o)) = WordByte(size(g), At(o) - WordAt(At(g)))
    <3>. HIDE DEF over
    <3>. QED  BY <1>13
  <2>. HIDE DEF byte, g
  <2>4. g = f
    BY <1>9, <1>13, <2>2
  <2>. QED  BY <1>1, <2>1, <2>3, <2>4
<1>. HIDE DEF byte
<1>14. ASSUME NEW f \in firsts PROVE Sized(new, iRemP, f, size(f))
  <2>0. /\ f \in 0..iCount - 1 /\ f \in Nat /\ size(f) \in Nat \ {0} /\ f + size(f) <= Length
    <3>1. PICK e \in E : Closes(E, f, e)
      BY <1>5
    <3>2. size(f) \in Nat \ {0} /\ f + size(f) <= last
      BY <1>6, <3>1
    <3>3. f \in 0..last - 1
      BY <1>4
    <3>. QED  BY <1>0, <1>3, <3>2, <3>3
  <2>1. Low(new[At(f)]) = Lesser(size(f), LongMark)
    <3>1. Lesser(size(f), LongMark) \in 0..LongMark
      BY <1>0, <2>0 DEF Lesser
    <3>. QED  BY <1>10, <1>11, <2>0, <3>1, LowWritten
  <2>2. CASE size(f) < LongMark
    <3>1. Low(new[At(f)]) = size(f) /\ size(f) # LongMark
      BY <1>0, <2>0, <2>1, <2>2 DEF Lesser
    <3>. QED  BY <3>1, AtPos DEF Sized, BlockSize
  <2>3. CASE size(f) >= LongMark
    <3>. DEFINE w == WordAt(At(f))
                x == StoreWord(inf, w, size(f))
    <3>1. Low(new[At(f)]) = LongMark
      BY <1>0, <2>0, <2>1, <2>3 DEF Lesser
    <3>2. PICK d \in 1..WordSize : \A k \in 0..WordSize - 1 :
            f + d + k \in f + 1..f + size(f) - 2 /\ w + k = At(f + d + k)
      <4>1. \E d \in 1..WordSize : \A k \in 0..WordSize - 1 :
              f + d + k \in f + 1..f + size(f) - 2
              /\ WordAt(Pos(iRemP, f)) + k = Pos(iRemP, f + d + k)
        BY <2>0, <2>3, WordInBlock
      <4>. QED  BY <4>1, AtPos
    <3>3. w \in Nat /\ w + WordSize <= Length
      BY <1>10, <2>0, WordInside
    <3>4. Fits(size(f))
      <4>1. size(f) \in 0..Length
        BY <1>0, <2>0
      <4>. QED  BY <4>1, LengthFits
    <3>5. f \in longs
      BY <2>3
    <3>. HIDE DEF w, longs, over
    <3>6. ASSUME NEW k \in 0..WordSize - 1 PROVE new[w + k] = x[w + k]
      <4>1. f + d + k \in 0..Length - 1 /\ w + k = At(f + d + k)
        BY <1>0, <2>0, <3>2
      <4>2. InWord(w + k, w) /\ (w + k) - w = k /\ w + k \in Index
        BY <3>3, WordAssumption, LengthAssumption DEF InWord, Index
      <4>3. f \in over(At(f + d + k))
        BY <3>5, <4>1, <4>2 DEF over, w
      <4>4. new[w + k] = WordByte(size(f), (w + k) - w)
        BY <1>13, <4>1, <4>3 DEF w
      <4>5. x[w + k] = WordByte(size(f), (w + k) - w)
        BY <4>2 DEF StoreWord
      <4>. QED  BY <4>4, <4>5
    <3>. HIDE DEF x
    <3>7. new[w] = x[w] /\ (WordSize > 1 => new[w + 1] = x[w + 1])
      <4>1. 0 \in 0..WordSize - 1 /\ (WordSize > 1 => 1 \in 0..WordSize - 1) /\ w + 0 = w
        BY <3>3, WordAssumption
      <4>2. new[w + 0] = x[w + 0]
        BY <3>6, <4>1
      <4>. QED  BY <3>6, <4>1, <4>2
    <3>8. WordValue(new, w) = size(f)
      <4>1. WordValue(x, w) = size(f)
        BY <3>3, <3>4, WordRead DEF x
      <4>. QED  BY <3>7, <4>1 DEF WordValue
    <3>. QED  BY <2>3, <3>1, <3>8, AtPos DEF Sized, BlockSize, w
  <2>. QED  BY <1>0, <2>0, <2>2, <2>3
<1>15. ASSUME NEW f \in firsts PROVE High(new[At(f)]) = High(inf[At(f)])
  <2>1. f \in 0..iCount - 1
    BY <1>3, <1>4
  <2>2. Lesser(size(f), LongMark) \in 0..LongMark
    <3>1. PICK e \in E : Closes(E, f, e)
      BY <1>5
    <3>2. size(f) \in Nat
      BY <1>6, <3>1
    <3>. QED  BY <1>0, <3>2 DEF Lesser
  <2>. QED  BY <1>10, <1>11, <2>1, <2>2, LowWritten
<1>16. ASSUME NEW e \in E PROVE High(new[At(e)]) = High(inf[At(e)])
  <2>1. e \in 0..iCount - 1
    BY <1>0
  <2>2. over(At(e)) = {}
    BY <1>8, <1>10, <2>1
  <2>. HIDE DEF over
  <2>. QED  BY <1>12, <1>15, <2>1, <2>2
<1>17. ASSUME NEW o \in last..iCount - 1 PROVE new[At(o)] = 0
  <2>1. o \in 0..iCount - 1 /\ o \notin firsts /\ o \notin E /\ o >= last
    <3>1. o \in 0..iCount - 1 /\ o \notin 0..last - 1 /\ o >= last
      BY <1>0, <1>3
    <3>. QED  BY <1>3, <1>4, <3>1
  <2>2. over(At(o)) = {}
    BY <1>8, <1>10, <2>1
  <2>3. High(inf[At(o)]) = 0 /\ Low(inf[At(o)]) = 0
    BY <1>1, <2>1
  <2>4. inf[At(o)] = High(inf[At(o)]) + Low(inf[At(o)])
    BY <1>10, <2>1, Halves
  <2>. HIDE DEF over
  <2>. QED  BY <1>12, <2>1, <2>2, <2>3, <2>4
<1>18. Blocks(new, iRemP, last, iCount, E)
  <2>1. \A e \in E : High(new[Pos(iRemP, e)]) # 0
    BY <1>0, <1>1, <1>16, AtPos
  <2>2. ASSUME NEW f \in 0..last - 1, NEW e \in E, IsStart(E, f), Closes(E, f, e)
        PROVE  Sized(new, iRemP, f, e - f + 1)
    <3>1. f \in firsts
      BY <1>4, <2>2
    <3>2. size(f) = e - f + 1
      BY <1>6, <2>2, <3>1
    <3>. QED  BY <1>14, <3>1, <3>2
  <2>3. Framed(new, iRemP, last, E)
    BY <1>3, <2>1, <2>2 DEF Framed
  <2>. QED  BY <1>17, <2>3, AtPos DEF Blocks
<1>19. ASSUME \A o \in 0..iCount - 1 : Low(new[At(o)]) # LongMark
       PROVE  Clean(new, iRemP, iCount, E)
  <2>1. longs = {}
    <3>. SUFFICES ASSUME NEW f \in longs PROVE FALSE
      OBVIOUS
    <3>1. f \in firsts /\ size(f) >= LongMark
      OBVIOUS
    <3>2. f \in 0..iCount - 1
      BY <1>3, <1>4, <3>1
    <3>3. Lesser(size(f), LongMark) = LongMark /\ LongMark \in 0..LongMark
      <4>1. PICK e \in E : Closes(E, f, e)
        BY <1>5, <3>1
      <4>2. size(f) \in Nat
        BY <1>6, <3>1, <4>1
      <4>. HIDE DEF longs
      <4>. QED  BY <1>0, <3>1, <4>2 DEF Lesser
    <3>4. Low(new[At(f)]) = LongMark
      BY <1>10, <1>11, <3>1, <3>2, <3>3, LowWritten
    <3>. QED  BY <1>19, <3>2, <3>4
  <2>2. \A i : over(i) = {}
    BY <2>1
  <2>. HIDE DEF over, longs
  <2>. SUFFICES ASSUME NEW o \in 0..iCount - 1
                PROVE  /\ o \notin E => High(new[At(o)]) = 0
                       /\ ~IsStart(E, o) => Low(new[At(o)]) = 0
    BY <1>19, AtPos DEF Clean
  <2>3. High(new[At(o)]) = High(inf[At(o)])
    BY <1>12, <1>15, <2>2
  <2>4. ~IsStart(E, o) => new[At(o)] = inf[At(o)]
    BY <1>4, <1>12, <2>2
  <2>5. Low(inf[At(o)]) = 0
    OBVIOUS
  <2>. QED  BY <1>1, <2>3, <2>4, <2>5
<1>. QED  BY <1>16, <1>18, <1>19 DEF E, last, new

-----------------------------------------------------------------------------
(* The refinement *)

\* The queue of the n characters from pointer r with events at the offsets E.
Entries(chars, inf, r, n, E) ==
  [i \in 1..n |-> [char  |-> chars[Pos(r, i - 1)],
                   flags |-> IF i - 1 \in E THEN High(inf[Pos(r, i - 1)]) ELSE 0]]

LEMMA UnreadEntries == Unread = Entries(charAt, info, iRemP, iCount, BlockEnds)
<1>. DEFINE ends == BlockEnds
<1>1. Unread = [i \in 1..iCount |->
                  LET p == Wrap(iRemP + i - 1)
                  IN  [char  |-> charAt[p],
                       flags |-> IF i - 1 \in ends THEN High(info[p]) ELSE 0]]
  BY DEF Unread
<1>. HIDE DEF ends
<1>2. Entries(charAt, info, iRemP, iCount, ends)
        = [i \in 1..iCount |->
             [char  |-> charAt[Wrap(iRemP + (i - 1))],
              flags |-> IF i - 1 \in ends THEN High(info[Wrap(iRemP + (i - 1))]) ELSE 0]]
  BY DEF Entries, Pos
<1>. QED  BY <1>1, <1>2 DEF ends

LEMMA EndsAre == BlockEnds = EndsIn(info, iRemP, LastOffset)
  BY DEF BlockEnds, EndsIn

LEMMA EndsUnique ==
  ASSUME IInv, NEW E, Framed(info, iRemP, LastOffset, E)
  PROVE  BlockEnds = E
<1>1. info \in Infos /\ iRemP \in Index /\ LastOffset \in 0..Length
  BY LengthAssumption DEF IInv, TypeOK, PointersAgree, Infos
<1>. QED  BY <1>1, EndsAre, EndsFound

\* The blocks that a step is known to leave are those the next state is read as.
LEMMA NextBlocks ==
  ASSUME IInv', NEW E, Blocks(info', iRemP', LastOffset', iCount', E),
         ~long' => Clean(info', iRemP', iCount', E)
  PROVE  BlockInv' /\ Unread' = Entries(charAt', info', iRemP', iCount', E)
<1>1. BlockEnds' = EndsIn(info', iRemP', LastOffset')
  BY DEF BlockEnds, EndsIn
<1>2. info' \in Infos /\ iRemP' \in Index /\ LastOffset' \in 0..Length
  BY LengthAssumption DEF IInv, TypeOK, PointersAgree, Infos
<1>3. BlockEnds' = E
  BY <1>1, <1>2, EndsFound DEF Blocks
<1>4. Unread' = Entries(charAt', info', iRemP', iCount', BlockEnds')
  <2>. DEFINE ends == BlockEnds'
  <2>1. Unread' = [i \in 1..iCount' |->
                     LET p == Wrap(iRemP' + i - 1)
                     IN  [char  |-> charAt'[p],
                          flags |-> IF i - 1 \in ends THEN High(info'[p]) ELSE 0]]
    BY DEF Unread
  <2>. HIDE DEF ends
  <2>2. Entries(charAt', info', iRemP', iCount', ends)
          = [i \in 1..iCount' |->
               [char  |-> charAt'[Wrap(iRemP' + (i - 1))],
                flags |-> IF i - 1 \in ends THEN High(info'[Wrap(iRemP' + (i - 1))]) ELSE 0]]
    BY DEF Entries, Pos
  <2>. QED  BY <2>1, <2>2 DEF ends
<1>. QED  BY <1>3, <1>4 DEF BlockInv

LEMMA MadeSeq ==
  ASSUME NEW n \in Nat, NEW s, s = [i \in 1..n |-> s[i]]
  PROVE  Len(s) = n /\ (s = <<>> <=> n = 0)
<1>1. Len(s) = n /\ s \in Seq({s[i] : i \in 1..n})
  OBVIOUS
<1>. QED  BY <1>1

LEMMA AppendIs ==
  ASSUME NEW n \in Nat, NEW s, s = [i \in 1..n |-> s[i]], NEW e
  PROVE  Append(s, e) = [i \in 1..n + 1 |-> IF i = n + 1 THEN e ELSE s[i]]
<1>. DEFINE S == {s[i] : i \in 1..n} \cup {e}
<1>1. s \in Seq(S) /\ Len(s) = n
  OBVIOUS
<1>. HIDE DEF S
<1>. QED  BY <1>1

LEMMA SubSeqIs ==
  ASSUME NEW n \in Nat, NEW s, s = [i \in 1..n |-> s[i]], NEW a \in 1..n + 1, NEW b \in a - 1..n
  PROVE  SubSeq(s, a, b) = [i \in 1..b - a + 1 |-> s[a + i - 1]]
<1>. DEFINE S == {s[i] : i \in 1..n}
<1>1. s \in Seq(S) /\ Len(s) = n
  OBVIOUS
<1>. HIDE DEF S
<1>. QED  BY <1>1

LEMMA EntryOf ==
  ASSUME NEW chars, NEW inf, NEW r, NEW n \in Nat, NEW E, NEW q, q = Entries(chars, inf, r, n, E)
  PROVE  /\ q = [i \in 1..n |-> q[i]] /\ DOMAIN q = 1..n
         /\ Len(q) = n /\ (q = <<>> <=> n = 0)
         /\ \A i \in 1..n :
              q[i] = [char  |-> chars[Pos(r, i - 1)],
                      flags |-> IF i - 1 \in E THEN High(inf[Pos(r, i - 1)]) ELSE 0]
<1>1. /\ q = [i \in 1..n |-> q[i]] /\ DOMAIN q = 1..n
      /\ \A i \in 1..n :
           q[i] = [char  |-> chars[Pos(r, i - 1)],
                   flags |-> IF i - 1 \in E THEN High(inf[Pos(r, i - 1)]) ELSE 0]
  BY DEF Entries
<1>. QED  BY <1>1, MadeSeq

\* The events of the queue, and its first block.
QueueSplits(q, E) ==
  /\ E = {} <=> Queue!Events(q) = {}
  /\ E = {} => Queue!FirstBlock(q) = 0

FirstEvent(inf, r, q, e) ==
  Queue!FirstBlock(q) = e + 1 /\ q[e + 1].flags = High(inf[Pos(r, e)])

LEMMA QueueEvents ==
  ASSUME NEW chars, NEW inf, NEW r, NEW n \in Nat, NEW last \in 0..n,
         NEW E, Framed(inf, r, last, E), NEW q, q = Entries(chars, inf, r, n, E)
  PROVE  /\ QueueSplits(q, E)
         /\ \A e \in E : Closes(E, 0, e) => FirstEvent(inf, r, q, e)
<1>1. /\ DOMAIN q = 1..n
      /\ \A i \in 1..n : q[i].flags = IF i - 1 \in E THEN High(inf[Pos(r, i - 1)]) ELSE 0
  BY DEF Entries
<1>2. E \in SUBSET (0..last - 1) /\ \A e \in E : High(inf[Pos(r, e)]) # 0
  BY DEF Framed
<1>3. \A e \in E : e \in Nat /\ e + 1 \in 1..n /\ e + 1 - 1 = e
  BY <1>2
<1>4. Queue!Events(q) = {e + 1 : e \in E}
  <2>1. \A i \in 1..n : q[i].flags # 0 <=> i - 1 \in E
    BY <1>1, <1>2
  <2>2. Queue!Events(q) = {i \in 1..n : i - 1 \in E}
    BY <1>1, <2>1 DEF Queue!Events
  <2>3. \A i \in 1..n : i - 1 \in E => i = (i - 1) + 1
    OBVIOUS
  <2>. QED  BY <1>3, <2>2, <2>3
<1>5. E = {} => Queue!FirstBlock(q) = 0
  BY <1>4 DEF Queue!FirstBlock
<1>6. ASSUME NEW e \in E, Closes(E, 0, e)
      PROVE  Queue!FirstBlock(q) = e + 1 /\ q[e + 1].flags = High(inf[Pos(r, e)])
  <2>1. \A d \in E : e <= d
    BY <1>3, <1>6 DEF Closes
  <2>2. Queue!Events(q) # {}
    BY <1>4
  <2>3. e + 1 \in Queue!Events(q) /\ \A j \in Queue!Events(q) : e + 1 <= j
    BY <1>3, <1>4, <2>1
  <2>4. \A i \in Queue!Events(q) : (\A j \in Queue!Events(q) : i <= j) => i = e + 1
    BY <1>3, <1>4, <2>3
  <2>5. Queue!FirstBlock(q) = CHOOSE i \in Queue!Events(q) : \A j \in Queue!Events(q) : i <= j
    BY <2>2 DEF Queue!FirstBlock
  <2>6. Queue!FirstBlock(q) = e + 1
    BY <2>3, <2>4, <2>5
  <2>. QED  BY <1>1, <1>3, <1>6, <2>6
<1>. QED  BY <1>4, <1>5, <1>6 DEF FirstEvent, QueueSplits

LEMMA InitBlocks ==
  ASSUME Init
  PROVE  BlockInv /\ Queue!Init
<1>1. IInv
  BY InitIInv
<1>2. iCount = 0 /\ LastOffset = 0 /\ iRemP = 0
  <2>1. 0 \in SeqNums
    BY SeqAssumption, LengthAssumption DEF SeqNums
  <2>. QED  BY <2>1, SeqSelf DEF Init, LastOffset
<1>3. Blocks(info, iRemP, LastOffset, iCount, {}) /\ Clean(info, iRemP, iCount, {})
  BY <1>2 DEF Blocks, Framed, Clean
<1>4. BlockEnds = {}
  BY <1>1, <1>3, EndsUnique DEF Blocks
<1>5. Unread = <<>>
  <2>1. Unread = Entries(charAt, info, iRemP, 0, {})
    BY <1>2, <1>4, UnreadEntries
  <2>. QED  BY <2>1 DEF Entries
<1>. QED  BY <1>1, <1>3, <1>4, <1>5 DEF BlockInv, Init, Queue!Init, Done, Queue!Done

\* What BlockInv says of the state, for the lemmas above.
LEMMA BlockState ==
  ASSUME BlockInv
  PROVE  /\ info \in Infos /\ charAt \in [Index -> Chars] /\ iRemP \in Index
         /\ iCount \in 0..Length /\ LastOffset \in 0..iCount
         /\ Length \in Nat \ {0} /\ long \in BOOLEAN
         /\ Unread = Entries(charAt, info, iRemP, iCount, BlockEnds)
         /\ Blocks(info, iRemP, LastOffset, iCount, BlockEnds)
         /\ Framed(info, iRemP, LastOffset, BlockEnds)
         /\ BlockEnds \in SUBSET (0..LastOffset - 1)
  BY UnreadEntries, LengthAssumption
  DEF BlockInv, IInv, TypeOK, PointersAgree, Infos, Blocks, Framed

\* A character is appended, with the flags that make it an event.
LEMMA PutImplements ==
  ASSUME BlockInv, NEW c \in Chars, NEW bad \in BOOLEAN, PutChar(c, bad)
  PROVE  BlockInv' /\ Queue!Put(c, bad)
<1>. DEFINE E     == BlockEnds
            n     == iCount
            r     == iRemP
            last  == LastOffset
            f     == Flags(c, bad)
            put   == [info EXCEPT ![Pos(r, n)] = f]
            E2    == IF f = 0 THEN E ELSE E \cup {n}
            last2 == IF f = 0 THEN last ELSE n + 1
            entry == [char |-> c, flags |-> f]
<1>1. /\ info \in Infos /\ charAt \in [Index -> Chars] /\ r \in Index
      /\ n \in 0..Length - 1 /\ last \in 0..n /\ Length \in Nat \ {0}
      /\ Blocks(info, r, last, n, E) /\ Framed(info, r, last, E)
      /\ E \in SUBSET (0..last - 1) /\ long \in BOOLEAN
      /\ ~long => Clean(info, r, n, E)
      /\ Unread = Entries(charAt, info, r, n, E)
  BY BlockState DEF PutChar, Full, BlockInv
<1>2. f \in 0..ByteSize - 1 /\ High(f) = f /\ Low(f) = 0
  BY FlagBytes, Sizes DEF Flags
<1>3. IInv'
  BY PutKeeps DEF BlockInv
<1>4. /\ charAt' = [charAt EXCEPT ![Pos(r, n)] = c]
      /\ iCount' = n + 1 /\ iRemP' = r /\ terms' = terms
      /\ LastOffset' = last2
      /\ info' = IF f = 0 THEN put ELSE StoreCount(put, Pos(r, last), n + 1 - last)
      /\ ~long' => ~long /\ (f = 0 \/ ~(n + 1 - last >= LongMark))
      /\ result' = Done(IF f # 0 THEN "event" ELSE "plain")
  <2>. DEFINE insP   == Wrap(iInsP + 1)
              insSeq == SeqAdd(iInsSeqNum, 1)
              count  == SeqDiff(insSeq, iLastSeqNum)
              first  == IF insP < count THEN insP - count + Length ELSE insP - count
  <2>1. /\ SeqDiff(insSeq, iRemSeqNum) = n + 1
        /\ count = n + 1 - last /\ first = Pos(r, last) /\ iInsP = Pos(r, n)
    <3>1. PutCounts /\ iInsP = Wrap(iRemP + iCount)
      BY <1>1, PutCountsRight DEF BlockInv, IInv, PointersAgree
    <3>. QED  BY <3>1 DEF PutCounts, Pos
  <2>2. /\ charAt' = [charAt EXCEPT ![iInsP] = c]
        /\ iCount' = n + 1 /\ iRemP' = r /\ terms' = terms /\ iRemSeqNum' = iRemSeqNum
        /\ f # 0 => /\ info' = StoreCount([info EXCEPT ![iInsP] = f], first, count)
                    /\ iLastSeqNum' = insSeq
                    /\ result' = Done("event")
                    /\ long' = (long \/ count >= LongMark)
        /\ f = 0 => /\ info' = [info EXCEPT ![iInsP] = f]
                    /\ result' = Done("plain")
                    /\ iLastSeqNum' = iLastSeqNum /\ long' = long
    BY DEF PutChar
  <2>. HIDE DEF insP, insSeq, count, first, f
  <2>3. LastOffset' = last2
    BY <2>1, <2>2 DEF LastOffset
  <2>4. ~long' => ~long /\ (f = 0 \/ ~(count >= LongMark))
    BY <2>2
  <2>. QED  BY <2>1, <2>2, <2>3, <2>4
<1>. HIDE DEF E, n, r, last, f
<1>5. /\ Blocks(info', r, last2, n + 1, E2)
      /\ ~long' => Clean(info', r, n + 1, E2)
      /\ \A o \in E : High(info'[Pos(r, o)]) = High(info[Pos(r, o)])
      /\ f # 0 => High(info'[Pos(r, n)]) = f
  <2>1. CASE f = 0
    <3>1. info' = [info EXCEPT ![Pos(r, n)] = 0]
      BY <1>4, <2>1
    <3>2. PlainPut(info, info', r, n, last, E)
      <4>1. info \in Infos /\ r \in Index /\ n \in 0..Length - 1 /\ last \in 0..n
            /\ Blocks(info, r, last, n, E)
        BY <1>1
      <4>. HIDE DEF put
      <4>. QED  BY <3>1, <4>1, PutPlain
    <3>. QED  BY <1>1, <1>4, <2>1, <3>2 DEF PlainPut
  <2>2. CASE f # 0
    <3>1. EventPut(info, put, info', r, n, last, E, f)
      <4>1. info \in Infos /\ r \in Index /\ n \in 0..Length - 1 /\ last \in 0..n
            /\ Blocks(info, r, last, n, E) /\ put = [info EXCEPT ![Pos(r, n)] = f]
            /\ info' = StoreCount(put, Pos(r, last), n + 1 - last)
        BY <1>1, <1>4, <2>2
      <4>. HIDE DEF put
      <4>. QED  BY <1>2, <2>2, <4>1, PutEvent
    <3>2. n + 1 - last \in Int /\ LongMark \in Int
      BY <1>1, Sizes
    <3>. HIDE DEF put
    <3>3. ~long' => ~long /\ n + 1 - last < LongMark
      <4>1. ~(n + 1 - last >= LongMark) => n + 1 - last < LongMark
        BY <3>2
      <4>. QED  BY <1>4, <2>2, <4>1
    <3>4. E2 = E \cup {n} /\ last2 = n + 1
      BY <2>2
    <3>. QED  BY <1>1, <3>1, <3>3, <3>4 DEF EventPut
  <2>. QED  BY <2>1, <2>2
<1>6. BlockInv' /\ Unread' = Entries(charAt', info', r, n + 1, E2)
  <2>. HIDE DEF E2, last2
  <2>. QED  BY <1>3, <1>4, <1>5, NextBlocks
<1>7. /\ Unread = [i \in 1..n |-> Unread[i]] /\ Len(Unread) = n
      /\ \A i \in 1..n :
           Unread[i] = [char  |-> charAt[Pos(r, i - 1)],
                        flags |-> IF i - 1 \in E THEN High(info[Pos(r, i - 1)]) ELSE 0]
  <2>1. n \in Nat
    BY <1>1
  <2>. QED  BY <1>1, <2>1, EntryOf
<1>8. Unread' = Append(Unread, entry)
  <2>. DEFINE new(o) == [char  |-> charAt'[Pos(r, o)],
                         flags |-> IF o \in E2 THEN High(info'[Pos(r, o)]) ELSE 0]
  <2>1. ASSUME NEW i \in 1..n PROVE new(i - 1) = Unread[i]
    <3>1. /\ i - 1 \in 0..Length - 1 /\ n \in 0..Length - 1 /\ i - 1 # n
          /\ i - 1 \in 0..Length /\ n \in 0..Length
      BY <1>1
    <3>2. Pos(r, i - 1) # Pos(r, n) /\ Pos(r, i - 1) \in Index
      BY <1>1, <3>1, PosFacts
    <3>3. charAt'[Pos(r, i - 1)] = charAt[Pos(r, i - 1)]
      BY <1>1, <1>4, <3>2
    <3>4. i - 1 \in E2 <=> i - 1 \in E
      BY <3>1
    <3>. QED  BY <1>5, <1>7, <3>3, <3>4
  <2>2. new(n) = entry
    <3>1. n \notin E
      BY <1>1
    <3>2. Pos(r, n) \in Index
      BY <1>1, PosFacts
    <3>3. charAt'[Pos(r, n)] = c
      BY <1>1, <1>4, <3>2
    <3>4. (IF n \in E2 THEN High(info'[Pos(r, n)]) ELSE 0) = f
      BY <1>5, <3>1
    <3>. QED  BY <3>3, <3>4
  <2>3. Unread' = [i \in 1..n + 1 |-> new(i - 1)]
    BY <1>6 DEF Entries
  <2>. HIDE DEF new, entry
  <2>4. n \in Nat
    BY <1>1
  <2>5. \A i \in 1..n + 1 : (i = n + 1 /\ i - 1 = n) \/ (i # n + 1 /\ i \in 1..n)
    BY <2>4
  <2>6. [i \in 1..n + 1 |-> new(i - 1)]
          = [i \in 1..n + 1 |-> IF i = n + 1 THEN entry ELSE Unread[i]]
    BY <2>1, <2>2, <2>5
  <2>7. Append(Unread, entry) = [i \in 1..n + 1 |-> IF i = n + 1 THEN entry ELSE Unread[i]]
    BY <1>7, <2>4, AppendIs
  <2>. QED  BY <2>3, <2>6, <2>7
<1>9. Len(Unread) # Length
  BY <1>1, <1>7
<1>10. f = IF bad THEN ErrorFlag ELSE IF c \in terms THEN TermFlag ELSE 0
  BY DEF f, Flags
<1>. QED  BY <1>4, <1>6, <1>8, <1>9, <1>10 DEF Queue!Put, Queue!Done, Done

\* A step that leaves the buffer leaves the queue.
LEMMA ReportImplements ==
  ASSUME BlockInv, Reports
  PROVE  BlockInv' /\ Unread' = Unread
<1>1. IInv'
  BY ReportKeeps DEF BlockInv
<1>2. /\ charAt' = charAt /\ info' = info /\ iCount' = iCount /\ iRemP' = iRemP
      /\ LastOffset' = LastOffset /\ long' = long
  BY DEF Reports, buffer, seqs, LastOffset
<1>. DEFINE E == BlockEnds
<1>3. Blocks(info, iRemP, LastOffset, iCount, E) /\ (~long => Clean(info, iRemP, iCount, E))
  BY DEF BlockInv
<1>4. Unread = Entries(charAt, info, iRemP, iCount, E)
  BY UnreadEntries
<1>. HIDE DEF E
<1>. QED  BY <1>1, <1>2, <1>3, <1>4, NextBlocks

\* What a read takes is what the queue says, with the flags of the event that
\* ends the block.
ReadAsQueue(k) ==
  LET blocksz == BlockSize(info, iRemP)
      first   == Wrap(iRemP + (blocksz - (IF blocksz > 0 THEN 1 ELSE 0)))
      b       == Queue!FirstBlock(Unread)
  IN  /\ blocksz = b /\ b \in 0..iCount
      /\ High(info[first]) = IF b > 0 THEN Unread[b].flags ELSE 0

\* The blocks after m characters are taken, with events at E2.
ReadLeaves(m, E2) ==
  /\ Blocks(info', Pos(iRemP, m), LastOffset', iCount - m, E2)
  /\ ~long' => Clean(info', Pos(iRemP, m), iCount - m, E2)
  /\ \A o \in 0..iCount - m - 1 :
       /\ o \in E2 <=> m + o \in BlockEnds
       /\ o \in E2 => High(info'[Pos(Pos(iRemP, m), o)]) = High(info[Pos(iRemP, m + o)])

LEMMA ReadBlocks ==
  ASSUME BlockInv, NEW k \in 0..MaxRead, ClientWrite(k)
  PROVE  ReadAsQueue(k) /\ \E E2 : ReadLeaves(ReadCount(k), E2)
<1>. DEFINE E    == BlockEnds
            n    == iCount
            r    == iRemP
            last == LastOffset
            m    == ReadCount(k)
            q    == Unread
<1>1. /\ info \in Infos /\ r \in Index
      /\ n \in 1..Length /\ last \in 0..n /\ Length \in Nat \ {0}
      /\ Blocks(info, r, last, n, E) /\ Framed(info, r, last, E)
      /\ E \in SUBSET (0..last - 1)
      /\ ~long => Clean(info, r, n, E)
      /\ q = Entries(charAt, info, r, n, E)
      /\ k \in Nat
  BY BlockState, ReadAssumption DEF ClientWrite, BlockInv
<1>2. /\ m \in 0..n
      /\ last' = IF m > last THEN 0 ELSE last - m
  BY ReadKeeps DEF BlockInv
<1>3. /\ m = Lesser(IF BlockSize(info, r) > 0 THEN Lesser(BlockSize(info, r), k) ELSE k, n)
      /\ info' = IF BlockSize(info, r) > m
                 THEN StoreCount(info, Pos(r, m), BlockSize(info, r) - m) ELSE info
      /\ long' = (long /\ n' # 0) /\ n' = n - m
  BY DEF ReadCount, ClientWrite, Pos
<1>4. Pos(r, 0) = r
  BY <1>1, PosFacts
<1>5. n - m = 0 => \A E2 : Clean(info', Pos(r, m), n - m, E2)
  BY DEF Clean
<1>. HIDE DEF E, n, r, last, m, q
<1>6. ~long' => (~long \/ n - m = 0)
  BY <1>3
<1>7. CASE E = {}
  <2>1. last = 0
    BY <1>1, <1>7 DEF Framed
  <2>2. info[r] = 0
    <3>1. 0 \in last..n - 1
      BY <1>1, <2>1
    <3>. QED  BY <1>1, <1>4, <3>1 DEF Blocks
  <2>3. BlockSize(info, r) = 0
    BY <2>2, FlagBytes, Sizes, WordAssumption DEF BlockSize
  <2>4. ReadAsQueue(k)
    <3>1. Queue!FirstBlock(q) = 0
      <4>1. n \in Nat
        BY <1>1
      <4>2. QueueSplits(q, E)
        BY <1>1, <4>1, QueueEvents
      <4>. QED  BY <1>7, <4>2 DEF QueueSplits
    <3>2. High(info[Wrap(r + (0 - 0))]) = 0
      <4>1. r + (0 - 0) = r + 0
        OBVIOUS
      <4>. QED  BY <1>4, <2>2, <4>1, FlagBytes DEF Pos
    <3>3. 0 \in 0..n
      BY <1>1
    <3>. QED  BY <2>3, <3>1, <3>2, <3>3 DEF ReadAsQueue, n, r, q
  <2>5. info' = info
    BY <1>2, <1>3, <2>3
  <2>6. /\ Blocks(info, Pos(r, m), 0, n - m, {})
        /\ Clean(info, r, n, E) => Clean(info, Pos(r, m), n - m, {})
    <3>1. n \in 0..Length
      BY <1>1
    <3>. QED  BY <1>1, <1>2, <2>1, <3>1, ReadNoEvent
  <2>7. last' = 0
    BY <1>2, <2>1
  <2>8. ReadLeaves(m, {})
    BY <1>1, <1>5, <1>6, <1>7, <2>5, <2>6, <2>7 DEF E, n, r, last, m, ReadLeaves
  <2>. QED  BY <2>4, <2>8 DEF m
<1>8. CASE E # {}
  <2>1. PICK e \in E : \A d \in E : e <= d
    <3>1. E \in SUBSET Nat
      BY <1>1
    <3>. QED  BY <1>8, <3>1, LeastNatural
  <2>2. e \in 0..last - 1 /\ e \in Nat /\ e + 1 <= last /\ e + 1 <= n
    BY <1>1, <2>1
  <2>3. Closes(E, 0, e) /\ IsStart(E, 0)
    BY <2>1, <2>2 DEF Closes, IsStart
  <2>4. BlockSize(info, r) = e + 1
    <3>1. 0 \in 0..last - 1
      BY <1>1, <2>2
    <3>2. Sized(info, r, 0, e - 0 + 1)
      BY <1>1, <2>1, <2>3, <3>1 DEF Framed
    <3>3. e - 0 + 1 = e + 1
      BY <2>2
    <3>. QED  BY <1>4, <3>2, <3>3 DEF Sized
  <2>5. ReadAsQueue(k)
    <3>1. Queue!FirstBlock(q) = e + 1 /\ q[e + 1].flags = High(info[Pos(r, e)])
      <4>1. n \in Nat
        BY <1>1
      <4>2. FirstEvent(info, r, q, e)
        BY <1>1, <2>1, <2>3, <4>1, QueueEvents
      <4>. QED  BY <4>2 DEF FirstEvent
    <3>2. e + 1 > 0 /\ (e + 1) - 1 = e
      BY <1>1, <2>2
    <3>. DEFINE blocksz == e + 1
    <3>3. Wrap(r + (blocksz - (IF blocksz > 0 THEN 1 ELSE 0))) = Pos(r, e)
      BY <3>2 DEF Pos
    <3>4. blocksz \in 0..n
      BY <1>1, <2>2
    <3>. HIDE DEF blocksz
    <3>5. BlockSize(info, r) = blocksz /\ Queue!FirstBlock(q) = blocksz /\ blocksz > 0
          /\ q[blocksz].flags = High(info[Pos(r, e)])
      BY <2>4, <3>1, <3>2 DEF blocksz
    <3>. QED  BY <3>3, <3>4, <3>5, Zenon DEF ReadAsQueue, n, r, q
  <2>6. m \in 0..e + 1
    BY <1>1, <1>2, <1>3, <2>2, <2>4 DEF Lesser
  <2>7. BlockRead(info, info', r, n, last, E, e, m)
    <3>1. n \in 0..Length
      BY <1>1
    <3>2. info' = IF e + 1 > m THEN StoreCount(info, Pos(r, m), (e + 1) - m) ELSE info
      BY <1>3, <2>4, Zenon
    <3>3. (e + 1) - m = e + (1 - m)
      BY <1>1, <1>2, <2>2
    <3>4. info' = IF e + 1 > m THEN StoreCount(info, Pos(r, m), e + 1 - m) ELSE info
      BY <3>2, <3>3
    <3>. QED  BY <1>1, <2>1, <2>3, <2>6, <3>1, <3>4, ReadInBlock
  <2>8. last' = last - m
    BY <1>1, <1>2, <2>2, <2>6
  <2>9. \A o \in 0..n - m - 1 : o \in Shift(E, m) <=> m + o \in E
    BY <1>1, <1>2 DEF Shift
  <2>10. ReadLeaves(m, Shift(E, m))
    <3>1. ~long' => Clean(info', Pos(r, m), n - m, Shift(E, m))
      BY <1>1, <1>5, <1>6, <2>7 DEF BlockRead
    <3>. QED  BY <2>7, <2>8, <2>9, <3>1 DEF BlockRead, E, n, r, last, m, ReadLeaves
  <2>. QED  BY <2>5, <2>10 DEF m
<1>. QED  BY <1>7, <1>8

LEMMA ReadImplements ==
  ASSUME BlockInv, NEW k \in 0..MaxRead, ClientWrite(k)
  PROVE  BlockInv' /\ Queue!Read(k)
<1>. DEFINE E == BlockEnds
            n == iCount
            r == iRemP
            m == ReadCount(k)
            q == Unread
            b == BlockSize(info, iRemP)
<1>1. /\ r \in Index /\ n \in 1..Length /\ k \in Nat /\ n \in Nat /\ Length \in Nat
      /\ q = Entries(charAt, info, r, n, E)
  BY BlockState, ReadAssumption DEF ClientWrite
<1>2. /\ IInv' /\ m \in 0..n
      /\ iRemP' = Pos(r, m) /\ iCount' = n - m /\ charAt' = charAt
  BY ReadKeeps DEF BlockInv, Pos
<1>3. ReadAsQueue(k)
  BY ReadBlocks
<1>4. PICK E2 : ReadLeaves(m, E2)
  BY ReadBlocks
<1>5. /\ b = Queue!FirstBlock(q) /\ b \in 0..n
      /\ m = Lesser(IF b > 0 THEN Lesser(b, k) ELSE k, n)
      /\ terms' = terms
      /\ result' = [ret    |-> IF m = (IF b > 0 THEN Lesser(b, k) ELSE k)
                               THEN "complete" ELSE "partial",
                    status |-> IF b > 0 THEN q[b].flags ELSE 0,
                    data   |-> [i \in 1..m |-> charAt[Wrap(r + (i - 1))]]]
  <2>1. /\ b = Queue!FirstBlock(q) /\ b \in 0..n
        /\ High(info[Wrap(r + (b - (IF b > 0 THEN 1 ELSE 0)))]) = IF b > 0 THEN q[b].flags ELSE 0
    BY <1>3 DEF ReadAsQueue
  <2>2. /\ m = Lesser(IF b > 0 THEN Lesser(b, k) ELSE k, n)
        /\ terms' = terms
        /\ result' = [ret    |-> IF m = (IF b > 0 THEN Lesser(b, k) ELSE k)
                                 THEN "complete" ELSE "partial",
                      status |-> High(info[Wrap(r + (b - (IF b > 0 THEN 1 ELSE 0)))]),
                      data   |-> [i \in 1..m |-> charAt[Wrap(r + (i - 1))]]]
    BY DEF ClientWrite, ReadCount
  <2>. HIDE DEF n, r, m, q, b
  <2>. QED  BY <2>1, <2>2
<1>6. BlockInv' /\ Unread' = Entries(charAt, info', Pos(r, m), n - m, E2)
  <2>1. /\ Blocks(info', iRemP', LastOffset', iCount', E2)
        /\ ~long' => Clean(info', iRemP', iCount', E2)
    BY <1>2, <1>4 DEF ReadLeaves
  <2>2. BlockInv' /\ Unread' = Entries(charAt', info', iRemP', iCount', E2)
    BY <1>2, <2>1, NextBlocks
  <2>. QED  BY <1>2, <2>2
<1>7. \A o \in 0..n - m - 1 :
        /\ o \in E2 <=> m + o \in E
        /\ o \in E2 => High(info'[Pos(Pos(r, m), o)]) = High(info[Pos(r, m + o)])
  BY <1>4 DEF ReadLeaves
<1>. HIDE DEF E, n, r, m, q, b
<1>8. /\ q = [i \in 1..n |-> q[i]] /\ Len(q) = n /\ q # <<>>
      /\ \A i \in 1..n :
           q[i] = [char  |-> charAt[Pos(r, i - 1)],
                   flags |-> IF i - 1 \in E THEN High(info[Pos(r, i - 1)]) ELSE 0]
  <2>1. /\ q = [i \in 1..n |-> q[i]]
        /\ \A i \in 1..n :
             q[i] = [char  |-> charAt[Pos(r, i - 1)],
                     flags |-> IF i - 1 \in E THEN High(info[Pos(r, i - 1)]) ELSE 0]
    BY <1>1 DEF Entries
  <2>2. Len(q) = n /\ q # <<>>
    BY <1>1, <2>1, MadeSeq
  <2>. QED  BY <2>1, <2>2
<1>9. Unread' = SubSeq(q, m + 1, n)
  <2>. DEFINE entry(i) == [char  |-> charAt[Pos(Pos(r, m), i - 1)],
                           flags |-> IF i - 1 \in E2 THEN High(info'[Pos(Pos(r, m), i - 1)]) ELSE 0]
  <2>1. ASSUME NEW i \in 1..n - m PROVE entry(i) = q[m + i]
    <3>. DEFINE o == i - 1
    <3>1. /\ o \in 0..n - m - 1 /\ m + i \in 1..n /\ (m + i) - 1 = m + o
          /\ m \in 0..Length /\ o \in 0..Length /\ m + o <= Length
      BY <1>1, <1>2
    <3>2. q[m + i] = [char  |-> charAt[Pos(r, m + o)],
                      flags |-> IF m + o \in E THEN High(info[Pos(r, m + o)]) ELSE 0]
      BY <1>8, <3>1
    <3>3. Pos(Pos(r, m), o) = Pos(r, m + o)
      BY <1>1, <3>1, PosFacts
    <3>4. entry(i) = [char  |-> charAt[Pos(Pos(r, m), o)],
                      flags |-> IF o \in E2 THEN High(info'[Pos(Pos(r, m), o)]) ELSE 0]
      OBVIOUS
    <3>. HIDE DEF o, entry
    <3>. QED  BY <1>7, <3>1, <3>2, <3>3, <3>4
  <2>2. Unread' = [i \in 1..n - m |-> entry(i)]
    BY <1>6 DEF Entries
  <2>. HIDE DEF entry
  <2>3. SubSeq(q, m + 1, n) = [i \in 1..(n - (m + 1)) + 1 |-> q[(m + 1) + (i - 1)]]
    <3>1. m + 1 \in 1..n + 1 /\ n \in (m + 1) - 1..n
      BY <1>1, <1>2
    <3>. QED  BY <1>1, <1>8, <3>1, SubSeqIs
  <2>4. (n - (m + 1)) + 1 = n - m /\ \A i \in 1..n - m : (m + 1) + (i - 1) = m + i
    BY <1>1, <1>2
  <2>. QED  BY <2>1, <2>2, <2>3, <2>4
<1>10. [i \in 1..m |-> charAt[Wrap(r + (i - 1))]] = Queue!CharsOf(SubSeq(q, 1, m))
  <2>1. SubSeq(q, 1, m) = [i \in 1..m |-> q[i]]
    <3>1. 1 \in 1..n + 1 /\ m \in 1 - 1..n
      BY <1>1, <1>2
    <3>2. SubSeq(q, 1, m) = [i \in 1..(m - 1) + 1 |-> q[1 + (i - 1)]]
      BY <1>1, <1>8, <3>1, SubSeqIs
    <3>3. (m - 1) + 1 = m /\ \A i \in 1..m : 1 + (i - 1) = i
      BY <1>1, <1>2
    <3>. QED  BY <3>2, <3>3
  <2>2. \A i \in 1..m : q[i].char = charAt[Wrap(r + (i - 1))]
    <3>1. \A i \in 1..m : i \in 1..n
      BY <1>1, <1>2
    <3>2. \A i \in 1..n : q[i].char = charAt[Pos(r, i - 1)]
      BY <1>1 DEF Entries
    <3>. QED  BY <3>1, <3>2 DEF Pos
  <2>. QED  BY <2>1, <2>2 DEF Queue!CharsOf
<1>11. m = Queue!Lesser(IF b > 0 THEN Queue!Lesser(k, b) ELSE k, n)
  BY <1>1, <1>5 DEF Lesser, Queue!Lesser
<1>12. m = (IF b > 0 THEN Lesser(b, k) ELSE k) <=> (b > 0 \/ m = k)
  BY <1>1, <1>5 DEF Lesser
<1>. QED  BY <1>5, <1>6, <1>8, <1>9, <1>10, <1>11, <1>12 DEF Queue!Read, q

\* Reflag, for the flags h that Reflagged speaks of.
LEMMA ReflagIs ==
  ASSUME NEW b \in 0..ByteSize - 1, NEW c, NEW T,
         NEW e, e = [char |-> c, flags |-> High(b)]
  PROVE  Queue!Reflag(e, T)
           = [char |-> c, flags |-> IF c \in T THEN AsTerm(Unterm(High(b))) ELSE Unterm(High(b))]
<1>. DEFINE h == High(b)
            u == Unterm(h)
<1>1. /\ u = IF h >= TermFlag THEN h - TermFlag ELSE h
      /\ u \in Nat /\ AsTerm(u) = u + TermFlag
  BY Reflagged, Sizes DEF Unterm
<1>. HIDE DEF h, u
<1>2. e.flags = h /\ e.char = c
  BY DEF h
<1>3. u + (IF c \in T THEN TermFlag ELSE 0) = IF c \in T THEN AsTerm(u) ELSE u
  BY <1>1
<1>4. Queue!Reflag(e, T) = [e EXCEPT !.flags = u + (IF c \in T THEN TermFlag ELSE 0)]
  BY <1>1, <1>2 DEF Queue!Reflag, Queue!IsTerm
<1>5. \A x : [e EXCEPT !.flags = x] = [char |-> c, flags |-> x]
  OBVIOUS
<1>. QED  BY <1>3, <1>4, <1>5 DEF h, u

LEMMA RescanImplements ==
  ASSUME BlockInv, ~RescanAfterLong, NEW T \in TermSets, RescanTerminators(T)
  PROVE  BlockInv' /\ Queue!Rescan(T)
<1>. DEFINE E       == BlockEnds
            n       == iCount
            r       == iRemP
            last    == LastOffset
            flagged == Flagged(Stripped, T)
            E2      == EventOffsets(flagged)
            last2   == LastEvent(E2)
<1>1. ~long /\ T # terms /\ terms' = T
  BY DEF RescanTerminators
<1>2. /\ info \in Infos /\ r \in Index /\ n \in 0..Length /\ n \in Nat /\ last \in 0..n
      /\ Length \in Nat \ {0}
      /\ Blocks(info, r, last, n, E) /\ Clean(info, r, n, E)
      /\ Unread = Entries(charAt, info, r, n, E)
  BY <1>1, BlockState DEF BlockInv
<1>3. ~RescanHangs
  BY <1>2, StrippedFacts
<1>4. /\ flagged \in Infos
      /\ \A o \in 0..n - 1 : /\ flagged[At(o)] = Afresh(o, T)
                             /\ Low(Afresh(o, T)) = 0 /\ High(Afresh(o, T)) = Afresh(o, T)
  BY <1>2, FlaggedFacts
<1>5. /\ IInv' /\ charAt' = charAt /\ iCount' = n /\ iRemP' = r
      /\ LastOffset' = last2
  BY <1>3, RescanKeeps DEF BlockInv
<1>6. /\ info' = Recounted(flagged)
      /\ result' = Done(IF E2 # {} THEN "event" ELSE "plain")
      /\ ~long' => \A o \in 0..n - 1 : Low(info'[At(o)]) # LongMark
  BY <1>3 DEF RescanTerminators
<1>. HIDE DEF flagged
<1>7. /\ Blocks(info', r, last2, n, E2)
      /\ ~long' => Clean(info', r, n, E2)
      /\ \A e \in E2 : High(info'[At(e)]) = High(flagged[At(e)])
  <2>1. \A o \in 0..n - 1 : Low(flagged[At(o)]) = 0
    BY <1>4
  <2>2. /\ Blocks(Recounted(flagged), r, last2, n, E2)
        /\ (\A o \in 0..n - 1 : Low(Recounted(flagged)[At(o)]) # LongMark)
             => Clean(Recounted(flagged), r, n, E2)
        /\ \A e \in E2 : High(Recounted(flagged)[At(e)]) = High(flagged[At(e)])
    BY <1>2, <1>4, <2>1, RecountedFacts
  <2>. QED  BY <1>6, <2>2
<1>8. \A o \in 0..n - 1 : o \in E2 <=> Afresh(o, T) # 0
  BY <1>4 DEF EventOffsets
<1>. HIDE DEF E2, last2, E, n, r, last
<1>9. BlockInv' /\ Unread' = Entries(charAt, info', r, n, E2)
  <2>1. BlockInv' /\ Unread' = Entries(charAt', info', iRemP', iCount', E2)
    BY <1>5, <1>7, NextBlocks
  <2>. QED  BY <1>5, <2>1
<1>10. /\ DOMAIN Unread = 1..n
       /\ \A i \in 1..n :
            Unread[i] = [char  |-> charAt[Pos(r, i - 1)],
                         flags |-> IF i - 1 \in E THEN High(info[Pos(r, i - 1)]) ELSE 0]
  BY <1>2 DEF Entries
<1>11. Unread' = [i \in DOMAIN Unread |-> Queue!Reflag(Unread[i], T)]
  <2>. DEFINE entry(o) == [char  |-> charAt[Pos(r, o)],
                           flags |-> IF o \in E2 THEN High(info'[Pos(r, o)]) ELSE 0]
  <2>1. ASSUME NEW i \in 1..n PROVE entry(i - 1) = Queue!Reflag(Unread[i], T)
    <3>. DEFINE o == i - 1
                p == Pos(r, o)
    <3>1. o \in 0..n - 1 /\ o \in 0..Length
      BY <1>2
    <3>2. At(o) = p /\ p \in Index
      BY <1>2, <3>1, AtPos, PosFacts DEF r
    <3>3. (IF o \in E THEN High(info[p]) ELSE 0) = High(info[p])
      BY <1>2, <3>1 DEF Clean
    <3>4. Unread[i] = [char |-> charAt[p], flags |-> High(info[p])]
      BY <1>10, <3>3
    <3>5. info[p] \in 0..ByteSize - 1
      BY <1>2, <3>2 DEF Infos
    <3>6. Queue!Reflag(Unread[i], T) = [char |-> charAt[p], flags |-> Afresh(o, T)]
      <4>. HIDE DEF o, p
      <4>. QED  BY <3>2, <3>4, <3>5, ReflagIs DEF Afresh
    <3>7. (IF o \in E2 THEN High(info'[p]) ELSE 0) = Afresh(o, T)
      <4>. HIDE DEF o, p
      <4>. QED  BY <1>4, <1>7, <1>8, <3>1, <3>2
    <3>8. entry(o) = [char |-> charAt[p], flags |-> IF o \in E2 THEN High(info'[p]) ELSE 0]
      OBVIOUS
    <3>. HIDE DEF o, p, entry
    <3>9. entry(o) = Queue!Reflag(Unread[i], T)
      BY <3>6, <3>7, <3>8
    <3>. QED  BY <3>9 DEF o
  <2>2. Unread' = [i \in 1..n |-> entry(i - 1)]
    BY <1>9 DEF Entries
  <2>. HIDE DEF entry
  <2>. QED  BY <1>10, <2>1, <2>2
<1>12. Queue!Events(Unread') # {} <=> E2 # {}
  <2>1. LastOffset' \in 0..n
    BY <1>5 DEF IInv, PointersAgree
  <2>2. Framed(info', r, last2, E2) /\ last2 \in 0..n
    BY <1>5, <1>7, <2>1 DEF Blocks
  <2>3. QueueSplits(Unread', E2)
    BY <1>2, <1>9, <2>2, QueueEvents
  <2>. QED  BY <2>3 DEF QueueSplits
<1>13. result' = Queue!Done(IF Queue!Events(Unread') # {} THEN "event" ELSE "plain")
  BY <1>6, <1>12 DEF Done, Queue!Done
<1>. QED  BY <1>1, <1>9, <1>11, <1>13 DEF Queue!Rescan

LEMMA ResetImplements ==
  ASSUME BlockInv, Reset
  PROVE  BlockInv' /\ Queue!Reset
<1>1. IInv' /\ iCount' = 0 /\ iRemP' = 0 /\ LastOffset' = 0
  <2>1. 0 \in SeqNums
    BY SeqAssumption, LengthAssumption DEF SeqNums
  <2>2. SeqDiff(0, 0) = 0
    BY <2>1, SeqSelf
  <2>. QED  BY <2>2, ResetKeeps DEF Reset, LastOffset, BlockInv
<1>2. Blocks(info', iRemP', LastOffset', iCount', {}) /\ Clean(info', iRemP', iCount', {})
  BY <1>1 DEF Blocks, Framed, Clean
<1>3. BlockInv' /\ Unread' = Entries(charAt', info', iRemP', iCount', {})
  BY <1>1, <1>2, NextBlocks
<1>4. Unread' = <<>>
  BY <1>1, <1>3 DEF Entries
<1>. QED  BY <1>3, <1>4 DEF Reset, Queue!Reset, Done, Queue!Done

\* One step of the buffer is one step of the queue.
LEMMA StepImplements ==
  ASSUME BlockInv, ~RescanAfterLong, [Next]_vars
  PROVE  BlockInv' /\ [Queue!Next]_Queue!vars
<1>1. ASSUME NEW c \in Chars, NEW bad \in BOOLEAN, bad => c \in BadChars, PutChar(c, bad)
      PROVE  BlockInv' /\ Queue!Next
  <2>1. BlockInv' /\ Queue!Put(c, bad)
    BY <1>1, PutImplements
  <2>. QED  BY <1>1, <2>1 DEF Queue!Next
<1>2. ASSUME NEW c \in Chars, NEW bad \in BOOLEAN, bad => c \in BadChars, PutOverflow(c, bad)
      PROVE  BlockInv' /\ Queue!Next
  <2>1. BlockInv' /\ Unread' = Unread /\ terms' = terms /\ result' = Done("overflow")
    BY <1>2, ReportImplements DEF PutOverflow, Reports
  <2>2. Len(Unread) = Length
    <3>1. /\ iCount = Length /\ iCount \in Nat
          /\ Unread = Entries(charAt, info, iRemP, iCount, BlockEnds)
      BY <1>2, BlockState DEF PutOverflow, Full
    <3>2. Unread = [i \in 1..iCount |-> Unread[i]]
      BY <3>1 DEF Entries
    <3>. QED  BY <3>1, <3>2, MadeSeq
  <2>3. Queue!Put(c, bad)
    BY <2>1, <2>2 DEF Queue!Put, Queue!Done, Done
  <2>. QED  BY <1>2, <2>1, <2>3 DEF Queue!Next
<1>3. ASSUME NEW k \in 0..MaxRead, ClientWrite(k) PROVE BlockInv' /\ Queue!Next
  BY <1>3, ReadImplements DEF Queue!Next
<1>4. ASSUME NEW k \in 0..MaxRead, ReadEmpty(k) PROVE BlockInv' /\ Queue!Next
  <2>1. BlockInv' /\ Unread' = Unread /\ terms' = terms /\ result' = Done("underflow")
    BY <1>4, ReportImplements DEF ReadEmpty, Reports
  <2>2. Unread = <<>>
    BY <1>4, UnreadEntries DEF ReadEmpty, Entries
  <2>3. Queue!Read(k)
    BY <2>1, <2>2 DEF Queue!Read, Queue!Done, Done
  <2>. QED  BY <2>1, <2>3 DEF Queue!Next
<1>5. ASSUME NEW T \in TermSets, RescanTerminators(T) PROVE BlockInv' /\ Queue!Next
  BY <1>5, RescanImplements DEF Queue!Next
<1>6. CASE Reset
  BY <1>6, ResetImplements DEF Queue!Next
<1>7. CASE UNCHANGED vars
  BY <1>7, ReportImplements DEF vars, Reports, Queue!vars
<1>. QED  BY <1>1, <1>2, <1>3, <1>4, <1>5, <1>6, <1>7 DEF Next

\* The circular buffer, with its block lengths, long lengths and wrapping sequence
\* numbers, implements the bounded queue of events: every read delivers the characters
\* in order, stops at the event that ends the block and reports its flags.  The
\* hypothesis leaves out what cannot hold: a rescan that meets a long length may not
\* return.
THEOREM BufferIsQueue ==
  ASSUME ~RescanAfterLong
  PROVE  Spec => ImplementsRxQueue
<1>1. Init => BlockInv /\ Queue!Init
  BY InitBlocks
<1>2. BlockInv /\ [Next]_vars => BlockInv' /\ [Queue!Next]_Queue!vars
  BY StepImplements
<1>. QED  BY <1>1, <1>2, PTL DEF Spec, ImplementsRxQueue, Queue!Spec

\* Without a long length in its way a rescan of the terminators returns: the loops
\* of pass 2 go from block to block and end.
THEOREM RescansReturn ==
  ASSUME ~RescanAfterLong
  PROVE  Spec => []RescanReturns
<1>1. Init => BlockInv /\ RescanReturns
  BY InitBlocks DEF Init, RescanReturns
<1>2. ASSUME BlockInv, RescanReturns, [Next]_vars PROVE RescanReturns'
  <2>1. ASSUME NEW T \in TermSets, RescanTerminators(T) PROVE hung' = hung
    <3>1. Clean(info, iRemP, iCount, BlockEnds)
      BY <1>2, <2>1 DEF RescanTerminators, BlockInv
    <3>2. ~RescanHangs
      BY <1>2, <3>1, BlockState, StrippedFacts
    <3>. QED  BY <2>1, <3>2 DEF RescanTerminators
  <2>2. ASSUME NEW c \in Chars, NEW bad \in BOOLEAN, PutChar(c, bad) PROVE hung' = hung
    BY <2>2 DEF PutChar
  <2>3. ASSUME NEW n \in 0..MaxRead, ClientWrite(n) PROVE hung' = hung
    BY <2>3 DEF ClientWrite
  <2>. QED  BY <1>2, <2>1, <2>2, <2>3
            DEF Next, RescanReturns, PutOverflow, ReadEmpty, Reset, vars
<1>3. BlockInv /\ [Next]_vars => BlockInv'
  BY StepImplements
<1>. QED  BY <1>1, <1>2, <1>3, PTL DEF Spec
=============================================================================
