------------------------------ MODULE CommRxBuf ------------------------------
(***************************************************************************)
(* CCommRxBuf, the circular receive buffer of the EKA1 serial driver       *)
(* (wintunnel/src_beech/d_cbuf.cpp).  Beside every character is an info    *)
(* byte: its high half holds the flags of an event, its low half, at the   *)
(* first character of a block that ends in an event, the length of the     *)
(* block.  A length that does not fit (LongMark) is stored as a whole word *)
(* over the info bytes that follow.  Three sequence numbers of a wrapping  *)
(* space say how far insertion, removal and the last event have come.      *)
(*                                                                         *)
(* Every operation is one step: DoDrainRxBuffer (d_comm.cpp:555-613) and   *)
(* RescanTerminators hold interrupts off for the whole call, so no         *)
(* character is inserted in the middle of one.                             *)
(***************************************************************************)
EXTENDS Integers, Sequences

CONSTANTS
  Chars,            \* the characters a line can deliver
  BadChars,         \* those that can arrive with a parity error
  Length,           \* iLength, a multiple of the word size (Align4)
  LongMark,         \* the low half that says "the length is in a word" (0x0f)
  WordSize,         \* bytes in a word (4)
  SeqHalf,          \* half of the sequence number space (2^31)
  TermSets,         \* the sets of terminators a client configures
  MaxRead,          \* bound: the longest read
  RescanAfterLong   \* whether a rescan may follow the use of a long length

ASSUME CharsAssumption   == Chars # {}
ASSUME LengthAssumption  == Length \in Nat \ {0} /\ Length % WordSize = 0
ASSUME WordAssumption    == WordSize \in Nat \ {0} /\ LongMark \in Nat
                            /\ LongMark > 2 * WordSize
ASSUME ByteAssumption    ==
  LET byte == 16 * (LongMark + 1)
  IN  Length < byte \/ (WordSize > 1 /\ Length < byte * byte)
ASSUME SeqAssumption     == SeqHalf \in Nat /\ SeqHalf > Length
ASSUME ReadAssumption    == MaxRead \in Nat /\ RescanAfterLong \in BOOLEAN

VARIABLES
  charAt,           \* iCharPtr
  info,             \* iInfoPtr
  iCount, iInsP, iRemP,
  iInsSeqNum, iRemSeqNum, iLastSeqNum,
  terms,            \* iConfig.iTerminator, the terminators in force
  result,           \* what the last operation returned
  hung,             \* RescanTerminators is in a loop it never leaves
  long              \* a long length was written since the buffer was empty

buffer == <<charAt, info, iCount, iInsP, iRemP>>
seqs   == <<iInsSeqNum, iRemSeqNum, iLastSeqNum>>
vars   == <<buffer, seqs, terms, result, hung, long>>

Index == 0..Length - 1
-----------------------------------------------------------------------------
(* Sequence numbers, pointers and info bytes *)

SeqNums == 0..2 * SeqHalf - 1

\* TCommSeqNum::operator+= and ++
SeqAdd(a, n) == IF a + n >= 2 * SeqHalf THEN a + n - 2 * SeqHalf ELSE a + n

\* TCommSeqNum::operator-, the signed difference
SeqDiff(a, b) ==
  LET d == IF a >= b THEN a - b ELSE a - b + 2 * SeqHalf
  IN  IF d >= SeqHalf THEN d - 2 * SeqHalf ELSE d

WrapLate(p) == IF p > Length THEN p - Length ELSE p
Wrap(p) == IF p >= Length THEN p - Length ELSE p

Lesser(a, b) == IF a < b THEN a ELSE b

Unit      == LongMark + 1              \* the high half counts in these
ByteSize  == 16 * Unit
ErrorFlag == Unit                      \* KReceiveIsrParityError, shifted
TermFlag  == 8 * Unit                  \* KReceiveIsrTermChar, shifted
Low(b)    == b % Unit
High(b)   == b - Low(b)
Unterm(b) == IF b >= TermFlag THEN b - TermFlag ELSE b
AsTerm(b) == Unterm(b) + TermFlag

\* The aligned word after info byte p, where a long length of its block is.
WordAt(p) ==
  LET q == ((p + WordSize) \div WordSize) * WordSize
  IN  IF q >= Length THEN 0 ELSE q

\* A length has at most two bytes (ByteAssumption), the lower one first.
WordValue(inf, w) ==
  inf[w] + (IF WordSize > 1 THEN ByteSize * inf[w + 1] ELSE 0)

WordByte(n, k) ==
  IF k = 0 THEN n % ByteSize ELSE IF k = 1 THEN n \div ByteSize ELSE 0

InWord(i, w) == i \in w..w + WordSize - 1

StoreWord(inf, w, n) ==
  [i \in Index |-> IF InWord(i, w) THEN WordByte(n, i - w) ELSE inf[i]]

\* The length of the block that starts at p, 0 when no event follows.
BlockSize(inf, p) ==
  IF Low(inf[p]) = LongMark THEN WordValue(inf, WordAt(p)) ELSE Low(inf[p])

StoreCountShort(inf, p, n) ==
  IF n <= LongMark
  THEN [inf EXCEPT ![p] = High(@) + n]
  ELSE StoreWord([inf EXCEPT ![p] = High(@) + LongMark], WordAt(p), n)

\* Write the length n of the block that starts at p.
StoreCount(inf, p, n) ==
  IF n < LongMark
  THEN [inf EXCEPT ![p] = High(@) + n]
  ELSE StoreWord([inf EXCEPT ![p] = High(@) + LongMark], WordAt(p), n)
-----------------------------------------------------------------------------
(* Operations *)

Done(ret) == [ret |-> ret, status |-> 0, data |-> <<>>]

Init ==
  /\ charAt \in [Index -> {CHOOSE c \in Chars : TRUE}]
  /\ info = [i \in Index |-> 0]
  /\ iCount = 0 /\ iInsP = 0 /\ iRemP = 0
  /\ iInsSeqNum = 0 /\ iRemSeqNum = 0 /\ iLastSeqNum = 0
  /\ terms \in TermSets
  /\ result = Done("none")
  /\ hung = FALSE
  /\ long = FALSE

\* The flags ReceiveIsr puts beside a character.
Flags(c, bad) ==
  IF bad THEN ErrorFlag ELSE IF c \in terms THEN TermFlag ELSE 0

FullLate == iCount > Length
Full     == iCount >= Length

PutOverflow(c, bad) ==
  /\ Full
  /\ result' = Done("overflow")
  /\ UNCHANGED <<buffer, seqs, terms, hung, long>>

PutChar(c, bad) ==
  /\ ~Full
  /\ LET f      == Flags(c, bad)
         put    == [info EXCEPT ![iInsP] = f]
         insP   == Wrap(iInsP + 1)
         insSeq == SeqAdd(iInsSeqNum, 1)
         count  == SeqDiff(insSeq, iLastSeqNum)
         first  == IF insP < count THEN insP - count + Length ELSE insP - count
     IN  /\ charAt' = [charAt EXCEPT ![iInsP] = c]
         /\ iInsP' = insP
         /\ iCount' = iCount + 1
         /\ iInsSeqNum' = insSeq
         /\ IF f # 0
            THEN /\ info' = StoreCount(put, first, count)
                 /\ iLastSeqNum' = insSeq
                 /\ result' = Done("event")
                 /\ long' = (long \/ count >= LongMark)
            ELSE /\ info' = put
                 /\ result' = Done("plain")
                 /\ UNCHANGED <<iLastSeqNum, long>>
  /\ UNCHANGED <<iRemP, iRemSeqNum, terms, hung>>

ReadEmpty(n) ==
  /\ iCount = 0
  /\ result' = Done("underflow")
  /\ UNCHANGED <<buffer, seqs, terms, hung, long>>

\* A read past the last event takes iLastSeqNum along, so that the length
\* of the next block is counted from the first unread character.
LastSeqStays(remSeq) == iLastSeqNum
LastSeqAfter(remSeq) ==
  IF SeqDiff(remSeq, iLastSeqNum) > 0 THEN remSeq ELSE iLastSeqNum

\* ClientWrite of a request for n characters.
ClientWrite(n) ==
  /\ iCount # 0
  /\ LET blocksz == BlockSize(info, iRemP)
         last    == Wrap(iRemP + blocksz - (IF blocksz > 0 THEN 1 ELSE 0))
         length  == IF blocksz > 0 THEN Lesser(blocksz, n) ELSE n
         maxcopy == Lesser(length, iCount)
         remP    == Wrap(iRemP + maxcopy)
         remSeq  == SeqAdd(iRemSeqNum, maxcopy)
     IN  /\ result' = [ret    |-> IF maxcopy = length THEN "complete" ELSE "partial",
                       status |-> High(info[last]),
                       data   |-> [i \in 1..maxcopy |-> charAt[Wrap(iRemP + i - 1)]]]
         /\ iRemP' = remP
         /\ iRemSeqNum' = remSeq
         /\ iLastSeqNum' = LastSeqAfter(remSeq)
         /\ iCount' = iCount - maxcopy
         /\ info' = IF blocksz > maxcopy
                    THEN StoreCount(info, remP, blocksz - maxcopy) ELSE info
         /\ long' = (long /\ iCount' # 0)
  /\ UNCHANGED <<charAt, iInsP, iInsSeqNum, terms, hung>>

\* The info byte of the unread character at offset o from iRemP, and back.
At(o)       == Wrap(iRemP + o)
OffsetOf(i) == IF i >= iRemP THEN i - iRemP ELSE i - iRemP + Length

\* Pass 2 of RescanTerminators goes from block to block and removes lengths
\* and terminator flags.  How far one turn of its loop goes from offset o (a
\* lone terminator flag is removed by a turn that goes nowhere):
StripLength(o) ==
  IF info[At(o)] \in {0, TermFlag} THEN iCount - o ELSE BlockSize(info, At(o))

StripStarts ==
  LET from[o \in 0..Length] ==
        IF o >= iCount THEN {}
        ELSE IF StripLength(o) = 0 THEN {o}
        ELSE {o} \cup from[Lesser(o + StripLength(o), Length)]
  IN  from[0]

\* A turn that goes nowhere is repeated for ever.
RescanHangs == \E o \in StripStarts : StripLength(o) = 0

\* A long length is cleared in its word, its mark stays.
Stripped ==
  LET starts == StripStarts
      ends   == {o + StripLength(o) - 1 : o \in starts}
      longs  == {o \in starts : Low(info[At(o)]) = LongMark}
      cut(i) == IF \E o \in longs : InWord(i, WordAt(At(o))) THEN 0
                ELSE IF OffsetOf(i) \in starts \ longs THEN High(info[i])
                ELSE info[i]
  IN  [i \in Index |-> IF OffsetOf(i) \in ends THEN Unterm(cut(i)) ELSE cut(i)]

\* Pass 3 flags the terminators T ...
Flagged(inf, T) ==
  [i \in Index |->
     IF OffsetOf(i) < iCount /\ charAt[i] \in T THEN AsTerm(inf[i]) ELSE inf[i]]

EventOffsets(inf) == {o \in 0..iCount - 1 : High(inf[At(o)]) # 0}

\* ... and writes the lengths of the blocks afresh, as for a first insertion.
Recounted(inf) ==
  LET events  == EventOffsets(inf)
      firsts  == {f \in {0} \cup {e + 1 : e \in events} : \E e \in events : e >= f}
      size(f) == 1 + (CHOOSE e \in events : e >= f
                        /\ \A d \in events : d >= f => d >= e) - f
      longs   == {f \in firsts : size(f) >= LongMark}
      over(i) == {f \in longs : InWord(i, WordAt(At(f)))}
  IN  [i \in Index |->
         IF over(i) # {}
         THEN LET f == CHOOSE f \in over(i) : TRUE
              IN  WordByte(size(f), i - WordAt(At(f)))
         ELSE IF OffsetOf(i) \in firsts
         THEN High(inf[i]) + Lesser(size(OffsetOf(i)), LongMark)
         ELSE inf[i]]

LastEventBefore(events) ==
  IF events = {} THEN 0 ELSE CHOOSE e \in events : \A d \in events : d <= e
LastEvent(events) ==
  IF events = {} THEN 0 ELSE 1 + CHOOSE e \in events : \A d \in events : d <= e

\* Pass 4 has no more to tie in: interrupts are off for the whole call, so
\* iLastSeqNum is still where pass 1 put it (d_cbuf.cpp:377).
RescanTerminators(T) ==
  /\ T # terms
  /\ long => RescanAfterLong
  /\ terms' = T
  /\ IF RescanHangs
     THEN /\ hung' = TRUE
          /\ UNCHANGED <<buffer, seqs, result, long>>
     ELSE LET flagged == Flagged(Stripped, T)
              events  == EventOffsets(flagged)
          IN  /\ info' = Recounted(flagged)
              /\ iLastSeqNum' = SeqAdd(iRemSeqNum, LastEvent(events))
              /\ result' = Done(IF events # {} THEN "event" ELSE "plain")
              /\ long' = (long \/ \E o \in 0..iCount - 1 :
                                   Low(info'[At(o)]) = LongMark)
              /\ UNCHANGED <<charAt, iCount, iInsP, iRemP, iInsSeqNum,
                             iRemSeqNum, hung>>

Reset ==
  /\ iCount' = 0 /\ iInsP' = 0 /\ iRemP' = 0
  /\ iInsSeqNum' = 0 /\ iRemSeqNum' = 0 /\ iLastSeqNum' = 0
  /\ result' = Done("none")
  /\ long' = FALSE
  /\ UNCHANGED <<charAt, info, terms, hung>>

Next ==
  /\ ~hung
  /\ \/ \E c \in Chars, bad \in BOOLEAN :
          /\ bad => c \in BadChars
          /\ PutChar(c, bad) \/ PutOverflow(c, bad)
     \/ \E n \in 0..MaxRead : ClientWrite(n) \/ ReadEmpty(n)
     \/ \E T \in TermSets : RescanTerminators(T)
     \/ Reset

Spec == Init /\ [][Next]_vars
-----------------------------------------------------------------------------
(* Properties *)

TypeOK ==
  /\ charAt \in [Index -> Chars]
  /\ info \in [Index -> 0..ByteSize - 1]
  /\ iCount \in 0..Length /\ iInsP \in Index /\ iRemP \in Index
  /\ iInsSeqNum \in SeqNums /\ iRemSeqNum \in SeqNums /\ iLastSeqNum \in SeqNums
  /\ terms \in TermSets
  /\ hung \in BOOLEAN /\ long \in BOOLEAN

\* The offset of the last event, as DChannelComm's reader sees it.
LastOffset == SeqDiff(iLastSeqNum, iRemSeqNum)

\* The two pointers, the count and the three sequence numbers, which are
\* updated in different places of PutChar, ClientWrite and RescanTerminators,
\* say the same thing, also when the sequence numbers have wrapped.
PointersAgree ==
  /\ iInsP = Wrap(iRemP + iCount)
  /\ SeqDiff(iInsSeqNum, iRemSeqNum) = iCount
  /\ LastOffset \in 0..iCount

\* The offsets of the characters that end a block, found as a reader finds
\* them: from block to block, up to the last event.
BlockEnds ==
  LET from[o \in 0..Length] ==
        IF o >= LastOffset THEN {}
        ELSE LET b == BlockSize(info, Wrap(iRemP + o))
             IN  IF b \in 1..LastOffset - o THEN {o + b - 1} \cup from[o + b]
                 ELSE {o}
  IN  from[0]

\* Refinement: the unread characters with the flags of the events.
Unread ==
  LET ends == BlockEnds
  IN  [i \in 1..iCount |->
         LET p == Wrap(iRemP + i - 1)
         IN  [char  |-> charAt[p],
              flags |-> IF i - 1 \in ends THEN High(info[p]) ELSE 0]]

Queue == INSTANCE RxQueue WITH queue <- Unread

\* The circular buffer implements the bounded queue of RxQueue: reads deliver
\* every character once, in order, stop at the events, and report the flags
\* of the event that ends the block, whatever wraps around in between.
ImplementsRxQueue == Queue!Spec

\* An operation never overwrites a character that is still to be read: what
\* is unread before and after a step is the same characters (ClientWrite
\* removes them at one end, PutChar adds at the other).
UnreadIntact ==
  [][ \A o \in 0..iCount' - 1 :
        LET n == SeqDiff(iRemSeqNum', iRemSeqNum)
        IN  n + o < iCount /\ n >= 0
              => charAt'[Wrap(iRemP' + o)] = charAt[Wrap(iRemP + n + o)] ]_vars

\* The rescan of the terminators ends (d_cbuf.cpp:282 says of its first pass
\* that it removes all count information).
RescanReturns == ~hung
=============================================================================
