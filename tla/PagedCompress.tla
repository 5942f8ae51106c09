---------------------------- MODULE PagedCompress ----------------------------
(***************************************************************************)
(* Byte pair compression of an image, page by page (compress/byte_pair.cpp *)
(* and pagedcompress.cpp).  A round replaces a pair of bytes, all over the *)
(* page, by a token: the byte the page uses least.  A byte that is already *)
(* used as itself is escaped by a marker.                                  *)
(*                                                                         *)
(* The table of a compressed page is a function from tokens to pairs; how  *)
(* many bytes its two forms take is in Size.  The numbers of the code:     *)
(* Bytes 0..255, TokenCost 3, MaskSize 32, PageSize 4096, StackSize 256.   *)
(***************************************************************************)
EXTENDS Integers, Sequences, FiniteSets, SequencesExt

CONSTANTS
  Bytes,
  TokenCost,        \* bytes of a table entry: the token and its pair
  MaskSize,         \* a table of so many tokens is a bit mask and pairs
  StackSize,        \* of the decompressor
  PageSize,
  iFastCompress,    \* stop rather than escape a token
  Images            \* bound: the images that are compressed

ASSUME CompressAssumption ==
  /\ Bytes \subseteq Nat /\ IsFiniteSet(Bytes) /\ Cardinality(Bytes) > 1
  /\ TokenCost \in Nat \ {0} /\ MaskSize \in Nat /\ StackSize \in Nat
  /\ PageSize \in Nat \ {0} /\ iFastCompress \in BOOLEAN
  /\ Images \subseteq Seq(Bytes)

Used   == 65535          \* the ByteCount of the marker, tokens and their pairs

\* A page, all of it escaped, has fewer bytes than a ByteCount tells from Used.
PageAssumption == 2 * PageSize < Used

\* The decompressor's stack has a place for every token.
StackAssumption == Cardinality(Bytes) <= StackSize

ASSUME SizesAssumption == PageAssumption /\ StackAssumption

VARIABLES
  bytes,       \* the image
  pages,       \* iPages, the pages compressed so far
  work,        \* "page": between pages; "rounds": in the loop of Compress
  stream,      \* in, the data of the page as the last round left them
  tokens,      \* <<token, pair>> of each round
  marker, overhead,
  byteCount,   \* ByteCount
  pairCount    \* PairCount

loop == <<stream, tokens, marker, overhead, byteCount, pairCount>>
vars == <<bytes, pages, work, loop>>

NoPair == <<>>
Pairs  == Bytes \X Bytes
Zero   == [p \in Pairs |-> 0]

Init ==
  /\ bytes \in Images
  /\ pages = <<>> /\ work = "page"
  /\ stream = <<>> /\ tokens = <<>>
  /\ marker = CHOOSE b \in Bytes : TRUE
  /\ overhead = 0
  /\ byteCount = [b \in Bytes |-> 0]
  /\ pairCount = Zero

Lesser(a, b) == IF a < b THEN a ELSE b

\* CompressPages cuts the image; its last page may be short.
Page(i) == SubSeq(bytes, (i - 1) * PageSize + 1, Lesser(i * PageSize, Len(bytes)))
ThisPage == Page(Len(pages) + 1)
-----------------------------------------------------------------------------
(* CBytePair::Compress *)

CountBytes(data) == [b \in Bytes |-> Cardinality({i \in DOMAIN data : data[i] = b})]

IsLeastCommon(b, count) ==
  \A c \in Bytes : count[b] < count[c] \/ (count[b] = count[c] /\ b <= c)
LeastCommonByte(count) == CHOOSE b \in Bytes : IsLeastCommon(b, count)

Escaped(data, m) ==
  FlattenSeq([i \in DOMAIN data |-> IF data[i] = m THEN <<m, m>> ELSE <<data[i]>>])

InitPairCountTwice(data, m) ==
  LET count[i \in 1..Len(data) + 3] ==
        IF i >= Len(data) THEN Zero
        ELSE IF data[i] = m THEN count[i + 2]
        ELSE IF data[i + 1] = m THEN count[i + 3]
        ELSE [count[i + 1] EXCEPT ![<<data[i], data[i + 1]>>] = @ + 1]
  IN  count[1]

\* Neither the marker nor the byte it escapes is in a pair; of three identical
\* bytes, a pair of identical bytes is counted once.
InitPairCount(data, m) ==
  LET count[i \in 1..Len(data) + 3] ==
        [last \in Pairs \cup {NoPair} |->
           IF i >= Len(data) THEN Zero
           ELSE IF data[i] = m THEN count[i + 2][NoPair]
           ELSE IF data[i + 1] = m THEN count[i + 3][NoPair]
           ELSE LET p == <<data[i], data[i + 1]>>
                IN  IF p = last THEN count[i + 1][NoPair]
                    ELSE [count[i + 1][p] EXCEPT ![p] = @ + 1]]
  IN  count[1][NoPair]

StartPage ==
  /\ work = "page" /\ Len(pages) * PageSize < Len(bytes)
  /\ work' = "rounds"
  /\ LET count == CountBytes(ThisPage)
         m     == LeastCommonByte(count)
     IN  /\ marker' = m
         /\ overhead' = 1 + TokenCost + count[m]
         /\ byteCount' = [count EXCEPT ![m] = Used]
         /\ stream' = Escaped(ThisPage, m)
         /\ pairCount' = InitPairCount(stream', m)
  /\ tokens' = <<>>
  /\ UNCHANGED <<bytes, pages>>

\* PairBuffer goes through the pairs in an order that is left open.
TieBreak(p) == -byteCount[p[1]] - byteCount[p[2]]
MostCommonPairs ==
  {p \in Pairs : \A q \in Pairs :
     \/ pairCount[p] > pairCount[q]
     \/ pairCount[p] = pairCount[q] /\ TieBreak(p) >= TieBreak(q)}

Token     == LeastCommonByte(byteCount)
Saving(p) == pairCount[p] - byteCount[Token]
Worth(p)  == Saving(p) > overhead /\ ~(iFastCompress /\ byteCount[Token] # 0)

UnitsUnescaped(token, pair) ==
  LET unit[i \in 1..Len(stream) + 2] ==
        IF i > Len(stream) THEN <<>>
        ELSE IF SubSeq(stream, i, Lesser(i + 1, Len(stream))) = pair
             THEN <<<<token>>>> \o unit[i + 2]
        ELSE <<<<stream[i]>>>> \o unit[i + 1]
  IN  unit[1]

\* What a round writes: a byte, or the marker and the byte it escapes.  Where
\* the token is not in the page, nothing is escaped so far, and the marker is
\* not looked for.
Units(token, pair) ==
  LET escapes == byteCount[token] # 0
      unit[i \in 1..Len(stream) + 2] ==
        IF i > Len(stream) THEN <<>>
        ELSE IF escapes /\ stream[i] = marker
             THEN <<<<marker, stream[i + 1]>>>> \o unit[i + 2]
        ELSE IF escapes /\ stream[i] = token
             THEN <<<<marker, token>>>> \o unit[i + 1]
        ELSE IF SubSeq(stream, i, Lesser(i + 1, Len(stream))) = pair
             THEN <<<<token>>>> \o unit[i + 2]
        ELSE <<<<stream[i]>>>> \o unit[i + 1]
  IN  unit[1]

CountedTwice(units) ==
  LET count[i \in 1..Len(units)] ==
        IF i = Len(units) THEN Zero
        ELSE IF Len(units[i] \o units[i + 1]) > 2 THEN count[i + 1]
        ELSE [count[i + 1] EXCEPT ![units[i] \o units[i + 1]] = @ + 1]
  IN  count[1]

\* The pairs are counted again while they are written.
Counted(units) ==
  LET count[i \in 1..Len(units)] ==
        [last \in Pairs \cup {NoPair} |->
           IF i = Len(units) THEN Zero
           ELSE IF Len(units[i] \o units[i + 1]) > 2 THEN count[i + 1][NoPair]
           ELSE LET p == units[i] \o units[i + 1]
                IN  IF p = last THEN count[i + 1][NoPair]
                    ELSE [count[i + 1][p] EXCEPT ![p] = @ + 1]]
  IN  count[1][NoPair]

Round(pair) ==
  /\ work = "rounds" /\ Worth(pair)
  /\ tokens' = Append(tokens, <<Token, pair>>)
  /\ overhead' = IF Len(tokens) >= MaskSize THEN TokenCost - 1 ELSE TokenCost
  /\ byteCount' =
       [b \in Bytes |-> IF b \in {Token, pair[1], pair[2]} THEN Used ELSE byteCount[b]]
  /\ LET units == Units(Token, pair)
     IN  stream' = FlattenSeq(units) /\ pairCount' = Counted(units)
  /\ UNCHANGED <<bytes, pages, work, marker>>

Packed ==
  [table  |-> [b \in {t[1] : t \in Range(tokens)} |->
                 (CHOOSE t \in Range(tokens) : t[1] = b)[2]],
   marker |-> marker, data |-> stream]

\* Data that did not shrink are stored as they are, with an empty table.
Stored ==
  IF Len(stream) > Len(ThisPage)
  THEN [table |-> <<>>, marker |-> marker, data |-> ThisPage]
  ELSE Packed

\* AddPage keeps what Compress returns.
AddPage ==
  /\ work = "rounds" /\ \A p \in MostCommonPairs : ~Worth(p)
  /\ pages' = Append(pages, Stored)
  /\ work' = "page"
  /\ UNCHANGED <<bytes, loop>>

Done ==
  /\ work = "page" /\ Len(pages) * PageSize >= Len(bytes)
  /\ UNCHANGED vars

Next == StartPage \/ (\E p \in MostCommonPairs : Round(p)) \/ AddPage \/ Done

Spec == Init /\ [][Next]_vars
-----------------------------------------------------------------------------
(* CBytePair::Decompress *)

Corrupt == <<"KErrCorrupt">>

\* One turn of its gotos: s.stack holds the bytes that are still to be expanded,
\* the next one first.  The byte in hand is not on the code's stack.
Turn(page, s) ==
  LET b == Head(s.stack)
  IN  IF s.stack # <<>> /\ b \in DOMAIN page.table
      THEN [s EXCEPT !.stack = page.table[b] \o Tail(@)]
      ELSE IF s.stack # <<>>
      THEN [s EXCEPT !.stack = Tail(@), !.out = Append(@, b)]
      ELSE IF page.table # <<>> /\ Head(s.in) = page.marker
      THEN [s EXCEPT !.in = Tail(Tail(@)), !.out = Append(@, s.in[2])]
      ELSE [s EXCEPT !.in = Tail(@), !.stack = <<Head(s.in)>>]

Decompress(page) ==
  LET ends(s) == (s.in = <<>> /\ s.stack = <<>>) \/ Len(s.out) = PageSize
      bad(s)  ==
        \/ Len(s.stack) > StackSize + 1
        \/ (page.table # <<>> /\ s.in = <<page.marker>> /\ s.stack = <<>>)
      turn[k \in 0..3 * PageSize] ==
        IF k = 0 THEN [in |-> page.data, stack |-> <<>>, out |-> <<>>]
        ELSE LET s == turn[k - 1] IN IF ends(s) \/ bad(s) THEN s ELSE Turn(page, s)
      last == turn[3 * PageSize]
  IN  IF ends(last) THEN last.out ELSE Corrupt

\* What a stored page takes in the file: the number of tokens, the marker, the
\* table in one of its two forms, the data.
Size(page) ==
  LET n == Cardinality(DOMAIN page.table)
  IN  Len(page.data) + (IF n = 0 THEN 1
                        ELSE IF n < MaskSize THEN 2 + TokenCost * n
                        ELSE 2 + MaskSize + (TokenCost - 1) * n)
-----------------------------------------------------------------------------
(* Properties *)

\* Every page decompresses to what it was, whatever bytes had to be escaped
\* and however deep tokens stand for tokens.
RoundTrip == \A i \in DOMAIN pages : Decompress(pages[i]) = Page(i)

\* The counts that decide the next round, kept while the last one was written,
\* are those a count from the beginning finds.
CountsAgree == work = "rounds" => pairCount = InitPairCount(stream, marker)

\* A round finds every pair and every byte to escape that its decision counted
\* on: "ASSERT(!byteCount); ASSERT(!pairCount)".
FindsAllCounted ==
  [][ \A p \in Pairs : Round(p) => Len(stream') = Len(stream) - Saving(p) ]_vars

\* A page never takes more than its bytes and an empty table: the overhead the
\* rounds weigh their savings against is what the table really costs.
NeverLarger == \A i \in DOMAIN pages : Size(pages[i]) <= Len(Page(i)) + 1
=============================================================================
