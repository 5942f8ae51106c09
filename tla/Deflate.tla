------------------------------- MODULE Deflate -------------------------------
(***************************************************************************)
(* The deflate compression of an E32 image and its decompression           *)
(* (elf2e32/source/deflatecompress.cpp, inflate.cpp).  MDeflater finds     *)
(* repeated strings with a hash table of chains and emits literals and     *)
(* segments; CInflater expands them in a circular buffer that is also the  *)
(* history.  One step is one turn of a loop.                               *)
(*                                                                         *)
(* Positions count from 0, as in the code.  The numbers of the code: bytes *)
(* 0..255, MaxDistance 4096, MinLength 3, MaxLength 258, Mantissa 4.       *)
(***************************************************************************)
EXTENDS Huffman

CONSTANTS
  Literals,         \* ELiterals, the number of byte values
  MaxDistance,      \* KDeflateMaxDistance, a power of two
  MinLength, MaxLength,
  Mantissa,         \* length and distance codes per extra bit
  Hash(_, _, _),    \* HDeflateHash::Hash of three bytes
  Inputs            \* bound: the images

ASSUME DeflateAssumption ==
  /\ Literals \in Nat \ {0} /\ MaxDistance \in Nat \ {0} /\ Mantissa \in Nat \ {0}
  /\ MinLength \in Nat /\ MinLength > 2 /\ MaxLength \in Nat /\ MaxLength >= MinLength
  /\ Inputs \subseteq Seq(Symbols(Literals))

VARIABLES
  pc,        \* "deflate", "rest", "encode", "inflate", "done" or "failed"
  data,      \* the image, aBase
  ptr, prev, \* of DoDeflateL
  iHash, iOffset,
  codes,     \* what DeflateL emits, in order
  bits,      \* the compressed image, as far as it is not yet read
  trees,     \* the decoding trees, from the stored lengths
  iOut, out, \* the circular buffer of CInflater and how far it is filled
  iLen, iRptr,
  segment,   \* a length was read, its distance is to come (tree)
  read       \* what ReadL has returned

deflater == <<ptr, prev, iHash, iOffset, codes>>
inflater == <<bits, trees, iOut, out, iLen, iRptr, segment, read>>
vars     == <<pc, data, deflater, inflater>>

Lesser(a, b) == IF a < b THEN a ELSE b

End      == Len(data)
At(p)    == data[p + 1]
NoMatch  == [len |-> 0, off |-> 0]
History  == 0..MaxDistance - 1
Triples  == Symbols(Literals) \X Symbols(Literals) \X Symbols(Literals)
Buckets  == {Hash(t[1], t[2], t[3]) : t \in Triples}

Init ==
  /\ data \in Inputs
  /\ pc = IF Len(data) > MinLength THEN "deflate" ELSE "rest"
  /\ ptr = 0 /\ prev = NoMatch
  /\ iHash = [h \in Buckets |-> -MaxDistance - 1]
  /\ iOffset = [i \in History |-> 0]
  /\ codes = <<>> /\ bits = <<>> /\ trees = [lit |-> {}, dist |-> {}]
  /\ iOut = [i \in History |-> 0] /\ out = 0
  /\ iLen = 0 /\ iRptr = 0 /\ segment = FALSE
  /\ read = <<>>
-----------------------------------------------------------------------------
(* Codes *)

\* 1 << n
TwoTo(n) ==
  LET power[i \in 0..n] == IF i = 0 THEN 1 ELSE 2 * power[i - 1]
  IN  power[n]

\* SegmentL: a number as a code with a few leading bits and the extra bits.
Extra(n)  == CHOOSE x \in 0..n : /\ n \div TwoTo(x) < 2 * Mantissa
                                 /\ \A y \in 0..x - 1 : n \div TwoTo(y) >= 2 * Mantissa
CodeOf(n) == Extra(n) * Mantissa + n \div TwoTo(Extra(n))

\* InflateL, the way back: how many extra bits a code has, and the number.
ExtraOf(code)         == IF code < 2 * Mantissa THEN 0 ELSE code \div Mantissa - 1
NumberOf(code, extra) == (code - ExtraOf(code) * Mantissa) * TwoTo(ExtraOf(code)) + extra

EEos    == Literals + CodeOf(MaxLength - MinLength) + 1
LitLens == EEos + 1
Dists   == CodeOf(MaxDistance - 1) + 1

LitLen(code) == <<"lit", code>>
Offset(code) == <<"dist", code>>
ExtraL(n)    == IF Extra(n) = 0 THEN <<>> ELSE <<<<"extra", n % TwoTo(Extra(n)), Extra(n)>>>>

Segment(m) ==
  <<LitLen(Literals + CodeOf(m.len - MinLength))>> \o ExtraL(m.len - MinLength)
  \o <<Offset(CodeOf(m.off - 1))>> \o ExtraL(m.off - 1)
-----------------------------------------------------------------------------
(* MDeflater *)

\* HDeflateHash::First: p is the last position with its hash.
First(hash, p) ==
  LET h == Hash(At(p), At(p + 1), At(p + 2))
  IN  [last   |-> [hash.last EXCEPT ![h] = p],
       offset |-> [hash.offset EXCEPT ![p % MaxDistance] =
                     Lesser(p - hash.last[h], 2 * MaxDistance)]]

\* n positions from p on, in turn.
Firsts(hash, p, n) ==
  LET after[i \in 0..n] == IF i = 0 THEN hash ELSE First(after[i - 1], p + i - 1)
  IN  after[n]

\* The offsets from p along its chain: each step goes on by one at least.
Chain(hash, p) ==
  LET offset[n \in History] ==
        IF n = 0 THEN hash.offset[p % MaxDistance]
        ELSE IF offset[n - 1] > MaxDistance THEN offset[n - 1]
        ELSE offset[n - 1] + hash.offset[(p - offset[n - 1]) % MaxDistance]
  IN  {o \in {offset[n] : n \in History} : o <= MaxDistance}

\* How far the strings at p and at o before it are equal; they may overlap.
EqualCountedLate(p, o) ==
  LET limit == Lesser(End - p, MaxLength)
  IN  CHOOSE l \in 0..limit :
        /\ \A i \in 0..l - 2 : At(p + i) = At(p - o + i)
        /\ l = limit \/ (l > 0 /\ At(p + l - 1) # At(p - o + l - 1))
Equal(p, o) ==
  LET limit == Lesser(End - p, MaxLength)
  IN  CHOOSE l \in 0..limit :
        /\ \A i \in 0..l - 1 : At(p + i) = At(p - o + i)
        /\ l = limit \/ At(p + l) # At(p - o + l)

\* The longest, and of these the nearest, in the chain.
Match(hash, p) ==
  LET chain   == Chain(hash, p)
      best(o) == \A q \in chain :
                   LET l == Equal(p, o)
                       k == Equal(p, q)
                   IN  l > k \/ (l = k /\ o <= q)
      nearest == CHOOSE o \in chain : best(o)
  IN  IF chain = {} THEN NoMatch ELSE [len |-> Equal(p, nearest), off |-> nearest]

\* A turn of DoDeflateL: a match waits one turn for a better one.
Deflate ==
  /\ pc = "deflate"
  /\ LET hash == First([last |-> iHash, offset |-> iOffset], ptr)
         m    == Match(hash, ptr)
         skipped == Lesser(prev.len - 2, End - 3 - ptr)
         full == Firsts(hash, ptr + 1, skipped)
     IN  IF m.len < prev.len
         THEN /\ codes' = codes \o Segment(prev)
              /\ prev' = NoMatch
              /\ ptr' = ptr + prev.len - 1
              /\ iHash' = full.last /\ iOffset' = full.offset
         ELSE /\ ptr' = ptr + 1
              /\ iHash' = hash.last /\ iOffset' = hash.offset
              /\ IF m.len < MinLength
                 THEN codes' = Append(codes, LitLen(At(ptr))) /\ UNCHANGED prev
                 ELSE /\ codes' = IF prev = NoMatch THEN codes
                                  ELSE Append(codes, LitLen(At(ptr - 1)))
                      /\ prev' = m
  /\ pc' = IF ptr' + MinLength - 1 < End THEN "deflate" ELSE "rest"
  /\ UNCHANGED <<data, inflater>>

\* The match that still waits, the last bytes, the end.
Rest ==
  /\ pc = "rest"
  /\ LET stop == IF prev = NoMatch THEN ptr ELSE ptr + prev.len - 1
     IN  codes' = codes \o (IF prev = NoMatch THEN <<>> ELSE Segment(prev))
                  \o [i \in 1..End - stop |-> LitLen(At(stop + i - 1))]
                  \o <<LitLen(EEos)>>
  /\ pc' = "encode"
  /\ UNCHANGED <<data, ptr, prev, iHash, iOffset, inflater>>

Frequency(kind, n) ==
  [s \in Symbols(n) |-> Cardinality({i \in DOMAIN codes : codes[i] = <<kind, s>>})]

LitTable  == HuffmanL(Frequency("lit", LitLens))
DistTable == HuffmanL(Frequency("dist", Dists))

\* The two tables are stored as one sequence of lengths.
Stored    == ExternalizeL([i \in 1..LitLens + Dists |->
               IF i <= LitLens THEN LitTable[i - 1] ELSE DistTable[i - LitLens - 1]])

Encoded ==
  FlattenSeq([i \in DOMAIN codes |->
    CASE codes[i][1] = "lit"   -> Encoding(LitTable)[codes[i][2]]
      [] codes[i][1] = "dist"  -> Encoding(DistTable)[codes[i][2]]
      [] codes[i][1] = "extra" -> Bits(codes[i][2], codes[i][3])])

\* DoDeflateL writes the lengths and, in the second pass, the codes; InitL of
\* the inflater reads the lengths.
Encode ==
  /\ pc = "encode"
  /\ IF ~(IsValid(LitTable) /\ IsValid(DistTable))
     THEN pc' = "failed" /\ UNCHANGED <<bits, trees>>
     ELSE /\ pc' = "inflate"
          /\ bits' = Encoded
          /\ LET lengths == InternalizeL(Stored, LitLens + Dists)
             IN  trees' = [lit  |-> Decoding([s \in Symbols(LitLens) |-> lengths[s + 1]]),
                           dist |-> Decoding([s \in Symbols(Dists) |->
                                                lengths[LitLens + s + 1]])]
  /\ UNCHANGED <<data, deflater, iOut, out, iLen, iRptr, segment, read>>
-----------------------------------------------------------------------------
(* CInflater *)

Next1(tree) == CHOOSE w \in tree : IsPrefix(w[1], bits)
Drop(n)     == SubSeq(bits, n + 1, Len(bits))

\* The number behind code w, with its extra bits, and what is left of the input.
Number(w, code) ==
  LET n == ExtraOf(code)
      k == Len(w[1])
      value == FoldLeft(LAMBDA v, b : 2 * v + b, 0, SubSeq(bits, k + 1, k + n))
  IN  [value |-> NumberOf(code, value), left |-> Drop(k + n)]

\* A position before the start of the buffer lies at its end.
Wrap(p) == IF p + MaxDistance < MaxDistance THEN p + MaxDistance ELSE p

\* Where the history is read next, n bytes on.
AheadToEnd(p, n) == Lesser(p + n, MaxDistance - 1)
Ahead(p, n)      == (p + n) % MaxDistance

InLoop == pc = "inflate" /\ out < MaxDistance /\ iLen >= 0

\* The next literal, length or end.
ReadLitLen ==
  /\ InLoop /\ iLen = 0 /\ ~segment
  /\ LET w == Next1(trees.lit)
         n == Number(w, w[2] - Literals)
     IN  \/ /\ w[2] < Literals
            /\ iOut' = [iOut EXCEPT ![out] = w[2]]
            /\ out' = out + 1
            /\ bits' = Drop(Len(w[1]))
            /\ UNCHANGED <<iLen, segment>>
         \/ /\ w[2] = EEos
            /\ iLen' = -1
            /\ bits' = Drop(Len(w[1]))
            /\ UNCHANGED <<iOut, out, segment>>
         \/ /\ w[2] \in Literals..EEos - 1
            /\ iLen' = n.value + MinLength
            /\ segment' = TRUE
            /\ bits' = n.left
            /\ UNCHANGED <<iOut, out>>
  /\ UNCHANGED <<pc, data, deflater, trees, iRptr, read>>

\* useHistory: as much of the segment as the buffer takes; the rest is left for
\* the next call.
Copied(from) ==
  LET tfr == Lesser(iLen, MaxDistance - out)
      after[n \in 0..tfr] ==
        IF n = 0 THEN iOut
        ELSE [after[n - 1] EXCEPT ![out + n - 1] = after[n - 1][Ahead(from, n - 1)]]
  IN  /\ iOut' = after[tfr]
      /\ out' = out + tfr
      /\ iLen' = iLen - tfr
      /\ iRptr' = Ahead(from, tfr)

ReadDistance ==
  /\ InLoop /\ segment
  /\ LET w == Next1(trees.dist)
         n == Number(w, w[2])
     IN  /\ Copied(Wrap(out - (n.value + 1)))
         /\ bits' = n.left
  /\ segment' = FALSE
  /\ UNCHANGED <<pc, data, deflater, trees, read>>

UseHistory ==
  /\ InLoop /\ iLen > 0 /\ ~segment
  /\ Copied(iRptr)
  /\ UNCHANGED <<pc, data, deflater, bits, trees, segment, read>>

\* InflateL returns to ReadL, which takes what it still needs and calls again.
Return ==
  /\ pc = "inflate" /\ ~InLoop
  /\ LET len == Lesser(out, End - Len(read))
     IN  read' = read \o [i \in 1..len |-> iOut[i - 1]]
  /\ pc' = IF Len(read') = End \/ iLen < 0 THEN "done" ELSE "inflate"
  /\ out' = 0
  /\ UNCHANGED <<data, deflater, bits, trees, iOut, iLen, iRptr, segment>>

Stopped == pc \in {"done", "failed"} /\ UNCHANGED vars

Next ==
  \/ Deflate \/ Rest \/ Encode
  \/ ReadLitLen \/ ReadDistance \/ UseHistory \/ Return
  \/ Stopped

Spec == Init /\ [][Next]_vars
-----------------------------------------------------------------------------
(* Properties *)

\* What a segment stands for: it may overlap itself.
Repeat(s, len, off) ==
  LET r[n \in 0..len] == IF n = 0 THEN s ELSE Append(r[n - 1], r[n - 1][Len(s) + n - off])
  IN  r[len]

\* What codes stand for: the bytes expanded, the length whose distance is to come
\* and the code whose extra bits are to come.
Start == [out |-> <<>>, len |-> 0, code |-> 0]

Literal(s, byte) == [s EXCEPT !.out = Append(@, byte)]

WholeNumber(s, n) ==
  IF s.len = 0 THEN [out |-> s.out, len |-> n + MinLength, code |-> 0]
  ELSE [out |-> Repeat(s.out, s.len, n + 1), len |-> 0, code |-> 0]

NumberCode(s, code) ==
  IF ExtraOf(code) = 0 THEN WholeNumber(s, NumberOf(code, 0)) ELSE [s EXCEPT !.code = code]

Expand(s, c) ==
  IF c[1] = "lit" /\ c[2] < Literals THEN Literal(s, c[2])
  ELSE IF c[1] = "lit" /\ c[2] < EEos THEN NumberCode(s, c[2] - Literals)
  ELSE IF c[1] = "dist" THEN NumberCode(s, c[2])
  ELSE IF c[1] = "extra" THEN WholeNumber(s, NumberOf(s.code, c[2]))
  ELSE s

\* The bytes behind all the codes, without the limits of the buffer.
Meaning ==
  LET upto[i \in 0..Len(codes)] == IF i = 0 THEN Start ELSE Expand(upto[i - 1], codes[i])
  IN  upto[Len(codes)].out

\* The codes emitted so far stand for the image up to the position that is
\* compared, less the byte whose match waits for a better one, and in the end for
\* the whole image.
CodesCover ==
  Meaning = IF pc \notin {"deflate", "rest"} THEN data
            ELSE SubSeq(data, 1, IF prev = NoMatch THEN ptr ELSE ptr - 1)

\* The image comes back, whichever way its segments lie across the end of the
\* circular buffer.
RoundTrip ==
  /\ pc \in {"inflate", "done"} => IsPrefix(read, data)
  /\ pc = "done" => read = data

\* HuffmanL builds a code that IsValid accepts, in which no symbol has a longer
\* word than a rarer one.
CodeIsSound ==
  pc = "encode" =>
    \A f \in {Frequency("lit", LitLens), Frequency("dist", Dists)} :
      LET table == HuffmanL(f)
      IN  /\ TooDeep(table) \/ IsValid(table)
          /\ \A s, t \in Coded(f) : f[s] > f[t] => table[s] <= table[t]

\* The tree the decoder builds from the stored lengths reads exactly the words
\* the encoder writes; a code of one word reads also its complement.  The words
\* are those of a sound code.
TreesAgree ==
  /\ CodeIsSound
  /\ pc = "inflate" =>
       \A t \in {<<trees.lit, LitTable>>, <<trees.dist, DistTable>>} :
         LET words == {<<Encoding(t[2])[s], s>> : s \in Coded(t[2])}
         IN  IF Cardinality(words) = 1 THEN words \subseteq t[1] ELSE t[1] = words
=============================================================================
