------------------------------- MODULE Huffman -------------------------------
(***************************************************************************)
(* The Huffman toolkit of elf2e32 (source/huffman.cpp): code lengths from  *)
(* frequencies, the canonical code and its decoding tree, and the compact  *)
(* form in which the lengths are stored.  Symbols are 0, 1, 2, ...; a      *)
(* table is a function from the symbols, a code word a sequence of bits.   *)
(***************************************************************************)
EXTENDS Integers, Sequences, FiniteSets, SequencesExt

CONSTANT KMaxCodeLength        \* 27

ASSUME CodeLengthAssumption == KMaxCodeLength \in Nat \ {0}

Symbols(n)   == 0..n - 1
Coded(table) == {s \in DOMAIN table : table[s] > 0}
-----------------------------------------------------------------------------
(* HuffmanL *)

\* InsertInOrder: decreasing counts, the new node after those with its count.
InsertLast(nodes, node)    == Append(nodes, node)
InsertInOrder(nodes, node) ==
  LET heavier(n) == n.count >= node.count
      lighter(n) == n.count < node.count
  IN  SelectSeq(nodes, heavier) \o <<node>> \o SelectSeq(nodes, lighter)

Leaf(frequency, s) == [count |-> frequency[s], depth |-> [t \in {s} |-> 0]]

\* The symbols of two nodes come one level lower.
Joined(m, n) ==
  [count |-> m.count + n.count,
   depth |-> [s \in DOMAIN m.depth \cup DOMAIN n.depth |->
                1 + (IF s \in DOMAIN m.depth THEN m.depth[s] ELSE n.depth[s])]]

\* The least frequent nodes are paired off until one is left; a single symbol
\* gets length 1.
HuffmanL(frequency) ==
  LET coded == Coded(frequency)
      order == SetToSortSeq(coded, <)
      leaves[i \in 0..Len(order)] ==
        IF i = 0 THEN <<>> ELSE InsertInOrder(leaves[i - 1], Leaf(frequency, order[i]))
      nodes[k \in 1..Len(order)] ==
        IF k = Len(order) THEN leaves[k]
        ELSE LET q == nodes[k + 1]
             IN  InsertInOrder(SubSeq(q, 1, k - 1), Joined(q[k], q[k + 1]))
  IN  [s \in DOMAIN frequency |->
         IF s \notin coded THEN 0
         ELSE IF Cardinality(coded) = 1 THEN 1
         ELSE nodes[1][1].depth[s]]

\* HuffmanLengthsL throws when the tree is too deep.
TooDeep(table) == \E s \in DOMAIN table : table[s] > KMaxCodeLength

\* How much of the code space the lengths leave.
Remain(table) ==
  LET left[k \in 0..KMaxCodeLength] ==
        IF k = 0 THEN 1
        ELSE 2 * left[k - 1] - Cardinality({s \in DOMAIN table : table[s] = k})
  IN  left

IsValid(table) ==
  /\ ~TooDeep(table)
  /\ \A k \in 0..KMaxCodeLength : Remain(table)[k] >= 0
  /\ \/ Remain(table)[KMaxCodeLength] = 0
     \/ \A s, t \in Coded(table) : s = t /\ table[s] = 1
-----------------------------------------------------------------------------
(* Encoding and Decoding *)

Bits(value, width) == [i \in 1..width |-> (value \div 2^(width - i)) % 2]

\* The canonical code: words of one length follow each other in the order of
\* their symbols, and continue where the shorter ones end.
Encoding(table) ==
  LET ofLength(k)   == {s \in DOMAIN table : table[s] = k}
      nextCode[k \in 1..KMaxCodeLength] ==
        IF k = 1 THEN 0 ELSE 2 * (nextCode[k - 1] + Cardinality(ofLength(k - 1)))
  IN  [s \in Coded(table) |->
         Bits(nextCode[table[s]] + Cardinality({t \in ofLength(table[s]) : t < s}), table[s])]

\* HuffmanSubTree: the symbols in the order of their lengths fill the tree from
\* the left.  A tree is given by the <<code word, symbol>> it decodes.
Under(bit, words) == {<<<<bit>> \o w[1], w[2]>> : w \in words}

Decoding(table) ==
  LET order == SetToSortSeq(Coded(table),
                 LAMBDA s, t : table[s] < table[t] \/ (table[s] = table[t] /\ s < t))
      n     == Len(order)
      here(depth, k) == Cardinality({j \in k..n : table[order[j]] = depth})
      word(bit, k)   == {<<<<bit>>, order[k]>>}
      sub[depth \in 1..KMaxCodeLength, k \in 1..n] ==
        IF here(depth, k) > 1
        THEN [words |-> word(0, k) \cup word(1, k + 1), next |-> k + 2]
        ELSE IF here(depth, k) = 1
        THEN LET one == sub[depth + 1, k + 1]
             IN  [words |-> word(0, k) \cup Under(1, one.words), next |-> one.next]
        ELSE LET zero == sub[depth + 1, k]
                 one  == sub[depth + 1, zero.next]
             IN  [words |-> Under(0, zero.words) \cup Under(1, one.words), next |-> one.next]
  IN  IF n = 0 THEN {}
      ELSE IF n = 1 THEN word(0, 1) \cup word(1, 1)
      ELSE sub[1, 1].words
-----------------------------------------------------------------------------
(* ExternalizeL and InternalizeL *)

\* EncodeRunLengthL writes a run with two digits, the last one last.
EncodeRunLengthBinary(length) ==
  LET digits[n \in 0..length] ==
        IF n = 0 THEN <<>> ELSE Append(digits[n \div 2], n % 2)
  IN  digits[length]
EncodeRunLength(length) ==
  LET digits[n \in 0..length] ==
        IF n = 0 THEN <<>> ELSE Append(digits[(n - 1) \div 2], 1 - (n % 2))
  IN  digits[length]

Lengths == [i \in 1..KMaxCodeLength |-> i]

\* Place j of a move-to-front list goes to the front.
ToFront(list, j, last) == [i \in DOMAIN list |-> IF i > j THEN list[i]
                                                ELSE IF i = 1 THEN last ELSE list[i - 1]]

\* The lengths, given as a sequence: runs of the last length, and the places of
\* the others in the list of the lengths.
ExternalizeL(lengths) ==
  LET after[n \in 0..Len(lengths)] ==
        IF n = 0 THEN [list |-> Lengths, last |-> 0, run |-> 0, out |-> <<>>]
        ELSE LET s == after[n - 1]
                 c == lengths[n]
                 j == CHOOSE j \in DOMAIN s.list : s.list[j] = c
             IN  IF c = s.last THEN [s EXCEPT !.run = @ + 1]
                 ELSE [list |-> ToFront(s.list, j, s.last), last |-> c, run |-> 0,
                       out  |-> Append(s.out \o EncodeRunLength(s.run), j + 1)]
      end == after[Len(lengths)]
  IN  end.out \o EncodeRunLength(end.run)

InternalizeL(in, n) ==
  LET full(s)   == Len(s.out) + s.run >= n
      unrun(s)  == s.out \o [i \in 1..s.run |-> s.last]
      after[k \in 0..Len(in)] ==
        IF k = 0 THEN [list |-> Lengths, last |-> 0, run |-> 0, out |-> <<>>]
        ELSE LET s == after[k - 1]
                 c == in[k]
             IN  IF full(s) THEN s
                 ELSE IF c < 2 THEN [s EXCEPT !.run = 2 * @ + c + 1]
                 ELSE [list |-> ToFront(s.list, c - 1, s.last), last |-> s.list[c - 1],
                       run  |-> 0, out |-> Append(unrun(s), s.list[c - 1])]
  IN  unrun(after[Len(in)])
=============================================================================
