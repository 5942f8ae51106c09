----------------------------- MODULE MCCommRxBuf -----------------------------
(***************************************************************************)
(* Small instances of CommRxBuf, and RescanTerminators written turn by     *)
(* turn, as its loops are, to compare with CommRxBuf's definition of it.   *)
(***************************************************************************)
EXTENDS CommRxBuf

StripTurn(s) ==
  LET b   == s.info[s.ptr]
      len == IF b = 0 THEN iCount - s.off ELSE BlockSize(s.info, s.ptr)
      cut == IF b = 0 THEN s.info
             ELSE IF Low(b) = LongMark THEN StoreWord(s.info, WordAt(s.ptr), 0)
             ELSE [s.info EXCEPT ![s.ptr] = High(b)]
      end == Wrap(s.ptr + len - (IF len > 0 THEN 1 ELSE 0))
  IN  [ptr |-> Wrap(s.ptr + len), off |-> s.off + len,
       info |-> [cut EXCEPT ![end] = Unterm(@)]]

\* Two turns in a row that go nowhere are followed only by such turns.
StripLoop ==
  LET turn[k \in 0..2 * Length + 2] ==
        IF k = 0 THEN [ptr |-> iRemP, off |-> 0, info |-> info]
        ELSE LET s == turn[k - 1]
             IN  IF s.off < iCount THEN StripTurn(s) ELSE s
  IN  turn[2 * Length + 2]

ScanTurn(s, T) ==
  LET p    == At(s.off)
      mark == IF charAt[p] \in T THEN [s.info EXCEPT ![p] = AsTerm(@)] ELSE s.info
  IN  IF High(mark[p]) # 0
      THEN [off |-> s.off + 1, first |-> Wrap(p + 1), last |-> s.off + 1,
            info |-> StoreCount(mark, s.first, s.off + 1 - s.last)]
      ELSE [s EXCEPT !.off = @ + 1, !.info = mark]

ScanLoop(inf, T) ==
  LET turn[k \in 0..iCount] ==
        IF k = 0 THEN [off |-> 0, first |-> iRemP, last |-> 0, info |-> inf]
        ELSE LET s == turn[k - 1] IN ScanTurn(s, T)
  IN  turn[iCount]

\* The loops of RescanTerminators (d_cbuf.cpp:287-373), turn by turn, end
\* with the info bytes and the last event CommRxBuf gives them, and hang
\* exactly where it says so.
RescanAsLooped ==
  LET strip == StripLoop
  IN  /\ RescanHangs <=> strip.off < iCount
      /\ ~RescanHangs =>
           \A T \in TermSets :
             LET scan    == ScanLoop(strip.info, T)
                 flagged == Flagged(Stripped, T)
             IN  /\ scan.info = Recounted(flagged)
                 /\ scan.last = LastEvent(EventOffsets(flagged))
=============================================================================
