------------------------------ MODULE MCDeflate ------------------------------
(***************************************************************************)
(* Small images for Deflate, with a hash under which different strings     *)
(* meet in one chain.                                                      *)
(***************************************************************************)
EXTENDS Deflate

CoarseHash(a, b, c) == a

\* No repetition within the distance, and frequencies that call for a code
\* longer than KMaxCodeLength.
Skewed == <<0, 0, 1, 0, 2, 0, 0, 1, 0, 3, 0, 0, 1, 0, 2>>

TestInputs ==
  UNION {[1..n -> 0..1] : n \in 0..10} \cup UNION {[1..n -> 0..2] : n \in 5..6} \cup {Skewed}
=============================================================================
