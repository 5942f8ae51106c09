--------------------------- MODULE MCPagedCompress ---------------------------
(***************************************************************************)
(* Images for PagedCompress: put together from blocks, so that they have   *)
(* many equal pairs, and all short ones.                                   *)
(***************************************************************************)
EXTENDS PagedCompress

Blocks  == {<<0, 1>>, <<2>>, <<3>>}
Endings == {<<>>, <<4, 5, 6>>, <<4, 4, 5, 5, 6, 6>>}

Built(n, blocks) == {FlattenSeq(b) \o e : b \in [1..n -> blocks], e \in Endings}

TestImages == Built(7, Blocks) \cup Built(8, {<<0, 1>>, <<2>>})
              \cup UNION {[1..n -> 0..2] : n \in 0..6}
=============================================================================
