----------------------------- MODULE MCCommLdd -----------------------------
(* CommLdd on small constants, with an arbitrary physical driver: PddEvent. *)
EXTENDS CommLdd

MCMaxReq == [k \in Kinds |-> IF k \in {"ERx", "ETx"} THEN 2 ELSE 0]

MCTurnaroundUs == {-1000, 0, 999, 1000}
=============================================================================
