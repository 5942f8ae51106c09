----------------------------- MODULE MCCommPdd -----------------------------
(* CommPdd on small constants: one instance per kind of port and client. *)
EXTENDS CommPdd

\* How many requests of each kind the client makes.
ReadWrite == [k \in Kinds |-> IF k \in {"ERx", "ETx"} THEN 2 ELSE 0]
TwoWrites == [k \in Kinds |-> CASE k = "ETx" -> 2 [] k = "ERx" -> 1 [] OTHER -> 0]
Reads     == [k \in Kinds |-> IF k = "ERx" THEN 3 ELSE 0]
One       == [k \in Kinds |-> 1]

\* A cfg file has no negative numbers.
Lens == {1, 2, -2, 3}
=============================================================================
