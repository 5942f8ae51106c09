----------------------------- MODULE MCCommEka1 -----------------------------
(* CommEka1 on small constants. *)
EXTENDS CommEka1

\* A cfg file has no negative numbers.
Lens == {1, 2, -2}

Budget(r, w, x, s, c, l) ==
  {[reads |-> r, writes |-> w, cancels |-> x, configs |-> s, chars |-> c,
    lines |-> l, sendXoff |-> b] : b \in BOOLEAN}

\* Characters against a full buffer; reads and writes at a time; two writes;
\* a changing line; cancels; another configuration.
Clients ==
  UNION {Budget(2, 0, 0, 0, 3, 0), Budget(1, 1, 0, 0, 2, 0), Budget(0, 2, 0, 0, 0, 0),
         Budget(0, 1, 0, 0, 0, 2), Budget(2, 0, 1, 0, 2, 0), Budget(0, 2, 1, 0, 0, 0),
         Budget(1, 0, 0, 1, 2, 0), Budget(0, 1, 0, 1, 1, 0)}

PowerClient == {b \in Budget(1, 1, 0, 0, 2, 1) : ~b.sendXoff}
WriteClient == {b \in Budget(0, 1, 0, 0, 0, 0) : ~b.sendXoff}
=============================================================================
