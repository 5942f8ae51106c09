--------------------------- MODULE OrdinalRegistry ---------------------------
(***************************************************************************)
(* What a frozen .DEF file promises to the programs that were linked by    *)
(* ordinal: the ordinal of an export is its place in the registry; names   *)
(* are only added, after the last ordinal; an export that is gone keeps    *)
(* its ordinal as absent, for good; no name has two ordinals.              *)
(***************************************************************************)
EXTENDS Naturals, Sequences

VARIABLE registry        \* the entries, each a name and whether it is absent

Kept(old, new) ==
  /\ Len(old) <= Len(new)
  /\ \A o \in DOMAIN old :
       new[o].name = old[o].name /\ (old[o].absent => new[o].absent)

Unambiguous(entries) ==
  \A o, p \in DOMAIN entries : entries[o].name = entries[p].name => o = p

Init == registry = <<>>

Freeze ==
  /\ Kept(registry, registry')
  /\ Unambiguous(registry')
  /\ \A o \in DOMAIN registry' \ DOMAIN registry : ~registry'[o].absent

Spec == Init /\ [][Freeze]_registry
=============================================================================
