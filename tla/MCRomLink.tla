------------------------------ MODULE MCRomLink ------------------------------
(***************************************************************************)
(* Small ROMs for RomLink, of three kinds: all graphs of links between     *)
(* four files, with one file that lacks the mark at most; two files of one *)
(* name that an import could mean; files on both sides with capabilities.  *)
(***************************************************************************)
EXTENDS RomLink, TLC

CONSTANTS f1, f2, f3, f4

Everywhere   == [layer |-> 1, parent |-> 0, vmask |-> {}]
Cpu          == [layer |-> 4, parent |-> 3, vmask |-> {}]
Variant(set) == [layer |-> 5, parent |-> 4, vmask |-> set]
Variants     == {Everywhere, Cpu, Variant({0}), Variant({1}), Variant({0, 1})}

Import(n)   == [name |-> n, uid |-> 1, major |-> 1, minor |-> 0]
Plain(n)    == [name |-> n, variant |-> Everywhere, uid |-> 1, major |-> 1, minor |-> 0,
                smp |-> TRUE, kernel |-> FALSE, device |-> FALSE, caps |-> {},
                imports |-> <<>>]
List        == <<f1, f2, f3, f4>>

\* The fourth file links to nothing, the others to two at most.
LinksOf(f) ==
  {<<>>} \cup {<<Import(g)>> : g \in Files \ {f}}
  \cup {<<Import(p[1]), Import(p[2])>> : p \in {p \in (Files \ {f}) \X (Files \ {f}) : p[1] # p[2]}}

Graph(links1, links2, links3, unsafe) ==
  [file |-> (f1 :> [Plain(f1) EXCEPT !.imports = links1, !.smp = unsafe # f1])
            @@ (f2 :> [Plain(f2) EXCEPT !.imports = links2])
            @@ (f3 :> [Plain(f3) EXCEPT !.imports = links3])
            @@ (f4 :> [Plain(f4) EXCEPT !.smp = unsafe # f4]),
   list |-> List]

SomeGraph ==
  \E l1 \in LinksOf(f1), l2 \in LinksOf(f2), l3 \in LinksOf(f3), unsafe \in {f1, f4, NoFile} :
    Init(Graph(l1, l2, l3, unsafe))

\* f1 imports from one of two files of one name.
Library(uid, variant, version) ==
  [Plain("dll") EXCEPT !.uid = uid, !.variant = variant,
                       !.major = version[1], !.minor = version[2]]
TwoVersions ==
  \E variant \in Variants \ {Variant({0, 1})}, v2, v3 \in Variants,
     ver2, ver3 \in {<<0, 1>>, <<1, 0>>, <<1, 1>>},
     uid \in {0, 1}, uid3 \in {1, 2}, major \in {0, 1} :
    LET import == [name |-> "dll", uid |-> uid, major |-> major, minor |-> 0]
    IN  Init([file |-> (f1 :> [Plain(f1) EXCEPT !.variant = variant, !.imports = <<import>>])
                       @@ (f2 :> Library(1, v2, ver2)) @@ (f3 :> Library(uid3, v3, ver3))
                       @@ (f4 :> Plain(f4)),
              list |-> List])

\* A chain of links between files of both sides.
Of(f, kind, imports) ==
  [Plain(f) EXCEPT !.kernel = kind.kernel, !.device = kind.device, !.caps = kind.caps,
                   !.imports = imports]
Kinds == {[kernel |-> FALSE, device |-> FALSE, caps |-> {}],
          [kernel |-> FALSE, device |-> FALSE, caps |-> {"DRM"}],
          [kernel |-> FALSE, device |-> FALSE, caps |-> {"DRM", "TCB"}],
          [kernel |-> TRUE, device |-> FALSE, caps |-> {}],
          [kernel |-> TRUE, device |-> TRUE, caps |-> {}]}
BothSides ==
  \E k1, k2, k3, k4 \in Kinds,
     last \in {<<>>, <<Import(f1)>>, <<Import(f4)>>, <<Import("gone"), Import(f4)>>} :
    Init([file |-> (f1 :> Of(f1, k1, <<Import(f2)>>)) @@ (f2 :> Of(f2, k2, <<Import(f3)>>))
                   @@ (f3 :> Of(f3, k3, last)) @@ (f4 :> Of(f4, k4, <<>>)),
          list |-> List])

MCInit ==
  /\ SomeGraph \/ TwoVersions \/ BothSides
  /\ Assert(IsRom(rom), "not a ROM as the proofs assume it")
MCSpec == MCInit /\ [][Next]_vars
=============================================================================
