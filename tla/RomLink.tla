------------------------------- MODULE RomLink -------------------------------
(***************************************************************************)
(* How rombuild links the files of a ROM (rombuild/r_build.cpp): versions  *)
(* and hardware variants, the dependence graph, and on the graph that is   *)
(* built ComputeSmpSafe.                                                   *)
(*                                                                         *)
(* A ROM is a record of its files' headers and the list of executables in  *)
(* which names are looked up.  The memory model is one in which DLLs need  *)
(* no attach process (E_MM_Flexible, E_MM_Multiple).                       *)
(***************************************************************************)
EXTENDS SmpSafe

CONSTANT gPlatSecEnforcement

VARIABLES
  rom,
  built,                \* the files BuildDependenceGraph has seen
  err                   \* what it returned for them, "KErrNone" before

link == <<rom, built, err>>
vars == <<iDeps, marked, smp, link>>

Header(f) == rom.file[f]
-----------------------------------------------------------------------------
(* THardwareVariant: a layer, its parent and a set of variants *)

IsIndependent(v) == v.layer <= 3
IsCpu(v)         == v.parent = 3

MutuallyExclusive(v, w) ==
  /\ ~IsIndependent(v) /\ ~IsIndependent(w)
  /\ IF IsCpu(v) /\ IsCpu(w)
     THEN v.layer # w.layer
     ELSE \/ IsCpu(v) /\ w.parent # v.layer
          \/ IsCpu(w) /\ v.parent # w.layer
          \/ v.layer # w.layer
          \/ v.vmask \cap w.vmask = {}

Compare(v, w) ==
  CASE IsIndependent(v) /\ IsIndependent(w)       -> "EEqual"
    [] IsIndependent(v) /\ ~IsIndependent(w)      -> "EGreater"
    [] ~IsIndependent(v) /\ IsIndependent(w)      -> "ELess"
    [] OTHER ->
       CASE IsCpu(v) /\ IsCpu(w)   -> IF v.layer = w.layer THEN "EEqual" ELSE "EUnordered"
         [] IsCpu(v) /\ ~IsCpu(w)  -> IF w.parent = v.layer THEN "EGreater" ELSE "EUnordered"
         [] ~IsCpu(v) /\ IsCpu(w)  -> IF v.parent = w.layer THEN "ELess" ELSE "EUnordered"
         [] OTHER                  -> IF v.layer # w.layer THEN "EUnordered"
                                      ELSE IF v.vmask \subseteq w.vmask THEN "ELess"
                                      ELSE IF w.vmask \subseteq v.vmask THEN "EGreater"
                                      ELSE "EUnordered"

RunsOn(v, w) == Compare(v, w) \in {"ELess", "EEqual"}      \* operator<=
-----------------------------------------------------------------------------
(* Files for an import: its name gives a bare name, a UID (0 for any) and a *)
(* version; the variant is that of the importing file.                      *)

Version(h) == <<h.major, h.minor>>

Suits(f, import, g) ==
  /\ Header(g).name = import.name
  /\ RunsOn(Header(f).variant, Header(g).variant)
  /\ import.uid # 0 => import.uid = Header(g).uid

HasVersionMinor(import, g) == Header(g).minor >= import.minor
HasVersion(import, g) ==
  Header(g).major = import.major /\ Header(g).minor >= import.minor

Candidates(f, import) == {g \in Files : Suits(f, import, g) /\ HasVersion(import, g)}

\* "allow requested version 0.0 to link to 1.0 with a warning"
Fallbacks(f, import) ==
  {g \in Files : /\ Suits(f, import, g)
                 /\ Version(import) = <<0, 0>> /\ Version(Header(g)) = <<1, 0>>}

Place(g)       == CHOOSE i \in DOMAIN rom.list : rom.list[i] = g
FirstListed(S) == CHOOSE g \in S : \A h \in S : Place(g) <= Place(h)
LastListed(S)  == CHOOSE g \in S : \A h \in S : Place(g) >= Place(h)
NoFile         == "no file"

FindImageFileByName(f, import) ==
  IF Candidates(f, import) # {} THEN FirstListed(Candidates(f, import))
  ELSE IF Fallbacks(f, import) # {} THEN LastListed(Fallbacks(f, import))
  ELSE NoFile

\* Two versions of one file that could both be linked to.
CheckForVersionConflicts(f) ==
  {g \in Files \ {f} :
     /\ Header(g).name = Header(f).name
     /\ ~MutuallyExclusive(Header(f).variant, Header(g).variant)
     /\ Header(f).uid = 0 \/ Header(g).uid = 0 \/ Header(f).uid = Header(g).uid
     /\ Header(f).major = Header(g).major /\ Header(f).minor # Header(g).minor}
-----------------------------------------------------------------------------
(* BuildDependenceGraph *)

\* Device drivers that are not extensions may be linked to by their like only.
WrongSide(f, g) ==
  \/ Header(f).kernel # Header(g).kernel
  \/ Header(f).kernel /\ ~Header(f).device /\ Header(g).device

CapsMissingThere(f, g) == gPlatSecEnforcement /\ ~(Header(g).caps \subseteq Header(f).caps)
CapsMissing(f, g)      == gPlatSecEnforcement /\ ~(Header(f).caps \subseteq Header(g).caps)

LinkError(f, g) ==
  IF g = NoFile THEN "KErrNotFound"
  ELSE IF WrongSide(f, g) THEN "KErrGeneral"
  ELSE IF CapsMissing(f, g) THEN "KErrPermissionDenied"
  ELSE "KErrNone"

Resolved(f) ==
  LET imports == Header(f).imports
  IN  [i \in DOMAIN imports |-> FindImageFileByName(f, imports[i])]

\* The import blocks that are not linked as they should be.
Errors(f) == {i \in DOMAIN Resolved(f) : LinkError(f, Resolved(f)[i]) # "KErrNone"}

\* A file without its import, or on the wrong side, gets no link; one without
\* the capabilities does.
Links(f) == [i \in DOMAIN Resolved(f) |->
               IF LinkError(f, Resolved(f)[i]) \in {"KErrNotFound", "KErrGeneral"}
               THEN NoFile ELSE Resolved(f)[i]]

\* The last error is returned.
BuildDependenceGraph(f) ==
  /\ f \notin built
  /\ built' = built \cup {f}
  /\ iDeps' = [iDeps EXCEPT ![f] = Links(f)]
  /\ \/ Errors(f) = {} /\ UNCHANGED err
     \/ \E i \in Errors(f) : /\ \A j \in Errors(f) : j <= i
                            /\ err' = LinkError(f, Resolved(f)[i])
  /\ UNCHANGED <<rom, marked, smp>>

\* The ROM is only gone on with when all files were linked.
Linked == built = Files /\ err = "KErrNone"

\* What the headers of a ROM are: numbers for versions and layers, import blocks
\* in a sequence, every file once in the list that is searched.  A variant of a
\* CPU lists one variant at least.
IsVariant(v) ==
  /\ v.layer \in Nat /\ v.parent \in Nat
  /\ ~IsIndependent(v) /\ ~IsCpu(v) => v.vmask # {}
IsImport(import) == import.major \in Nat /\ import.minor \in Nat
IsHeader(h) ==
  /\ IsVariant(h.variant) /\ h.major \in Nat /\ h.minor \in Nat
  /\ h.kernel \in BOOLEAN /\ h.device \in BOOLEAN
  /\ Len(h.imports) \in Nat /\ DOMAIN h.imports = 1..Len(h.imports)
  /\ \A i \in DOMAIN h.imports : IsImport(h.imports[i])
IsRom(r) ==
  /\ \A f \in Files : IsHeader(r.file[f])
  /\ r.list \in Seq(Files) /\ \A f \in Files : \E i \in DOMAIN r.list : r.list[i] = f
  /\ NoFile \notin Files

\* A build of ROM r.
Init(r) ==
  /\ rom = r
  /\ built = {} /\ err = "KErrNone"
  /\ iDeps = [f \in Files |-> <<>>]
  /\ marked = {f \in Files : Header(f).smp}
  /\ SmpInit

Failed == built = Files /\ err # "KErrNone" /\ UNCHANGED vars

Next ==
  \/ \E f \in Files : BuildDependenceGraph(f)
  \/ Linked /\ SmpNext /\ UNCHANGED link
  \/ Failed

Spec(r) == Init(r) /\ [][Next]_vars
-----------------------------------------------------------------------------
(* Properties *)

\* Where no version conflict was reported, the order in which the files are
\* added to the ROM does not decide which version an import that names a UID
\* gets.  A file for a CPU and one for a variant of it do not count as rivals.
Rivals(g, h) == IsCpu(Header(g).variant) = IsCpu(Header(h).variant)
                \/ IsIndependent(Header(g).variant) \/ IsIndependent(Header(h).variant)
OneVersion ==
  (\A f \in Files : CheckForVersionConflicts(f) = {}) =>
    \A f \in built : \A i \in DOMAIN iDeps[f] :
      LET import == Header(f).imports[i]
          g == iDeps[f][i]
      IN  g # NoFile /\ import.uid # 0 =>
            \A h \in (IF Candidates(f, import) # {} THEN Candidates(f, import)
                      ELSE Fallbacks(f, import)) :
              Rivals(g, h) => Version(Header(h)) = Version(Header(g))

\* In a ROM that was linked, everything a file can call, at whatever distance,
\* is on its side and has all its capabilities.
LinksTrusted ==
  Linked => \A f \in Files : \E S \in SUBSET Files :
    /\ f \in S
    /\ \A g \in S : Range(iDeps[g]) \subseteq S
    /\ \A g \in S : /\ Header(g).kernel = Header(f).kernel
                    /\ gPlatSecEnforcement => Header(f).caps \subseteq Header(g).caps
=============================================================================
