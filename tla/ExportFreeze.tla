----------------------------- MODULE ExportFreeze -----------------------------
(***************************************************************************)
(* The life of the ordinals a DLL exports by.  elf2e32 (ElfFileSupplied::  *)
(* ValidateExports, DefFile, E32ExportTable, ElfProducer) reads the frozen *)
(* .DEF file and the ELF file of a build and writes the export table, the  *)
(* import library and a generated .DEF file; efreeze.pl later merges the   *)
(* generated file into the frozen one.                                     *)
(*                                                                         *)
(* The frozen file is under source control: several trees share it, each   *)
(* with its own sources and the outputs of its own last build, which may   *)
(* be older than the frozen file.  Names are numbers, in the order of      *)
(* strcmp.  An entry of a .DEF file is a name, an ordinal and ABSENT.      *)
(***************************************************************************)
EXTENDS Integers, Sequences, FiniteSets, Functions

CONSTANTS
  Trees,
  Names,
  Elfs        \* what the ELF file of a build may export: sets of names

ASSUME FreezeAssumption ==
  Names \subseteq Nat /\ \A elf \in Elfs : elf \subseteq Names /\ IsFiniteSet(elf)

VARIABLES
  frz,     \* the frozen .DEF file
  gen,     \* the generated .DEF file; fresh until the frozen one changes
  dll      \* the image and the import library of the last build

vars == <<frz, gen, dll>>

NoName == -1             \* the entry point, in the place of an absent export

Entry == [name : Names, ord : Nat, absent : BOOLEAN]

Init ==
  /\ frz = <<>>
  /\ gen = [t \in Trees |-> [made |-> FALSE, def |-> <<>>, fresh |-> FALSE]]
  /\ dll = [t \in Trees |-> [mode |-> "none", frozen |-> 0, table |-> <<>>, imports |-> {}]]
-----------------------------------------------------------------------------
(* elf2e32 *)

Ords(def)     == {def[i].ord : i \in DOMAIN def}
NamesOf(def)  == {def[i].name : i \in DOMAIN def}
LastValidOrdinal(def) ==
  LET live == {def[i].ord : i \in {j \in DOMAIN def : ~def[j].absent}} \cup {0}
  IN  CHOOSE n \in live : \A m \in live : m <= n
LastOrdinal(def) ==
  CHOOSE n \in Ords(def) \cup {0} : \A m \in Ords(def) \cup {0} : m <= n

\* A finite set of numbers as an increasing sequence.
InOrder(S) ==
  CHOOSE s \in [1..Cardinality(S) -> S] :
    \A i, j \in 1..Cardinality(S) : i < j => s[i] < s[j]

\* The entries of def at the given places, in their order.
Only(def, places) == [i \in 1..Cardinality(places) |-> def[InOrder(places)[i]]]

Valid   == Only(frz, {i \in DOMAIN frz : ~frz[i].absent})
Absents == Only(frz, {i \in DOMAIN frz : frz[i].absent})

Missing(elf) == NamesOf(Valid) \ elf

\* {ELF_Symbols - DEF_Symbols} in the order of their names.  A name that is
\* absent in the .DEF file but exported again stays absent: comparing the two
\* symbols marks the one of the ELF file too.
NewAfterValid(elf) ==
  LET names == elf \ NamesOf(frz)
  IN  [i \in 1..Cardinality(names) |->
         [name |-> InOrder(names)[i], ord |-> Len(Valid) + i, absent |-> FALSE]]
New(elf) ==
  LET names == elf \ NamesOf(frz)
  IN  [i \in 1..Cardinality(names) |->
         [name |-> InOrder(names)[i], ord |-> LastOrdinal(frz) + i, absent |-> FALSE]]

ByOrdinal(def) ==
  CHOOSE s \in [DOMAIN def -> Range(def)] :
    /\ Range(s) = Range(def)
    /\ \A i, j \in DOMAIN def : i < j => s[i].ord <= s[j].ord

\* iSymList, which goes to the import library; sorted when there are absents.
Symbols(elf) ==
  IF Absents = <<>> THEN Valid \o New(elf) ELSE ByOrdinal(Valid \o Absents \o New(elf))

\* WriteDefFile makes a comment of a missing entry and leaves new ones to the
\* end.
Written(elf, def) ==
  LET new     == {i \in DOMAIN def : def[i].name \notin NamesOf(frz)}
      missing == {i \in DOMAIN def : def[i].name \in Missing(elf)}
  IN  Only(def, DOMAIN def \ (new \cup missing)) \o Only(def, new)

TableWithoutAbsents(elf) ==
  LET all     == ByOrdinal(frz \o New(elf))
      exports == Only(all, {i \in DOMAIN all :
                              all[i].name \notin Missing(elf) /\ ~all[i].absent})
  IN  [i \in DOMAIN exports |-> exports[i].name]

\* CreateExportTable puts the exports of the ELF file, and a placeholder for
\* each absent one, into consecutive slots in the order of their ordinals.
Table(elf) ==
  LET all     == ByOrdinal(frz \o New(elf))
      exports == Only(all, {i \in DOMAIN all : all[i].name \notin Missing(elf)})
  IN  [i \in DOMAIN exports |->
         IF exports[i].absent THEN NoName ELSE exports[i].name]

\* ElfProducer renames the absent symbols.
Imports(def) == {<<def[i].name, def[i].ord>> : i \in {j \in DOMAIN def : ~def[j].absent}}

Generate(t, def) == gen' = [gen EXCEPT ![t] = [made |-> TRUE, def |-> def, fresh |-> TRUE]]

\* Frozen exports are missing: only the .DEF file is written, before the
\* absent and the new symbols are added; the makefile copies it to where
\* efreeze looks only if it is told to go on after errors.
BuildFails(t, elf) ==
  /\ Missing(elf) # {}
  /\ Generate(t, Written(elf, Valid)) \/ UNCHANGED gen
  /\ UNCHANGED dll

\* Without any export there is no export list to add the absent symbols to.
BuildCrashes(elf, unfrozen) ==
  /\ unfrozen \/ Missing(elf) = {}
  /\ elf = {} /\ Absents # <<>>
  /\ UNCHANGED <<gen, dll>>

BuildWorks(t, elf, unfrozen) ==
  /\ unfrozen \/ Missing(elf) = {}
  /\ elf # {} \/ Absents = <<>>
  /\ Generate(t, Written(elf, Symbols(elf)))
  /\ dll' = [dll EXCEPT ![t] =
       [mode |-> IF unfrozen THEN "unfrozen" ELSE "frozen", frozen |-> Len(frz),
        table |-> IF elf = {} THEN <<>> ELSE Table(elf), imports |-> Imports(Symbols(elf))]]

Build(t, elf, unfrozen) ==
  /\ \/ ~unfrozen /\ BuildFails(t, elf)
     \/ BuildCrashes(elf, unfrozen)
     \/ BuildWorks(t, elf, unfrozen)
  /\ UNCHANGED frz
-----------------------------------------------------------------------------
(* efreeze *)

\* Def_ReadFileL wants the ordinals in sequence.
InSequence(def) == \A i \in DOMAIN def : def[i].ord = i

HitsValid(e, left) == {i \in left : frz[i].name = e.name /\ ~frz[i].absent}

\* Where CompareFrzGenL finds a generated entry, or one absent with its ordinal.
Hits(e, left) ==
  {i \in left : frz[i].name = e.name \/ (frz[i].absent /\ frz[i].ord = e.ord)}

\* The first hit of a generated entry is taken out of what is left of the frozen
\* file, unless it is an absent entry of another name.
Compare(s, e) ==
  LET hits == Hits(e, s.left)
      hit  == CHOOSE i \in hits : \A j \in hits : i <= j
  IN  IF hits = {}
      THEN [s EXCEPT !.new =
             Append(@, [e EXCEPT !.ord = LastOrdinal(frz) + Len(s.new) + 1])]
      ELSE IF frz[hit].name # e.name THEN s
      ELSE [s EXCEPT !.left = @ \ {hit},
                     !.bad = @ \cup (IF frz[hit].ord = e.ord THEN {} ELSE {e.name})]

Compared(def) ==
  LET after[n \in 0..Len(def)] ==
        IF n = 0 THEN [left |-> DOMAIN frz, new |-> <<>>, bad |-> {}]
        ELSE Compare(after[n - 1], def[n])
  IN  after[Len(def)]

\* All the exports left in the frozen file.
Left(def) == {i \in Compared(def).left : ~frz[i].absent}
Marked(def) == [i \in DOMAIN frz |-> [frz[i] EXCEPT !.absent = @ \/ i \in Left(def)]]

Agrees(def) == InSequence(def) /\ Left(def) = {} /\ Compared(def).bad = {}

\* ENOENT; "Ordinal number is not in sequence"; "Frozen Export(s) missing";
\* an export has the wrong ordinal.  Only -remove goes on in the last three.
FreezeDies(t, remove) ==
  /\ ~gen[t].made \/ (~remove /\ ~Agrees(gen[t].def))
  /\ UNCHANGED <<frz, gen>>

FreezeWorks(t, remove) ==
  /\ gen[t].made
  /\ remove \/ Agrees(gen[t].def)
  /\ frz' = Marked(gen[t].def) \o Compared(gen[t].def).new
  /\ gen' = IF frz' = frz THEN gen ELSE [u \in Trees |-> [gen[u] EXCEPT !.fresh = FALSE]]

Freeze(t, remove) ==
  /\ FreezeDies(t, remove) \/ FreezeWorks(t, remove)
  /\ UNCHANGED dll

\* The sources of a tree change between its builds: elf is what the ELF file of
\* this build exports.
Next ==
  \E t \in Trees, b \in BOOLEAN :
    Freeze(t, b) \/ \E elf \in Elfs : Build(t, elf, b)

Spec == Init /\ [][Next]_vars
-----------------------------------------------------------------------------
(* Properties *)

\* The frozen file can always be read again: elf2e32, prepdef and efreeze all
\* refuse one whose ordinals are not 1, 2, 3, ...
FrozenReadable == frz \in Seq(Entry) /\ InSequence(frz)

\* What a program linked by ordinal relies on: see OrdinalRegistry.
Registry == INSTANCE OrdinalRegistry WITH
  registry <- [i \in DOMAIN frz |-> [name |-> frz[i].name, absent |-> frz[i].absent]]

ImplementsRegistry == Registry!Spec

\* An image built with the frozen exports complete, however old it is by now,
\* has each ordinal frozen then at its place in the table: with the function of
\* that name, or without one when the export is absent.
DllServesFrozen ==
  \A t \in Trees : dll[t].mode = "frozen" =>
    /\ Len(dll[t].table) >= dll[t].frozen
    /\ \A o \in 1..dll[t].frozen :
         IF dll[t].table[o] = NoName THEN frz[o].absent ELSE dll[t].table[o] = frz[o].name

\* A program linked with the import library of such a build reaches the function
\* it named, the exports that are not yet frozen included.
ImportsMatchTable ==
  \A t \in Trees : dll[t].mode = "frozen" =>
    \A i \in dll[t].imports :
      i[2] \in 1..Len(dll[t].table) /\ dll[t].table[i[2]] = i[1]

\* An export keeps, when it is frozen, the ordinal the build gave it, as long as
\* nobody else froze in between: the two tools number alike.
FreezeKeepsNumbers ==
  [][\A t \in Trees, remove \in BOOLEAN :
       FreezeWorks(t, remove) /\ gen[t].fresh =>
         \A e \in Range(gen[t].def) :
           e.ord \in DOMAIN frz' /\ frz'[e.ord].name = e.name]_vars

\* efreeze marks as absent only what the generated file does not export: "all
\* the exports left in the frozen .DEF file weren't found".
LeftMeansNotFound ==
  [][\A t \in Trees, remove \in BOOLEAN :
       FreezeWorks(t, remove) =>
         \A i \in DOMAIN frz :
           frz'[i].absent /\ ~frz[i].absent => frz[i].name \notin NamesOf(gen[t].def)]_vars
=============================================================================
