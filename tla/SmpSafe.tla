------------------------------- MODULE SmpSafe -------------------------------
(***************************************************************************)
(* TRomFile::ComputeSmpSafe (rombuild/r_build.cpp): is a file of the ROM,  *)
(* with all it links to, safe on more than one processor?  The function    *)
(* calls itself for every link; its calls are the frames of stack here,    *)
(* one turn of its loop is one step.  What it has found out is kept in     *)
(* iSmpInfo of each file and used by later calls.                          *)
(***************************************************************************)
EXTENDS Integers, Sequences, FiniteSets, Functions

CONSTANT Files          \* the TRomFiles

VARIABLES
  iDeps,      \* the files each one links to, in the order of its import blocks
  marked,     \* the files whose header has KImageSMPSafe
  isInit, isActive, isSafe,    \* iSmpInfo
  stack,      \* the calls that have not returned, the innermost last
  answer      \* the file and result of the last call from outside

smp == <<isInit, isActive, isSafe, stack, answer>>

NoAnswer == <<>>
Frames   == [file : Files, i : Nat, is_cycle : BOOLEAN]
Answers  == {NoAnswer} \cup [file : Files, safe : BOOLEAN]

SmpInit ==
  /\ isInit = [f \in Files |-> FALSE]
  /\ isActive = [f \in Files |-> FALSE]
  /\ isSafe = [f \in Files |-> FALSE]
  /\ stack = <<>> /\ answer = NoAnswer
-----------------------------------------------------------------------------
Top    == stack[Len(stack)]
Caller == stack[Len(stack) - 1]
Link   == iDeps[Top.file][Top.i]

\* A frame whose loop has gone on to the next link.
GoesOnTwice(frame) == [frame EXCEPT !.i = @ + 2]
GoesOn(frame)      == [frame EXCEPT !.i = @ + 1]

\* The loop is left at the first unsafe link, and never entered without the mark.
InLoop == /\ stack # <<>>
          /\ isSafe[Top.file] /\ Top.i <= Len(iDeps[Top.file])

EnterUnread(f, calls) ==
  /\ isActive' = [isActive EXCEPT ![f] = TRUE]
  /\ isSafe' = [isSafe EXCEPT ![f] = TRUE]
  /\ stack' = Append(calls, [file |-> f, i |-> 1, is_cycle |-> FALSE])
  /\ UNCHANGED isInit
Enter(f, calls) ==
  /\ isActive' = [isActive EXCEPT ![f] = TRUE]
  /\ isSafe' = [isSafe EXCEPT ![f] = f \in marked]
  /\ stack' = Append(calls, [file |-> f, i |-> 1, is_cycle |-> FALSE])
  /\ UNCHANGED isInit

\* A call from outside, for any file and in any order.
ComputeSmpSafe(f) ==
  /\ stack = <<>>
  /\ \/ /\ isInit[f]
        /\ answer' = [file |-> f, safe |-> isSafe[f]]
        /\ UNCHANGED <<isInit, isActive, isSafe, stack>>
     \/ /\ ~isInit[f]
        /\ Enter(f, stack)
        /\ answer' = NoAnswer
  /\ UNCHANGED <<iDeps, marked>>

LinkActiveUnsafe ==
  /\ InLoop /\ isActive[Link]
  /\ isSafe' = [isSafe EXCEPT ![Top.file] = FALSE]
  /\ UNCHANGED <<iDeps, marked, isInit, isActive, stack, answer>>
LinkActive ==
  /\ InLoop /\ isActive[Link]
  /\ stack' = [stack EXCEPT ![Len(stack)] = [GoesOn(@) EXCEPT !.is_cycle = TRUE]]
  /\ UNCHANGED <<iDeps, marked, isInit, isActive, isSafe, answer>>

LinkVisited ==
  /\ InLoop /\ ~isActive[Link] /\ isInit[Link]
  /\ IF isSafe[Link]
     THEN stack' = [stack EXCEPT ![Len(stack)] = GoesOn(@)] /\ UNCHANGED isSafe
     ELSE isSafe' = [isSafe EXCEPT ![Top.file] = FALSE] /\ UNCHANGED stack
  /\ UNCHANGED <<iDeps, marked, isInit, isActive, answer>>

LinkNew ==
  /\ InLoop /\ ~isActive[Link] /\ ~isInit[Link]
  /\ Enter(Link, stack)
  /\ UNCHANGED <<iDeps, marked, answer>>

\* A result is kept when it cannot change: a safe one that left out an active
\* file is not.
Keeps(frame) == ~isSafe[frame.file] \/ ~frame.is_cycle

Return ==
  /\ stack # <<>> /\ ~InLoop
  /\ isActive' = [isActive EXCEPT ![Top.file] = FALSE]
  /\ isInit' = [isInit EXCEPT ![Top.file] = Keeps(Top)]
  /\ IF Len(stack) = 1
     THEN /\ answer' = [file |-> Top.file, safe |-> isSafe[Top.file]]
          /\ stack' = <<>>
          /\ UNCHANGED isSafe
     ELSE /\ stack' = Append(SubSeq(stack, 1, Len(stack) - 2),
                             IF isSafe[Top.file] THEN GoesOn(Caller) ELSE Caller)
          /\ isSafe' = [isSafe EXCEPT ![Caller.file] = isSafe[Top.file]]
          /\ UNCHANGED answer
  /\ UNCHANGED <<iDeps, marked>>

SmpNext ==
  \/ \E f \in Files : ComputeSmpSafe(f)
  \/ LinkActive \/ LinkVisited \/ LinkNew \/ Return

\* On any graph, with any files marked.
SmpSpec ==
  /\ iDeps \in [Files -> Seq(Files)] /\ marked \in SUBSET Files /\ SmpInit
  /\ [][SmpNext]_<<iDeps, marked, smp>>
-----------------------------------------------------------------------------
(* Properties *)

\* The components are safe together: all marked, and all their links inside.
SafeTogether(S) == S \subseteq marked /\ \A f \in S : Range(iDeps[f]) \subseteq S

\* "1. It's E32 image file is marked as SMP safe.  2. All components it links to
\* are SMP safe."
Safe(f) == \E S \in SUBSET Files : f \in S /\ SafeTogether(S)

\* A file that is found unsafe, or is kept as unsafe, links to one without the
\* mark, whatever cycles and earlier calls there were.
UnsafeIsReal ==
  /\ \A f \in Files : isInit[f] /\ ~isSafe[f] => ~Safe(f)
  /\ answer # NoAnswer => (~answer.safe => ~Safe(answer.file))

\* As long as no file was found unsafe, cycles do no harm: what was found safe
\* in the middle of a cycle is safe when the call for its first file ends.
SafeUntilUnsafe ==
  answer # NoAnswer /\ answer.safe /\ (\A f \in Files : isInit[f] => isSafe[f])
    => Safe(answer.file)

\* Every answer is right, those after an unsafe one included.
SafeIsReal == answer # NoAnswer => (answer.safe => Safe(answer.file))

\* Of every group of components one links to none of them: there is no cycle.
Acyclic == \A S \in SUBSET Files \ {{}} : \E f \in S : Range(iDeps[f]) \cap S = {}

\* Without cycles every answer and every result that is kept is right.
AcyclicIsExact ==
  Acyclic =>
    /\ \A f \in Files : isInit[f] => (isSafe[f] <=> Safe(f))
    /\ answer # NoAnswer => (answer.safe <=> Safe(answer.file))
=============================================================================
