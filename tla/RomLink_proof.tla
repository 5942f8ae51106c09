---------------------------- MODULE RomLink_proof ----------------------------
(***************************************************************************)
(* Proofs about the linking of a ROM, for every ROM: an import is resolved *)
(* the same whatever the order of the files unless a version conflict was  *)
(* reported, what a file can call is on its side and has its capabilities, *)
(* and what ComputeSmpSafe finds out on the graph is what it says.         *)
(***************************************************************************)
EXTENDS RomLink, SequenceTheorems, WellFoundedInduction, TLAPS
-----------------------------------------------------------------------------
(* ComputeSmpSafe, for every graph of links and every order of calls:       *)
(* unsafe results are always real; safe ones are where there is no cycle,   *)
(* or nothing unsafe.                                                       *)

TypeOK ==
  /\ iDeps \in [Files -> Seq(Files)] /\ marked \in SUBSET Files
  /\ isInit \in [Files -> BOOLEAN] /\ isActive \in [Files -> BOOLEAN]
  /\ isSafe \in [Files -> BOOLEAN]
  /\ stack \in Seq(Frames) /\ answer \in Answers

Calls == DOMAIN stack
File(k) == stack[k].file

\* Each call was made for the link its caller is at, and its file is active.
StackAgrees ==
  /\ \A f \in Files : isActive[f] <=> \E k \in Calls : File(k) = f
  /\ \A k, l \in Calls : File(k) = File(l) => k = l
  /\ \A f \in Files : isActive[f] => ~isInit[f]
  /\ \A k \in Calls : stack[k].i >= 1
  /\ \A k \in Calls : k + 1 \in Calls =>
       /\ isSafe[File(k)]
       /\ stack[k].i \in DOMAIN iDeps[File(k)]
       /\ iDeps[File(k)][stack[k].i] = File(k + 1)

UnsafeReal ==
  /\ \A f \in Files : isInit[f] /\ ~isSafe[f] => ~Safe(f)
  /\ \A k \in Calls : ~isSafe[File(k)] => ~Safe(File(k))
  /\ answer # NoAnswer => (~answer.safe => ~Safe(answer.file))

Inv == TypeOK /\ StackAgrees /\ UnsafeReal
-----------------------------------------------------------------------------
\* Of a group that is safe together every file is marked and every link is safe.
LEMMA SafeLinks ==
  ASSUME TypeOK, NEW f \in Files, Safe(f)
  PROVE  f \in marked /\ \A i \in DOMAIN iDeps[f] : Safe(iDeps[f][i])
<1>1. PICK S \in SUBSET Files : f \in S /\ SafeTogether(S)
  BY DEF Safe
<1>2. f \in marked
  BY <1>1 DEF SafeTogether
<1>3. ASSUME NEW i \in DOMAIN iDeps[f] PROVE Safe(iDeps[f][i])
  <2>1. iDeps[f][i] \in Range(iDeps[f])
    BY DEF Range
  <2>2. iDeps[f][i] \in S
    BY <1>1, <2>1 DEF SafeTogether
  <2>. QED  BY <1>1, <2>2 DEF Safe
<1>. QED  BY <1>2, <1>3

LEMMA InnermostCall ==
  ASSUME TypeOK, stack # <<>>
  PROVE  /\ Len(stack) \in Nat \ {0} /\ Calls = 1..Len(stack)
         /\ Len(stack) \in Calls
         /\ Top \in Frames /\ Top.file \in Files /\ Top.i \in Nat
         /\ iDeps[Top.file] \in Seq(Files)
         /\ Len(stack) > 1 => Len(stack) - 1 \in Calls /\ Caller \in Frames
<1>1. stack \in Seq(Frames) /\ Len(stack) \in Nat /\ Len(stack) # 0
  BY DEF TypeOK
<1>2. \A k \in 1..Len(stack) : stack[k] \in Frames
  BY <1>1
<1>3. Calls = 1..Len(stack)
  BY <1>1 DEF Calls
<1>4. Top \in Frames /\ (Len(stack) > 1 => Caller \in Frames)
  BY <1>1, <1>2 DEF Top, Caller
<1>5. Top.file \in Files /\ Top.i \in Nat
  BY <1>4 DEF Frames
<1>. QED  BY <1>1, <1>3, <1>4, <1>5 DEF TypeOK

LEMMA InLoopLink ==
  ASSUME TypeOK, StackAgrees, InLoop
  PROVE  /\ stack # <<>> /\ isSafe[Top.file]
         /\ Top.i \in DOMAIN iDeps[Top.file] /\ Link \in Files
         /\ File(Len(stack)) = Top.file /\ isActive[Top.file] /\ ~isInit[Top.file]
<1>1. stack # <<>> /\ isSafe[Top.file] /\ Top.i <= Len(iDeps[Top.file])
  BY DEF InLoop
<1>2. Top.i >= 1 /\ isActive[Top.file]
  BY <1>1, InnermostCall DEF StackAgrees, Top, File
<1>3. Top.i \in DOMAIN iDeps[Top.file] /\ Link \in Files
  BY <1>1, <1>2, InnermostCall DEF Link
<1>. QED  BY <1>1, <1>2, <1>3, InnermostCall DEF StackAgrees, File, Top

LEMMA CallFile ==
  ASSUME TypeOK, NEW k \in Calls
  PROVE  stack[k] \in Frames /\ File(k) \in Files
<1>1. stack \in Seq(Frames) /\ k \in DOMAIN stack
  BY DEF TypeOK, Calls
<1>2. stack[k] \in Frames
  BY <1>1
<1>. QED  BY <1>2 DEF Frames, File

LEMMA NotInnermost ==
  ASSUME NEW n \in Nat, NEW S, S = 1..n, NEW k \in S, k + 1 \in S
  PROVE  k # n
OBVIOUS

LEMMA SafeUnchanged ==
  ASSUME UNCHANGED <<iDeps, marked>>, NEW f
  PROVE  Safe(f)' <=> Safe(f)
BY DEF Safe, SafeTogether

LEMMA TopReplaced ==
  ASSUME NEW s \in Seq(Frames), s # <<>>, NEW frame \in Frames,
         NEW t, t = [s EXCEPT ![Len(s)] = frame]
  PROVE  /\ t \in Seq(Frames) /\ Len(t) = Len(s) /\ DOMAIN t = DOMAIN s
         /\ DOMAIN s = 1..Len(s) /\ Len(s) \in DOMAIN s
         /\ t[Len(s)] = frame
         /\ \A k \in DOMAIN s : k # Len(s) => t[k] = s[k]
OBVIOUS

LEMMA GoneOn ==
  ASSUME NEW frame \in Frames
  PROVE  /\ GoesOn(frame) \in Frames
         /\ GoesOn(frame).file = frame.file /\ GoesOn(frame).i = frame.i + 1
         /\ GoesOn(frame).is_cycle = frame.is_cycle
BY DEF Frames, GoesOn

LEMMA CycleMarked ==
  ASSUME NEW frame \in Frames, NEW c, c = [frame EXCEPT !.is_cycle = TRUE]
  PROVE  c \in Frames /\ c.file = frame.file /\ c.i = frame.i
BY DEF Frames

\* A new top for the file of the old one, at the link after it.
LEMMA TopGoesOn ==
  ASSUME Inv, stack # <<>>, isActive' = isActive, isInit' = isInit,
         isSafe' = isSafe, UNCHANGED <<iDeps, marked>>, answer' = answer,
         NEW top \in Frames, top.file = Top.file, top.i = Top.i + 1,
         stack' = [stack EXCEPT ![Len(stack)] = top]
  PROVE  Inv'
<1>1. /\ stack' \in Seq(Frames) /\ Len(stack') = Len(stack) /\ Calls' = Calls
      /\ Calls = 1..Len(stack) /\ Len(stack) \in Nat
      /\ stack'[Len(stack)] = top
      /\ \A k \in Calls : k # Len(stack) => stack'[k] = stack[k]
  BY TopReplaced, InnermostCall DEF Inv, TypeOK, Calls
<1>2. \A k \in Calls : File(k)' = File(k)
  BY <1>1 DEF File, Top
<1>3. TypeOK'
  BY <1>1 DEF Inv, TypeOK
<1>4. StackAgrees'
  <2>1. \A k \in Calls : stack'[k].i >= 1
    <3>1. top.i >= 1
      BY InnermostCall DEF Inv
    <3>2. \A k \in Calls : stack[k].i >= 1
      BY DEF Inv, StackAgrees
    <3>. QED  BY <1>1, <3>1, <3>2
  <2>2. \A k \in Calls : k + 1 \in Calls => stack'[k] = stack[k]
    BY <1>1, NotInnermost
  <2>0. Calls' = Calls
    BY <1>1
  <2>3. \A f \in Files : isActive'[f] <=> \E k \in Calls' : File(k)' = f
    <3>1. \A f \in Files : isActive[f] <=> \E k \in Calls : File(k) = f
      BY DEF Inv, StackAgrees
    <3>. QED  BY <2>0, <1>2, <3>1
  <2>4. \A k, l \in Calls' : File(k)' = File(l)' => k = l
    <3>1. \A k, l \in Calls : File(k) = File(l) => k = l
      BY DEF Inv, StackAgrees
    <3>. QED  BY <2>0, <1>2, <3>1
  <2>5. \A k \in Calls' : k + 1 \in Calls' =>
          /\ isSafe'[File(k)'] /\ stack'[k].i \in DOMAIN iDeps'[File(k)']
          /\ iDeps'[File(k)'][stack'[k].i] = File(k + 1)'
    <3>. SUFFICES ASSUME NEW k \in Calls', k + 1 \in Calls'
                  PROVE  /\ isSafe'[File(k)'] /\ stack'[k].i \in DOMAIN iDeps'[File(k)']
                         /\ iDeps'[File(k)'][stack'[k].i] = File(k + 1)'
      OBVIOUS
    <3>1. k \in Calls /\ k + 1 \in Calls /\ File(k)' = File(k) /\ File(k + 1)' = File(k + 1)
      BY <2>0, <1>2
    <3>2. stack'[k] = stack[k]
      BY <3>1, <2>2
    <3>3. /\ isSafe[File(k)] /\ stack[k].i \in DOMAIN iDeps[File(k)]
          /\ iDeps[File(k)][stack[k].i] = File(k + 1)
      BY <3>1 DEF Inv, StackAgrees
    <3>. QED  BY <3>1, <3>2, <3>3
  <2>6. \A f \in Files : isActive'[f] => ~isInit'[f]
    BY DEF Inv, StackAgrees
  <2>. QED  BY <1>1, <2>1, <2>3, <2>4, <2>5, <2>6 DEF StackAgrees
<1>5. UnsafeReal'
  BY <1>1, <1>2, SafeUnchanged DEF Inv, UnsafeReal
<1>. QED  BY <1>3, <1>4, <1>5 DEF Inv

LEMMA LinkActiveKeeps == ASSUME Inv, LinkActive PROVE Inv'
<1>1. stack # <<>> /\ Top \in Frames
  BY InLoopLink, InnermostCall DEF Inv, LinkActive
<1>. DEFINE top == [GoesOn(Top) EXCEPT !.is_cycle = TRUE]
<1>2. top \in Frames /\ top.file = Top.file /\ top.i = Top.i + 1
  BY <1>1, GoneOn, CycleMarked
<1>. QED  BY <1>1, <1>2, TopGoesOn DEF LinkActive, Top

\* The top call finds an unsafe link: its file is not safe.
LEMMA TopUnsafe ==
  ASSUME Inv, InLoop, ~Safe(Link), UNCHANGED <<iDeps, marked, isInit, isActive, stack>>,
         isSafe' = [isSafe EXCEPT ![Top.file] = FALSE], answer' = answer
  PROVE  Inv'
<1>1. /\ stack # <<>> /\ isActive[Top.file] /\ ~isInit[Top.file]
      /\ Top.i \in DOMAIN iDeps[Top.file] /\ File(Len(stack)) = Top.file
      /\ Top.file \in Files /\ Len(stack) \in Calls
      /\ Calls = 1..Len(stack) /\ Len(stack) \in Nat
  BY InLoopLink, InnermostCall DEF Inv
<1>2. ~Safe(Top.file)
  BY <1>1, SafeLinks DEF Inv, Link
<1>3. TypeOK'
  BY <1>1 DEF Inv, TypeOK
<1>4. Calls' = Calls /\ \A k : File(k)' = File(k)
  BY DEF Calls, File
<1>5. StackAgrees'
  <2>1. \A k \in Calls : k + 1 \in Calls => isSafe'[File(k)]
    <3>. SUFFICES ASSUME NEW k \in Calls, k + 1 \in Calls PROVE isSafe'[File(k)]
      OBVIOUS
    <3>1. File(k) # Top.file
      BY <1>1 DEF Inv, StackAgrees
    <3>2. File(k) \in Files
      BY CallFile DEF Inv
    <3>. QED  BY <3>1, <3>2 DEF Inv, StackAgrees, TypeOK
  <2>. QED  BY <1>4, <2>1 DEF Inv, StackAgrees
<1>6. UnsafeReal'
  <2>1. \A f \in Files : ~isSafe'[f] => ~isSafe[f] \/ f = Top.file
    BY DEF Inv, TypeOK
  <2>2. \A k \in Calls : File(k) \in Files
    BY CallFile DEF Inv
  <2>. QED  BY <1>1, <1>2, <1>4, <2>1, <2>2, SafeUnchanged DEF Inv, UnsafeReal
<1>. QED  BY <1>3, <1>5, <1>6 DEF Inv

LEMMA LinkVisitedKeeps == ASSUME Inv, LinkVisited PROVE Inv'
<1>1. stack # <<>> /\ Top \in Frames /\ Link \in Files
  BY InLoopLink, InnermostCall DEF Inv, LinkVisited
<1>2. CASE isSafe[Link]
  <2>1. GoesOn(Top) \in Frames /\ GoesOn(Top).file = Top.file /\ GoesOn(Top).i = Top.i + 1
    BY <1>1, GoneOn
  <2>. QED  BY <1>1, <1>2, <2>1, TopGoesOn DEF LinkVisited, Top
<1>3. CASE ~isSafe[Link]
  <2>1. ~Safe(Link)
    BY <1>1, <1>3 DEF Inv, UnsafeReal, LinkVisited
  <2>. QED  BY <1>3, <2>1, TopUnsafe DEF LinkVisited
<1>. QED  BY <1>2, <1>3

LEMMA Appended ==
  ASSUME NEW s \in Seq(Frames), NEW frame \in Frames, NEW t, t = Append(s, frame),
         NEW n, n = Len(s)
  PROVE  /\ n \in Nat /\ t \in Seq(Frames) /\ t # <<>>
         /\ Len(t) = n + 1 /\ DOMAIN t = 1..n + 1 /\ DOMAIN s = 1..n
         /\ t[n + 1] = frame /\ \A k \in 1..n : t[k] = s[k]
OBVIOUS

LEMMA Entered ==
  ASSUME Inv, NEW f \in Files, ~isInit[f], ~isActive[f], Enter(f, stack),
         stack = <<>> \/ (InLoop /\ Link = f),
         UNCHANGED <<iDeps, marked>>, answer' \in {answer, NoAnswer},
         NEW n, n = Len(stack)
  PROVE  Inv'
<1>. DEFINE frame == [file |-> f, i |-> 1, is_cycle |-> FALSE]
<1>1. frame \in Frames /\ frame.file = f /\ frame.i = 1
  BY DEF Frames
<1>2. stack \in Seq(Frames) /\ stack' = Append(stack, frame)
  BY DEF Inv, TypeOK, Enter
<1>. HIDE DEF frame
<1>3. /\ n \in Nat /\ stack' \in Seq(Frames) /\ Calls' = 1..n + 1 /\ Calls = 1..n
      /\ stack'[n + 1] = frame /\ \A k \in Calls : stack'[k] = stack[k]
  BY <1>1, <1>2, Appended DEF Calls
<1>4. isActive' = [isActive EXCEPT ![f] = TRUE] /\ isSafe' = [isSafe EXCEPT ![f] = f \in marked]
      /\ isInit' = isInit
  BY DEF Enter
<1>5. /\ File(n + 1)' = f
      /\ \A k \in Calls : File(k)' = File(k) /\ File(k) \in Files /\ File(k) # f
  <2>1. File(n + 1)' = f
    BY <1>1, <1>3 DEF File
  <2>2. ASSUME NEW k \in Calls PROVE File(k)' = File(k) /\ File(k) \in Files /\ File(k) # f
    <3>1. File(k)' = File(k)
      BY <1>3 DEF File
    <3>2. File(k) \in Files
      BY CallFile DEF Inv
    <3>3. isActive[File(k)]
      BY <3>2 DEF Inv, StackAgrees
    <3>. QED  BY <3>1, <3>2, <3>3
  <2>. QED  BY <2>1, <2>2
<1>6. Calls' = Calls \cup {n + 1} /\ n + 1 \notin Calls
  BY <1>3
<1>7. TypeOK'
  BY <1>3, <1>4 DEF Inv, TypeOK, Answers
<1>8. StackAgrees'
  <2>1. \A g \in Files : isActive'[g] <=> \E k \in Calls' : File(k)' = g
    <3>. SUFFICES ASSUME NEW g \in Files
                  PROVE  isActive'[g] <=> \E k \in Calls' : File(k)' = g
      OBVIOUS
    <3>1. CASE g = f
      BY <3>1, <1>4, <1>5, <1>6 DEF Inv, TypeOK
    <3>2. CASE g # f
      <4>1. isActive'[g] <=> isActive[g]
        BY <3>2, <1>4 DEF Inv, TypeOK
      <4>2. isActive[g] <=> \E k \in Calls : File(k) = g
        BY DEF Inv, StackAgrees
      <4>3. (\E k \in Calls' : File(k)' = g) <=> \E k \in Calls : File(k) = g
        BY <3>2, <1>5, <1>6
      <4>. QED  BY <4>1, <4>2, <4>3
    <3>. QED  BY <3>1, <3>2
  <2>2. \A k, l \in Calls' : File(k)' = File(l)' => k = l
    <3>1. \A k, l \in Calls : File(k) = File(l) => k = l
      BY DEF Inv, StackAgrees
    <3>. QED  BY <3>1, <1>5, <1>6
  <2>3. \A g \in Files : isActive'[g] => ~isInit'[g]
    BY <1>4 DEF Inv, StackAgrees, TypeOK
  <2>4. \A k \in Calls' : stack'[k].i >= 1
    BY <1>1, <1>3, <1>6 DEF Inv, StackAgrees
  <2>5. ASSUME NEW k \in Calls', k + 1 \in Calls'
        PROVE  /\ isSafe'[File(k)'] /\ stack'[k].i \in DOMAIN iDeps'[File(k)']
               /\ iDeps'[File(k)'][stack'[k].i] = File(k + 1)'
    <3>1. k \in Calls /\ stack'[k] = stack[k] /\ File(k)' = File(k) /\ File(k) # f
          /\ File(k) \in Files
      BY <2>5, <1>3, <1>5
    <3>2. isSafe'[File(k)] <=> isSafe[File(k)]
      BY <3>1, <1>4 DEF Inv, TypeOK
    <3>3. CASE k + 1 \in Calls
      BY <3>1, <3>2, <3>3, <1>5 DEF Inv, StackAgrees
    <3>4. CASE k = n
      <4>1. InLoop /\ Link = f /\ n # 0 /\ stack # <<>>
        BY <3>1, <3>4, <1>3
      <4>2. stack[n] = Top
        BY DEF Top
      <4>. QED  BY <4>1, <4>2, <3>1, <3>2, <3>4, <1>5, InLoopLink DEF Inv, File, Link
    <3>. QED  BY <2>5, <3>1, <3>3, <3>4, <1>3
  <2>. QED  BY <2>1, <2>2, <2>3, <2>4, <2>5 DEF StackAgrees
<1>9. UnsafeReal'
  <2>1. \A g \in Files : g # f => (isSafe'[g] <=> isSafe[g])
    BY <1>4 DEF Inv, TypeOK
  <2>2. ~isSafe'[f] => ~Safe(f)
    BY <1>4, SafeLinks DEF Inv, TypeOK
  <2>3. \A g \in Files : isInit'[g] /\ ~isSafe'[g] => ~Safe(g)
    BY <2>1, <1>4 DEF Inv, UnsafeReal
  <2>4. \A k \in Calls' : ~isSafe'[File(k)'] => ~Safe(File(k)')
    BY <2>1, <2>2, <1>5, <1>6 DEF Inv, UnsafeReal
  <2>5. answer' # NoAnswer => (~answer'.safe => ~Safe(answer'.file))
    BY DEF Inv, UnsafeReal
  <2>. QED  BY <2>3, <2>4, <2>5, SafeUnchanged DEF UnsafeReal
<1>. QED  BY <1>7, <1>8, <1>9 DEF Inv

LEMMA LinkNewKeeps == ASSUME Inv, LinkNew PROVE Inv'
<1>1. Link \in Files
  BY InLoopLink DEF Inv, LinkNew
<1>. QED  BY <1>1, Entered DEF LinkNew

LEMMA ComputeSmpSafeKeeps == ASSUME Inv, NEW f \in Files, ComputeSmpSafe(f) PROVE Inv'
<1>1. CASE isInit[f] /\ answer' = [file |-> f, safe |-> isSafe[f]]
           /\ UNCHANGED <<isInit, isActive, isSafe, stack>>
  <2>1. TypeOK'
    BY <1>1 DEF Inv, TypeOK, Answers, ComputeSmpSafe
  <2>2. StackAgrees'
    BY <1>1 DEF Inv, StackAgrees, ComputeSmpSafe, File, Calls
  <2>3. answer'.file = f /\ answer'.safe = isSafe[f]
    BY <1>1
  <2>4. UNCHANGED <<iDeps, marked>> /\ (~isSafe[f] => ~Safe(f))
    BY <1>1 DEF Inv, UnsafeReal, ComputeSmpSafe
  <2>5. UnsafeReal'
    BY <1>1, <2>3, <2>4, SafeUnchanged DEF Inv, UnsafeReal, File, Calls
  <2>. QED  BY <2>1, <2>2, <2>5 DEF Inv
<1>2. CASE ~isInit[f] /\ Enter(f, stack) /\ answer' = NoAnswer
  <2>1. stack = <<>> /\ UNCHANGED <<iDeps, marked>>
    BY DEF ComputeSmpSafe
  <2>2. ~isActive[f]
    BY <2>1 DEF Inv, StackAgrees, Calls
  <2>. QED  BY <1>2, <2>1, <2>2, Entered
<1>. QED  BY <1>1, <1>2 DEF ComputeSmpSafe

\* The call for f is over; the others are what they were, but for where the
\* caller is in its loop and what it has found.
LEMMA Returned ==
  ASSUME Inv, stack # <<>>, NEW n, n = Len(stack), NEW f, f = Top.file,
         UNCHANGED <<iDeps, marked>>,
         isActive' = [isActive EXCEPT ![f] = FALSE],
         isInit' \in [Files -> BOOLEAN],
         \A g \in Files : g # f => (isInit'[g] <=> isInit[g]),
         isSafe' \in [Files -> BOOLEAN],
         \A g \in Files : isSafe'[g] # isSafe[g] =>
            n > 1 /\ g = File(n - 1) /\ ~isSafe[f] /\ ~isSafe'[g],
         stack' \in Seq(Frames), Len(stack') = n - 1,
         \A k \in 1..n - 1 : stack'[k].file = stack[k].file /\ stack'[k].i >= 1,
         \A k \in 1..n - 2 : stack'[k] = stack[k],
         answer' = answer \/ answer' = [file |-> f, safe |-> isSafe[f]]
  PROVE  Inv'
<1>1. /\ n \in Nat \ {0} /\ Calls = 1..n /\ Calls' = 1..n - 1 /\ f \in Files
      /\ File(n) = f /\ n \in Calls
      /\ \A k \in Calls' : k \in Calls /\ File(k)' = File(k)
  <2>1. n \in Nat \ {0} /\ Calls = 1..n /\ f \in Files
    BY InnermostCall DEF Inv
  <2>2. Calls' = 1..n - 1
    BY <2>1 DEF Calls
  <2>3. File(n) = f
    BY DEF File, Top
  <2>. QED  BY <2>1, <2>2, <2>3 DEF File
<1>2. \A k \in Calls : File(k) \in Files
  BY CallFile DEF Inv
<1>3. \A k \in Calls' : File(k) # f
  <2>. SUFFICES ASSUME NEW k \in Calls' PROVE File(k) # f
    OBVIOUS
  <2>1. k \in Calls /\ k # n
    BY <1>1
  <2>. QED  BY <1>1, <2>1 DEF Inv, StackAgrees
<1>4. isActive \in [Files -> BOOLEAN]
  BY DEF Inv, TypeOK
<1>5. TypeOK'
  <2>1. answer' \in Answers
    BY <1>1 DEF Inv, TypeOK, Answers
  <2>2. isActive' \in [Files -> BOOLEAN]
    BY <1>1, <1>4
  <2>. QED  BY <2>1, <2>2 DEF Inv, TypeOK
<1>6. StackAgrees'
  <2>1. \A g \in Files : isActive'[g] <=> \E k \in Calls' : File(k)' = g
    <3>. SUFFICES ASSUME NEW g \in Files
                  PROVE  isActive'[g] <=> \E k \in Calls' : File(k)' = g
      OBVIOUS
    <3>1. CASE g = f
      <4>1. ~isActive'[g]
        BY <3>1, <1>1, <1>4
      <4>. QED  BY <4>1, <3>1, <1>1, <1>3
    <3>2. CASE g # f
      <4>1. isActive'[g] <=> isActive[g]
        BY <3>2, <1>1, <1>4
      <4>2. isActive[g] <=> \E k \in Calls : File(k) = g
        BY DEF Inv, StackAgrees
      <4>3. /\ \A k \in Calls : k \in Calls' \/ File(k) = f
            /\ \A k \in Calls' : k \in Calls /\ File(k)' = File(k)
        BY <1>1
      <4>4. ASSUME NEW k \in Calls', File(k)' = g PROVE \E l \in Calls : File(l) = g
        BY <4>3, <4>4
      <4>5. ASSUME NEW k \in Calls, File(k) = g PROVE \E l \in Calls' : File(l)' = g
        <5>1. k \in Calls'
          BY <4>5, <3>2, <4>3
        <5>2. File(k)' = g
          BY <4>5, <5>1, <4>3
        <5>. QED  BY <5>1, <5>2
      <4>. QED  BY <4>1, <4>2, <4>4, <4>5
    <3>. QED  BY <3>1, <3>2
  <2>2. \A k, l \in Calls' : File(k)' = File(l)' => k = l
    <3>1. \A k, l \in Calls : File(k) = File(l) => k = l
      BY DEF Inv, StackAgrees
    <3>. QED  BY <3>1, <1>1
  <2>3. \A g \in Files : isActive'[g] => ~isInit'[g]
    <3>. SUFFICES ASSUME NEW g \in Files, isActive'[g] PROVE ~isInit'[g]
      OBVIOUS
    <3>1. g # f /\ isActive[g]
      BY <1>1, <1>4
    <3>2. ~isInit[g]
      BY <3>1 DEF Inv, StackAgrees
    <3>. QED  BY <3>1, <3>2
  <2>4. \A k \in Calls' : stack'[k].i >= 1
    BY <1>1
  <2>5. ASSUME NEW k \in Calls', k + 1 \in Calls'
        PROVE  /\ isSafe'[File(k)'] /\ stack'[k].i \in DOMAIN iDeps'[File(k)']
               /\ iDeps'[File(k)'][stack'[k].i] = File(k + 1)'
    <3>1. k \in Calls /\ k + 1 \in Calls /\ File(k)' = File(k) /\ File(k + 1)' = File(k + 1)
      BY <2>5, <1>1
    <3>2. k \in 1..n - 2 /\ k # n - 1 /\ n - 1 \in Calls
      BY <2>5, <1>1
    <3>3. stack'[k] = stack[k]
      BY <3>2
    <3>4. File(k) # File(n - 1)
      BY <3>1, <3>2 DEF Inv, StackAgrees
    <3>5. isSafe'[File(k)] = isSafe[File(k)]
      BY <3>1, <3>4, <1>2
    <3>. QED  BY <3>1, <3>3, <3>5 DEF Inv, StackAgrees
  <2>. QED  BY <2>1, <2>2, <2>3, <2>4, <2>5 DEF StackAgrees
<1>7. UnsafeReal'
  <2>1. ~isSafe[f] => ~Safe(f)
    BY <1>1 DEF Inv, UnsafeReal
  <2>2. ASSUME n > 1, ~isSafe[f] PROVE ~Safe(File(n - 1))
    <3>0. (n - 1) + 1 = n /\ n - 1 \in Calls
      BY <2>2, <1>1
    <3>1. n - 1 \in Calls /\ (n - 1) + 1 \in Calls /\ File((n - 1) + 1) = f
      BY <3>0, <1>1
    <3>2. /\ stack[n - 1].i \in DOMAIN iDeps[File(n - 1)]
          /\ iDeps[File(n - 1)][stack[n - 1].i] = f
      BY <3>1, <1>1 DEF Inv, StackAgrees
    <3>. QED  BY <2>1, <2>2, <3>1, <3>2, <1>2, SafeLinks DEF Inv
  <2>3. ASSUME NEW g \in Files, ~isSafe'[g], isSafe[g] PROVE ~Safe(g)
    BY <2>2, <2>3
  <2>4. \A g \in Files : isInit'[g] /\ ~isSafe'[g] => ~Safe(g)
    <3>. SUFFICES ASSUME NEW g \in Files, isInit'[g], ~isSafe'[g], ~isSafe[g] PROVE ~Safe(g)
      BY <2>3
    <3>. QED  BY <2>1, <1>1 DEF Inv, UnsafeReal
  <2>5. \A k \in Calls' : ~isSafe'[File(k)'] => ~Safe(File(k)')
    <3>. SUFFICES ASSUME NEW k \in Calls', ~isSafe'[File(k)] PROVE ~Safe(File(k))
      BY <1>1
    <3>1. k \in Calls /\ File(k) \in Files
      BY <1>1, <1>2
    <3>. QED  BY <3>1, <2>3 DEF Inv, UnsafeReal
  <2>6. answer' # NoAnswer => (~answer'.safe => ~Safe(answer'.file))
    <3>1. CASE answer' = answer
      BY <3>1 DEF Inv, UnsafeReal
    <3>2. CASE answer' = [file |-> f, safe |-> isSafe[f]]
      BY <3>2, <2>1
    <3>. QED  BY <3>1, <3>2
  <2>. QED  BY <2>4, <2>5, <2>6, SafeUnchanged DEF UnsafeReal
<1>. QED  BY <1>5, <1>6, <1>7 DEF Inv

\* What a return leaves of the calls below the one that ends.
LEMMA CallsBelow ==
  ASSUME NEW s \in Seq(Frames), Len(s) > 1
  PROVE  /\ SubSeq(s, 1, Len(s) - 2) \in Seq(Frames)
         /\ Len(SubSeq(s, 1, Len(s) - 2)) = Len(s) - 2
         /\ \A k \in 1..Len(s) - 2 : SubSeq(s, 1, Len(s) - 2)[k] = s[k]
<1>. DEFINE m == Len(s) - 2
<1>1. m \in Nat /\ 1 \in Int /\ \A k \in 1..m : s[k] \in Frames
  OBVIOUS
<1>. HIDE DEF m
<1>2. (m - 1) + 1 = m /\ (1 <= m => (m - 1) + 1 = m) /\ (~(1 <= m) => m = 0)
      /\ \A k \in 1..m : (1 + k) - 1 = k
  BY <1>1
<1>. SUFFICES /\ SubSeq(s, 1, m) \in Seq(Frames) /\ Len(SubSeq(s, 1, m)) = m
              /\ \A k \in 1..m : SubSeq(s, 1, m)[k] = s[k]
  BY DEF m
<1>3. /\ SubSeq(s, 1, m) \in Seq(Frames)
      /\ Len(SubSeq(s, 1, m)) = IF 1 <= m THEN (m - 1) + 1 ELSE 0
      /\ \A k \in 1..(m - 1) + 1 : SubSeq(s, 1, m)[k] = s[(1 + k) - 1]
  BY <1>1, SubSeqProperties, Z3
<1>. QED  BY <1>2, <1>3

LEMMA CallPushed ==
  ASSUME NEW s \in Seq(Frames), NEW frame \in Frames
  PROVE  /\ Append(s, frame) \in Seq(Frames) /\ Len(Append(s, frame)) = Len(s) + 1
         /\ Append(s, frame)[Len(s) + 1] = frame
         /\ \A k \in 1..Len(s) : Append(s, frame)[k] = s[k]
OBVIOUS

LEMMA ReturnKeeps == ASSUME Inv, Return PROVE Inv'
<1>. DEFINE f == Top.file
            frame == IF isSafe[f] THEN GoesOn(Caller) ELSE Caller
<1>1. stack # <<>> /\ UNCHANGED <<iDeps, marked>> /\ isActive' = [isActive EXCEPT ![f] = FALSE]
  BY DEF Return
<1>2. f \in Files /\ Len(stack) \in Nat \ {0} /\ Calls = 1..Len(stack)
  BY <1>1, InnermostCall DEF Inv
<1>3. /\ isInit' \in [Files -> BOOLEAN]
      /\ \A g \in Files : g # f => (isInit'[g] <=> isInit[g])
  BY <1>2 DEF Return, Keeps, Inv, TypeOK
<1>4. CASE Len(stack) = 1
  <2>1. stack' = <<>> /\ isSafe' = isSafe /\ answer' = [file |-> f, safe |-> isSafe[f]]
    BY <1>4 DEF Return
  <2>2. stack' \in Seq(Frames) /\ Len(stack') = 0
    BY <2>1
  <2>3. isSafe' \in [Files -> BOOLEAN] /\ \A g \in Files : isSafe'[g] = isSafe[g]
    BY <2>1 DEF Inv, TypeOK
  <2>4. Len(stack') = Len(stack) - 1
    BY <1>4, <2>2
  <2>5. /\ \A k \in 1..Len(stack) - 1 : stack'[k].file = stack[k].file /\ stack'[k].i >= 1
        /\ \A k \in 1..Len(stack) - 2 : stack'[k] = stack[k]
    BY <1>4
  <2>. HIDE DEF f
  <2>. QED  BY <1>1, <1>3, <2>1, <2>2, <2>3, <2>4, <2>5, Returned DEF f
<1>5. CASE Len(stack) # 1
  <2>. DEFINE n == Len(stack)
  <2>0. n > 1
    <3>1. \A m \in Nat \ {0} : m # 1 => m > 1
      OBVIOUS
    <3>2. n \in Nat \ {0} /\ n # 1
      BY <1>2, <1>5
    <3>. QED  BY <3>1, <3>2
  <2>1. n > 1 /\ n - 1 \in Calls /\ Caller \in Frames
    BY <1>1, <2>0, InnermostCall DEF Inv
  <2>2. frame \in Frames /\ frame.file = Caller.file /\ frame.i >= Caller.i
    <3>1. CASE isSafe[f]
      <4>1. frame = GoesOn(Caller)
        BY <3>1
      <4>2. Caller.i \in Nat
        BY <2>1 DEF Frames
      <4>. QED  BY <2>1, <4>1, <4>2, GoneOn
    <3>2. CASE ~isSafe[f]
      BY <2>1, <3>2 DEF Frames
    <3>. QED  BY <3>1, <3>2
  <2>3. Caller.i >= 1 /\ Caller = stack[n - 1] /\ File(n - 1) = Caller.file
    BY <2>1 DEF Inv, StackAgrees, Caller, File
  <2>4. /\ stack' = Append(SubSeq(stack, 1, n - 2), frame)
        /\ isSafe' = [isSafe EXCEPT ![Caller.file] = isSafe[f]]
        /\ answer' = answer
    BY <1>5 DEF Return
  <2>. HIDE DEF frame
  <2>5. /\ stack' \in Seq(Frames) /\ Len(stack') = n - 1
        /\ stack'[n - 1] = frame
        /\ \A k \in 1..n - 2 : stack'[k] = stack[k]
    <3>1. stack \in Seq(Frames) /\ n \in Nat
      BY <1>2 DEF Inv, TypeOK
    <3>. DEFINE below == SubSeq(stack, 1, n - 2)
    <3>2. /\ below \in Seq(Frames) /\ Len(below) = n - 2
          /\ \A k \in 1..n - 2 : below[k] = stack[k]
      BY <2>0, <3>1, CallsBelow
    <3>3. stack' = Append(below, frame) /\ frame \in Frames
      BY <2>2, <2>4
    <3>. HIDE DEF below, f
    <3>. QED  BY <2>0, <3>1, <3>2, <3>3, CallPushed
  <2>6. \A k \in 1..n - 1 : stack'[k].file = stack[k].file /\ stack'[k].i >= 1
    <3>1. stack'[n - 1].file = stack[n - 1].file /\ stack'[n - 1].i >= 1
      BY <2>2, <2>3, <2>5, <2>1 DEF Frames
    <3>2. \A k \in 1..n - 2 : stack'[k].file = stack[k].file /\ stack'[k].i >= 1
      BY <2>5, <1>2 DEF Inv, StackAgrees
    <3>. QED  BY <3>1, <3>2, <1>2
  <2>7. isSafe' \in [Files -> BOOLEAN]
    BY <1>2, <2>4 DEF Inv, TypeOK
  <2>8. \A g \in Files : isSafe'[g] # isSafe[g] =>
            n > 1 /\ g = File(n - 1) /\ ~isSafe[f] /\ ~isSafe'[g]
    <3>1. isSafe[File(n - 1)]
      BY <2>1, <1>2 DEF Inv, StackAgrees
    <3>. QED  BY <3>1, <1>2, <2>1, <2>3, <2>4 DEF Inv, TypeOK
  <2>. HIDE DEF f
  <2>. QED  BY <1>1, <1>3, <2>4, <2>5, <2>6, <2>7, <2>8, Returned DEF f
<1>. QED  BY <1>4, <1>5

\* The calls that a return leaves: the caller of the one that ended has gone on
\* past a safe link.
LEMMA CallsLeft ==
  ASSUME Inv, Return, NEW n, n = Len(stack)
  PROVE  /\ n \in Nat \ {0} /\ Calls = 1..n /\ Calls' = 1..n - 1
         /\ \A k \in 1..n - 2 : stack'[k] = stack[k]
         /\ n > 1 => stack'[n - 1] = IF isSafe[Top.file] THEN GoesOn(Caller) ELSE Caller
<1>. DEFINE frame == IF isSafe[Top.file] THEN GoesOn(Caller) ELSE Caller
<1>1. stack # <<>> /\ n \in Nat \ {0} /\ Calls = 1..n /\ stack \in Seq(Frames)
  BY InnermostCall DEF Inv, TypeOK, Return
<1>2. CASE n = 1
  <2>1. stack' = <<>>
    BY <1>2 DEF Return
  <2>2. Calls' = 1..0
    BY <2>1 DEF Calls
  <2>. QED  BY <1>1, <1>2, <2>2
<1>3. CASE n # 1
  <2>1. n > 1
    BY <1>1, <1>3
  <2>2. Caller \in Frames
    BY <1>1, <2>1, InnermostCall DEF Inv
  <2>3. frame \in Frames
    BY <2>2, GoneOn
  <2>. DEFINE below == SubSeq(stack, 1, n - 2)
  <2>4. stack' = Append(below, frame)
    BY <1>3 DEF Return
  <2>5. /\ below \in Seq(Frames) /\ Len(below) = n - 2
        /\ \A k \in 1..n - 2 : below[k] = stack[k]
    BY <1>1, <2>1, CallsBelow
  <2>. HIDE DEF below, frame
  <2>6. /\ stack' \in Seq(Frames) /\ Len(stack') = n - 1
        /\ stack'[n - 1] = frame
        /\ \A k \in 1..n - 2 : stack'[k] = stack[k]
    BY <1>1, <2>1, <2>3, <2>4, <2>5, CallPushed
  <2>7. Calls' = 1..n - 1
    BY <2>6 DEF Calls
  <2>. QED  BY <1>1, <2>6, <2>7 DEF frame
<1>. QED  BY <1>2, <1>3

\* Any files with any links and any of them marked.
Graphs == iDeps \in [Files -> Seq(Files)] /\ marked \in SUBSET Files

\* The strengthening of UnsafeIsReal is an invariant.
LEMMA InvStart == Graphs /\ SmpInit => Inv
<1>. SUFFICES ASSUME Graphs, SmpInit PROVE Inv
  OBVIOUS
<1>1. stack = <<>> /\ Calls = {}
  BY DEF SmpInit, Calls
<1>. QED  BY <1>1 DEF Graphs, SmpInit, Inv, TypeOK, StackAgrees, UnsafeReal, Answers, NoAnswer

LEMMA InvStep == Inv /\ [SmpNext]_<<iDeps, marked, smp>> => Inv'
<1>. SUFFICES ASSUME Inv, [SmpNext]_<<iDeps, marked, smp>> PROVE Inv'
  OBVIOUS
<1>1. ASSUME NEW f \in Files, ComputeSmpSafe(f) PROVE Inv'
  BY <1>1, ComputeSmpSafeKeeps
<1>2. CASE LinkActive
  BY <1>2, LinkActiveKeeps
<1>3. CASE LinkVisited
  BY <1>3, LinkVisitedKeeps
<1>4. CASE LinkNew
  BY <1>4, LinkNewKeeps
<1>5. CASE Return
  BY <1>5, ReturnKeeps
<1>6. CASE UNCHANGED <<iDeps, marked, smp>>
  <2>1. \A g : Safe(g)' <=> Safe(g)
    BY <1>6, SafeUnchanged
  <2>. QED  BY <1>6, <2>1 DEF smp, Inv, TypeOK, StackAgrees, UnsafeReal, File, Calls
<1>. QED  BY <1>1, <1>2, <1>3, <1>4, <1>5, <1>6 DEF SmpNext

LEMMA InvMeansReal == Inv => UnsafeIsReal
BY DEF Inv, UnsafeReal, UnsafeIsReal

LEMMA InvHolds == SmpSpec => []Inv
<1>1. Graphs /\ SmpInit => Inv
  BY InvStart
<1>2. Inv /\ [SmpNext]_<<iDeps, marked, smp>> => Inv'
  BY InvStep
<1>. QED  BY <1>1, <1>2, PTL DEF SmpSpec, Graphs

\* Unsafe answers and unsafe results that are kept are real: there is a file
\* without KImageSMPSafe among those it links to, on every graph, for every order
\* of calls of ComputeSmpSafe.
THEOREM UnsafeResultsAreReal == SmpSpec => []UnsafeIsReal
<1>1. Inv => UnsafeIsReal
  BY InvMeansReal
<1>. QED  BY <1>1, InvHolds, PTL

-----------------------------------------------------------------------------
(***************************************************************************)
(* When no component depends on itself, every answer of ComputeSmpSafe and *)
(* every result it keeps is right.                                         *)
(***************************************************************************)

Found(f) == isInit[f] /\ isSafe[f]

\* What was found safe is closed under links; a call that is still safe has found
\* safe the links it has been through, and a cycle was never met.
ExactInv ==
  Acyclic =>
    /\ \A k \in Calls : ~stack[k].is_cycle
    /\ \A f \in Files : Found(f) =>
         f \in marked /\ \A i \in DOMAIN iDeps[f] : Found(iDeps[f][i])
    /\ \A k \in Calls : isSafe[File(k)] =>
         /\ File(k) \in marked
         /\ \A i \in DOMAIN iDeps[File(k)] : i < stack[k].i => Found(iDeps[File(k)][i])
    /\ answer # NoAnswer => (answer.safe => Found(answer.file))

\* What was found safe is safe.
LEMMA FoundIsSafe ==
  ASSUME Inv, ExactInv, Acyclic, NEW f \in Files, Found(f)
  PROVE  Safe(f)
<1>. DEFINE S == {g \in Files : Found(g)}
<1>1. S \in SUBSET Files /\ f \in S
  OBVIOUS
<1>2. S \subseteq marked
  BY DEF ExactInv
<1>3. ASSUME NEW g \in S PROVE Range(iDeps[g]) \subseteq S
  <2>. SUFFICES ASSUME NEW i \in DOMAIN iDeps[g] PROVE iDeps[g][i] \in S
    BY DEF Range
  <2>1. Found(iDeps[g][i])
    BY DEF ExactInv
  <2>2. iDeps[g] \in Seq(Files)
    BY DEF Inv, TypeOK
  <2>. QED  BY <2>1, <2>2
<1>. QED  BY <1>1, <1>2, <1>3 DEF Safe, SafeTogether

\* A link to a file that is active closes a cycle: the calls from its own on.
LEMMA ActiveMeansCycle ==
  ASSUME Inv, InLoop, isActive[Link]
  PROVE  ~Acyclic
<1>1. /\ stack # <<>> /\ Link \in Files /\ File(Len(stack)) = Top.file
      /\ Top.i \in DOMAIN iDeps[Top.file]
  BY InLoopLink DEF Inv
<1>2. PICK k \in Calls : File(k) = Link
  BY <1>1 DEF Inv, StackAgrees
<1>3. Len(stack) \in Nat \ {0} /\ Calls = 1..Len(stack)
  BY <1>1, InnermostCall DEF Inv
<1>. DEFINE S == {File(l) : l \in k..Len(stack)}
<1>4. S \in SUBSET Files /\ S # {}
  <2>1. \A l \in k..Len(stack) : l \in Calls
    BY <1>2, <1>3
  <2>2. k \in k..Len(stack)
    BY <1>2, <1>3
  <2>. QED  BY <2>1, <2>2, CallFile DEF Inv
<1>5. ASSUME NEW f \in S PROVE Range(iDeps[f]) \cap S # {}
  <2>1. PICK l \in k..Len(stack) : f = File(l)
    OBVIOUS
  <2>2. CASE l = Len(stack)
    <3>1. f = Top.file
      BY <1>1, <2>1, <2>2
    <3>2. Link \in Range(iDeps[f])
      BY <1>1, <3>1 DEF Link, Range
    <3>3. k \in k..Len(stack)
      BY <1>2, <1>3
    <3>4. Link \in S
      BY <1>2, <3>3
    <3>. QED  BY <3>2, <3>4
  <2>3. CASE l # Len(stack)
    <3>1. l \in Calls /\ l + 1 \in Calls /\ l + 1 \in k..Len(stack)
      BY <1>2, <1>3, <2>3
    <3>2. stack[l].i \in DOMAIN iDeps[File(l)] /\ iDeps[File(l)][stack[l].i] = File(l + 1)
      BY <3>1 DEF Inv, StackAgrees
    <3>3. File(l + 1) \in Range(iDeps[f])
      BY <2>1, <3>2 DEF Range
    <3>. QED  BY <3>1, <3>3
  <2>. QED  BY <2>2, <2>3
<1>. QED  BY <1>4, <1>5 DEF Acyclic

\* Steps that leave what was found alone.
LEMMA FoundUnchanged ==
  ASSUME UNCHANGED <<iDeps, marked>>
  PROVE  Acyclic' = Acyclic
BY DEF Acyclic

\* The top call's loop goes on past a link that was found safe.
LEMMA ExactGoesOn ==
  ASSUME Inv, ExactInv, LinkVisited, isSafe[Link] PROVE ExactInv'
<1>. SUFFICES ASSUME Acyclic PROVE ExactInv'
  BY FoundUnchanged DEF LinkVisited, ExactInv
<1>1. stack # <<>> /\ Top \in Frames /\ Link \in Files /\ File(Len(stack)) = Top.file
  BY InLoopLink, InnermostCall DEF Inv, LinkVisited
<1>. DEFINE top == GoesOn(Top)
<1>2. /\ top \in Frames /\ top.file = Top.file /\ top.i = Top.i + 1
      /\ top.is_cycle = Top.is_cycle
  BY <1>1, GoneOn
<1>3. /\ stack' = [stack EXCEPT ![Len(stack)] = top]
      /\ UNCHANGED <<iDeps, marked, isInit, isActive, isSafe, answer>>
  BY DEF LinkVisited, Top
<1>. HIDE DEF top
<1>4. /\ Calls' = Calls /\ stack'[Len(stack)] = top /\ Len(stack) \in Calls
      /\ \A k \in Calls : k # Len(stack) => stack'[k] = stack[k]
  BY <1>1, <1>2, <1>3, TopReplaced DEF Inv, TypeOK, Calls
<1>5. \A k \in Calls : File(k)' = File(k)
  BY <1>1, <1>2, <1>4 DEF File
<1>6. \A f : Found(f)' <=> Found(f)
  BY <1>3 DEF Found
<1>7. Found(Link)
  BY DEF Found, LinkVisited
<1>8. \A k \in Calls : ~stack'[k].is_cycle
  <2>1. \A k \in Calls : ~stack[k].is_cycle
    BY DEF ExactInv
  <2>2. ~top.is_cycle
    BY <1>2, <1>4, <2>1 DEF Top
  <2>. QED  BY <1>4, <2>1, <2>2
<1>9. ASSUME NEW k \in Calls, isSafe[File(k)]
      PROVE  /\ File(k) \in marked
             /\ \A i \in DOMAIN iDeps[File(k)] : i < stack'[k].i => Found(iDeps[File(k)][i])
  <2>1. File(k) \in marked /\ \A i \in DOMAIN iDeps[File(k)] :
          i < stack[k].i => Found(iDeps[File(k)][i])
    BY <1>9 DEF ExactInv
  <2>2. CASE k # Len(stack)
    BY <1>4, <2>1, <2>2
  <2>3. CASE k = Len(stack)
    <3>1. File(k) = Top.file /\ stack[k] = Top /\ stack'[k].i = Top.i + 1
      BY <1>1, <1>2, <1>4, <2>3 DEF Top
    <3>2. iDeps[Top.file] \in Seq(Files) /\ Top.i \in Nat
      BY <1>1, InnermostCall DEF Inv
    <3>3. ASSUME NEW i \in DOMAIN iDeps[Top.file], i < Top.i + 1 PROVE Found(iDeps[Top.file][i])
      <4>1. i < Top.i \/ i = Top.i
        BY <3>2, <3>3
      <4>. QED  BY <4>1, <3>1, <2>1, <1>7 DEF Link
    <3>. QED  BY <2>1, <3>1, <3>3
  <2>. QED  BY <2>2, <2>3
<1>. QED  BY <1>3, <1>4, <1>5, <1>6, <1>8, <1>9 DEF ExactInv
\* The top call turns out unsafe; its file was never among those found safe.
LEMMA ExactUnsafe ==
  ASSUME Inv, ExactInv, InLoop,
         UNCHANGED <<iDeps, marked, isInit, isActive, stack>>,
         isSafe' = [isSafe EXCEPT ![Top.file] = FALSE], answer' = answer
  PROVE  ExactInv'
<1>. SUFFICES ASSUME Acyclic PROVE ExactInv'
  BY FoundUnchanged DEF ExactInv
<1>1. ~isInit[Top.file]
  BY InLoopLink DEF Inv
<1>2. Calls' = Calls /\ \A k : File(k)' = File(k)
  BY DEF Calls, File
<1>3. \A f \in Files : isSafe'[f] => isSafe[f]
  BY DEF Inv, TypeOK
<1>4. \A f \in Files : Found(f)' <=> Found(f)
  BY <1>1 DEF Found, Inv, TypeOK
<1>5. \A f \in Files : \A i \in DOMAIN iDeps[f] : iDeps[f][i] \in Files
  BY DEF Inv, TypeOK
<1>6. \A k \in Calls : File(k) \in Files
  BY CallFile DEF Inv
<1>7. answer # NoAnswer => answer.file \in Files
  BY DEF Inv, TypeOK, Answers
<1>8. \A f \in Files : Found(f)' =>
        f \in marked /\ \A i \in DOMAIN iDeps[f] : Found(iDeps[f][i])'
  <2>. SUFFICES ASSUME NEW f \in Files, Found(f)'
                PROVE  f \in marked /\ \A i \in DOMAIN iDeps[f] : Found(iDeps[f][i])'
    OBVIOUS
  <2>1. f \in marked /\ \A i \in DOMAIN iDeps[f] : Found(iDeps[f][i])
    BY <1>4 DEF ExactInv
  <2>. QED  BY <2>1, <1>4, <1>5
<1>9. ASSUME NEW k \in Calls, isSafe'[File(k)]
      PROVE  /\ File(k) \in marked
             /\ \A i \in DOMAIN iDeps[File(k)] : i < stack[k].i => Found(iDeps[File(k)][i])'
  <2>1. isSafe[File(k)]
    BY <1>3, <1>6, <1>9
  <2>2. File(k) \in marked /\ \A i \in DOMAIN iDeps[File(k)] :
          i < stack[k].i => Found(iDeps[File(k)][i])
    BY <2>1 DEF ExactInv
  <2>. QED  BY <2>2, <1>2, <1>4, <1>5, <1>6
<1>10. \A k \in Calls : ~stack[k].is_cycle
  BY DEF ExactInv
<1>11. answer # NoAnswer => (answer.safe => Found(answer.file)')
  BY <1>4, <1>7 DEF ExactInv
<1>. QED  BY <1>2, <1>8, <1>9, <1>10, <1>11 DEF ExactInv

\* A new call starts at its first link; its file was not among those found safe.
LEMMA ExactEntered ==
  ASSUME Inv, ExactInv, NEW f \in Files, ~isInit[f], ~isActive[f], Enter(f, stack),
         UNCHANGED <<iDeps, marked>>, answer' \in {answer, NoAnswer},
         NEW n, n = Len(stack)
  PROVE  ExactInv'
<1>. SUFFICES ASSUME Acyclic PROVE ExactInv'
  BY FoundUnchanged DEF ExactInv
<1>. DEFINE frame == [file |-> f, i |-> 1, is_cycle |-> FALSE]
<1>1. frame \in Frames /\ frame.file = f /\ frame.i = 1 /\ ~frame.is_cycle
  BY DEF Frames
<1>2. stack \in Seq(Frames) /\ stack' = Append(stack, frame)
  BY DEF Inv, TypeOK, Enter
<1>. HIDE DEF frame
<1>3. /\ n \in Nat /\ Calls' = Calls \cup {n + 1}
      /\ stack'[n + 1] = frame /\ \A k \in Calls : stack'[k] = stack[k]
  <2>1. /\ n \in Nat /\ Calls' = 1..n + 1 /\ Calls = 1..n
        /\ stack'[n + 1] = frame /\ \A k \in 1..n : stack'[k] = stack[k]
    BY <1>1, <1>2, Appended DEF Calls
  <2>. QED  BY <2>1
<1>4. isSafe' = [isSafe EXCEPT ![f] = f \in marked] /\ isInit' = isInit
  BY DEF Enter
<1>5. \A g \in Files : Found(g)' <=> Found(g)
  BY <1>4 DEF Found, Inv, TypeOK
<1>6. \A g \in Files : \A i \in DOMAIN iDeps[g] : iDeps[g][i] \in Files
  BY DEF Inv, TypeOK
<1>7. \A k \in Calls : File(k)' = File(k) /\ File(k) \in Files /\ File(k) # f
  <2>. SUFFICES ASSUME NEW k \in Calls PROVE File(k)' = File(k) /\ File(k) \in Files /\ File(k) # f
    OBVIOUS
  <2>1. File(k)' = File(k)
    BY <1>3 DEF File
  <2>2. File(k) \in Files
    BY CallFile DEF Inv
  <2>3. isActive[File(k)]
    BY <2>2 DEF Inv, StackAgrees
  <2>. QED  BY <2>1, <2>2, <2>3
<1>8. File(n + 1)' = f
  BY <1>1, <1>3 DEF File
<1>9. \A g \in Files : Found(g)' =>
        g \in marked /\ \A i \in DOMAIN iDeps[g] : Found(iDeps[g][i])'
  <2>. SUFFICES ASSUME NEW g \in Files, Found(g)'
                PROVE  g \in marked /\ \A i \in DOMAIN iDeps[g] : Found(iDeps[g][i])'
    OBVIOUS
  <2>1. g \in marked /\ \A i \in DOMAIN iDeps[g] : Found(iDeps[g][i])
    BY <1>5 DEF ExactInv
  <2>. QED  BY <2>1, <1>5, <1>6
<1>10. ASSUME NEW k \in Calls', isSafe'[File(k)']
       PROVE  /\ File(k)' \in marked
              /\ \A i \in DOMAIN iDeps[File(k)'] :
                   i < stack'[k].i => Found(iDeps[File(k)][i])'
  <2>1. CASE k = n + 1
    <3>1. f \in marked
      BY <1>4, <1>8, <1>10, <2>1 DEF Inv, TypeOK
    <3>2. stack'[k].i = 1 /\ iDeps[f] \in Seq(Files)
      BY <1>1, <1>3, <2>1 DEF Inv, TypeOK
    <3>3. \A i \in DOMAIN iDeps[f] : ~(i < 1)
      BY <3>2
    <3>. QED  BY <1>8, <2>1, <3>1, <3>2, <3>3
  <2>2. CASE k \in Calls
    <3>1. File(k)' = File(k) /\ File(k) \in Files /\ isSafe[File(k)]
      BY <1>4, <1>7, <1>10, <2>2 DEF Inv, TypeOK
    <3>2. File(k) \in marked /\ \A i \in DOMAIN iDeps[File(k)] :
            i < stack[k].i => Found(iDeps[File(k)][i])
      BY <2>2, <3>1 DEF ExactInv
    <3>. QED  BY <1>3, <1>5, <1>6, <2>2, <3>1, <3>2
  <2>. QED  BY <1>3, <2>1, <2>2
<1>11. \A k \in Calls' : ~stack'[k].is_cycle
  BY <1>1, <1>3 DEF ExactInv
<1>12. answer' # NoAnswer => (answer'.safe => Found(answer.file)')
  <2>1. answer # NoAnswer => answer.file \in Files
    BY DEF Inv, TypeOK, Answers
  <2>. QED  BY <2>1, <1>5 DEF ExactInv
<1>. QED  BY <1>9, <1>10, <1>11, <1>12 DEF ExactInv

LEMMA ComputeSmpSafeIsExact ==
  ASSUME Inv, ExactInv, NEW f \in Files, ComputeSmpSafe(f)
  PROVE  ExactInv'
<1>1. CASE isInit[f] /\ answer' = [file |-> f, safe |-> isSafe[f]]
           /\ UNCHANGED <<isInit, isActive, isSafe, stack>>
  <2>. SUFFICES ASSUME Acyclic PROVE ExactInv'
    BY FoundUnchanged DEF ExactInv, ComputeSmpSafe
  <2>1. answer'.safe => Found(answer.file)'
    BY <1>1 DEF Found
  <2>2. UNCHANGED <<iDeps, marked>>
    BY DEF ComputeSmpSafe
  <2>. QED  BY <1>1, <2>1, <2>2 DEF ExactInv, Found, File, Calls
<1>2. CASE ~isInit[f] /\ Enter(f, stack) /\ answer' = NoAnswer
  <2>1. stack = <<>> /\ UNCHANGED <<iDeps, marked>>
    BY DEF ComputeSmpSafe
  <2>2. ~isActive[f]
    BY <2>1 DEF Inv, StackAgrees, Calls
  <2>. QED  BY <1>2, <2>1, <2>2, ExactEntered
<1>. QED  BY <1>1, <1>2 DEF ComputeSmpSafe

LEMMA LinkNewIsExact == ASSUME Inv, ExactInv, LinkNew PROVE ExactInv'
<1>1. Link \in Files
  BY InLoopLink DEF Inv, LinkNew
<1>. QED  BY <1>1, ExactEntered DEF LinkNew
\* The file of the call that ends is among those found safe if it is.
LEMMA ReturnIsExact ==
  ASSUME Inv, ExactInv, Return, NEW n, n = Len(stack), NEW f, f = Top.file
  PROVE  ExactInv'
<1>1. UNCHANGED <<iDeps, marked>>
  BY DEF Return
<1>. SUFFICES ASSUME Acyclic PROVE ExactInv'
  BY <1>1, FoundUnchanged DEF ExactInv
<1>2. /\ stack # <<>> /\ n \in Nat \ {0} /\ n \in Calls
      /\ f \in Files /\ File(n) = f /\ Top.i \in Nat /\ Top = stack[n]
      /\ iDeps[f] \in Seq(Files) /\ ~Top.is_cycle
  <2>1. stack # <<>>
    BY DEF Return
  <2>2. n \in Nat \ {0} /\ n \in Calls /\ f \in Files /\ Top.i \in Nat /\ iDeps[f] \in Seq(Files)
    BY <2>1, InnermostCall DEF Inv
  <2>. QED  BY <2>1, <2>2 DEF ExactInv, Top, File
<1>3. /\ Calls = 1..n /\ Calls' = 1..n - 1
      /\ \A k \in 1..n - 2 : stack'[k] = stack[k]
      /\ n > 1 => stack'[n - 1] = IF isSafe[f] THEN GoesOn(Caller) ELSE Caller
  BY CallsLeft
<1>4. isInit' = [isInit EXCEPT ![f] = TRUE]
  BY <1>2 DEF Return, Keeps
<1>5. isSafe[f] => f \in marked /\ \A i \in DOMAIN iDeps[f] : Found(iDeps[f][i])
  <2>. SUFFICES ASSUME isSafe[f] PROVE f \in marked /\ \A i \in DOMAIN iDeps[f] : Found(iDeps[f][i])
    OBVIOUS
  <2>1. ~(Top.i <= Len(iDeps[f]))
    BY <1>2 DEF Return, InLoop
  <2>2. \A i \in DOMAIN iDeps[f] : i < Top.i
    BY <1>2, <2>1
  <2>. QED  BY <1>2, <2>2 DEF ExactInv
<1>6. /\ isSafe' \in [Files -> BOOLEAN]
      /\ \A g \in Files : isSafe'[g] # isSafe[g] => n > 1 /\ g = File(n - 1) /\ ~isSafe'[g]
      /\ n > 1 => isSafe'[File(n - 1)] = isSafe[f]
      /\ isSafe'[f] = isSafe[f]
  <2>1. CASE n = 1
    BY <1>2, <2>1 DEF Return, Inv, TypeOK
  <2>2. CASE n > 1
    <3>1. n - 1 \in Calls /\ n - 1 # n /\ (n - 1) + 1 \in Calls
      BY <1>2, <1>3, <2>2
    <3>2. File(n - 1) # f /\ File(n - 1) \in Files /\ isSafe[File(n - 1)]
      BY <1>2, <3>1, CallFile DEF Inv, StackAgrees
    <3>3. isSafe' = [isSafe EXCEPT ![File(n - 1)] = isSafe[f]]
      BY <2>2 DEF Return, Caller, File
    <3>4. isSafe \in [Files -> BOOLEAN]
      BY DEF Inv, TypeOK
    <3>. QED  BY <1>2, <2>2, <3>2, <3>3, <3>4
  <2>. QED  BY <1>2, <2>1, <2>2
<1>7. n > 1 => /\ n - 1 \in Calls /\ File(n - 1) \in Files /\ ~isInit[File(n - 1)]
               /\ File(n - 1)' = File(n - 1)
               /\ Caller = stack[n - 1] /\ Caller \in Frames
               /\ Caller.i \in DOMAIN iDeps[File(n - 1)]
               /\ iDeps[File(n - 1)][Caller.i] = f /\ isSafe[File(n - 1)]
  <2>. SUFFICES ASSUME n > 1
                PROVE  /\ n - 1 \in Calls /\ File(n - 1) \in Files /\ ~isInit[File(n - 1)]
                       /\ File(n - 1)' = File(n - 1)
                       /\ Caller = stack[n - 1] /\ Caller \in Frames
                       /\ Caller.i \in DOMAIN iDeps[File(n - 1)]
                       /\ iDeps[File(n - 1)][Caller.i] = f /\ isSafe[File(n - 1)]
    OBVIOUS
  <2>1. n - 1 \in Calls /\ (n - 1) + 1 \in Calls /\ (n - 1) + 1 = n
    BY <1>2, <1>3
  <2>2. Caller = stack[n - 1] /\ Caller \in Frames /\ File(n - 1) \in Files
    BY <2>1, CallFile DEF Inv, Caller
  <2>3. isActive[File(n - 1)]
    BY <2>1, <2>2 DEF Inv, StackAgrees
  <2>4. ~isInit[File(n - 1)]
    BY <2>2, <2>3 DEF Inv, StackAgrees
  <2>5. File(n - 1)' = File(n - 1)
    <3>1. GoesOn(Caller).file = Caller.file
      BY <2>2, GoneOn
    <3>. QED  BY <1>3, <2>2, <3>1 DEF File
  <2>6. /\ Caller.i \in DOMAIN iDeps[File(n - 1)]
        /\ iDeps[File(n - 1)][Caller.i] = f /\ isSafe[File(n - 1)]
    BY <1>2, <2>1, <2>2 DEF Inv, StackAgrees
  <2>. QED  BY <2>1, <2>2, <2>4, <2>5, <2>6
<1>8. \A g \in Files : Found(g)' <=> Found(g) \/ (g = f /\ isSafe[f])
  <2>. SUFFICES ASSUME NEW g \in Files PROVE Found(g)' <=> Found(g) \/ (g = f /\ isSafe[f])
    OBVIOUS
  <2>1. CASE g = f
    BY <1>2, <1>4, <1>6, <2>1 DEF Found, Inv, TypeOK
  <2>2. CASE g # f
    <3>1. isInit'[g] = isInit[g]
      BY <1>4, <2>2 DEF Inv, TypeOK
    <3>2. isInit[g] => isSafe'[g] = isSafe[g]
      BY <1>6, <1>7
    <3>. QED  BY <2>2, <3>1, <3>2 DEF Found
  <2>. QED  BY <2>1, <2>2
<1>9. \A g \in Files : \A i \in DOMAIN iDeps[g] : iDeps[g][i] \in Files
  BY DEF Inv, TypeOK
<1>10. \A g \in Files : Found(g)' =>
        g \in marked /\ \A i \in DOMAIN iDeps[g] : Found(iDeps[g][i])'
  <2>. SUFFICES ASSUME NEW g \in Files, Found(g)'
                PROVE  g \in marked /\ \A i \in DOMAIN iDeps[g] : Found(iDeps[g][i])'
    OBVIOUS
  <2>1. g \in marked /\ \A i \in DOMAIN iDeps[g] : Found(iDeps[g][i])
    BY <1>5, <1>8 DEF ExactInv
  <2>. QED  BY <1>1, <2>1, <1>8, <1>9
<1>11. ASSUME NEW k \in Calls', isSafe'[File(k)']
       PROVE  /\ File(k)' \in marked /\ ~stack'[k].is_cycle
              /\ \A i \in DOMAIN iDeps[File(k)'] :
                   i < stack'[k].i => Found(iDeps[File(k)][i])'
  <2>0. k \in Calls /\ (k \in 1..n - 2 \/ (k = n - 1 /\ n > 1))
    BY <1>2, <1>3
  <2>1. CASE k \in 1..n - 2
    <3>1. stack'[k] = stack[k] /\ File(k)' = File(k) /\ File(k) \in Files
      BY <1>3, <2>0, <2>1, CallFile DEF Inv, File
    <3>2. isSafe[File(k)]
      BY <1>6, <1>11, <3>1
    <3>3. File(k) \in marked /\ \A i \in DOMAIN iDeps[File(k)] :
            i < stack[k].i => Found(iDeps[File(k)][i])
      BY <2>0, <3>2 DEF ExactInv
    <3>4. ~stack[k].is_cycle
      BY <2>0 DEF ExactInv
    <3>. QED  BY <1>1, <1>8, <1>9, <3>1, <3>3, <3>4
  <2>2. CASE k = n - 1 /\ n > 1
    <3>1. isSafe[f] /\ stack'[k] = GoesOn(Caller)
      BY <1>3, <1>6, <1>7, <1>11, <2>2
    <3>2. stack'[k].i = Caller.i + 1 /\ ~stack'[k].is_cycle
      BY <1>7, <2>0, <2>2, <3>1, GoneOn DEF ExactInv
    <3>3. File(k) \in marked /\ \A i \in DOMAIN iDeps[File(k)] :
            i < Caller.i => Found(iDeps[File(k)][i])
      BY <1>7, <2>0, <2>2 DEF ExactInv
    <3>4. iDeps[File(k)] \in Seq(Files) /\ Caller.i \in Nat
      BY <1>7, <2>2 DEF Inv, TypeOK, Frames
    <3>5. ASSUME NEW i \in DOMAIN iDeps[File(k)], i < Caller.i + 1
          PROVE  Found(iDeps[File(k)][i]) \/ (iDeps[File(k)][i] = f /\ isSafe[f])
      <4>1. i < Caller.i \/ i = Caller.i
        BY <3>4, <3>5
      <4>. QED  BY <1>7, <2>2, <3>1, <3>3, <4>1
    <3>. QED  BY <1>1, <1>7, <1>8, <1>9, <2>2, <3>2, <3>3, <3>5
  <2>. QED  BY <2>0, <2>1, <2>2
<1>12. \A k \in Calls' : ~stack'[k].is_cycle
  <2>. SUFFICES ASSUME NEW k \in Calls' PROVE ~stack'[k].is_cycle
    OBVIOUS
  <2>0. k \in Calls /\ (k \in 1..n - 2 \/ (k = n - 1 /\ n > 1)) /\ ~stack[k].is_cycle
    BY <1>2, <1>3 DEF ExactInv
  <2>1. CASE k \in 1..n - 2
    BY <1>3, <2>0, <2>1
  <2>2. CASE k = n - 1 /\ n > 1
    BY <1>3, <1>7, <2>0, <2>2, GoneOn
  <2>. QED  BY <2>0, <2>1, <2>2
<1>13. answer' # NoAnswer => (answer'.safe => Found(answer.file)')
  <2>1. answer # NoAnswer => answer.file \in Files
    BY DEF Inv, TypeOK, Answers
  <2>2. CASE answer' = answer
    <3>1. answer # NoAnswer => (answer.safe => Found(answer.file))
      BY DEF ExactInv
    <3>. QED  BY <1>8, <2>1, <2>2, <3>1
  <2>3. CASE answer' = [file |-> f, safe |-> isSafe[f]]
    <3>1. answer'.file = f /\ answer'.safe = isSafe[f]
      BY <2>3
    <3>. QED  BY <1>2, <1>8, <3>1
  <2>. QED  BY <2>2, <2>3 DEF Return
<1>. QED  BY <1>1, <1>10, <1>11, <1>12, <1>13 DEF ExactInv

\* The strengthening of AcyclicIsExact is an invariant.
LEMMA ExactStep == Inv /\ ExactInv /\ [SmpNext]_<<iDeps, marked, smp>> => ExactInv'
<1>. SUFFICES ASSUME Inv, ExactInv, [SmpNext]_<<iDeps, marked, smp>> PROVE ExactInv'
  OBVIOUS
<1>1. ASSUME NEW f \in Files, ComputeSmpSafe(f) PROVE ExactInv'
  BY <1>1, ComputeSmpSafeIsExact
<1>2. CASE LinkActive
  <2>1. ~Acyclic /\ UNCHANGED <<iDeps, marked>>
    BY <1>2, ActiveMeansCycle DEF LinkActive
  <2>. QED  BY <2>1, FoundUnchanged DEF ExactInv
<1>3. CASE LinkVisited
  <2>1. CASE isSafe[Link]
    BY <1>3, <2>1, ExactGoesOn
  <2>2. CASE ~isSafe[Link]
    BY <1>3, <2>2, ExactUnsafe DEF LinkVisited
  <2>. QED  BY <2>1, <2>2
<1>4. CASE LinkNew
  BY <1>4, LinkNewIsExact
<1>5. CASE Return
  BY <1>5, ReturnIsExact
<1>6. CASE UNCHANGED <<iDeps, marked, smp>>
  <2>1. Acyclic' = Acyclic /\ \A f : Found(f)' <=> Found(f)
    BY <1>6, FoundUnchanged DEF smp, Found
  <2>. QED  BY <1>6, <2>1 DEF smp, ExactInv, File, Calls, Found
<1>. QED  BY <1>1, <1>2, <1>3, <1>4, <1>5, <1>6 DEF SmpNext

LEMMA ExactStart == SmpInit => ExactInv
<1>. SUFFICES ASSUME SmpInit PROVE ExactInv
  OBVIOUS
<1>1. Calls = {}
  BY DEF SmpInit, Calls
<1>. QED  BY <1>1 DEF SmpInit, ExactInv, Found

LEMMA ExactHolds == SmpSpec => []ExactInv
<1>1. SmpInit => ExactInv
  BY ExactStart
<1>2. Inv /\ ExactInv /\ [SmpNext]_<<iDeps, marked, smp>> => ExactInv'
  BY ExactStep
<1>. QED  BY <1>1, <1>2, InvHolds, PTL DEF SmpSpec

LEMMA ExactMeansExact == Inv /\ ExactInv => AcyclicIsExact
<1>. SUFFICES ASSUME Inv, ExactInv, Acyclic
              PROVE  /\ \A f \in Files : isInit[f] => (isSafe[f] <=> Safe(f))
                     /\ answer # NoAnswer => (answer.safe <=> Safe(answer.file))
  BY DEF AcyclicIsExact
<1>1. \A f \in Files : isInit[f] => (isSafe[f] <=> Safe(f))
  BY FoundIsSafe DEF Found, Inv, UnsafeReal
<1>2. answer # NoAnswer => (answer.safe <=> Safe(answer.file))
  <2>. SUFFICES ASSUME answer # NoAnswer PROVE answer.safe <=> Safe(answer.file)
    OBVIOUS
  <2>1. answer.file \in Files
    BY DEF Inv, TypeOK, Answers
  <2>2. answer.safe => Safe(answer.file)
    BY <2>1, FoundIsSafe DEF ExactInv
  <2>3. ~answer.safe => ~Safe(answer.file)
    BY DEF Inv, UnsafeReal
  <2>. QED  BY <2>2, <2>3
<1>. QED  BY <1>1, <1>2

\* When the graph of links has no cycle, every answer of ComputeSmpSafe and every
\* result it keeps in iSmpInfo says what its comment defines, on every graph and
\* for every order of calls.
THEOREM AcyclicResultsAreExact == SmpSpec => []AcyclicIsExact
<1>1. Inv /\ ExactInv => AcyclicIsExact
  BY ExactMeansExact
<1>. QED  BY <1>1, InvHolds, ExactHolds, PTL

-----------------------------------------------------------------------------
(***************************************************************************)
(* As long as ComputeSmpSafe finds no file unsafe, its safe answers are    *)
(* right, whatever cycles it meets: what it takes for safe in the middle   *)
(* of a cycle waits for files that are still active.                       *)
(***************************************************************************)

NoUnsafe == \A f \in Files : isInit[f] => isSafe[f]

Seen(D, f) == f \in D \/ isActive[f]

\* The files of D were all returned from as safe; what they link to is among them
\* or active, and so are the links that the active ones have been through.
Explored(D) ==
  /\ D \subseteq marked
  /\ \A f \in Files : isInit[f] => f \in D
  /\ \A g \in D : \A i \in DOMAIN iDeps[g] : Seen(D, iDeps[g][i])
  /\ \A k \in Calls : isSafe[File(k)] =>
       /\ File(k) \in marked
       /\ \A i \in DOMAIN iDeps[File(k)] : i < stack[k].i => Seen(D, iDeps[File(k)][i])
  /\ answer # NoAnswer => (answer.safe => answer.file \in D /\ stack = <<>>)

CycleInv == NoUnsafe => \E D \in SUBSET Files : Explored(D)
-----------------------------------------------------------------------------
\* When no call is left, the files explored are safe together.
LEMMA ExploredIsSafe ==
  ASSUME Inv, NEW D \in SUBSET Files, Explored(D), stack = <<>>, NEW f \in D
  PROVE  Safe(f)
<1>1. \A g \in Files : ~isActive[g]
  BY DEF Inv, StackAgrees, Calls
<1>2. ASSUME NEW g \in D PROVE Range(iDeps[g]) \subseteq D
  <2>. SUFFICES ASSUME NEW i \in DOMAIN iDeps[g] PROVE iDeps[g][i] \in D
    BY DEF Range
  <2>1. Seen(D, iDeps[g][i]) /\ iDeps[g][i] \in Files
    BY DEF Explored, Inv, TypeOK
  <2>. QED  BY <1>1, <2>1 DEF Seen
<1>. QED  BY <1>2 DEF Explored, Safe, SafeTogether

\* The top call goes on past its link, which was seen.
LEMMA SeenGoesOn ==
  ASSUME Inv, NEW D \in SUBSET Files, Explored(D), stack # <<>>, Seen(D, Link),
         UNCHANGED <<iDeps, marked, isInit, isActive, isSafe, answer>>,
         NEW top \in Frames, top.file = Top.file, top.i = Top.i + 1,
         stack' = [stack EXCEPT ![Len(stack)] = top]
  PROVE  Explored(D)'
<1>1. Top \in Frames /\ File(Len(stack)) = Top.file /\ Len(stack) \in Calls
  BY InnermostCall DEF Inv, File, Top
<1>2. /\ Calls' = Calls /\ stack'[Len(stack)] = top
      /\ \A k \in Calls : k # Len(stack) => stack'[k] = stack[k]
  BY <1>1, TopReplaced DEF Inv, TypeOK, Calls
<1>3. \A k \in Calls : File(k)' = File(k)
  BY <1>1, <1>2 DEF File
<1>4. \A f : Seen(D, f)' <=> Seen(D, f)
  BY DEF Seen
<1>5. ASSUME NEW k \in Calls, isSafe[File(k)]
      PROVE  /\ File(k) \in marked
             /\ \A i \in DOMAIN iDeps[File(k)] : i < stack'[k].i => Seen(D, iDeps[File(k)][i])
  <2>1. File(k) \in marked /\ \A i \in DOMAIN iDeps[File(k)] :
          i < stack[k].i => Seen(D, iDeps[File(k)][i])
    BY <1>5 DEF Explored
  <2>2. CASE k # Len(stack)
    BY <1>2, <2>1, <2>2
  <2>3. CASE k = Len(stack)
    <3>1. File(k) = Top.file /\ stack[k] = Top /\ stack'[k].i = Top.i + 1
      BY <1>1, <1>2, <2>3 DEF Top
    <3>2. iDeps[Top.file] \in Seq(Files) /\ Top.i \in Nat
      BY <1>1, InnermostCall DEF Inv
    <3>3. ASSUME NEW i \in DOMAIN iDeps[Top.file], i < Top.i + 1
          PROVE  Seen(D, iDeps[Top.file][i])
      <4>1. i < Top.i \/ i = Top.i
        BY <3>2, <3>3
      <4>. QED  BY <4>1, <3>1, <2>1 DEF Link
    <3>. QED  BY <2>1, <3>1, <3>3
  <2>. QED  BY <2>2, <2>3
<1>6. answer # NoAnswer => (answer.safe => answer.file \in D /\ stack' = <<>>)
  BY DEF Explored
<1>. QED  BY <1>2, <1>3, <1>4, <1>5, <1>6 DEF Explored
LEMMA LinkActiveExplores == ASSUME Inv, CycleInv, LinkActive PROVE CycleInv'
<1>1. stack # <<>> /\ Top \in Frames
  BY InLoopLink, InnermostCall DEF Inv, LinkActive
<1>. DEFINE top == [GoesOn(Top) EXCEPT !.is_cycle = TRUE]
<1>2. top \in Frames /\ top.file = Top.file /\ top.i = Top.i + 1
  BY <1>1, GoneOn, CycleMarked
<1>3. stack' = [stack EXCEPT ![Len(stack)] = top]
  BY DEF LinkActive, Top
<1>. HIDE DEF top
<1>4. UNCHANGED <<iDeps, marked, isInit, isActive, isSafe, answer>>
  BY DEF LinkActive
<1>. SUFFICES ASSUME NoUnsafe PROVE \E D \in SUBSET Files : Explored(D)'
  BY <1>4 DEF CycleInv, NoUnsafe
<1>5. PICK D \in SUBSET Files : Explored(D)
  BY DEF CycleInv
<1>6. Seen(D, Link)
  BY DEF LinkActive, Seen
<1>7. Explored(D)'
  BY <1>1, <1>2, <1>3, <1>4, <1>5, <1>6, SeenGoesOn
<1>. QED  BY <1>7

LEMMA LinkVisitedExplores == ASSUME Inv, CycleInv, LinkVisited PROVE CycleInv'
<1>1. /\ stack # <<>> /\ Top \in Frames /\ Link \in Files /\ Top.file \in Files
      /\ ~isInit[Top.file] /\ isInit[Link]
  BY InLoopLink, InnermostCall DEF Inv, LinkVisited
<1>. DEFINE top == GoesOn(Top)
<1>2. top \in Frames /\ top.file = Top.file /\ top.i = Top.i + 1
  BY <1>1, GoneOn
<1>3. UNCHANGED <<iDeps, marked, isInit, isActive, answer>>
  BY DEF LinkVisited
<1>. HIDE DEF top
<1>4. CASE isSafe[Link]
  <2>1. stack' = [stack EXCEPT ![Len(stack)] = top] /\ isSafe' = isSafe
    BY <1>4 DEF LinkVisited, Top, top
  <2>. SUFFICES ASSUME NoUnsafe PROVE \E D \in SUBSET Files : Explored(D)'
    BY <1>3, <2>1 DEF CycleInv, NoUnsafe
  <2>2. PICK D \in SUBSET Files : Explored(D)
    BY DEF CycleInv
  <2>3. Seen(D, Link)
    BY <1>1, <2>2 DEF Seen, Explored
  <2>4. Explored(D)'
    BY <1>1, <1>2, <1>3, <2>1, <2>2, <2>3, SeenGoesOn
  <2>. QED  BY <2>4
<1>5. CASE ~isSafe[Link]
  <2>1. isSafe' = [isSafe EXCEPT ![Top.file] = FALSE]
    BY <1>5 DEF LinkVisited
  <2>2. Link # Top.file
    BY <1>1
  <2>3. ~isSafe'[Link]
    BY <1>1, <1>5, <2>1, <2>2 DEF Inv, TypeOK
  <2>. QED  BY <1>1, <1>3, <2>3 DEF CycleInv, NoUnsafe
<1>. QED  BY <1>4, <1>5

\* A new call has been through no link yet.
LEMMA EnteredExplores ==
  ASSUME Inv, CycleInv, NEW f \in Files, ~isInit[f], ~isActive[f], Enter(f, stack),
         UNCHANGED <<iDeps, marked>>,
         answer' = NoAnswer \/ (answer' = answer /\ stack # <<>>),
         NEW n, n = Len(stack)
  PROVE  CycleInv'
<1>. DEFINE frame == [file |-> f, i |-> 1, is_cycle |-> FALSE]
<1>1. frame \in Frames /\ frame.file = f /\ frame.i = 1
  BY DEF Frames
<1>2. stack \in Seq(Frames) /\ stack' = Append(stack, frame)
  BY DEF Inv, TypeOK, Enter
<1>. HIDE DEF frame
<1>3. /\ n \in Nat /\ Calls' = Calls \cup {n + 1}
      /\ stack'[n + 1] = frame /\ \A k \in Calls : stack'[k] = stack[k]
  <2>1. /\ n \in Nat /\ Calls' = 1..n + 1 /\ Calls = 1..n
        /\ stack'[n + 1] = frame /\ \A k \in 1..n : stack'[k] = stack[k]
    BY <1>1, <1>2, Appended DEF Calls
  <2>. QED  BY <2>1
<1>4. /\ isSafe' = [isSafe EXCEPT ![f] = f \in marked] /\ isInit' = isInit
      /\ isActive' = [isActive EXCEPT ![f] = TRUE]
  BY DEF Enter
<1>5. \A k \in Calls : File(k)' = File(k) /\ File(k) \in Files /\ File(k) # f
  <2>. SUFFICES ASSUME NEW k \in Calls PROVE File(k)' = File(k) /\ File(k) \in Files /\ File(k) # f
    OBVIOUS
  <2>1. File(k)' = File(k)
    BY <1>3 DEF File
  <2>2. File(k) \in Files
    BY CallFile DEF Inv
  <2>3. isActive[File(k)]
    BY <2>2 DEF Inv, StackAgrees
  <2>. QED  BY <2>1, <2>2, <2>3
<1>6. File(n + 1)' = f
  BY <1>1, <1>3 DEF File
<1>. SUFFICES ASSUME NoUnsafe PROVE \E D \in SUBSET Files : Explored(D)'
  BY <1>4 DEF CycleInv, NoUnsafe, Inv, TypeOK
<1>7. PICK D \in SUBSET Files : Explored(D)
  BY DEF CycleInv
<1>8. \A g \in Files : Seen(D, g) => Seen(D, g)'
  BY <1>4 DEF Seen, Inv, TypeOK
<1>9. \A g \in Files : \A i \in DOMAIN iDeps[g] : iDeps[g][i] \in Files
  BY DEF Inv, TypeOK
<1>10. \A g \in D : \A i \in DOMAIN iDeps[g] : Seen(D, iDeps[g][i])'
  BY <1>7, <1>8, <1>9 DEF Explored
<1>11. ASSUME NEW k \in Calls', isSafe'[File(k)']
       PROVE  /\ File(k)' \in marked
              /\ \A i \in DOMAIN iDeps[File(k)'] :
                   i < stack'[k].i => Seen(D, iDeps[File(k)][i])'
  <2>1. CASE k = n + 1
    <3>1. f \in marked
      BY <1>4, <1>6, <1>11, <2>1 DEF Inv, TypeOK
    <3>2. stack'[k].i = 1 /\ iDeps[f] \in Seq(Files)
      BY <1>1, <1>3, <2>1 DEF Inv, TypeOK
    <3>3. \A i \in DOMAIN iDeps[f] : ~(i < 1)
      BY <3>2
    <3>. QED  BY <1>6, <2>1, <3>1, <3>2, <3>3
  <2>2. CASE k \in Calls
    <3>1. File(k)' = File(k) /\ File(k) \in Files /\ isSafe[File(k)]
      BY <1>4, <1>5, <1>11, <2>2 DEF Inv, TypeOK
    <3>2. File(k) \in marked /\ \A i \in DOMAIN iDeps[File(k)] :
            i < stack[k].i => Seen(D, iDeps[File(k)][i])
      BY <1>7, <2>2, <3>1 DEF Explored
    <3>. QED  BY <1>3, <1>8, <1>9, <2>2, <3>1, <3>2
  <2>. QED  BY <1>3, <2>1, <2>2
<1>12. answer' # NoAnswer => (answer'.safe => answer'.file \in D /\ stack' = <<>>)
  BY <1>7 DEF Explored
<1>13. Explored(D)'
  BY <1>4, <1>7, <1>10, <1>11, <1>12 DEF Explored
<1>. QED  BY <1>13

LEMMA ComputeSmpSafeExplores ==
  ASSUME Inv, CycleInv, NEW f \in Files, ComputeSmpSafe(f)
  PROVE  CycleInv'
<1>1. CASE isInit[f] /\ answer' = [file |-> f, safe |-> isSafe[f]]
           /\ UNCHANGED <<isInit, isActive, isSafe, stack>>
  <2>1. UNCHANGED <<iDeps, marked>> /\ stack' = <<>> /\ answer'.file = f
    BY <1>1 DEF ComputeSmpSafe
  <2>. SUFFICES ASSUME NoUnsafe PROVE \E D \in SUBSET Files : Explored(D)'
    BY <1>1, <2>1 DEF CycleInv, NoUnsafe
  <2>2. PICK D \in SUBSET Files : Explored(D)
    BY DEF CycleInv
  <2>3. f \in D
    BY <1>1, <2>2 DEF Explored
  <2>4. Explored(D)'
    BY <1>1, <2>1, <2>2, <2>3 DEF Explored, Seen, File, Calls
  <2>. QED  BY <2>4
<1>2. CASE ~isInit[f] /\ Enter(f, stack) /\ answer' = NoAnswer
  <2>1. stack = <<>> /\ UNCHANGED <<iDeps, marked>>
    BY DEF ComputeSmpSafe
  <2>2. ~isActive[f]
    BY <2>1 DEF Inv, StackAgrees, Calls
  <2>. QED  BY <1>2, <2>1, <2>2, EnteredExplores
<1>. QED  BY <1>1, <1>2 DEF ComputeSmpSafe

LEMMA LinkNewExplores == ASSUME Inv, CycleInv, LinkNew PROVE CycleInv'
<1>1. Link \in Files /\ stack # <<>>
  BY InLoopLink DEF Inv, LinkNew
<1>. QED  BY <1>1, EnteredExplores DEF LinkNew

\* A safe call adds its file to those explored; an unsafe one is kept.
LEMMA ReturnExplores ==
  ASSUME Inv, CycleInv, Return, NEW n, n = Len(stack), NEW f, f = Top.file
  PROVE  CycleInv'
<1>1. UNCHANGED <<iDeps, marked>>
  BY DEF Return
<1>2. /\ stack # <<>> /\ n \in Nat \ {0} /\ n \in Calls
      /\ f \in Files /\ File(n) = f /\ Top.i \in Nat /\ Top = stack[n]
      /\ iDeps[f] \in Seq(Files) /\ isActive[f] /\ ~isInit[f]
  <2>1. stack # <<>>
    BY DEF Return
  <2>2. n \in Nat \ {0} /\ n \in Calls /\ f \in Files /\ Top.i \in Nat /\ iDeps[f] \in Seq(Files)
    BY <2>1, InnermostCall DEF Inv
  <2>3. Top = stack[n] /\ File(n) = f
    BY DEF Top, File
  <2>. QED  BY <2>1, <2>2, <2>3 DEF Inv, StackAgrees
<1>3. /\ Calls = 1..n /\ Calls' = 1..n - 1
      /\ \A k \in 1..n - 2 : stack'[k] = stack[k]
      /\ n > 1 => stack'[n - 1] = IF isSafe[f] THEN GoesOn(Caller) ELSE Caller
  BY CallsLeft
<1>4. /\ isInit' = [isInit EXCEPT ![f] = ~isSafe[f] \/ ~Top.is_cycle]
      /\ isActive' = [isActive EXCEPT ![f] = FALSE]
  BY DEF Return, Keeps
<1>5. n > 1 => /\ n - 1 \in Calls /\ File(n - 1) \in Files /\ ~isInit[File(n - 1)]
               /\ File(n - 1) # f
               /\ Caller = stack[n - 1] /\ Caller \in Frames
               /\ Caller.i \in DOMAIN iDeps[File(n - 1)]
               /\ iDeps[File(n - 1)][Caller.i] = f /\ isSafe[File(n - 1)]
  <2>. SUFFICES ASSUME n > 1
                PROVE  /\ n - 1 \in Calls /\ File(n - 1) \in Files /\ ~isInit[File(n - 1)]
                       /\ File(n - 1) # f
                       /\ Caller = stack[n - 1] /\ Caller \in Frames
                       /\ Caller.i \in DOMAIN iDeps[File(n - 1)]
                       /\ iDeps[File(n - 1)][Caller.i] = f /\ isSafe[File(n - 1)]
    OBVIOUS
  <2>1. n - 1 \in Calls /\ (n - 1) + 1 \in Calls /\ (n - 1) + 1 = n /\ n - 1 # n
    BY <1>2, <1>3
  <2>2. Caller = stack[n - 1] /\ Caller \in Frames /\ File(n - 1) \in Files
    BY <2>1, CallFile DEF Inv, Caller
  <2>3. isActive[File(n - 1)]
    BY <2>1, <2>2 DEF Inv, StackAgrees
  <2>4. ~isInit[File(n - 1)]
    BY <2>2, <2>3 DEF Inv, StackAgrees
  <2>5. File(n - 1) # f
    BY <1>2, <2>1 DEF Inv, StackAgrees
  <2>6. /\ Caller.i \in DOMAIN iDeps[File(n - 1)]
        /\ iDeps[File(n - 1)][Caller.i] = f /\ isSafe[File(n - 1)]
    BY <1>2, <2>1, <2>2 DEF Inv, StackAgrees
  <2>. QED  BY <2>1, <2>2, <2>4, <2>5, <2>6
<1>6. isSafe'[f] = isSafe[f] /\ \A g \in Files : isInit[g] => isSafe'[g] = isSafe[g]
  <2>1. CASE n = 1
    BY <2>1 DEF Return
  <2>2. CASE n > 1
    <3>1. isSafe' = [isSafe EXCEPT ![File(n - 1)] = isSafe[f]]
      BY <2>2 DEF Return, Caller, File
    <3>. QED  BY <1>2, <1>5, <2>2, <3>1 DEF Inv, TypeOK
  <2>. QED  BY <1>2, <2>1, <2>2
<1>. SUFFICES ASSUME NoUnsafe' PROVE \E D \in SUBSET Files : Explored(D)'
  BY DEF CycleInv
<1>7. isSafe[f] /\ NoUnsafe
  <2>1. \A g \in Files : g # f => isInit'[g] = isInit[g]
    BY <1>4 DEF Inv, TypeOK
  <2>2. isInit'[f] => isSafe[f]
    BY <1>2, <1>6 DEF NoUnsafe
  <2>3. isSafe[f]
    BY <1>2, <1>4, <2>2 DEF Inv, TypeOK
  <2>. QED  BY <1>2, <1>6, <2>1, <2>3 DEF NoUnsafe
<1>8. isSafe' = isSafe
  <2>1. CASE n = 1
    BY <2>1 DEF Return
  <2>2. CASE n > 1
    <3>1. isSafe' = [isSafe EXCEPT ![File(n - 1)] = isSafe[f]]
      BY <2>2 DEF Return, Caller, File
    <3>2. isSafe \in [Files -> BOOLEAN] /\ isSafe[File(n - 1)] = isSafe[f]
      BY <1>2, <1>5, <1>7, <2>2 DEF Inv, TypeOK
    <3>. QED  BY <3>1, <3>2
  <2>. QED  BY <1>2, <2>1, <2>2
<1>9. PICK D \in SUBSET Files : Explored(D)
  BY <1>7 DEF CycleInv
<1>. DEFINE E == D \cup {f}
<1>10. E \in SUBSET Files /\ f \in E /\ \A g \in D : g \in E
  BY <1>2
<1>11. \A g \in Files : Seen(D, g) => Seen(E, g)'
  BY <1>2, <1>4 DEF Seen, Inv, TypeOK
<1>12. \A g \in Files : \A i \in DOMAIN iDeps[g] : iDeps[g][i] \in Files
  BY DEF Inv, TypeOK
<1>13. f \in marked /\ \A i \in DOMAIN iDeps[f] : Seen(D, iDeps[f][i])
  <2>1. ~(Top.i <= Len(iDeps[f]))
    BY <1>2, <1>7 DEF Return, InLoop
  <2>2. \A i \in DOMAIN iDeps[f] : i < Top.i
    BY <1>2, <2>1
  <2>. QED  BY <1>2, <1>7, <1>9, <2>2 DEF Explored
<1>. HIDE DEF E
<1>14. E \subseteq marked /\ \A g \in E : \A i \in DOMAIN iDeps[g] : Seen(E, iDeps[g][i])'
  <2>1. \A g \in E : g \in marked /\ \A i \in DOMAIN iDeps[g] : Seen(D, iDeps[g][i])
    BY <1>9, <1>13 DEF Explored, E
  <2>. QED  BY <1>1, <1>10, <1>11, <1>12, <2>1
<1>15. \A g \in Files : isInit'[g] => g \in E
  <2>1. \A g \in Files : g # f => isInit'[g] = isInit[g]
    BY <1>4 DEF Inv, TypeOK
  <2>. QED  BY <1>9, <1>10, <2>1 DEF Explored
<1>16. ASSUME NEW k \in Calls', isSafe'[File(k)']
       PROVE  /\ File(k)' \in marked
              /\ \A i \in DOMAIN iDeps[File(k)'] :
                   i < stack'[k].i => Seen(E, iDeps[File(k)][i])'
  <2>0. k \in Calls /\ (k \in 1..n - 2 \/ (k = n - 1 /\ n > 1)) /\ File(k) \in Files
    <3>1. k \in Calls /\ (k \in 1..n - 2 \/ (k = n - 1 /\ n > 1))
      BY <1>2, <1>3
    <3>. QED  BY <3>1, CallFile DEF Inv
  <2>1. CASE k \in 1..n - 2
    <3>1. stack'[k] = stack[k] /\ File(k)' = File(k)
      BY <1>3, <2>0, <2>1 DEF File
    <3>2. File(k) \in marked /\ \A i \in DOMAIN iDeps[File(k)] :
            i < stack[k].i => Seen(D, iDeps[File(k)][i])
      BY <1>8, <1>9, <1>16, <2>0, <3>1 DEF Explored
    <3>. QED  BY <1>1, <1>11, <1>12, <2>0, <3>1, <3>2
  <2>2. CASE k = n - 1 /\ n > 1
    <3>1. stack'[k] = GoesOn(Caller)
      BY <1>3, <1>7, <2>2
    <3>2. stack'[k].i = Caller.i + 1 /\ File(k)' = File(k)
      BY <1>5, <2>2, <3>1, GoneOn DEF File
    <3>3. File(k) \in marked /\ \A i \in DOMAIN iDeps[File(k)] :
            i < Caller.i => Seen(D, iDeps[File(k)][i])
      BY <1>5, <1>9, <2>0, <2>2 DEF Explored
    <3>4. iDeps[File(k)] \in Seq(Files) /\ Caller.i \in Nat
      BY <1>5, <2>2 DEF Inv, TypeOK, Frames
    <3>5. ASSUME NEW i \in DOMAIN iDeps[File(k)], i < Caller.i + 1
          PROVE  Seen(E, iDeps[File(k)][i])'
      <4>1. i < Caller.i \/ i = Caller.i
        BY <3>4, <3>5
      <4>2. CASE i < Caller.i
        BY <1>1, <1>11, <1>12, <2>0, <3>2, <3>3, <4>2
      <4>3. CASE i = Caller.i
        <5>1. iDeps'[File(k)'][i] = f
          BY <1>1, <1>5, <2>2, <3>2, <4>3
        <5>. QED  BY <5>1, <1>10 DEF Seen
      <4>. QED  BY <4>1, <4>2, <4>3
    <3>. QED  BY <1>1, <3>2, <3>3, <3>5
  <2>. QED  BY <2>0, <2>1, <2>2
<1>17. answer' # NoAnswer => (answer'.safe => answer'.file \in E /\ stack' = <<>>)
  <2>1. CASE n = 1
    <3>1. stack' = <<>> /\ answer' = [file |-> f, safe |-> isSafe[f]]
      BY <2>1 DEF Return
    <3>. QED  BY <1>10, <3>1
  <2>2. CASE n > 1
    BY <1>2, <1>9, <2>2 DEF Return, Explored
  <2>. QED  BY <1>2, <2>1, <2>2
<1>18. Explored(E)'
  BY <1>1, <1>14, <1>15, <1>16, <1>17 DEF Explored
<1>. QED  BY <1>10, <1>18

\* The strengthening of SafeUntilUnsafe is an invariant.
LEMMA CycleStep == Inv /\ CycleInv /\ [SmpNext]_<<iDeps, marked, smp>> => CycleInv'
<1>. SUFFICES ASSUME Inv, CycleInv, [SmpNext]_<<iDeps, marked, smp>> PROVE CycleInv'
  OBVIOUS
<1>1. ASSUME NEW f \in Files, ComputeSmpSafe(f) PROVE CycleInv'
  BY <1>1, ComputeSmpSafeExplores
<1>2. CASE LinkActive
  BY <1>2, LinkActiveExplores
<1>3. CASE LinkVisited
  BY <1>3, LinkVisitedExplores
<1>4. CASE LinkNew
  BY <1>4, LinkNewExplores
<1>5. CASE Return
  BY <1>5, ReturnExplores
<1>6. CASE UNCHANGED <<iDeps, marked, smp>>
  BY <1>6 DEF smp, CycleInv, NoUnsafe, Explored, Seen, File, Calls
<1>. QED  BY <1>1, <1>2, <1>3, <1>4, <1>5, <1>6 DEF SmpNext

LEMMA CycleStart == SmpInit => CycleInv
<1>. SUFFICES ASSUME SmpInit PROVE \E D \in SUBSET Files : Explored(D)
  BY DEF CycleInv
<1>1. Calls = {}
  BY DEF SmpInit, Calls
<1>2. Explored({})
  BY <1>1 DEF SmpInit, Explored
<1>. QED  BY <1>2

LEMMA CycleInvHolds == SmpSpec => []CycleInv
<1>1. SmpInit => CycleInv
  BY CycleStart
<1>2. Inv /\ CycleInv /\ [SmpNext]_<<iDeps, marked, smp>> => CycleInv'
  BY CycleStep
<1>. QED  BY <1>1, <1>2, InvHolds, PTL DEF SmpSpec

LEMMA CycleMeansSafe == Inv /\ CycleInv => SafeUntilUnsafe
<1>. SUFFICES ASSUME Inv, CycleInv, answer # NoAnswer, answer.safe, NoUnsafe
              PROVE  Safe(answer.file)
  BY DEF SafeUntilUnsafe, NoUnsafe
<1>1. PICK D \in SUBSET Files : Explored(D)
  BY DEF CycleInv
<1>2. answer.file \in D /\ stack = <<>>
  BY <1>1 DEF Explored
<1>. QED  BY <1>1, <1>2, ExploredIsSafe

\* Until the first file is found unsafe, a safe answer of ComputeSmpSafe is right
\* although a cycle made it skip files that were not finished.
THEOREM SafeUntilFirstUnsafe == SmpSpec => []SafeUntilUnsafe
<1>1. Inv /\ CycleInv => SafeUntilUnsafe
  BY CycleMeansSafe
<1>. QED  BY <1>1, InvHolds, CycleInvHolds, PTL
-----------------------------------------------------------------------------
\* The search of the list ends: of any files one comes first and one last.
LEMMA LeastNat ==
  ASSUME NEW T \in SUBSET Nat, T # {}
  PROVE  \E x \in T : \A y \in T : x <= y
<1>. DEFINE R == OpToRel(<, Nat)
<1>1. \A x, y \in Nat : y < x => <<y, x>> \in R
  BY DEF OpToRel
<1>2. IsWellFoundedOn(R, Nat)
  BY NatLessThanWellFounded
<1>. HIDE DEF R
<1>3. \E x \in T : \A y \in T : ~(<<y, x>> \in R)
  BY <1>2, WFMin
<1>4. PICK x \in T : \A y \in T : ~(<<y, x>> \in R)
  BY <1>3
<1>5. ASSUME NEW y \in T PROVE x <= y
  <2>1. x \in Nat /\ y \in Nat
    OBVIOUS
  <2>2. ~(y < x)
    BY <1>1, <1>4, <2>1
  <2>. QED  BY <2>1, <2>2
<1>. QED  BY <1>5

LEMMA PlaceListed ==
  ASSUME IsRom(rom), NEW g \in Files
  PROVE  Place(g) \in 1..Len(rom.list) /\ Place(g) \in Nat
BY DEF IsRom, Place

LEMMA FirstFound ==
  ASSUME IsRom(rom), NEW S \in SUBSET Files, S # {}
  PROVE  FirstListed(S) \in S
<1>. DEFINE T == {Place(g) : g \in S}
<1>1. T \in SUBSET Nat /\ T # {}
  BY PlaceListed
<1>2. PICK x \in T : \A y \in T : x <= y
  BY <1>1, LeastNat
<1>3. \E g \in S : \A h \in S : Place(g) <= Place(h)
  BY <1>2
<1>. QED  BY <1>3 DEF FirstListed

LEMMA LastFound ==
  ASSUME IsRom(rom), NEW S \in SUBSET Files, S # {}
  PROVE  LastListed(S) \in S
<1>. DEFINE n == Len(rom.list)
            T == {n - Place(g) : g \in S}
<1>1. n \in Nat
  BY DEF IsRom
<1>2. \A g \in S : n - Place(g) \in Nat /\ Place(g) \in Nat
  BY <1>1, PlaceListed
<1>3. T \in SUBSET Nat /\ T # {}
  BY <1>2
<1>4. PICK x \in T : \A y \in T : x <= y
  BY <1>3, LeastNat
<1>5. PICK g \in S : x = n - Place(g)
  BY <1>4
<1>6. ASSUME NEW h \in S PROVE Place(g) >= Place(h)
  <2>1. n - Place(g) <= n - Place(h)
    BY <1>4, <1>5
  <2>. QED  BY <1>1, <1>2, <2>1
<1>. QED  BY <1>6 DEF LastListed

\* FindImageFileByName returns one of the files it looks for, or none.
LEMMA FileFound ==
  ASSUME IsRom(rom), NEW f, NEW import
  PROVE  LET g == FindImageFileByName(f, import)
         IN  \/ g = NoFile
             \/ g \in Candidates(f, import)
             \/ Candidates(f, import) = {} /\ g \in Fallbacks(f, import)
<1>1. Candidates(f, import) \in SUBSET Files /\ Fallbacks(f, import) \in SUBSET Files
  BY DEF Candidates, Fallbacks
<1>. QED  BY <1>1, FirstFound, LastFound DEF FindImageFileByName
-----------------------------------------------------------------------------
(* Links *)

\* The files that were seen have the links of their import blocks, none of which
\* was in error if no error is known.
LinkInv ==
  /\ IsRom(rom) /\ built \in SUBSET Files
  /\ iDeps \in [Files -> Seq(Files \cup {NoFile})]
  /\ \A f \in built : iDeps[f] = Links(f)
  /\ \A f \in Files \ built : iDeps[f] = <<>>
  /\ err = "KErrNone" => \A f \in built : Errors(f) = {}

LEMMA LinksTyped ==
  ASSUME IsRom(rom), NEW f \in Files
  PROVE  /\ DOMAIN Resolved(f) = DOMAIN Header(f).imports
         /\ \A i \in DOMAIN Resolved(f) : Resolved(f)[i] \in Files \cup {NoFile}
         /\ Links(f) \in Seq(Files \cup {NoFile})
         /\ Errors(f) = {} => Links(f) = Resolved(f) /\ Links(f) \in Seq(Files)
<1>1. DOMAIN Resolved(f) = DOMAIN Header(f).imports
  BY DEF Resolved
<1>2. PICK n \in Nat : DOMAIN Header(f).imports = 1..n
  BY DEF IsRom, IsHeader, Header
<1>3. ASSUME NEW i \in DOMAIN Resolved(f)
      PROVE  Resolved(f)[i] \in Files \cup {NoFile}
  <2>1. Resolved(f)[i] = FindImageFileByName(f, Header(f).imports[i])
    BY <1>1, <1>3 DEF Resolved
  <2>. QED  BY <2>1, FileFound DEF Candidates, Fallbacks
<1>4. Links(f) \in [1..n -> Files \cup {NoFile}]
  BY <1>1, <1>2, <1>3 DEF Links
<1>5. ASSUME Errors(f) = {}
      PROVE  Links(f) = Resolved(f) /\ Links(f) \in [1..n -> Files]
  <2>1. \A i \in DOMAIN Resolved(f) : LinkError(f, Resolved(f)[i]) = "KErrNone"
    BY <1>5 DEF Errors
  <2>2. \A i \in DOMAIN Resolved(f) : Resolved(f)[i] # NoFile
    BY <2>1 DEF LinkError
  <2>3. \A i \in DOMAIN Resolved(f) : Links(f)[i] = Resolved(f)[i]
    BY <2>1 DEF Links
  <2>4. Links(f) = [i \in DOMAIN Resolved(f) |-> Resolved(f)[i]]
    BY <2>1 DEF Links
  <2>5. Resolved(f) = [i \in DOMAIN Resolved(f) |-> Resolved(f)[i]]
    BY DEF Resolved
  <2>6. Links(f) = Resolved(f)
    BY <2>4, <2>5
  <2>. QED  BY <1>1, <1>2, <1>3, <1>4, <2>2, <2>6
<1>6. \A S : [1..n -> S] \subseteq Seq(S)
  OBVIOUS
<1>. QED  BY <1>1, <1>3, <1>4, <1>5, <1>6

\* What an import is resolved to is decided by the files of the ROM alone.
LEMMA RomDecides ==
  ASSUME UNCHANGED rom
  PROVE  \A f : Links(f)' = Links(f) /\ Errors(f)' = Errors(f) /\ Header(f)' = Header(f)
<1>1. \A f : Header(f)' = Header(f)
  BY DEF Header
<1>2. \A S : FirstListed(S)' = FirstListed(S) /\ LastListed(S)' = LastListed(S)
  BY DEF FirstListed, LastListed, Place
<1>3. \A f, import : /\ Candidates(f, import)' = Candidates(f, import)
                     /\ Fallbacks(f, import)' = Fallbacks(f, import)
  BY <1>1 DEF Candidates, Fallbacks, Suits, HasVersion
<1>4. \A f, import : FindImageFileByName(f, import)' = FindImageFileByName(f, import)
  BY <1>2, <1>3 DEF FindImageFileByName
<1>5. \A f : Resolved(f)' = Resolved(f)
  BY <1>1, <1>4 DEF Resolved
<1>6. \A f, g : LinkError(f, g)' = LinkError(f, g)
  BY <1>1 DEF LinkError, WrongSide, CapsMissing
<1>. QED  BY <1>1, <1>5, <1>6 DEF Links, Errors

\* BuildDependenceGraph keeps what is known of the links.
LEMMA BuildKeepsLinks ==
  ASSUME LinkInv, NEW f \in Files, BuildDependenceGraph(f)
  PROVE  LinkInv'
<1>1. UNCHANGED rom /\ built' = built \cup {f} /\ iDeps' = [iDeps EXCEPT ![f] = Links(f)]
  BY DEF BuildDependenceGraph
<1>2. \A g : Links(g)' = Links(g) /\ Errors(g)' = Errors(g)
  BY <1>1, RomDecides
<1>3. Links(f) \in Seq(Files \cup {NoFile})
  BY LinksTyped DEF LinkInv
<1>4. iDeps' \in [Files -> Seq(Files \cup {NoFile})]
  BY <1>1, <1>3 DEF LinkInv
<1>5. err' = "KErrNone" => err = "KErrNone" /\ Errors(f) = {}
  BY DEF BuildDependenceGraph, Errors
<1>6. IsRom(rom)'
  BY <1>1 DEF LinkInv
<1>. QED  BY <1>1, <1>2, <1>4, <1>5, <1>6 DEF LinkInv
-----------------------------------------------------------------------------
(* The graph and ComputeSmpSafe together *)

RomInv ==
  /\ LinkInv
  /\ marked \in SUBSET Files
  /\ ~Linked => SmpInit
  /\ Linked => Inv /\ ExactInv /\ CycleInv

\* A ROM without errors is a graph ComputeSmpSafe can be called on.
LEMMA LinkedGraph ==
  ASSUME LinkInv, marked \in SUBSET Files, Linked
  PROVE  Graphs
<1>1. ASSUME NEW f \in Files PROVE iDeps[f] \in Seq(Files)
  BY LinksTyped DEF LinkInv, Linked
<1>. QED  BY <1>1 DEF LinkInv, Graphs

LEMMA LinkedStart ==
  ASSUME LinkInv, marked \in SUBSET Files, SmpInit
  PROVE  RomInv
BY LinkedGraph, InvStart, ExactStart, CycleStart DEF RomInv

LEMMA RomStart ==
  ASSUME NEW CONSTANT r, IsRom(r), Init(r)
  PROVE  RomInv
<1>1. rom = r /\ built = {} /\ err = "KErrNone" /\ iDeps = [f \in Files |-> <<>>] /\ SmpInit
  BY DEF Init
<1>2. marked \in SUBSET Files
  BY DEF Init
<1>3. LinkInv
  BY <1>1 DEF LinkInv
<1>. QED  BY <1>1, <1>2, <1>3, LinkedStart

LEMMA RomStep == RomInv /\ [Next]_vars => RomInv'
<1>. SUFFICES ASSUME RomInv, [Next]_vars PROVE RomInv'
  OBVIOUS
<1>1. ASSUME NEW f \in Files, BuildDependenceGraph(f) PROVE RomInv'
  <2>1. LinkInv'
    BY <1>1, BuildKeepsLinks DEF RomInv
  <2>2. ~Linked /\ SmpInit
    BY <1>1 DEF BuildDependenceGraph, Linked, RomInv
  <2>3. (marked \in SUBSET Files)'
    BY <1>1 DEF BuildDependenceGraph, RomInv
  <2>4. SmpInit'
    BY <1>1, <2>2 DEF BuildDependenceGraph, SmpInit, smp
  <2>5. Linked' => Graphs'
    BY <2>1, <2>3, LinkedGraph, PTL
  <2>6. Graphs' /\ SmpInit' => Inv'
    BY InvStart, PTL
  <2>7. SmpInit' => ExactInv' /\ CycleInv'
    BY ExactStart, CycleStart, PTL
  <2>. QED  BY <2>1, <2>3, <2>4, <2>5, <2>6, <2>7 DEF RomInv
<1>2. ASSUME Linked, SmpNext, UNCHANGED link PROVE RomInv'
  <2>1. UNCHANGED <<iDeps, marked, rom, built, err>>
    BY <1>2 DEF SmpNext, ComputeSmpSafe, LinkActive, LinkVisited, LinkNew, Return, link
  <2>2. Inv' /\ ExactInv' /\ CycleInv'
    BY <1>2, InvStep, ExactStep, CycleStep DEF RomInv
  <2>3. Linked' /\ marked' \in SUBSET Files
    BY <1>2, <2>1 DEF Linked, RomInv
  <2>4. LinkInv'
    BY <2>1, RomDecides DEF RomInv, LinkInv
  <2>. QED  BY <2>2, <2>3, <2>4 DEF RomInv
<1>3. ASSUME UNCHANGED vars PROVE RomInv'
  <2>1. UNCHANGED <<iDeps, marked, rom, built, err, smp>>
    BY <1>3 DEF vars, link
  <2>2. Linked' = Linked
    BY <2>1 DEF Linked
  <2>3. LinkInv'
    BY <2>1, RomDecides DEF RomInv, LinkInv
  <2>4. Linked => Inv' /\ ExactInv' /\ CycleInv'
    BY <2>1, InvStep, ExactStep, CycleStep DEF RomInv
  <2>5. ~Linked => SmpInit'
    BY <2>1 DEF RomInv, SmpInit, smp
  <2>. QED  BY <2>1, <2>2, <2>3, <2>4, <2>5 DEF RomInv
<1>. QED  BY <1>1, <1>2, <1>3 DEF Next, Failed

LEMMA RomInvHolds ==
  ASSUME NEW CONSTANT r, IsRom(r)
  PROVE  Spec(r) => []RomInv
<1>1. Init(r) => RomInv
  BY RomStart
<1>. QED  BY <1>1, RomStep, PTL DEF Spec
-----------------------------------------------------------------------------
(* What follows for a ROM *)

\* Two variants a file runs on do not exclude each other, unless one is for a CPU
\* and the other for a variant of it.
LEMMA VariantsMeet ==
  ASSUME NEW v, NEW w, NEW x, IsVariant(v), IsVariant(w), IsVariant(x),
         RunsOn(v, w), RunsOn(v, x),
         IsCpu(w) = IsCpu(x) \/ IsIndependent(w) \/ IsIndependent(x)
  PROVE  ~MutuallyExclusive(w, x)
<1>. SUFFICES ASSUME ~IsIndependent(w), ~IsIndependent(x), IsCpu(w) = IsCpu(x)
              PROVE  ~MutuallyExclusive(w, x)
  BY DEF MutuallyExclusive
<1>1. CASE IsCpu(w)
  <2>1. w.layer = x.layer
    BY <1>1 DEF RunsOn, Compare
  <2>. QED  BY <1>1, <2>1 DEF MutuallyExclusive
<1>2. CASE ~IsCpu(w)
  <2>1. /\ ~IsIndependent(v) /\ ~IsCpu(v) /\ v.layer = w.layer /\ v.layer = x.layer
        /\ v.vmask \subseteq w.vmask /\ v.vmask \subseteq x.vmask
    BY <1>2 DEF RunsOn, Compare
  <2>2. w.vmask \cap x.vmask # {}
    BY <2>1 DEF IsVariant
  <2>. QED  BY <1>2, <2>1, <2>2 DEF MutuallyExclusive
<1>. QED  BY <1>1, <1>2

\* FindImageFileByName: without version conflicts, the rivals that an import with a
\* UID could be linked to have one version, in every ROM and whatever the order of
\* its files.
THEOREM VersionsAreDecided ==
  ASSUME NEW CONSTANT r, IsRom(r)
  PROVE  Spec(r) => []OneVersion
<1>1. RomInv => OneVersion
  <2>. SUFFICES ASSUME LinkInv, \A f \in Files : CheckForVersionConflicts(f) = {},
                       NEW f \in built, NEW i \in DOMAIN iDeps[f],
                       iDeps[f][i] # NoFile, Header(f).imports[i].uid # 0,
                       NEW h \in (IF Candidates(f, Header(f).imports[i]) # {}
                                  THEN Candidates(f, Header(f).imports[i])
                                  ELSE Fallbacks(f, Header(f).imports[i])),
                       Rivals(iDeps[f][i], h)
                PROVE  Version(Header(h)) = Version(Header(iDeps[f][i]))
    BY DEF RomInv, OneVersion
  <2>. DEFINE import == Header(f).imports[i]
              g == iDeps[f][i]
  <2>1. f \in Files /\ IsRom(rom) /\ iDeps[f] = Links(f)
    BY DEF LinkInv
  <2>2. i \in DOMAIN Resolved(f) /\ g = Resolved(f)[i] /\ g # NoFile
    BY <2>1 DEF Links
  <2>3. g = FindImageFileByName(f, import)
    BY <2>2 DEF Resolved
  <2>4. \/ g \in Candidates(f, import) /\ h \in Candidates(f, import)
        \/ g \in Fallbacks(f, import) /\ h \in Fallbacks(f, import)
    BY <2>1, <2>2, <2>3, FileFound
  <2>5. CASE g \in Fallbacks(f, import) /\ h \in Fallbacks(f, import)
    BY <2>5 DEF Fallbacks
  <2>6. CASE g \in Candidates(f, import) /\ h \in Candidates(f, import)
    <3>1. /\ g \in Files /\ h \in Files
          /\ Header(g).name = Header(h).name /\ Header(g).uid = Header(h).uid
          /\ Header(g).major = Header(h).major
          /\ RunsOn(Header(f).variant, Header(g).variant)
          /\ RunsOn(Header(f).variant, Header(h).variant)
      BY <2>6 DEF Candidates, Suits, HasVersion
    <3>2. \A e \in Files : IsVariant(Header(e).variant)
      BY <2>1 DEF IsRom, IsHeader, Header
    <3>3. ~MutuallyExclusive(Header(g).variant, Header(h).variant)
      BY <2>1, <3>1, <3>2, VariantsMeet DEF Rivals
    <3>4. Header(g).minor = Header(h).minor
      BY <3>1, <3>3 DEF CheckForVersionConflicts
    <3>. QED  BY <3>1, <3>4 DEF Version
  <2>. QED  BY <2>4, <2>5, <2>6
<1>. QED  BY <1>1, RomInvHolds, PTL

\* BuildDependenceGraph: what a file of a ROM that was linked can call, at whatever
\* distance, is on its side and has all its capabilities.
THEOREM LinksAreTrusted ==
  ASSUME NEW CONSTANT r, IsRom(r)
  PROVE  Spec(r) => []LinksTrusted
<1>1. RomInv => LinksTrusted
  <2>. SUFFICES ASSUME LinkInv, Linked, NEW f \in Files
                PROVE  \E S \in SUBSET Files :
                         /\ f \in S
                         /\ \A g \in S : Range(iDeps[g]) \subseteq S
                         /\ \A g \in S : /\ Header(g).kernel = Header(f).kernel
                                         /\ gPlatSecEnforcement =>
                                              Header(f).caps \subseteq Header(g).caps
    BY DEF RomInv, LinksTrusted
  <2>. DEFINE S == {g \in Files : /\ Header(g).kernel = Header(f).kernel
                                  /\ gPlatSecEnforcement =>
                                       Header(f).caps \subseteq Header(g).caps}
  <2>1. ASSUME NEW g \in S, NEW i \in DOMAIN iDeps[g] PROVE iDeps[g][i] \in S
    <3>1. IsRom(rom) /\ g \in Files /\ Errors(g) = {} /\ iDeps[g] = Resolved(g)
      BY LinksTyped DEF LinkInv, Linked
    <3>2. LinkError(g, iDeps[g][i]) = "KErrNone"
      BY <3>1 DEF Errors
    <3>3. iDeps[g][i] \in Files /\ ~WrongSide(g, iDeps[g][i]) /\ ~CapsMissing(g, iDeps[g][i])
      BY <3>1, <3>2, LinksTyped DEF LinkError
    <3>. QED  BY <3>3 DEF WrongSide, CapsMissing
  <2>2. \A g \in S : Range(iDeps[g]) \subseteq S
    BY <2>1 DEF Range
  <2>3. S \in SUBSET Files /\ f \in S
    OBVIOUS
  <2>. QED  BY <2>2, <2>3
<1>. QED  BY <1>1, RomInvHolds, PTL

\* ComputeSmpSafe on the graph that BuildDependenceGraph built, whatever the order
\* of the calls: unsafe answers are real, safe ones are until a first file is
\* found unsafe, and without cycles all are.
THEOREM SmpAnswersOfRom ==
  ASSUME NEW CONSTANT r, IsRom(r)
  PROVE  Spec(r) => [](UnsafeIsReal /\ SafeUntilUnsafe /\ AcyclicIsExact)
<1>1. RomInv => UnsafeIsReal /\ SafeUntilUnsafe /\ AcyclicIsExact
  <2>. SUFFICES ASSUME RomInv
                PROVE  UnsafeIsReal /\ SafeUntilUnsafe /\ AcyclicIsExact
    OBVIOUS
  <2>1. CASE Linked
    BY <2>1, InvMeansReal, CycleMeansSafe, ExactMeansExact DEF RomInv
  <2>2. CASE ~Linked
    BY <2>2 DEF RomInv, SmpInit, UnsafeIsReal, SafeUntilUnsafe, AcyclicIsExact
  <2>. QED  BY <2>1, <2>2
<1>. QED  BY <1>1, RomInvHolds, PTL
=============================================================================
