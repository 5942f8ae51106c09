------------------------------- MODULE RxQueue -------------------------------
(***************************************************************************)
(* What the receive buffer of the EKA1 serial driver promises: a bounded   *)
(* queue of characters, each with the flags that make it an event (a       *)
(* terminator, a line error) or none.  A read takes characters from the    *)
(* head and never passes an event; the flags of the event that ends the    *)
(* block being read are the read's status.  CommRxBuf is shown to          *)
(* implement it with a circular array, block counts and sequence numbers.  *)
(***************************************************************************)
EXTENDS Integers, Sequences

CONSTANTS
  Chars,      \* the characters a line can deliver
  BadChars,   \* those that can arrive with a parity error
  Length,     \* the capacity of the buffer
  TermSets,   \* the sets of terminators a client configures
  MaxRead,    \* the longest read of the instance
  TermFlag,   \* the flag of a terminator
  ErrorFlag   \* the flag of a character received with a parity error

VARIABLES
  queue,      \* the unread characters, oldest first
  terms,      \* the terminators in force
  result      \* what the last operation returned

vars == <<queue, terms, result>>

Entry == [char : Chars, flags : Nat]

Done(ret) == [ret |-> ret, status |-> 0, data |-> <<>>]

Events(q) == {i \in DOMAIN q : q[i].flags # 0}

\* The length of the first block of q, 0 when q holds no event.
FirstBlock(q) ==
  IF Events(q) = {} THEN 0
  ELSE CHOOSE i \in Events(q) : \A j \in Events(q) : i <= j

CharsOf(q) == [i \in DOMAIN q |-> q[i].char]

Lesser(a, b) == IF a < b THEN a ELSE b

IsTerm(f) == f >= TermFlag

\* The flags of an entry when its terminator flag is decided afresh.
Reflag(e, T) ==
  LET errors == IF IsTerm(e.flags) THEN e.flags - TermFlag ELSE e.flags
  IN  [e EXCEPT !.flags = errors + (IF e.char \in T THEN TermFlag ELSE 0)]

Init ==
  /\ queue = <<>>
  /\ terms \in TermSets
  /\ result = Done("none")

Put(c, bad) ==
  LET f == IF bad THEN ErrorFlag ELSE IF c \in terms THEN TermFlag ELSE 0
  IN  IF Len(queue) = Length
      THEN /\ result' = Done("overflow")
           /\ UNCHANGED <<queue, terms>>
      ELSE /\ result' = Done(IF f # 0 THEN "event" ELSE "plain")
           /\ queue' = Append(queue, [char |-> c, flags |-> f])
           /\ UNCHANGED terms

Read(n) ==
  LET q    == queue
      b    == FirstBlock(q)
      take == Lesser(IF b > 0 THEN Lesser(n, b) ELSE n, Len(q))
  IN  IF q = <<>>
      THEN /\ result' = Done("underflow")
           /\ UNCHANGED <<queue, terms>>
      ELSE /\ result' = [ret    |-> IF b > 0 \/ take = n THEN "complete" ELSE "partial",
                         status |-> IF b > 0 THEN q[b].flags ELSE 0,
                         data   |-> CharsOf(SubSeq(q, 1, take))]
           /\ queue' = SubSeq(q, take + 1, Len(q))
           /\ UNCHANGED terms

Rescan(T) ==
  /\ T # terms
  /\ terms' = T
  /\ queue' = [i \in DOMAIN queue |-> Reflag(queue[i], T)]
  /\ result' = Done(IF Events(queue') # {} THEN "event" ELSE "plain")

Reset ==
  /\ result' = Done("none")
  /\ queue' = <<>>
  /\ UNCHANGED terms

Next ==
  \/ \E c \in Chars, bad \in BOOLEAN : (bad => c \in BadChars) /\ Put(c, bad)
  \/ \E n \in 0..MaxRead : Read(n)
  \/ \E T \in TermSets : Rescan(T)
  \/ Reset

Spec == Init /\ [][Next]_vars
=============================================================================
