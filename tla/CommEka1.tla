------------------------------- MODULE CommEka1 -------------------------------
(***************************************************************************)
(* The EKA1 serial driver: the channel DChannelComm (wintunnel/src_beech/  *)
(* d_comm.cpp) and its port DCommWins (d_cdrv.cpp), on a COM port.         *)
(*                                                                         *)
(* Three threads share the state: the client's thread, in a request or a   *)
(* control; the DFC, which preempts it; the comm thread, which plays the   *)
(* interrupts.  Interrupts are "disabled" by a critical section (owner),   *)
(* and a kernel thread has the comm thread execute a command through one   *)
(* slot and two semaphores, or, when it is itself the comm thread,         *)
(* executes it and waits for its own acknowledgement.                      *)
(*                                                                         *)
(* A step runs up to the next place where the thread takes or leaves the   *)
(* critical section, waits, or reads what it does not hold the lock for.   *)
(* Received characters are counted here; CommRxBuf has their buffer.       *)
(***************************************************************************)
EXTENDS Integers, Sequences, FiniteSets

CONSTANTS
  Length, Low, Half, High,  \* receive buffer: iLength and the three marks
  TxSize, OutSize,          \* KTxBufferSize, KWriteBufSize
  ReadLens, WriteLens,      \* lengths asked for; a read of one or more is below
                            \* 0, and one of 0 completes at once: it is left out
  MaxWrites,                \* bound on the writes
  Budgets                   \* bounds on the rest: see BudgetType

\* A behaviour has one of the Budgets: how often the client reads, writes,
\* cancels and configures, how many characters arrive, how often CTS changes,
\* and whether input is held by XON/XOFF (KConfigSendXoff) or by RTS.
BudgetType ==
  [reads : Nat, writes : 0..MaxWrites, cancels : Nat, configs : Nat,
   chars : Nat, lines : Nat, sendXoff : BOOLEAN]

ASSUME Eka1Assumption ==
  /\ {Length, Low, Half, High, TxSize, OutSize} \subseteq Nat
  /\ Low < High /\ Half <= High /\ High < Length /\ OutSize > 0 /\ TxSize > 0
  /\ ReadLens \subseteq Int \ {0} /\ WriteLens \subseteq Nat
  /\ MaxWrites \in Nat /\ Budgets \subseteq BudgetType

VARIABLES
  ch,          \* the channel's fields
  port,        \* the port's fields and the two semaphores
  pc, ret,     \* where each thread is, and where a call returns to
  owner,       \* of the critical section
  doing,       \* the command the comm thread executes
  dfcQueued,   \* iDfc is queued
  power,       \* iRequirement and whether the idle timer runs
  host,        \* the COM port, the line and the other side
  left,        \* what is left of the budget
  client       \* the requests the client has outstanding, and counters

vars == <<ch, port, pc, ret, owner, doing, dfcQueued, power, host, left, client>>

Threads  == {"client", "dfc", "comm"}
Requests == {"Drain", "CompleteWrite", "Fill"}          \* TDfcRequestFlags
Commands == {"ETransmit", "EStart", "EStop", "EInvalidCommand"}
Writes   == 1..MaxWrites

\* What goes out: the number of the write a character belongs to, or a control
\* character; below 0 there is none (iInputHeld, TransmitIsr).
XonChar           == MaxWrites + 1
XoffChar          == MaxWrites + 2
KInputHeldFree    == -1
KInputHeld        == -2
KTransmitIrqEmpty == -2

Lesser(a, b)  == IF a < b THEN a ELSE b
Greater(a, b) == IF a < b THEN b ELSE a
Goto(t, l)    == pc' = [pc EXCEPT ![t] = l]

Channel ==
  [active : BOOLEAN, inputHeld : {KInputHeldFree, KInputHeld, XonChar, XoffChar},
   outputHeld : BOOLEAN, transmitting : BOOLEAN, isReading : BOOLEAN,
   receiveLength : Nat, receiveError : BOOLEAN, rx : 0..Length,
   isWriting : BOOLEAN, isClientWriting : BOOLEAN, writeZero : BOOLEAN,
   transmitLength : Nat, tx : Seq(Writes), filling : BOOLEAN, draining : BOOLEAN,
   dfcRequest : SUBSET Requests, runningDfc : BOOLEAN, rts : BOOLEAN,
   sendXoff : BOOLEAN]

Init ==
  /\ left \in Budgets
  /\ ch = [active |-> FALSE, inputHeld |-> KInputHeldFree, outputHeld |-> FALSE,
           transmitting |-> FALSE, isReading |-> FALSE, receiveLength |-> 0,
           receiveError |-> FALSE, rx |-> 0, isWriting |-> FALSE,
           isClientWriting |-> FALSE, writeZero |-> FALSE, transmitLength |-> 0,
           tx |-> <<>>, filling |-> FALSE, draining |-> FALSE, dfcRequest |-> {},
           runningDfc |-> FALSE, rts |-> FALSE, sendXoff |-> left.sendXoff]
  /\ port = [command |-> "EInvalidCommand", commSem |-> 0, drvSem |-> 0,
             running |-> FALSE, writePending |-> FALSE, out |-> <<>>, skip |-> FALSE]
  /\ pc = [t \in Threads |-> "idle"] /\ ret = [t \in Threads |-> "idle"]
  /\ owner = "none" /\ doing = "EInvalidCommand" /\ dfcQueued = FALSE
  /\ power = [required |-> FALSE, timer |-> FALSE]
  /\ host = [queue |-> 0, inBuf |-> 0, events |-> {}, status |-> {}, writing |-> FALSE,
             cts |-> TRUE, stopped |-> FALSE]
  /\ client = [reading |-> FALSE, writing |-> 0, todo |-> <<>>, writes |-> 0,
               sent |-> [w \in Writes |-> 0],
               length |-> [w \in Writes |-> 0], result |-> [w \in Writes |-> "none"]]
-----------------------------------------------------------------------------
(* Interrupts, DFC requests and commands *)

Free(t) == owner \in {"none", t}

\* The comm thread takes no step while it is suspended.
Comm(l) == pc["comm"] = l /\ port.running

\* EnableInterrupts: leave the critical section and look at the next write.
Enabled(p) == [p EXCEPT !.skip = FALSE]

\* QueueDfc on the channel c; its lock is taken and left within the step.
QueuedUnmarked(c, R) == [c EXCEPT !.dfcRequest = @ \cup R]
Queued(c, R) ==
  IF R = {} THEN c ELSE [c EXCEPT !.dfcRequest = @ \cup R, !.runningDfc = TRUE]

QueueDfc(c, R) ==
  /\ ch' = Queued(c, R)
  /\ dfcQueued' = (dfcQueued \/ (R # {} /\ ~c.runningDfc))

\* RunCommThread: the comm thread executes its own command itself.
RunCommThread(t, p, command, next) ==
  /\ ret' = [ret EXCEPT ![t] = next]
  /\ IF t = "comm"
     THEN /\ port' = [p EXCEPT !.command = command]
          /\ doing' = command /\ Goto(t, "reenter")
     ELSE /\ port' = [p EXCEPT !.command = command, !.commSem = @ + 1]
          /\ Goto(t, "wait") /\ UNCHANGED doing

Acknowledged(t) ==
  /\ pc[t] = "wait" /\ port.drvSem > 0
  /\ t = "comm" => port.running
  /\ port' = [port EXCEPT !.drvSem = @ - 1]
  /\ Goto(t, ret[t])
  /\ UNCHANGED <<ch, ret, owner, doing, dfcQueued, power, host, left, client>>

\* EnableTransmit on the channel c and the port p.
EnableTransmit(t, c, p, next) ==
  IF c.transmitting
  THEN ch' = c /\ port' = p /\ Goto(t, next) /\ UNCHANGED <<ret, doing>>
  ELSE ch' = [c EXCEPT !.transmitting = TRUE] /\ RunCommThread(t, p, "ETransmit", next)

After(t) == IF t = "dfc" THEN "loop" ELSE "idle"
-----------------------------------------------------------------------------
(* Reading *)

ReadDone == [client EXCEPT !.reading = FALSE]

\* The other side may send again.
ResumesBelow(c) == c.rx < Low /\ c.inputHeld = KInputHeld
Resumes(c)      == c.rx <= Low /\ c.inputHeld = KInputHeld

\* DoDrainRxBuffer, in the DFC or in a read request.
Drain(t) ==
  /\ pc[t] = "drain" /\ owner = "none"
  /\ LET copy == Lesser(ch.receiveLength, ch.rx)
         ends == ch.receiveError \/ copy = ch.receiveLength
         c    == [ch EXCEPT !.rx = @ - copy, !.receiveLength = @ - copy,
                            !.isReading = ~ends,
                            !.receiveError = IF ends THEN FALSE ELSE @]
     IN  IF ~ch.isReading \/ ch.draining \/ (ch.rx = 0 /\ ~ch.receiveError)
         THEN /\ port' = Enabled(port) /\ Goto(t, After(t))
              /\ UNCHANGED <<ch, ret, doing, owner, client>>
         ELSE /\ client' = IF ends THEN ReadDone ELSE client
              /\ IF Resumes(c) /\ ch.sendXoff
                 THEN /\ owner' = t
                      /\ EnableTransmit(t, [c EXCEPT !.inputHeld = XonChar,
                                                     !.draining = TRUE], port, "drained")
                 ELSE /\ ch' = IF Resumes(c)
                               THEN [c EXCEPT !.rts = TRUE, !.inputHeld = KInputHeldFree] ELSE c
                      /\ port' = Enabled(port) /\ Goto(t, After(t))
                      /\ UNCHANGED <<ret, doing, owner>>
  /\ UNCHANGED <<dfcQueued, power, host, left>>

Drained(t) ==
  /\ pc[t] = "drained"
  /\ ch' = [ch EXCEPT !.draining = FALSE]
  /\ owner' = "none" /\ port' = Enabled(port) /\ Goto(t, After(t))
  /\ UNCHANGED <<ret, doing, dfcQueued, power, host, left, client>>

\* ReceiveIsr up to where it holds the other side off ...
Holding == ch.rx >= High /\ ch.rx % 2 = 1

Receive ==
  /\ Comm("recv") /\ host.inBuf > 0
  /\ IF Holding /\ ch.sendXoff
     THEN EnableTransmit("comm", [ch EXCEPT !.inputHeld = XoffChar], port, "put")
     ELSE /\ ch' = IF Holding
                   THEN [ch EXCEPT !.rts = FALSE, !.inputHeld = KInputHeld] ELSE ch
          /\ Goto("comm", "put") /\ UNCHANGED <<port, ret, doing>>
  /\ UNCHANGED <<owner, dfcQueued, power, host, left, client>>

FullLate == ch.rx > Length
Full     == ch.rx >= Length

\* A waiting read is served when it has all it asked for, or at half full.
DrainDue(c) ==
  c.isReading /\ c.receiveLength > 0 /\ (c.receiveLength <= c.rx \/ c.rx >= Half)

\* ... and on from there: the character goes to the buffer.
PutChar ==
  /\ Comm("put")
  /\ LET c     == IF Full THEN [ch EXCEPT !.receiveError = TRUE]
                          ELSE [ch EXCEPT !.rx = @ + 1]
         drain == Holding \/ Full \/ DrainDue(c)
     IN  /\ QueueDfc(c, IF drain THEN {"Drain"} ELSE {})
         /\ port' = IF drain THEN Enabled(port) ELSE port
  /\ host' = [host EXCEPT !.inBuf = @ - 1]
  /\ Goto("comm", "recv")
  /\ UNCHANGED <<ret, owner, doing, power, client, left>>
-----------------------------------------------------------------------------
(* Writing *)

FillBusyNever == FALSE
FillBusy      == ch.filling

\* ClientRead moves what fits from the client's descriptor to the buffer.
Fill(t) ==
  /\ pc[t] = "fill" /\ owner = "none"
  /\ IF FillBusy
     THEN Goto(t, IF t = "dfc" THEN "loop" ELSE "written") /\ UNCHANGED ch
     ELSE ch' = [ch EXCEPT !.filling = TRUE] /\ Goto(t, "copy")
  /\ port' = Enabled(port)
  /\ UNCHANGED <<ret, owner, doing, dfcQueued, power, host, left, client>>

\* KErrOverflow: there is something to copy and no room.
Overflow == ch.transmitLength # 0 /\ Len(ch.tx) = TxSize

Copy(t) ==
  /\ pc[t] = "copy"
  /\ LET n == Lesser(ch.transmitLength, TxSize - Len(ch.tx))
     IN  IF Overflow
         THEN Goto(t, "filled") /\ UNCHANGED <<ch, port, ret, doing>>
         ELSE EnableTransmit(t, [ch EXCEPT !.transmitLength = @ - n,
                                           !.tx = @ \o [i \in 1..n |-> client.writes]],
                             port, "filled")
  /\ UNCHANGED <<owner, dfcQueued, power, host, left, client>>

Filled(t) ==
  /\ pc[t] = "filled"
  /\ ch' = [ch EXCEPT !.filling = FALSE]
  /\ Goto(t, IF t = "dfc" THEN "loop" ELSE "written")
  /\ UNCHANGED <<port, ret, owner, doing, dfcQueued, power, host, left, client>>

Written ==
  /\ pc["client"] = "written"
  /\ ch' = [ch EXCEPT !.isWriting = TRUE]
  /\ Goto("client", "state")
  /\ UNCHANGED <<port, ret, owner, doing, dfcQueued, power, host, left, client>>

\* StateIsr with the value cts of the line.
StateIsr(t, cts, next) ==
  IF ch.writeZero /\ cts /\ ch.isClientWriting /\ ch.tx = <<>>
  THEN /\ Free(t)
       /\ QueueDfc(ch, {"CompleteWrite"})
       /\ port' = Enabled(port) /\ Goto(t, next) /\ UNCHANGED <<ret, doing>>
  ELSE /\ UNCHANGED dfcQueued
       /\ IF cts /\ ch.isWriting
          THEN EnableTransmit(t, [ch EXCEPT !.outputHeld = FALSE], Enabled(port), next)
          ELSE /\ ch' = [ch EXCEPT !.outputHeld = ~cts]
               /\ port' = Enabled(port) /\ Goto(t, next) /\ UNCHANGED <<ret, doing>>

\* The end of a write request reads the lines and then calls StateIsr; pc
\* says which line it saw.
ReadLines ==
  /\ pc["client"] = "state"
  /\ port' = Enabled(port)
  /\ Goto("client", IF host.cts THEN "stateOn" ELSE "stateOff")
  /\ UNCHANGED <<ch, ret, owner, doing, dfcQueued, power, host, left, client>>

ClientState ==
  /\ pc["client"] \in {"stateOn", "stateOff"}
  /\ StateIsr("client", pc["client"] = "stateOn", "idle")
  /\ UNCHANGED <<owner, power, host, left, client>>

\* TransmitIsr: the character it returns, and what it does to the channel.
Idle      == ch.inputHeld < 0
Sending   == Idle /\ ~ch.outputHeld /\ ch.isWriting
ExhaustedBuffer == Sending /\ ch.tx = <<>>
Exhausted == Sending /\ ch.tx = <<>> /\ ch.transmitLength = 0

IsrChar ==
  IF ~Idle THEN ch.inputHeld
  ELSE IF Sending /\ ch.tx # <<>> THEN Head(ch.tx) ELSE KTransmitIrqEmpty

IsrRequests ==
  IF Exhausted THEN IF ch.writeZero /\ ~host.cts THEN {} ELSE {"CompleteWrite"}
  ELSE IF /\ Sending /\ ch.transmitLength # 0
          /\ 2 * (Len(ch.tx) - (IF ch.tx # <<>> THEN 1 ELSE 0)) < TxSize
  THEN {"Fill"} ELSE {}

IsrChannel ==
  [ch EXCEPT !.inputHeld = IF Idle THEN @ ELSE IF @ = XonChar THEN KInputHeldFree ELSE KInputHeld,
             !.tx = IF Sending /\ @ # <<>> THEN Tail(@) ELSE @,
             !.transmitting = (IsrChar # KTransmitIrqEmpty)]

SentOne ==
  IF IsrChar \in Writes THEN [client EXCEPT !.sent[IsrChar] = @ + 1] ELSE client

\* The port takes the next character; QueueDfc needs the critical section.
TransmitIsr ==
  /\ IsrRequests # {} => Free("comm")
  /\ QueueDfc(IsrChannel, IsrRequests)
  /\ client' = SentOne

WithChar(p) == IF IsrChar = KTransmitIrqEmpty THEN p ELSE [p EXCEPT !.out = Append(@, IsrChar)]
-----------------------------------------------------------------------------
(* The DFC *)

StartDfc ==
  /\ pc["dfc"] = "idle" /\ dfcQueued
  /\ dfcQueued' = FALSE /\ Goto("dfc", "loop")
  /\ UNCHANGED <<ch, port, ret, owner, doing, power, host, left, client>>

\* DfcHandler takes the first request there is, under the lock.
First == IF "Drain" \in ch.dfcRequest THEN "Drain"
         ELSE IF "CompleteWrite" \in ch.dfcRequest THEN "CompleteWrite" ELSE "Fill"

TakeRequest ==
  /\ pc["dfc"] = "loop" /\ owner = "none" /\ ch.dfcRequest # {}
  /\ ch' = [ch EXCEPT !.dfcRequest = @ \ {First}]
  /\ port' = Enabled(port) /\ Goto("dfc", First)
  /\ UNCHANGED <<ret, owner, doing, dfcQueued, power, host, left, client>>

\* With nothing left it ends, and DCommPowerHandler::RequestComplete starts
\* the idle timer.
EndDfc ==
  /\ pc["dfc"] = "loop" /\ owner = "none" /\ ch.dfcRequest = {}
  /\ ch' = [ch EXCEPT !.runningDfc = FALSE]
  /\ power' = [power EXCEPT !.timer = TRUE]
  /\ port' = Enabled(port) /\ Goto("dfc", "idle")
  /\ UNCHANGED <<ret, owner, doing, dfcQueued, host, left, client>>

\* Draining and filling are skipped when the client is at it; these two flags
\* are read without the lock.
DfcCalls ==
  /\ \/ pc["dfc"] = "Drain" /\ Goto("dfc", IF ch.draining THEN "loop" ELSE "drain")
     \/ pc["dfc"] = "Fill" /\ Goto("dfc", IF FillBusy THEN "loop" ELSE "fill")
  /\ UNCHANGED <<ch, port, ret, owner, doing, dfcQueued, power, host, left, client>>

WriteDone(reason) ==
  [client EXCEPT !.writing = 0,
                 !.result = IF client.writing = 0 THEN @
                            ELSE [@ EXCEPT ![client.writing] = reason]]

CompleteWrite ==
  /\ pc["dfc"] = "CompleteWrite" /\ Goto("dfc", "loop")
  /\ IF ch.isWriting
     THEN /\ ch' = [ch EXCEPT !.isWriting = FALSE, !.writeZero = FALSE,
                              !.isClientWriting = FALSE]
          /\ client' = IF ch.isClientWriting THEN WriteDone("KErrNone") ELSE client
     ELSE UNCHANGED <<ch, client>>
  /\ UNCHANGED <<port, ret, owner, doing, dfcQueued, power, host, left>>

\* The idle timer, 20 seconds, longer than any request takes to return:
\* DCommPowerHandler::Timeout stops the port ...
Timeout ==
  /\ pc["dfc"] = "idle" /\ ~dfcQueued /\ power.timer
  /\ pc["client"] = "idle"
  /\ power' = [required |-> FALSE, timer |-> FALSE]
  /\ IF ch.active
     THEN RunCommThread("dfc", Enabled(port), "EStop", "stopped")
     ELSE Goto("dfc", "reset") /\ UNCHANGED <<port, ret, doing>>
  /\ UNCHANGED <<ch, owner, dfcQueued, host, left, client>>

Stopped(p) == [p EXCEPT !.running = FALSE, !.out = <<>>]

TimeoutStopped ==
  /\ pc["dfc"] = "stopped" /\ Goto("dfc", "reset")
  /\ port' = Stopped(port)
  /\ UNCHANGED <<ch, ret, owner, doing, dfcQueued, power, host, left, client>>

\* ... and ResetDevice, CompleteAll(KErrAbort).
ResetDevice ==
  /\ pc["dfc"] = "reset" /\ Goto("dfc", "idle")
  /\ ch' = [ch EXCEPT !.isClientWriting = FALSE, !.isReading = FALSE,
                      !.isWriting = FALSE, !.draining = FALSE, !.filling = FALSE,
                      !.transmitting = FALSE, !.dfcRequest = {}, !.active = FALSE]
  /\ client' = [WriteDone("KErrAbort") EXCEPT !.reading = FALSE]
  /\ UNCHANGED <<port, ret, owner, doing, dfcQueued, power, host, left>>
-----------------------------------------------------------------------------
(* The comm thread *)

\* WaitForMultipleObjects takes the lowest of the objects that are signalled.
WaitForEvent ==
  /\ Comm("idle")
  /\ IF host.events \ {"write"} # {}
     THEN /\ host' = [host EXCEPT !.status = host.events \ {"write"},
                                  !.events = @ \cap {"write"}]
          /\ Goto("comm", "enterSignal") /\ UNCHANGED <<port, ret, doing>>
     ELSE IF port.commSem > 0
     THEN /\ port' = [port EXCEPT !.commSem = @ - 1]
          /\ doing' = port.command
          /\ Goto("comm", "command") /\ UNCHANGED <<ret, host>>
     ELSE /\ "write" \in host.events
          /\ host' = [host EXCEPT !.events = {}]
          /\ Goto("comm", "enterWrite") /\ UNCHANGED <<port, ret, doing>>
  /\ UNCHANGED <<ch, owner, dfcQueued, power, client, left>>

EnterSignal ==
  /\ Comm("enterSignal") /\ owner = "none" /\ owner' = "comm"
  /\ host' = IF "chars" \in host.status
             THEN [host EXCEPT !.inBuf = host.queue, !.queue = 0] ELSE host
  /\ Goto("comm", "recv")
  /\ UNCHANGED <<ch, port, ret, doing, dfcQueued, power, client, left>>

LineState ==
  /\ Comm("recv") /\ host.inBuf = 0
  /\ IF "lines" \in host.status
     THEN StateIsr("comm", host.cts, "leave")
     ELSE Goto("comm", "leave") /\ UNCHANGED <<ch, port, ret, doing, dfcQueued>>
  /\ UNCHANGED <<owner, power, host, left, client>>

Leave ==
  /\ Comm("leave") /\ Goto("comm", "idle")
  /\ owner' = "none" /\ host' = [host EXCEPT !.status = {}]
  /\ UNCHANGED <<ch, port, ret, doing, dfcQueued, power, client, left>>

Signalled(p) ==
  [p EXCEPT !.command = "EInvalidCommand", !.drvSem = @ + 1]

\* DriverCommand(ETransmit) asks for one character.
Transmit ==
  IF port.writePending
  THEN port' = Signalled(port) /\ UNCHANGED <<ch, host, dfcQueued, client>>
  ELSE LET p == WithChar(IF IsrRequests # {} THEN Enabled(port) ELSE port)
       IN  /\ TransmitIsr
           /\ port' = Signalled([p EXCEPT !.writePending = (p.out # <<>>)])
           /\ host' = [host EXCEPT !.writing = (p.out # <<>>)]

\* EStop waits for the last write and for the signal event.
StopPort ==
  /\ port.writePending => "write" \in host.events
  /\ port' = Signalled([port EXCEPT !.writePending = FALSE])
  /\ host' = [host EXCEPT !.events = {}]
  /\ UNCHANGED <<ch, dfcQueued, client>>

StartPort ==
  /\ port' = Signalled(port)
  /\ host' = [host EXCEPT !.events = @ \cap {"write"}, !.queue = 0]
  /\ UNCHANGED <<ch, dfcQueued, client>>

NoCommand ==
  port' = Signalled(port) /\ UNCHANGED <<ch, host, dfcQueued, client>>

\* A command executed for the comm thread itself is followed by a wait.
DriverCommand ==
  /\ \/ Comm("command") /\ Goto("comm", "idle")
     \/ Comm("reenter") /\ Goto("comm", "wait")
  /\ \/ doing = "ETransmit" /\ Transmit
     \/ doing = "EStop" /\ StopPort
     \/ doing = "EStart" /\ StartPort
     \/ doing = "EInvalidCommand" /\ NoCommand
  /\ UNCHANGED <<ret, owner, doing, power, left>>

\* DoTransmit, after a write: it gathers the next characters ...
EnterWrite ==
  /\ Comm("enterWrite") /\ owner = "none"
  /\ IF port.command = "EStop"
     THEN port' = [port EXCEPT !.out = <<>>] /\ Goto("comm", "idle") /\ UNCHANGED owner
     ELSE /\ port' = [port EXCEPT !.out = <<>>, !.skip = FALSE]
          /\ Goto("comm", IF port.skip THEN "write" ELSE "gather") /\ owner' = "comm"
  /\ UNCHANGED <<ch, ret, doing, dfcQueued, power, host, left, client>>

Gather ==
  /\ Comm("gather")
  /\ IF Len(port.out) < OutSize
     THEN /\ TransmitIsr
          /\ port' = [WithChar(port) EXCEPT !.skip = (IsrChar = KTransmitIrqEmpty)]
          /\ Goto("comm", IF IsrChar = KTransmitIrqEmpty THEN "write" ELSE "gather")
     ELSE Goto("comm", "write") /\ UNCHANGED <<ch, port, dfcQueued, client>>
  /\ UNCHANGED <<ret, owner, doing, power, host, left>>

\* ... and writes them.
WriteOut ==
  /\ Comm("write") /\ Goto("comm", "idle") /\ owner' = "none"
  /\ port' = [port EXCEPT !.writePending = (port.out # <<>>)]
  /\ host' = IF port.out # <<>> THEN [host EXCEPT !.writing = TRUE] ELSE host
  /\ UNCHANGED <<ch, ret, doing, dfcQueued, power, client, left>>
-----------------------------------------------------------------------------
(* The client's thread *)

\* A DFC preempts the client: the client goes on only while the DFC has
\* nothing to do, or waits.
ClientRuns ==
  \/ pc["dfc"] = "idle" /\ ~dfcQueued
  \/ pc["dfc"] = "wait"
  \/ owner \notin {"none", "dfc"}

Client(l) == pc["client"] = l /\ ClientRuns

\* DoRequest starts the port first when it is not active.
Ask(op, n) ==
  /\ Client("idle")
  /\ client' = [client EXCEPT !.todo = <<op, n>>]
  /\ Goto("client", IF ch.active THEN op ELSE "start")
  /\ UNCHANGED <<ch, port, ret, owner, doing, dfcQueued, power, host>>

Spend(what) == left[what] > 0 /\ left' = [left EXCEPT ![what] = @ - 1]

AskRead(n)  == ~client.reading /\ Spend("reads") /\ Ask("Read", n)
AskWrite(n) == client.writing = 0 /\ Spend("writes") /\ Ask("Write", n)

Emptied(c) ==
  [c EXCEPT !.isWriting = FALSE, !.rx = 0, !.tx = <<>>, !.receiveError = FALSE]

\* Start: reset the buffers, configure, and have the comm thread run.
Start ==
  /\ Client("start")
  /\ ch' = Emptied(ch)
  /\ RunCommThread("client", [port EXCEPT !.running = TRUE], "EStart", "started")
  /\ UNCHANGED <<owner, dfcQueued, power, host, left, client>>

\* A control character that was left is sent now.
Started(l, next) ==
  /\ Client(l)
  /\ IF ch.sendXoff /\ ch.inputHeld >= 0
     THEN EnableTransmit("client", ch, port, next)
     ELSE Goto("client", next) /\ UNCHANGED <<ch, port, ret, doing>>
  /\ UNCHANGED <<owner, dfcQueued, power, host, left, client>>

Activate ==
  /\ Client("active") /\ Goto("client", client.todo[1])
  /\ ch' = [ch EXCEPT !.active = TRUE, !.rts = TRUE,
                      !.inputHeld = IF ch.sendXoff THEN XonChar ELSE KInputHeldFree]
  /\ UNCHANGED <<port, ret, owner, doing, dfcQueued, power, host, left, client>>

PowerNeeded == power' = [required |-> TRUE, timer |-> FALSE]

\* An error that is still to be reported leaves the read no length.
ReadLength(n) ==
  IF ch.receiveError THEN 0
  ELSE IF n < 0 THEN Greater(1, Lesser(-n, ch.rx)) ELSE n

BeginRead ==
  /\ Client("Read") /\ owner = "none"
  /\ ch' = [ch EXCEPT !.receiveLength = ReadLength(client.todo[2]), !.isReading = TRUE]
  /\ client' = [client EXCEPT !.reading = TRUE]
  /\ PowerNeeded /\ port' = Enabled(port)
  /\ Goto("client", IF ch.sendXoff THEN "xon" ELSE "drain")
  /\ UNCHANGED <<ret, owner, doing, dfcQueued, host, left>>

SendXon ==
  /\ Client("xon")
  /\ EnableTransmit("client", [ch EXCEPT !.inputHeld = XonChar], port, "drain")
  /\ UNCHANGED <<owner, dfcQueued, power, host, left, client>>

\* While the last write is still being sent, TransmitIsr will see this one.
BeginWrite ==
  /\ Client("Write") /\ owner = "none"
  /\ LET n    == client.todo[2]
         w    == client.writes + 1
         goes == ch.transmitting /\ ch.isWriting
     IN  /\ ch' = [ch EXCEPT !.transmitLength = n, !.isClientWriting = TRUE,
                             !.writeZero = (n = 0 \/ @), !.isWriting = (n = 0 \/ goes)]
         /\ client' = [client EXCEPT !.writing = w, !.writes = w, !.length[w] = n]
         /\ Goto("client", IF n = 0 \/ goes THEN "state" ELSE "fill")
  /\ PowerNeeded /\ port' = Enabled(port)
  /\ UNCHANGED <<ret, owner, doing, dfcQueued, host, left>>

\* DoCancel; it takes no lock.
CancelRead ==
  /\ Client("idle") /\ client.reading /\ Spend("cancels")
  /\ ch' = [ch EXCEPT !.isReading = FALSE]
  /\ client' = ReadDone
  /\ UNCHANGED <<port, pc, ret, owner, doing, dfcQueued, power, host>>

CancelWrite ==
  /\ Client("idle") /\ client.writing # 0 /\ Spend("cancels")
  /\ ch' = [ch EXCEPT !.isClientWriting = FALSE, !.writeZero = FALSE,
                      !.isWriting = FALSE, !.tx = <<>>]
  /\ client' = WriteDone("KErrCancel")
  /\ UNCHANGED <<port, pc, ret, owner, doing, dfcQueued, power, host>>

\* EControlSetConfig on an active channel with nothing pending: another rate
\* restarts the port, another XON or parity character also empties the buffers.
SetConfig(kind) ==
  /\ Client("idle") /\ Spend("configs")
  /\ ch.active /\ ~ch.isReading /\ ~ch.isWriting
  /\ ch' = [ch EXCEPT !.rts = FALSE]
  /\ client' = [client EXCEPT !.todo = <<kind>>]
  /\ RunCommThread("client", Enabled(port), "EStop", "cfgStopped")
  /\ UNCHANGED <<owner, dfcQueued, power, host>>

ConfigStopped ==
  /\ Client("cfgStopped")
  /\ IF client.todo[1] = "restart"
     THEN /\ port' = Stopped(port) /\ Goto("client", "cfgStart")
          /\ UNCHANGED <<ch, ret, doing>>
     ELSE LET c == [Emptied(ch) EXCEPT !.rts = TRUE]
          IN  IF ch.sendXoff
              THEN EnableTransmit("client", [c EXCEPT !.inputHeld = XonChar],
                                  Stopped(port), "cfgStart")
              ELSE /\ ch' = [c EXCEPT !.inputHeld = KInputHeldFree]
                   /\ port' = Stopped(port) /\ Goto("client", "cfgStart")
                   /\ UNCHANGED <<ret, doing>>
  /\ UNCHANGED <<owner, dfcQueued, power, host, left, client>>

ConfigStart ==
  /\ Client("cfgStart")
  /\ RunCommThread("client", [port EXCEPT !.running = TRUE], "EStart", "cfgStarted")
  /\ UNCHANGED <<ch, owner, dfcQueued, power, host, left, client>>

\* KConfigObeyCTS, which this model has, leaves the input marked held.
Configured ==
  /\ Client("configured") /\ owner = "none" /\ Goto("client", "idle")
  /\ ch' = [ch EXCEPT !.active = TRUE, !.rts = TRUE, !.inputHeld = KInputHeld]
  /\ port' = Enabled(port)
  /\ UNCHANGED <<ret, owner, doing, dfcQueued, power, host, left, client>>
-----------------------------------------------------------------------------
(* The host: the other side of the line *)

CharArrives ==
  /\ port.running /\ Spend("chars")
  /\ IF ch.sendXoff THEN ~host.stopped ELSE ch.rts
  /\ host' = [host EXCEPT !.queue = @ + 1, !.events = @ \cup {"chars"}]
  /\ UNCHANGED <<ch, port, pc, ret, owner, doing, dfcQueued, power, client>>

Controls == {i \in DOMAIN port.out : port.out[i] \in {XonChar, XoffChar}}

HostWrites ==
  /\ host.writing
  /\ host' = [host EXCEPT !.writing = FALSE, !.events = @ \cup {"write"},
       !.stopped = IF Controls = {} THEN @
                   ELSE \E i \in Controls : /\ port.out[i] = XoffChar
                                             /\ \A j \in Controls : j <= i]
  /\ UNCHANGED <<ch, port, pc, ret, owner, doing, dfcQueued, power, client, left>>

LineChanges ==
  /\ port.running /\ Spend("lines")
  /\ host' = [host EXCEPT !.cts = ~@, !.events = @ \cup {"lines"}]
  /\ UNCHANGED <<ch, port, pc, ret, owner, doing, dfcQueued, power, client>>
-----------------------------------------------------------------------------
ClientNext ==
  \/ \E n \in ReadLens : AskRead(n)
  \/ \E n \in WriteLens : AskWrite(n)
  \/ \E kind \in {"restart", "purge"} : SetConfig(kind)
  \/ Start \/ Started("started", "active") \/ Activate
  \/ BeginRead \/ SendXon \/ BeginWrite \/ CancelRead \/ CancelWrite
  \/ ConfigStopped \/ ConfigStart \/ Started("cfgStarted", "configured") \/ Configured
  \/ ClientRuns /\ \/ Written \/ ReadLines \/ ClientState
                   \/ Acknowledged("client") \/ Drain("client") \/ Drained("client")
                   \/ Fill("client") \/ Copy("client") \/ Filled("client")

DfcNext ==
  \/ StartDfc \/ TakeRequest \/ EndDfc \/ DfcCalls \/ CompleteWrite
  \/ Timeout \/ TimeoutStopped \/ ResetDevice
  \/ Acknowledged("dfc") \/ Drain("dfc") \/ Drained("dfc")
  \/ Fill("dfc") \/ Copy("dfc") \/ Filled("dfc")

CommNext ==
  \/ WaitForEvent \/ EnterSignal \/ Receive \/ PutChar \/ LineState \/ Leave
  \/ DriverCommand \/ EnterWrite \/ Gather \/ WriteOut \/ Acknowledged("comm")

HostNext == CharArrives \/ HostWrites \/ LineChanges

Next == ClientNext \/ DfcNext \/ CommNext \/ HostNext

Spec == Init /\ [][Next]_vars
-----------------------------------------------------------------------------
(* Properties *)

\* Every field keeps to its type; above all the receive buffer never holds more
\* than its length.
TypeOK ==
  /\ ch \in Channel
  /\ port.command \in Commands /\ doing \in Commands
  /\ port.commSem \in Nat /\ port.drvSem \in Nat
  /\ owner \in Threads \cup {"none"}

TimingOut ==
  pc["dfc"] \in {"stopped", "reset"} \/ (pc["dfc"] = "wait" /\ ret["dfc"] = "stopped")

InDfcHandler == pc["dfc"] # "idle" /\ ~TimingOut

\* No request of an interrupt to the DFC is lost: while there is one the DFC is
\* queued or in its loop, and iRunningDfc, read to decide whether to queue it,
\* is set exactly then, also when the idle timer stops the port in between.
DfcRequestsServed ==
  /\ ch.dfcRequest # {} => ch.runningDfc
  /\ ch.runningDfc <=> dfcQueued \/ InDfcHandler

FillingIn(t) == pc[t] \in {"copy", "filled"} \/ (pc[t] = "wait" /\ ret[t] = "filled")

\* The client's thread and the DFC are never both between the test of
\* iFillingTxBuf and its reset: one of them writes the transmit buffer.
OneFillsAtATime == ~(FillingIn("client") /\ FillingIn("dfc"))

\* All threads and the host have nothing to do until the client, the other side
\* or the idle timer does something.
Quiet ==
  /\ \A t \in Threads : pc[t] = "idle"
  /\ port.commSem = 0 /\ ~dfcQueued
  /\ host.events = {} /\ ~host.writing /\ host.queue = 0

\* A reader is never left waiting on what is already there: when all is quiet
\* and a read is outstanding, the buffer has less than it asked for, and RTS
\* invites the rest, for all the ways in which the buffer filled and drained.
ReaderServed ==
  Quiet /\ client.reading /\ ~ch.sendXoff => ch.rx < ch.receiveLength /\ ch.rts

\* A write completed without an error had all its characters taken for sending
\* exactly once; a write after a cancelled one is excepted, since it can inherit
\* the cancelled one's requests to the DFC.
WriteMeansSent ==
  \A w \in Writes :
    /\ client.result[w] = "KErrNone"
    /\ \A v \in 1..w - 1 : client.result[v] = "KErrNone"
    => client.sent[w] = client.length[w]
=============================================================================
