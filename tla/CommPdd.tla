------------------------------- MODULE CommPdd -------------------------------
(***************************************************************************)
(* DCommWins, the physical driver (PDD) of the EKA2 serial driver, below   *)
(* the channel of CommLdd: the comm thread, the two semaphores and the one *)
(* command slot through which the kernel thread has it do its work, and    *)
(* the overlapped I/O of a COM port or of the socket it is tunnelled to.   *)
(*                                                                         *)
(* The kernel thread's actions are those of CommLdd, each with its effect  *)
(* on the PDD; the comm thread runs beside it.  StartOfInterrupt ...       *)
(* EndOfInterrupt stops the emulated threads, so what lies between them is *)
(* one step.  Data are numbered chunks: what the property of a read needs. *)
(***************************************************************************)
EXTENDS CommLdd

CONSTANTS
  UseSocket,     \* UseSocket(): the port is tunnelled to a socket
  TerminatedRead, Terminators, \* iTerminatedRead; the chunks that terminate
  FailSignals, ObeyCTS,        \* iFailSignals; KConfigObeyCTS
  IoErrors,      \* results of a write besides success
  MaxData,       \* bound: chunks the other side sends
  MaxToggle      \* bound: changes of the CTS line

ASSUME PddAssumption ==
  /\ UseSocket \in BOOLEAN /\ TerminatedRead \in BOOLEAN /\ ObeyCTS \in BOOLEAN
  /\ UseSocket => ~TerminatedRead /\ FailSignals = {}
  /\ FailSignals \subseteq {"CTS"} /\ IoErrors \subseteq Reasons
  /\ MaxData \in Nat /\ MaxToggle \in Nat

Commands == {"ETransmit", "ETransmit0", "EConfigure", "EStop", "EStart", "EDie",
             "EReceive", "EReceiveOneOrMore", "ENotifyDataAvailable",
             "ENotifySignals", "EInvalidCommand"}
Events   == {"signal", "write", "read"}

VARIABLES
  iCommand, commSem, drvSem,  \* iCommand, iCommThreadSem, iDriverThreadSem
  running, cpc,     \* iRunning (the thread is not suspended); where it is
  spare,            \* history: commands executed outside the comm thread
  signalled,        \* the signalled hEvents of the three OVERLAPPEDs
  writePending, outReq, wrReq, wrRes, txLineFail,
                    \* iWritePending; the requests whose data are in iOutDes and
                    \* in the outstanding WriteFile; iWriteOverLapped's result
  readPending, readCancel, readLen, rdOut, rdRes, rxLineFail, inBuf,
                    \* iReadPending, iReadCancel, iClientReadLength, outstanding
                    \* ReadFiles, iReadOverLapped's result, ..., contents of iInDes
  daNotify, sigWanted, sigRequested, savedSignals, curSignals,
                    \* iDataAvailableNotification, ...; WaitForEvent's local
  lines, toggles, watch,  \* signal lines; WaitCommEvent or WSAEventSelect
  rx, arrived,      \* data buffered by the host; chunks arrived so far
  purged,           \* history: chunks the client had thrown away
  got, wire         \* history: data copied to the client; writes sent

syncVars  == <<iCommand, commSem, drvSem, running, cpc, spare>>
writeVars == <<writePending, outReq, wrReq, wrRes, txLineFail, wire>>
readVars  == <<readPending, readCancel, readLen, rdOut, rdRes, rxLineFail, inBuf,
               rx, arrived, purged, got>>
noteVars  == <<daNotify, sigWanted, sigRequested, savedSignals, curSignals>>
lineVars  == <<lines, toggles, watch>>
pddVars   == <<syncVars, signalled, writeVars, readVars, noteVars, lineVars>>
vars      == <<lddVars, pddVars>>

PddInit ==
  /\ Init
  /\ iCommand = "EInvalidCommand" /\ commSem = 0 /\ drvSem = 0 /\ spare = 0
  /\ running = FALSE /\ cpc = "wait" /\ signalled = {}
  /\ writePending = "none" /\ outReq = 0 /\ wrReq = 0 /\ wrRes = "KErrNone"
  /\ txLineFail = FALSE /\ wire = << >>
  /\ readPending = "none" /\ readCancel = FALSE /\ readLen = 0
  /\ rdOut = 0 /\ rdRes = "KErrNone" /\ rxLineFail = FALSE /\ inBuf = << >>
  /\ rx = << >> /\ arrived = 0 /\ purged = {} /\ got = << >>
  /\ daNotify = FALSE /\ sigWanted = {} /\ sigRequested = {} /\ savedSignals = {}
  /\ curSignals = {}
  /\ lines = {"CTS"} /\ toggles = 0 /\ watch = "off"

-----------------------------------------------------------------------------
(* The kernel thread's side: RunCommThread *)

CommandOf(c) ==
  CASE c.fn = "Write" -> IF c.msg.len = 0 THEN "ETransmit0" ELSE "ETransmit"
    [] c.fn = "Read"  -> IF c.msg.len < 0 THEN "EReceiveOneOrMore" ELSE "EReceive"
    [] c.fn = "NotifySignals"       -> "ENotifySignals"
    [] c.fn = "NotifyDataAvailable" -> "ENotifyDataAvailable"
    [] c.fn = "Start" -> "EStart"
    [] c.fn = "Stop"  -> "EStop"
    [] c.fn = "Die"   -> "EDie"
    [] OTHER          -> "EConfigure"

Entering == call' # call /\ call'.fn \in PddFns

\* RunCommThread up to its wait: store the command and release iCommThreadSem.
\* Write has filled iOutDes, Read and NotifySignals have stored their argument.
PostCommand ==
  /\ iCommand' = IF Entering THEN CommandOf(call') ELSE iCommand
  /\ commSem' = IF Entering THEN commSem + 1 ELSE commSem
  /\ running' = IF call.fn = "Stop" /\ call' # call THEN FALSE
                ELSE running \/ (Entering /\ call'.fn \in {"Start", "Die"})
  /\ outReq' = IF Entering /\ call'.fn = "Write" /\ call'.msg.len # 0
               THEN pending'["ETx"] ELSE outReq
  /\ readLen' = IF Entering /\ call'.fn = "Read"
                THEN (IF call'.msg.len < 0 THEN -call'.msg.len ELSE call'.msg.len)
                ELSE readLen
  /\ sigWanted' = IF Entering /\ call'.fn = "NotifySignals" THEN {"CTS"} ELSE sigWanted
  /\ UNCHANGED <<cpc, spare, signalled, writePending, wrReq, wrRes, txLineFail, wire,
                 readPending, readCancel, rdOut, rdRes, rxLineFail, inBuf, rx, arrived,
                 purged, daNotify, sigRequested, savedSignals, curSignals, lineVars>>

\* WaitForSingleObject(iDriverThreadSem, INFINITE)
AcknowledgedTimeout == drvSem' = IF drvSem > 0 THEN drvSem - 1 ELSE 0
AcknowledgedUnchecked == drvSem' = drvSem - 1
Acknowledged == drvSem > 0 /\ drvSem' = drvSem - 1

\* RunCommThread's wait on iDriverThreadSem ends; Stop then suspends the thread.
KReturns == InPdd /\ Acknowledged /\ PddReturns /\ PostCommand /\ UNCHANGED got

AreAnyPending == readPending # "none" \/ writePending # "none"

\* DoCompleteRx copies the receive buffer to the client unless there is an error.
KCompleteDfc(k) ==
  /\ CompleteDfc(k)
  /\ got' = IF k = "ERx" /\ err["ERx"] = "KErrNone" THEN got \o inBuf ELSE got
  /\ PostCommand /\ UNCHANGED drvSem

KStep ==
  /\ \/ \E m \in Requests : Request(m)
     \/ Break \/ Close \/ Delete \/ TurnaroundTimeout
     \/ \E us \in TurnaroundUs : SetMinTurnaroundTime(us)
     \/ \E c \in PortControls \ {"ResetBuffers"} : PortControl(c, AreAnyPending)
     \/ \E k \in Kinds : ClearError(k)
  /\ PostCommand /\ UNCHANGED <<drvSem, got>>

\* ResetBuffers: PurgeComm(PURGE_RXCLEAR | PURGE_TXCLEAR) drops what the COM port
\* has buffered; iCommPort is no handle when the port is a socket.
KResetBuffers ==
  LET drop == IF AreAnyPending \/ UseSocket THEN {} ELSE {rx[i] : i \in 1..Len(rx)} IN
  /\ PortControl("ResetBuffers", AreAnyPending)
  /\ rx' = IF drop = {} THEN rx ELSE << >>
  /\ purged' = purged \cup drop
  /\ UNCHANGED <<syncVars, signalled, writeVars, readPending, readCancel, readLen,
                 rdOut, rdRes, rxLineFail, inBuf, arrived, got, noteVars, lineVars>>

\* PurgeComm(PURGE_TXABORT) and (PURGE_RXABORT): outstanding I/O of a COM port
\* ends with an error; a socket is not affected.
AbortWrite ==
  IF UseSocket \/ wrReq = 0 THEN UNCHANGED <<wrReq, wrRes>>
  ELSE wrReq' = 0 /\ wrRes' = "LastError"
AbortRead ==
  IF UseSocket \/ rdOut = 0 THEN UNCHANGED <<rdOut, rdRes>>
  ELSE rdOut' = 0 /\ rdRes' = "LastError"

\* ReadCancel, WriteCancel and SignalChangeCancel.  The first two call
\* DriverCommand in the kernel thread: it invalidates iCommand and releases
\* iDriverThreadSem, on which nobody is waiting.
KCancel(C) ==
  LET direct == C \cap {"ERx", "ETx"}
      abortW == "ETx" \in C /\ writePending = "ETransmit"
      abortR == "ERx" \in C /\ readPending # "none"
      n      == (IF "ERx" \in C THEN 1 ELSE 0) + (IF "ETx" \in C THEN 1 ELSE 0)
      da     == "ERx" \in C /\ readPending = "none" /\ daNotify
  IN
  /\ Cancel(C, da)
  /\ IF abortW THEN AbortWrite ELSE UNCHANGED <<wrReq, wrRes>>
  /\ IF abortR THEN AbortRead ELSE UNCHANGED <<rdOut, rdRes>>
  /\ readCancel' = (readCancel \/ (abortR /\ UseSocket))
  /\ signalled' = signalled
       \cup (IF abortW /\ ~UseSocket /\ wrReq # 0 THEN {"write"} ELSE {})
       \cup (IF abortR /\ (UseSocket \/ rdOut # 0) THEN {"read"} ELSE {})
  /\ daNotify' = (daNotify /\ ~da)
  /\ sigRequested' = IF "ESigChg" \in C THEN {} ELSE sigRequested
  /\ iCommand' = IF direct # {} THEN "EInvalidCommand" ELSE iCommand
  /\ drvSem' = drvSem + n /\ spare' = spare + n
  /\ UNCHANGED <<commSem, running, cpc, writePending, outReq, txLineFail, wire,
                 readPending, readLen, rxLineFail, inBuf, rx, arrived, purged, got,
                 sigWanted, savedSignals, curSignals, lineVars>>

Kernel == KReturns \/ KStep \/ KResetBuffers
          \/ (\E k \in Kinds : KCompleteDfc(k))
          \/ (\E C \in SUBSET {"ERx", "ETx", "ESigChg"} : KCancel(C))

-----------------------------------------------------------------------------
(* Overlapped I/O, as the comm thread starts it *)

\* ReadFileP: data that are there are taken at once.
PostReadAfterOld(buf) ==
  IF rx # << >>
  THEN /\ inBuf' = Append(inBuf, Head(rx)) /\ rx' = Tail(rx)
       /\ rdRes' = "KErrNone" /\ UNCHANGED rdOut
       /\ signalled' = signalled \cup {"read"}
  ELSE /\ rdOut' = rdOut + 1 /\ rdRes' = "pending" /\ UNCHANGED <<rx, inBuf>>
       /\ signalled' = signalled \ {"read"}
PostRead(buf) ==
  IF rx # << >>
  THEN /\ inBuf' = Append(buf, Head(rx)) /\ rx' = Tail(rx)
       /\ rdRes' = "KErrNone" /\ UNCHANGED rdOut
       /\ signalled' = signalled \cup {"read"}
  ELSE /\ rdOut' = rdOut + 1 /\ rdRes' = "pending" /\ UNCHANGED rx
       /\ inBuf' = IF TerminatedRead THEN buf ELSE inBuf
       /\ signalled' = signalled \ {"read"}

\* A comm event or FD_READ happens: it signals the event object it was asked to.
CommEvent ==
  IF watch = "on"
  THEN watch' = "off" /\ signalled' = signalled \cup {"signal"}
  ELSE watch' = "recorded" /\ UNCHANGED signalled

\* Effects on the channel, from DoWriteComplete, DoSignalCompletion, ...
ReportWrongField(k, r) ==
  /\ err' = [err EXCEPT !["ERx"] = r]
  /\ dfcq' = Enque(dfcq, k)
  /\ UNCHANGED <<status, reqVars, turnVars, call, inVars>>
Report(k, r) ==
  /\ err' = [err EXCEPT ![k] = r]
  /\ dfcq' = Enque(dfcq, k)
  /\ UNCHANGED <<status, reqVars, turnVars, call, inVars>>

-----------------------------------------------------------------------------
(* The comm thread: DriverCommand *)

Transmit ==
  /\ iCommand = "ETransmit"
  /\ IF writePending = "none"
     THEN /\ writePending' = "ETransmit"
          /\ wrReq' = outReq /\ wrRes' = "pending"
          /\ signalled' = signalled \ {"write"}
     ELSE UNCHANGED <<writePending, wrReq, wrRes, signalled>>
  /\ UNCHANGED <<lddVars, outReq, txLineFail, wire, readVars, noteVars, lineVars>>

Transmit0 ==
  /\ iCommand = "ETransmit0"
  /\ IF writePending # "none" THEN UNCHANGED <<writePending, lddVars>>
     ELSE IF ObeyCTS /\ "CTS" \notin lines
     THEN writePending' = "ETransmit0" /\ UNCHANGED lddVars
     ELSE Report("ETx", "KErrNone") /\ UNCHANGED writePending
  /\ UNCHANGED <<signalled, outReq, wrReq, wrRes, txLineFail, wire, readVars,
                 noteVars, lineVars>>

Receive ==
  /\ iCommand \in {"EReceive", "EReceiveOneOrMore"}
  /\ IF readPending = "none"
     THEN readPending' = iCommand /\ PostRead(<< >>)
     ELSE UNCHANGED <<readPending, signalled, rdOut, rdRes, inBuf, rx>>
  /\ UNCHANGED <<lddVars, writeVars, readCancel, readLen, rxLineFail, arrived,
                 purged, got, noteVars, lineVars>>

\* EStart: WaitCommEvent, or QueSocketRead for a socket.
StartPort ==
  /\ iCommand = "EStart"
  /\ IF UseSocket
     THEN /\ watch' = "on"
          /\ signalled' = IF rx # << >> THEN signalled \cup {"read"} ELSE signalled
     ELSE IF watch = "recorded"
     THEN watch' = "off" /\ signalled' = signalled \cup {"signal"}
     ELSE watch' = "on" /\ UNCHANGED signalled
  /\ UNCHANGED <<lddVars, writeVars, readVars, noteVars, lines, toggles>>

\* "can wait forever on socket": only a COM port's last write is waited for.
AwaitsWriteAlways == writePending = "ETransmit"
AwaitsWrite == ~UseSocket /\ writePending = "ETransmit"

\* EStop falls through to EStopNoDrain.  On a COM port it waits for the last
\* write and then for the WaitCommEvent that SetCommMask ends.
StopPort ==
  /\ iCommand = "EStop"
  /\ AwaitsWrite => "write" \in signalled
  /\ UseSocket \/ watch = "on" \/ "signal" \in signalled
  /\ signalled' = signalled \ ((IF UseSocket THEN {} ELSE {"signal"})
                                \cup (IF AwaitsWrite THEN {"write"} ELSE {}))
  /\ watch' = IF UseSocket THEN watch ELSE "off"
  /\ writePending' = "none"
  /\ UNCHANGED <<lddVars, outReq, wrReq, wrRes, txLineFail, wire, readVars, noteVars,
                 lines, toggles>>

NotifyData ==
  /\ iCommand = "ENotifyDataAvailable"
  /\ daNotify' = TRUE
  /\ UNCHANGED <<lddVars, signalled, writeVars, readVars, sigWanted, sigRequested,
                 savedSignals, curSignals, lineVars>>

NotifySignal ==
  LET changed == ((lines \ savedSignals) \cup (savedSignals \ lines)) \cap sigWanted IN
  /\ iCommand = "ENotifySignals"
  /\ IF changed # {}
     THEN /\ Report("ESigChg", "KErrNone")
          /\ savedSignals' = lines /\ sigWanted' = {} /\ UNCHANGED sigRequested
     ELSE sigRequested' = sigWanted /\ UNCHANGED <<lddVars, savedSignals, sigWanted>>
  /\ UNCHANGED <<signalled, writeVars, readVars, daNotify, curSignals, lineVars>>

\* EConfigure (DoConfigure sets the DCB), EInvalidCommand and EDie
NoEffect ==
  /\ iCommand \in {"EConfigure", "EInvalidCommand", "EDie"}
  /\ UNCHANGED <<lddVars, signalled, writeVars, readVars, noteVars, lineVars>>

\* Where the comm thread goes from DriverCommand: EDie signals and does not return.
AfterCommandNoExit == "signalDriver"
AfterCommand == IF iCommand = "EDie" THEN "signalDie" ELSE "signalDriver"

\* DriverCommand(iCommand), up to its SignalDriverThread.
DriverCommand ==
  /\ running /\ cpc = "event1"
  /\ \/ Transmit \/ Transmit0 \/ Receive \/ StartPort \/ StopPort
     \/ NotifyData \/ NotifySignal \/ NoEffect
  /\ iCommand' = IF iCommand = "EDie" THEN iCommand ELSE "EInvalidCommand"
  /\ cpc' = AfterCommand
  /\ UNCHANGED <<commSem, drvSem, running, spare>>

\* SignalDriverThread, at the end of DriverCommand or in its case EDie
SignalDriverThread ==
  /\ running /\ cpc \in {"signalDriver", "signalDie"}
  /\ drvSem' = drvSem + 1
  /\ cpc' = IF cpc = "signalDie" THEN "exiting" ELSE "wait"
  /\ UNCHANGED <<lddVars, iCommand, commSem, running, spare, signalled, writeVars,
                 readVars, noteVars, lineVars>>

\* ExitThread(1): the kernel thread may be back from RunCommThread before it.
ExitThread ==
  /\ running /\ cpc = "exiting" /\ cpc' = "dead"
  /\ UNCHANGED <<lddVars, iCommand, commSem, drvSem, running, spare, signalled,
                 writeVars, readVars, noteVars, lineVars>>

-----------------------------------------------------------------------------
(* The comm thread: WaitForEvent *)

\* The events are created with automatic reset.
ManualReset(e) == signalled \ ({e} \ {"read"})
Reset(e) == signalled \ {e}

TakeCommSemBug == UNCHANGED commSem
TakeCommSem == commSem' = commSem - 1

\* WaitForMultipleObjects takes the first signalled of its four objects.
WaitForEvent ==
  /\ running /\ cpc = "wait"
  /\ \/ /\ "signal" \in signalled
        /\ cpc' = "event0" /\ signalled' = Reset("signal") /\ UNCHANGED commSem
     \/ /\ "signal" \notin signalled /\ commSem > 0
        /\ cpc' = "event1" /\ TakeCommSem /\ UNCHANGED signalled
     \/ /\ "signal" \notin signalled /\ commSem = 0 /\ "write" \in signalled
        /\ cpc' = "event2" /\ signalled' = Reset("write") /\ UNCHANGED commSem
     \/ /\ signalled = {"read"} /\ commSem = 0
        /\ cpc' = "event3" /\ signalled' = Reset("read") /\ UNCHANGED commSem
  /\ UNCHANGED <<lddVars, iCommand, drvSem, running, spare, writeVars, readVars,
                 noteVars, lineVars>>

\* A comm event, in the order of its three interrupts: data are available ...
DataAvailableEvent ==
  /\ running /\ cpc = "event0"
  /\ daNotify' = FALSE
  /\ dfcq' = IF daNotify THEN Enque(dfcq, "ERxDA") ELSE dfcq
  /\ curSignals' = lines
  /\ cpc' = "signals"
  /\ UNCHANGED <<status, reqVars, err, turnVars, call, inVars, iCommand, commSem,
                 drvSem, running, spare, signalled, writeVars, readVars, sigWanted,
                 sigRequested, savedSignals, lineVars>>

\* ... a line that must not go down is down: abort what is outstanding; a signal
\* the client asked about changed ...
Changed(mask) ==
  ((curSignals \ savedSignals) \cup (savedSignals \ curSignals)) \cap mask

SignalsEvent ==
  LET fail  == ~(FailSignals \subseteq curSignals)
      failR == fail /\ readPending # "none"
      failW == fail /\ writePending # "none"
  IN
  /\ running /\ cpc = "signals"
  /\ rxLineFail' = (rxLineFail \/ failR) /\ txLineFail' = (txLineFail \/ failW)
  /\ IF failR THEN AbortRead ELSE UNCHANGED <<rdOut, rdRes>>
  /\ IF failW THEN AbortWrite ELSE UNCHANGED <<wrReq, wrRes>>
  /\ signalled' = signalled \cup (IF failR /\ rdOut # 0 THEN {"read"} ELSE {})
                            \cup (IF failW /\ wrReq # 0 THEN {"write"} ELSE {})
  /\ IF Changed(sigRequested) # {}
     THEN Report("ESigChg", "KErrNone") /\ savedSignals' = curSignals /\ sigRequested' = {}
     ELSE UNCHANGED <<lddVars, savedSignals, sigRequested>>
  /\ cpc' = "heldWrite"
  /\ UNCHANGED <<iCommand, commSem, drvSem, running, spare, writePending, outReq, wire,
                 readPending, readCancel, readLen, inBuf, rx, arrived, purged, got,
                 daNotify, sigWanted, curSignals, lineVars>>

\* ... an empty write was waiting for CTS; then the next WaitCommEvent.
HeldWriteEvent ==
  /\ running /\ cpc = "heldWrite"
  /\ IF writePending = "ETransmit0" /\ "CTS" \in curSignals
     THEN Report("ETx", "KErrNone") /\ writePending' = "none"
     ELSE UNCHANGED <<lddVars, writePending>>
  /\ watch' = IF watch = "recorded" THEN "off" ELSE "on"
  /\ signalled' = IF watch = "recorded" THEN signalled \cup {"signal"} ELSE signalled
  /\ cpc' = "wait"
  /\ UNCHANGED <<iCommand, commSem, drvSem, running, spare, outReq, wrReq, wrRes,
                 txLineFail, wire, readVars, noteVars, lines, toggles>>

\* A line failure, or GetOverlappedResult, which fails on an operation in progress
WriteResultLineOnly == IF txLineFail THEN "KErrCommsLineFail" ELSE "KErrNone"
WriteResult == IF txLineFail THEN "KErrCommsLineFail"
               ELSE IF wrRes = "pending" THEN "LastError" ELSE wrRes

ClearWritePendingBug == UNCHANGED writePending
ClearWritePending == writePending' = "none"

\* Write completion
WriteCompletion ==
  /\ running /\ cpc = "event2"
  /\ Report("ETx", WriteResult)
  /\ txLineFail' = FALSE /\ ClearWritePending
  /\ cpc' = "wait"
  /\ UNCHANGED <<iCommand, commSem, drvSem, running, spare, signalled, outReq, wrReq,
                 wrRes, wire, readVars, noteVars, lineVars>>

\* DoReadComplete of a terminated read: not yet what the client asked for?
ReadMoreNoTerminator ==
  inBuf = << >> \/ (Len(inBuf) # readLen /\ readPending = "EReceive")
ReadMore ==
  \/ inBuf = << >>
  \/ /\ Len(inBuf) # readLen /\ readPending = "EReceive"
     /\ inBuf[Len(inBuf)] \notin Terminators

\* Read completion: the result, then DoReadComplete, which reads on or completes.
ReadCompletion ==
  LET cancelled == UseSocket /\ readCancel
      result == IF cancelled THEN "KErrCancel"
                ELSE IF rxLineFail THEN "KErrCommsLineFail"
                ELSE IF rdRes = "pending" THEN "LastError" ELSE rdRes
      more   == TerminatedRead /\ result = "KErrNone" /\ ReadMore
  IN
  /\ running /\ cpc = "event3"
  /\ readCancel' = (readCancel /\ ~cancelled)
  /\ rxLineFail' = (rxLineFail /\ cancelled)
  /\ err' = [err EXCEPT !["ERx"] = result]
  /\ IF more THEN PostRead(inBuf) ELSE UNCHANGED <<signalled, rdOut, rdRes, inBuf, rx>>
  /\ cpc' = IF more THEN "wait" ELSE "completeRead"
  /\ UNCHANGED <<status, reqVars, dfcq, turnVars, call, inVars, iCommand, commSem,
                 drvSem, running, spare, writeVars, readPending, readLen, arrived,
                 purged, got, noteVars, lineVars>>

CompleteRead ==
  /\ running /\ cpc = "completeRead"
  /\ readPending' = "none"
  /\ dfcq' = Enque(dfcq, "ERx")
  /\ cpc' = "wait"
  /\ UNCHANGED <<status, reqVars, err, turnVars, call, inVars, iCommand, commSem, drvSem,
                 running, spare, signalled, writeVars, readCancel, readLen, rdOut, rdRes,
                 rxLineFail, inBuf, rx, arrived, purged, got, noteVars, lineVars>>

CommThread == WaitForEvent \/ DriverCommand \/ SignalDriverThread \/ ExitThread
              \/ DataAvailableEvent \/ SignalsEvent \/ HeldWriteEvent
              \/ WriteCompletion \/ ReadCompletion \/ CompleteRead

-----------------------------------------------------------------------------
(* The host: the COM port or the socket *)

WriteDone ==
  /\ wrReq # 0
  /\ \E r \in {"KErrNone"} \cup IoErrors :
       /\ wrRes' = r
       /\ wire' = IF r = "KErrNone" THEN Append(wire, wrReq) ELSE wire
  /\ wrReq' = 0 /\ signalled' = signalled \cup {"write"}
  /\ UNCHANGED <<lddVars, syncVars, writePending, outReq, txLineFail, readVars,
                 noteVars, lineVars>>

\* A chunk arrives: for the outstanding ReadFile if there is one, else it is
\* buffered.  It is a comm event of a COM port (EV_RXCHAR); on a socket FD_READ
\* may signal the read event.
DataArrives ==
  LET n == arrived + 1 IN
  /\ arrived < MaxData /\ arrived' = n
  /\ IF rdOut > 0
     THEN /\ inBuf' = IF TerminatedRead THEN Append(inBuf, n) ELSE <<n>>
          /\ rdOut' = rdOut - 1 /\ rdRes' = "KErrNone" /\ UNCHANGED rx
     ELSE rx' = Append(rx, n) /\ UNCHANGED <<inBuf, rdOut, rdRes>>
  /\ LET read == IF rdOut > 0 THEN {"read"} ELSE {} IN
     IF UseSocket
     THEN /\ UNCHANGED watch
          /\ \E fdRead \in {{}, {"read"}} :
               /\ fdRead # {} => watch = "on"
               /\ signalled' = signalled \cup read \cup fdRead
     ELSE IF watch = "on"
     THEN watch' = "off" /\ signalled' = signalled \cup read \cup {"signal"}
     ELSE watch' = "recorded" /\ signalled' = signalled \cup read
  /\ UNCHANGED <<lddVars, syncVars, writeVars, readPending, readCancel, readLen,
                 rxLineFail, purged, got, noteVars, lines, toggles>>

LineChanges ==
  /\ ~UseSocket /\ toggles < MaxToggle /\ toggles' = toggles + 1
  /\ lines' = {"CTS"} \ lines
  /\ CommEvent
  /\ UNCHANGED <<lddVars, syncVars, writeVars, readVars, noteVars>>

Host == WriteDone \/ DataArrives \/ LineChanges

TimerInterrupt == TimerExpired /\ UNCHANGED pddVars

PddNext == Kernel \/ CommThread \/ Host \/ TimerInterrupt
PddSpec == PddInit /\ [][PddNext]_vars

\* Fairness: Windows schedules both threads, the emulator's tick runs the timer,
\* and the host finishes a write; whether data arrive is up to the other side.
Fairness == /\ WF_vars(KReturns) /\ WF_vars(TurnaroundTimeout /\ Kernel)
            /\ \A k \in Kinds : WF_vars(KCompleteDfc(k)) /\ WF_vars(ClearError(k) /\ Kernel)
            /\ WF_vars(CommThread) /\ WF_vars(TimerInterrupt)
FairSpec     == PddSpec /\ Fairness
FairHostSpec == FairSpec /\ WF_vars(WriteDone)

-----------------------------------------------------------------------------
(* Properties *)

PddTypeOK ==
  /\ TypeOK
  /\ iCommand \in Commands /\ {commSem, drvSem, spare} \subseteq Nat
  /\ running \in BOOLEAN
  /\ cpc \in {"wait", "event0", "signals", "heldWrite", "event1", "event2",
              "event3", "completeRead", "signalDriver", "signalDie", "exiting", "dead"}
  /\ signalled \subseteq Events
  /\ writePending \in {"none", "ETransmit", "ETransmit0"}
  /\ {outReq, wrReq, readLen, rdOut, arrived, toggles} \subseteq Nat
  /\ wrRes \in Reasons \cup {"pending"} /\ rdRes \in Reasons \cup {"pending"}
  /\ {txLineFail, rxLineFail, readCancel, daNotify} \subseteq BOOLEAN
  /\ readPending \in {"none", "EReceive", "EReceiveOneOrMore"}
  /\ {sigWanted, sigRequested, savedSignals, curSignals, lines} \subseteq SUBSET {"CTS"}
  /\ watch \in {"on", "off", "recorded"}
  /\ {inBuf, rx, got, wire} \subseteq Seq(Nat) /\ purged \subseteq Nat

BoolToNat(b) == IF b THEN 1 ELSE 0

\* The semaphores neither lose nor invent a hand-over: commands given to the comm
\* thread, being executed or acknowledged are the call the kernel thread waits
\* in plus the acknowledgements nobody asked for.
TokenBalance ==
  commSem + BoolToNat(cpc \in {"event1", "signalDriver", "signalDie"}) + drvSem
    = BoolToNat(InPdd) + spare

\* RunCommThread is a synchronous call: the comm thread finds in iCommand the
\* command of the call the kernel thread is waiting in.
CommandIntact == cpc = "event1" => InPdd /\ iCommand = CommandOf(call)

\* "executed when the semaphore has been signalled": what the comm thread executes
\* after taking iCommThreadSem is a command somebody stored.
CommandForSignal == cpc = "event1" => iCommand # "EInvalidCommand"

\* A write completes with KErrNone only when its own data went out (writes of
\* this property are not empty), and no request's data go out twice or late.
WriteMeansSent ==
  /\ last["ETx"].reason = "KErrNone" /\ last["ETx"].req > 0
       => \E i \in 1..Len(wire) : wire[i] = last["ETx"].req
  /\ \A i, j \in 1..Len(wire) : i < j => wire[i] < wire[j]

\* The client is given what arrived, every chunk at most once and in order, and
\* none is skipped unless the client reset the buffers that held it or line
\* failures are reported instead of data.
ReadsInOrder ==
  /\ \A i, j \in 1..Len(got) : i < j => got[i] < got[j]
  /\ FailSignals = {} =>
       \A i \in 1..Len(got) :
         1..got[i] - 1 \subseteq purged \cup {got[j] : j \in 1..i - 1}
  /\ \A i \in 1..Len(got) : got[i] \notin purged

\* The client's descriptor is written only while its read is outstanding.
CopyOnlyWhilePending == [][got' # got => pending["ERx"] # 0]_vars

\* The read event stands for the completion of a read that is pending.
ReadEventMeansRead == cpc = "event3" => readPending # "none"

\* A terminated read ends where its terminator is: it returns the data up to the
\* first terminator, or as many as were asked for when none is among them.
TerminatedReadsEnd ==
  TerminatedRead /\ cpc = "completeRead" /\ err["ERx"] = "KErrNone" =>
    /\ inBuf # << >> /\ Len(inBuf) <= readLen
    /\ \A i \in 1..Len(inBuf) - 1 : inBuf[i] \notin Terminators
    /\ readPending = "EReceive" =>
         Len(inBuf) = readLen \/ inBuf[Len(inBuf)] \in Terminators

\* A client whose reads and writes are all completed may configure the port: the
\* driver does not find an operation of its own still pending and panic.
NoPanic == call.fn # "Panic"

\* The comm thread has left the driver: at most its ExitThread is to come, which uses
\* nothing of the driver's.
HasLeft == cpc \in {"exiting", "dead"}

\* Once the destructors have run, the comm thread uses none of the objects and
\* handles they freed.  It may still exist: EDie signals first and exits after.
DeletedMeansLeft == status = "Deleted" => HasLeft

\* "used to indicate that the read was cancelled": only a read the client
\* cancelled completes with KErrCancel.
OnlyCancelledReadsCancel ==
  last["ERx"].reason = "KErrCancel" => last["ERx"].req <= cancelReq["ERx"]

\* "complete any outstanding ops with failure": when a line fails, the outstanding
\* write is about to complete.
LineFailCompletesWrite ==
  [][SignalsEvent /\ ~(FailSignals \subseteq curSignals) /\ writePending # "none"
       => "write" \in signalled']_vars

\* Every write completes, held back by the turnaround timer or not.
WritesComplete == pending["ETx"] # 0 ~> pending["ETx"] = 0

\* A write the client cancels completes, whatever happened to its data.
CancelledWritesComplete ==
  pending["ETx"] # 0 /\ cancelReq["ETx"] = pending["ETx"] ~> pending["ETx"] = 0

\* A read the client cancels completes.
CancelledReadsComplete ==
  pending["ERx"] # 0 /\ cancelReq["ERx"] = pending["ERx"] ~> pending["ERx"] = 0

\* A socket's close is not held up by a write the other side never takes.
CloseCompletes == call.fn = "Stop" ~> status = "EClosed"

\* CommPdd implements the physical driver CommLdd assumes.
ImplementsLdd == Spec
=============================================================================
