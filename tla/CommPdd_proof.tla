---------------------------- MODULE CommPdd_proof ----------------------------
(***************************************************************************)
(* Proofs about CommPdd, for every client, port and bound: what its two    *)
(* semaphores guarantee about the hand-over of commands; that it           *)
(* implements the physical driver CommLdd assumes; and, in the second      *)
(* half, what becomes of the data.                                         *)
(***************************************************************************)
EXTENDS CommPdd, CommLdd_proof

\* DoRequest never leaves the kernel thread in the call it was in.
LEMMA DispatchCalls ==
  ASSUME NEW m, NEW n, Dispatch(m, n)
  PROVE  call'.fn \in {"none", "Read", "Write", "NotifySignals", "NotifyDataAvailable"}
  BY NoCallType DEF Dispatch, DispatchRead, DispatchWrite, DispatchNotify

\* A call of the physical driver returns: another call begins or none.
LEMMA ReturnsCalls ==
  ASSUME InPdd, PddReturns
  PROVE  call' # call /\ call'.fn \notin {"Start", "Stop", "Die", "Panic"}
<1>1. CASE StartReturns
  <2>1. call'.fn \in {"none", "Read", "Write", "NotifySignals", "NotifyDataAvailable"}
    BY <1>1, DispatchCalls, NoCallType DEF StartReturns, DispatchBreak
  <2>. QED  BY <1>1, <2>1 DEF StartReturns
<1>2. CASE StopReturns
  BY <1>2, NoCallType DEF StopReturns, ShutdownTail
<1>3. CASE DieReturns
  BY <1>3, NoCallType DEF DieReturns
<1>4. CASE CallReturns
  BY <1>4, NoCallType DEF CallReturns, InPdd, PddFns
<1>. QED  BY <1>1, <1>2, <1>3, <1>4 DEF PddReturns

\* Its other steps begin outside the physical driver; Complete and the queue do
\* not matter here.
LEMMA StepBeginsOutside ==
  ASSUME KStep
  PROVE  ~InPdd
<1>1. Idle => ~InPdd
  BY NoCallType DEF Idle, InPdd, PddFns
<1>2. \A k \in Kinds : ClearError(k) => ~InPdd
  BY DEF ClearError, InPdd, PddFns, Kinds
<1>3. \A m \in Requests : Request(m) => Idle
  BY DEF Request
<1>4. Break \/ Close \/ Delete \/ TurnaroundTimeout => Idle
  BY DEF Break, Close, Delete, TurnaroundTimeout
<1>5. \A us \in TurnaroundUs : SetMinTurnaroundTime(us) => Idle
  BY DEF SetMinTurnaroundTime
<1>6. \A c \in PortControls : PortControl(c, AreAnyPending) => Idle
  BY DEF PortControl
<1>. QED  BY <1>1, <1>2, <1>3, <1>4, <1>5, <1>6 DEF KStep

SemTypes == commSem \in Nat /\ drvSem \in Nat /\ spare \in Nat

\* The actions of the comm thread and of the host after which neither the call nor
\* the semaphores have changed.
LEMMA EventSteps ==
  ASSUME \/ DataAvailableEvent \/ SignalsEvent \/ HeldWriteEvent
         \/ WriteCompletion \/ ReadCompletion \/ CompleteRead
         \/ Host \/ TimerInterrupt \/ UNCHANGED vars
  PROVE  /\ UNCHANGED <<call, iCommand, commSem, drvSem, spare, running>>
         /\ cpc' = cpc \/ {cpc, cpc'} \cap {"event1", "signalDriver", "signalDie", "exiting", "dead"} = {}
<1>1. CASE DataAvailableEvent
  BY <1>1 DEF DataAvailableEvent
<1>2. CASE SignalsEvent
  BY <1>2 DEF SignalsEvent, Report, lddVars
<1>3. CASE HeldWriteEvent
  BY <1>3 DEF HeldWriteEvent, Report, lddVars
<1>4. CASE WriteCompletion
  BY <1>4 DEF WriteCompletion, Report
<1>5. CASE ReadCompletion
  BY <1>5 DEF ReadCompletion
<1>6. CASE CompleteRead
  BY <1>6 DEF CompleteRead
<1>7. CASE Host
  BY <1>7 DEF Host, WriteDone, DataArrives, LineChanges, lddVars, syncVars
<1>8. CASE TimerInterrupt
  BY <1>8 DEF TimerInterrupt, TimerExpired, pddVars, syncVars
<1>9. CASE UNCHANGED vars
  BY <1>9 DEF vars, lddVars, pddVars, syncVars
<1>. QED  BY <1>1, <1>2, <1>3, <1>4, <1>5, <1>6, <1>7, <1>8, <1>9

\* ResetBuffers purges the port in the kernel thread, outside the hand-overs.
LEMMA ResetSteps ==
  ASSUME KResetBuffers
  PROVE  /\ ~InPdd /\ ~InPdd' /\ call'.fn # "Die"
         /\ UNCHANGED <<commSem, drvSem, cpc, spare, iCommand, status>>
<1>1. call = NoCall /\ call' \in {Calling("Panic"), NoCall}
  BY DEF KResetBuffers, PortControl, Idle
<1>2. ~InPdd /\ ~InPdd' /\ call'.fn # "Die"
  BY <1>1, NoCallType, CallingType DEF InPdd, PddFns, Fns
<1>. QED  BY <1>2 DEF KResetBuffers, PortControl, syncVars

\* What DriverCommand does to the channel never touches the kernel thread's call.
LEMMA CommandSteps ==
  ASSUME DriverCommand
  PROVE  UNCHANGED <<call, status>>
  BY DEF DriverCommand, Transmit, Transmit0, Receive, StartPort, StopPort, NotifyData,
         NotifySignal, NoEffect, Report, lddVars

-----------------------------------------------------------------------------
(* Conservation of the hand-overs *)

BalanceInv == SemTypes /\ TokenBalance

LEMMA BalanceStep == BalanceInv /\ [PddNext]_vars => BalanceInv'
<1>. SUFFICES ASSUME BalanceInv, [PddNext]_vars
              PROVE  BalanceInv'
  OBVIOUS
<1>. USE DEF BalanceInv, SemTypes, TokenBalance, BoolToNat
<1>1. CASE KReturns
  <2>1. InPdd /\ PddReturns /\ call' # call
    BY <1>1, ReturnsCalls DEF KReturns
  <2>2. drvSem > 0 /\ drvSem' = drvSem - 1
    BY <1>1 DEF KReturns, Acknowledged
  <2>3. commSem' = IF InPdd' THEN commSem + 1 ELSE commSem
    BY <1>1, <2>1 DEF KReturns, PostCommand, Entering, InPdd
  <2>4. UNCHANGED <<cpc, spare>>
    BY <1>1 DEF KReturns, PostCommand
  <2>. QED  BY <2>1, <2>2, <2>3, <2>4
<1>2. CASE KStep
  <2>1. ~InPdd
    BY <1>2, StepBeginsOutside
  <2>2. commSem' = IF InPdd' THEN commSem + 1 ELSE commSem
    BY <1>2, <2>1 DEF KStep, PostCommand, Entering, InPdd
  <2>3. UNCHANGED <<cpc, spare, drvSem>>
    BY <1>2 DEF KStep, PostCommand
  <2>. QED  BY <2>1, <2>2, <2>3
<1>3. ASSUME NEW k \in Kinds, KCompleteDfc(k)
      PROVE  BalanceInv'
  <2>1. ~InPdd /\ ~InPdd'
    <3>1. call = NoCall /\ call' = Calling(k) /\ k \in Fns
      BY <1>3 DEF KCompleteDfc, CompleteDfc, Idle, Fns
    <3>. QED  BY <3>1, NoCallType, CallingType DEF InPdd, PddFns, Kinds
  <2>2. UNCHANGED <<commSem, drvSem, cpc, spare>>
    BY <1>3, <2>1 DEF KCompleteDfc, PostCommand, Entering, InPdd
  <2>. QED  BY <2>1, <2>2
<1>4. ASSUME NEW C \in SUBSET {"ERx", "ETx", "ESigChg"}, KCancel(C)
      PROVE  BalanceInv'
  <2>. DEFINE n == (IF "ERx" \in C THEN 1 ELSE 0) + (IF "ETx" \in C THEN 1 ELSE 0)
  <2>1. n \in Nat
    OBVIOUS
  <2>2. drvSem' = drvSem + n /\ spare' = spare + n
    BY <1>4 DEF KCancel
  <2>3. UNCHANGED <<call, commSem, cpc>>
    BY <1>4 DEF KCancel, Cancel
  <2>. HIDE DEF n
  <2>. QED  BY <2>1, <2>2, <2>3 DEF InPdd
<1>5. CASE WaitForEvent
  <2>1. UNCHANGED <<call, drvSem, spare>> /\ cpc = "wait"
    BY <1>5 DEF WaitForEvent, lddVars
  <2>2. \/ cpc' = "event1" /\ commSem > 0 /\ commSem' = commSem - 1
        \/ cpc' \in {"event0", "event2", "event3"} /\ UNCHANGED commSem
    BY <1>5 DEF WaitForEvent, TakeCommSem
  <2>. QED  BY <2>1, <2>2 DEF InPdd
<1>6. CASE DriverCommand
  <2>1. UNCHANGED <<call, commSem, spare>> /\ cpc = "event1"
    BY <1>6, CommandSteps DEF DriverCommand
  <2>2. cpc' \in {"signalDriver", "signalDie"} /\ drvSem' = drvSem
    BY <1>6 DEF DriverCommand, AfterCommand
  <2>. QED  BY <2>1, <2>2 DEF InPdd
<1>7. CASE SignalDriverThread \/ ExitThread
  BY <1>7 DEF SignalDriverThread, ExitThread, lddVars, InPdd
<1>8. CASE \/ DataAvailableEvent \/ SignalsEvent \/ HeldWriteEvent
           \/ WriteCompletion \/ ReadCompletion \/ CompleteRead
           \/ Host \/ TimerInterrupt \/ UNCHANGED vars
  BY <1>8, EventSteps DEF InPdd
<1>9. CASE KResetBuffers
  BY <1>9, ResetSteps
<1>. QED  BY <1>1, <1>2, <1>3, <1>4, <1>5, <1>6, <1>7, <1>8, <1>9
          DEF PddNext, Kernel, CommThread

LEMMA BalanceInit == PddInit => BalanceInv
  BY NoCallType DEF PddInit, Init, BalanceInv, SemTypes, TokenBalance, BoolToNat, InPdd, PddFns

LEMMA Balanced == PddSpec => []BalanceInv
  BY BalanceInit, BalanceStep, PTL DEF PddSpec

\* iCommThreadSem and iDriverThreadSem neither lose nor invent a hand-over between
\* RunCommThread and the comm thread, cancels included.
THEOREM HandOversBalance == PddSpec => []TokenBalance
<1>1. BalanceInv => TokenBalance
  BY DEF BalanceInv
<1>. QED  BY Balanced, <1>1, PTL

-----------------------------------------------------------------------------
(* A client that never cancels.  Then nobody releases iDriverThreadSem but the *)
(* comm thread (spare stays 0), so by TokenBalance there is at most one         *)
(* hand-over, and it is the one the kernel thread is waiting for.               *)

CommandInv ==
  /\ BalanceInv
  /\ spare = 0
  /\ commSem > 0 \/ cpc = "event1" => iCommand = CommandOf(call)
  /\ call.fn = "Die" => cpc # "signalDriver" /\ (drvSem > 0 => HasLeft)
  /\ DeletedMeansLeft

\* No hand-over is under way outside RunCommThread, and inside it exactly one.
LEMMA OneHandOver ==
  ASSUME CommandInv
  PROVE  /\ ~InPdd => commSem = 0 /\ drvSem = 0 /\ cpc \notin {"event1", "signalDriver", "signalDie"}
         /\ InPdd /\ drvSem > 0 => commSem = 0 /\ cpc \notin {"event1", "signalDriver", "signalDie"}
         /\ InPdd /\ commSem > 0 => drvSem = 0 /\ cpc \notin {"event1", "signalDriver", "signalDie"}
         /\ cpc \in {"event1", "signalDriver", "signalDie"} => InPdd /\ commSem = 0 /\ drvSem = 0
  BY DEF CommandInv, BalanceInv, SemTypes, TokenBalance, BoolToNat

LEMMA CommandStep ==
  "Cancel" \notin Ops /\ CommandInv /\ [PddNext]_vars => CommandInv'
<1>. SUFFICES ASSUME "Cancel" \notin Ops, CommandInv, [PddNext]_vars
              PROVE  CommandInv'
  OBVIOUS
<1>0. BalanceInv'
  BY BalanceStep DEF CommandInv
<1>. USE DEF CommandInv, DeletedMeansLeft, HasLeft
<1>1. CASE KReturns
  <2>1. InPdd /\ PddReturns /\ drvSem > 0 /\ call' # call /\ call'.fn # "Die"
    BY <1>1, ReturnsCalls DEF KReturns, Acknowledged
  <2>2. commSem = 0 /\ cpc \notin {"event1", "signalDriver", "signalDie"}
    BY <2>1, OneHandOver
  <2>3. UNCHANGED <<cpc, spare>>
    BY <1>1 DEF KReturns, PostCommand
  <2>4. commSem' > 0 => iCommand' = CommandOf(call')
    BY <1>1, <2>2 DEF KReturns, PostCommand, Entering
  <2>5. status' = "Deleted" => HasLeft
    BY <2>1 DEF PddReturns, StartReturns, StopReturns, ShutdownTail, DieReturns, CallReturns
  <2>. QED  BY <1>0, <2>1, <2>2, <2>3, <2>4, <2>5
<1>2. CASE KStep
  <2>1. /\ commSem = 0 /\ drvSem = 0 /\ cpc \notin {"event1", "signalDriver", "signalDie"}
        /\ UNCHANGED <<cpc, spare, drvSem>>
    BY <1>2, StepBeginsOutside, OneHandOver DEF KStep, PostCommand
  <2>2. commSem' > 0 => iCommand' = CommandOf(call')
    BY <1>2, <2>1 DEF KStep, PostCommand, Entering
  <2>3. status' = "Deleted" => status = "Deleted"
    BY <1>2 DEF KStep, Request, Break, Close, ShutdownTail, Delete, TurnaroundTimeout,
                SetMinTurnaroundTime, PortControl, ClearError
  <2>. QED  BY <1>0, <2>1, <2>2, <2>3
<1>3. ASSUME NEW k \in Kinds, KCompleteDfc(k)
      PROVE  CommandInv'
  <2>1. call = NoCall /\ call' = Calling(k) /\ k \in Fns
    BY <1>3 DEF KCompleteDfc, CompleteDfc, Idle, Fns
  <2>2. ~InPdd /\ ~InPdd' /\ call'.fn # "Die"
    BY <2>1, NoCallType, CallingType DEF InPdd, PddFns, Kinds
  <2>3. UNCHANGED <<commSem, drvSem, cpc, spare, iCommand, status>>
    BY <1>3, <2>2 DEF KCompleteDfc, CompleteDfc, PostCommand, Entering, InPdd
  <2>. QED  BY <1>0, <2>2, <2>3, OneHandOver
<1>4. ASSUME NEW C \in SUBSET {"ERx", "ETx", "ESigChg"}, KCancel(C)
      PROVE  CommandInv'
  BY <1>4 DEF KCancel, Cancel
<1>5. CASE WaitForEvent
  <2>1. UNCHANGED <<call, status, iCommand, drvSem, spare>> /\ cpc = "wait"
    BY <1>5 DEF WaitForEvent, lddVars
  <2>2. \/ cpc' = "event1" /\ commSem > 0 /\ commSem' = commSem - 1
        \/ cpc' \in {"event0", "event2", "event3"} /\ UNCHANGED commSem
    BY <1>5 DEF WaitForEvent, TakeCommSem
  <2>3. commSem' > 0 => commSem > 0
    BY <2>2 DEF BalanceInv, SemTypes
  <2>. QED  BY <1>0, <2>1, <2>2, <2>3
<1>6. CASE DriverCommand
  <2>1. UNCHANGED <<call, status, commSem, spare>> /\ cpc = "event1"
    BY <1>6, CommandSteps DEF DriverCommand
  <2>2. InPdd /\ commSem = 0 /\ drvSem = 0
    BY <2>1, OneHandOver
  <2>3. call.fn = "Die" => iCommand = "EDie"
    BY <2>1 DEF CommandOf
  <2>4. /\ drvSem' = drvSem
        /\ cpc' = IF iCommand = "EDie" THEN "signalDie" ELSE "signalDriver"
    BY <1>6 DEF DriverCommand, AfterCommand
  <2>. QED  BY <1>0, <2>1, <2>2, <2>3, <2>4
<1>7. CASE SignalDriverThread
  <2>1. /\ <<cpc, cpc'>> \in {<<"signalDriver", "wait">>, <<"signalDie", "exiting">>}
        /\ UNCHANGED <<call, status, commSem, spare, iCommand>>
    BY <1>7 DEF SignalDriverThread, lddVars
  <2>. QED  BY <1>0, <2>1
<1>8. CASE \/ DataAvailableEvent \/ SignalsEvent \/ HeldWriteEvent
           \/ WriteCompletion \/ ReadCompletion \/ CompleteRead
           \/ Host \/ TimerInterrupt \/ UNCHANGED vars
  <2>1. UNCHANGED status
    BY <1>8 DEF DataAvailableEvent, SignalsEvent, HeldWriteEvent, WriteCompletion,
                ReadCompletion, CompleteRead, Report, Host, WriteDone, DataArrives,
                LineChanges, TimerInterrupt, TimerExpired, vars, lddVars
  <2>. QED  BY <1>0, <1>8, <2>1, EventSteps
<1>9. CASE KResetBuffers
  BY <1>0, <1>9, ResetSteps, OneHandOver
<1>10. CASE ExitThread
  <2>1. /\ cpc = "exiting" /\ cpc' = "dead"
        /\ UNCHANGED <<call, status, commSem, drvSem, spare, iCommand>>
    BY <1>10 DEF ExitThread, lddVars
  <2>. QED  BY <1>0, <2>1
<1>. QED  BY <1>1, <1>2, <1>3, <1>4, <1>5, <1>6, <1>7, <1>8, <1>9, <1>10
          DEF PddNext, Kernel, CommThread

LEMMA CommandInit == PddInit => CommandInv
<1>. SUFFICES ASSUME PddInit PROVE CommandInv
  OBVIOUS
<1>1. call.fn = "none" /\ status = "EOpen"
  BY NoCallType DEF PddInit, Init
<1>. QED  BY <1>1, BalanceInit DEF PddInit, CommandInv, DeletedMeansLeft, HasLeft

LEMMA Commanded == "Cancel" \notin Ops /\ PddSpec => []CommandInv
<1>. SUFFICES ASSUME "Cancel" \notin Ops
              PROVE  PddSpec => []CommandInv
  OBVIOUS
<1>1. CommandInv /\ [PddNext]_vars => CommandInv'
  BY CommandStep
<1>. QED  BY CommandInit, <1>1, PTL DEF PddSpec

\* Without cancels RunCommThread is a synchronous call: what DriverCommand finds in
\* iCommand is the command of the call the kernel thread is waiting in.
THEOREM CommandsArriveIntact == "Cancel" \notin Ops /\ PddSpec => []CommandIntact
<1>1. CommandInv => CommandIntact
  BY OneHandOver DEF CommandInv, CommandIntact
<1>. QED  BY Commanded, <1>1, PTL

\* Without cancels the destructor's EDie is answered by the comm thread when it has
\* done with the driver, and by nothing else: what is freed afterwards is not used.
THEOREM ThreadLeavesFirst == "Cancel" \notin Ops /\ PddSpec => []DeletedMeansLeft
<1>1. CommandInv => DeletedMeansLeft
  BY DEF CommandInv
<1>. QED  BY Commanded, <1>1, PTL

-----------------------------------------------------------------------------
(* The physical driver implements what CommLdd assumes of one.  Its thread     *)
(* reports what was asked of it and nothing else, and only while the channel   *)
(* is being started, is active or is being deleted.                            *)

Reported == PddReasons \cup {"KErrNone"}

\* What the kernel thread is doing was asked for by a request.
Asked ==
  /\ delayed => issued["ETx"] > 0
  /\ call.fn = "Start" /\ call.msg.op \in DOMAIN KindOf => issued[KindOf[call.msg.op]] > 0
  /\ call.fn = "Write" => issued["ETx"] > 0
  /\ call.fn = "NotifySignals" => issued["ESigChg"] > 0
  /\ call.fn = "NotifyDataAvailable" => issued["ERxDA"] > 0

\* ... and so was what the comm thread and the host have of it.
PddAsked ==
  /\ \/ iCommand \in {"ETransmit", "ETransmit0"} \/ writePending # "none"
     \/ wrReq # 0 \/ "write" \in signalled \/ cpc = "event2"
     => issued["ETx"] > 0
  /\ iCommand = "ENotifySignals" \/ sigRequested # {} => issued["ESigChg"] > 0
  /\ iCommand = "ENotifyDataAvailable" \/ daNotify => issued["ERxDA"] > 0

Results ==
  /\ wrRes \in Reported \cup {"pending"} /\ rdRes \in Reported \cup {"pending"}
  /\ daNotify \in BOOLEAN

RunInv == running => status \in {"EActive", "Deleted"} \/ call.fn \in {"Start", "Die"}

NotDeleted == status # "Deleted" /\ call.fn # "Die"

\* A comm thread that goes on after the destructors: only a client that both
\* cancels and deletes could bring it about.
Quits ==
  /\ "Cancel" \notin Ops => CommandInv
  /\ "Delete" \notin Ops => NotDeleted

RefInv == TypeInv /\ Asked /\ PddAsked /\ Results /\ RunInv /\ Quits

\* What is assumed of the client, and of what the calls of the host return.
ClientAndHost ==
  /\ "Cancel" \notin Ops \/ "Delete" \notin Ops
  /\ IoErrors \cup {"LastError", "KErrCommsLineFail", "KErrCancel"} \subseteq PddReasons

\* The comm thread acts only while it may report.
LEMMA MayReport ==
  ASSUME RefInv, ClientAndHost, running, ~HasLeft
  PROVE  status = "EActive" \/ call.fn \in {"Start", "Die"}
<1>1. status # "Deleted"
  BY DEF RefInv, Quits, NotDeleted, ClientAndHost, CommandInv, DeletedMeansLeft, HasLeft
<1>. QED  BY <1>1 DEF RefInv, RunInv

LEMMA EventIsStep ==
  ASSUME NEW k \in Kinds, NEW r \in Reported, PddEvent(k, r)
  PROVE  Next
BY DEF Next, Reported

\* A report of the comm thread is one of CommLdd's events.
LEMMA ReportIsStep ==
  ASSUME RefInv, ClientAndHost, running, ~HasLeft,
         NEW k \in Kinds, k = "ERx" \/ issued[k] > 0, NEW r \in Reported, Report(k, r)
  PROVE  Next
<1>1. PddEvent(k, r)
  BY MayReport DEF PddEvent, Report
<1>. QED  BY <1>1, EventIsStep

LEMMA KernelMaps == Kernel /\ RefInv => Next
<1>. SUFFICES ASSUME Kernel, RefInv PROVE Next
  OBVIOUS
<1>1. CASE KReturns
  BY <1>1 DEF KReturns, Next
<1>2. AreAnyPending \in BOOLEAN
  BY DEF AreAnyPending
<1>3. CASE KStep
  BY <1>2, <1>3 DEF KStep, Next
<1>4. CASE KResetBuffers
  <2>1. "ResetBuffers" \in PortControls
    BY DEF PortControls
  <2>. QED  BY <1>2, <1>4, <2>1 DEF KResetBuffers, Next
<1>5. ASSUME NEW k \in Kinds, KCompleteDfc(k) PROVE Next
  BY <1>5 DEF KCompleteDfc, Next
<1>6. ASSUME NEW C \in SUBSET {"ERx", "ETx", "ESigChg"}, KCancel(C) PROVE Next
  <2>. DEFINE da == "ERx" \in C /\ readPending = "none" /\ daNotify
  <2>1. da \in BOOLEAN
    OBVIOUS
  <2>2. Cancel(C, da)
    BY <1>6 DEF KCancel
  <2>. HIDE DEF da
  <2>. QED  BY <2>1, <2>2 DEF Next
<1>. QED  BY <1>1, <1>3, <1>4, <1>5, <1>6 DEF Kernel

LEMMA CommandMaps ==
  ASSUME RefInv, ClientAndHost, DriverCommand
  PROVE  Next \/ UNCHANGED lddVars
<1>1. running /\ ~HasLeft
  BY DEF DriverCommand, HasLeft
<1>2. CASE Transmit0
  <2>1. issued["ETx"] > 0
    BY <1>2 DEF Transmit0, RefInv, PddAsked
  <2>2. CASE Report("ETx", "KErrNone")
    BY <1>1, <2>1, <2>2, ReportIsStep DEF Reported, Kinds
  <2>. QED  BY <1>2, <2>2 DEF Transmit0
<1>3. CASE NotifySignal
  <2>1. issued["ESigChg"] > 0
    BY <1>3 DEF NotifySignal, RefInv, PddAsked
  <2>2. CASE Report("ESigChg", "KErrNone")
    BY <1>1, <2>1, <2>2, ReportIsStep DEF Reported, Kinds
  <2>. QED  BY <1>3, <2>2 DEF NotifySignal
<1>4. CASE Transmit \/ Receive \/ StartPort \/ StopPort \/ NotifyData \/ NoEffect
  BY <1>4 DEF Transmit, Receive, StartPort, StopPort, NotifyData, NoEffect
<1>. QED  BY <1>2, <1>3, <1>4 DEF DriverCommand

LEMMA EventsMap ==
  ASSUME RefInv, ClientAndHost,
         \/ DataAvailableEvent \/ SignalsEvent \/ HeldWriteEvent
         \/ WriteCompletion \/ ReadCompletion \/ CompleteRead
  PROVE  Next \/ UNCHANGED lddVars
<1>. USE DEF Reported, Kinds, HasLeft
<1>1. CASE DataAvailableEvent
  <2>1. CASE daNotify
    <3>1. issued["ERxDA"] > 0
      BY <2>1 DEF RefInv, PddAsked
    <3>2. running /\ ~HasLeft /\ dfcq' = Enque(dfcq, "ERxDA") /\ err' = err
          /\ UNCHANGED <<status, reqVars, turnVars, call, inVars>>
      BY <1>1, <2>1 DEF DataAvailableEvent
    <3>3. PddEvent("ERxDA", "KErrNone")
      BY <3>1, <3>2, MayReport DEF PddEvent
    <3>. QED  BY <3>3, EventIsStep
  <2>2. CASE ~daNotify
    BY <1>1, <2>2 DEF DataAvailableEvent, lddVars
  <2>. QED  BY <2>1, <2>2
<1>2. CASE SignalsEvent
  <2>1. CASE Changed(sigRequested) # {}
    <3>1. issued["ESigChg"] > 0
      BY <2>1 DEF RefInv, PddAsked, Changed
    <3>2. running /\ ~HasLeft /\ Report("ESigChg", "KErrNone")
      BY <1>2, <2>1 DEF SignalsEvent
    <3>. QED  BY <3>1, <3>2, ReportIsStep
  <2>2. CASE Changed(sigRequested) = {}
    BY <1>2, <2>2 DEF SignalsEvent
  <2>. QED  BY <2>1, <2>2
<1>3. CASE HeldWriteEvent
  <2>1. CASE Report("ETx", "KErrNone") /\ writePending = "ETransmit0"
    <3>1. issued["ETx"] > 0
      BY <2>1 DEF RefInv, PddAsked
    <3>2. running /\ ~HasLeft
      BY <1>3 DEF HeldWriteEvent
    <3>. QED  BY <2>1, <3>1, <3>2, ReportIsStep
  <2>. QED  BY <1>3, <2>1 DEF HeldWriteEvent
<1>4. CASE WriteCompletion
  <2>1. running /\ cpc = "event2" /\ Report("ETx", WriteResult)
    BY <1>4 DEF WriteCompletion
  <2>2. issued["ETx"] > 0
    BY <2>1 DEF RefInv, PddAsked
  <2>3. WriteResult \in Reported
    BY DEF WriteResult, RefInv, Results, ClientAndHost
  <2>. QED  BY <2>1, <2>2, <2>3, ReportIsStep
<1>5. CASE ReadCompletion
  <2>1. PICK r \in Reported : err' = [err EXCEPT !["ERx"] = r]
    BY <1>5 DEF ReadCompletion, RefInv, Results, ClientAndHost
  <2>2. /\ running /\ ~HasLeft /\ dfcq' = dfcq
        /\ UNCHANGED <<status, reqVars, turnVars, call, inVars>>
    BY <1>5 DEF ReadCompletion
  <2>3. PddEvent("ERx", r)
    BY <2>1, <2>2, MayReport DEF PddEvent
  <2>. QED  BY <2>3, EventIsStep
<1>6. CASE CompleteRead
  <2>1. /\ running /\ ~HasLeft /\ dfcq' = Enque(dfcq, "ERx") /\ err' = err
        /\ UNCHANGED <<status, reqVars, turnVars, call, inVars>>
    BY <1>6 DEF CompleteRead
  <2>2. PddEvent("ERx", "KErrNone")
    BY <2>1, MayReport DEF PddEvent
  <2>. QED  BY <2>2, EventIsStep
<1>. QED  BY <1>1, <1>2, <1>3, <1>4, <1>5, <1>6

LEMMA StepMaps == ClientAndHost /\ RefInv /\ [PddNext]_vars => [Next]_lddVars
<1>. SUFFICES ASSUME ClientAndHost, RefInv, [PddNext]_vars PROVE [Next]_lddVars
  OBVIOUS
<1>1. CASE WaitForEvent \/ SignalDriverThread \/ ExitThread
  BY <1>1 DEF WaitForEvent, SignalDriverThread, ExitThread
<1>2. CASE Host
  BY <1>2 DEF Host, WriteDone, DataArrives, LineChanges
<1>3. CASE TimerInterrupt
  BY <1>3 DEF TimerInterrupt, Next
<1>4. CASE UNCHANGED vars
  BY <1>4 DEF vars
<1>. QED  BY <1>1, <1>2, <1>3, <1>4, KernelMaps, CommandMaps, EventsMap DEF PddNext, CommThread

\* Requests are counted and never forgotten.
LEMMA IssuedGrows ==
  TypeInv /\ [Next]_lddVars => \A k \in Kinds : issued[k] > 0 => issued'[k] > 0
<1>. SUFFICES ASSUME TypeInv, [Next]_lddVars, NEW k \in Kinds, issued[k] > 0
              PROVE  issued'[k] > 0
  OBVIOUS
<1>0. issued \in [Kinds -> Nat]
  BY DEF TypeInv, TypeOK
<1>1. ASSUME NEW m \in Requests, Request(m) PROVE issued'[k] > 0
  <2>1. issued' = [issued EXCEPT ![KindOf[m.op]] = @ + 1]
    BY <1>1 DEF Request
  <2>. QED  BY <1>0, <2>1
<1>2. CASE UNCHANGED issued
  BY <1>2
<1>3. \/ UNCHANGED issued
      \/ \E m \in Requests : Request(m)
  BY DEF Next, Break, Close, ShutdownTail, Delete, SetMinTurnaroundTime, PortControl,
         Cancel, PddReturns, StartReturns, StopReturns, DieReturns, CallReturns,
         CompleteDfc, ClearError, TurnaroundTimeout, TimerExpired, PddEvent, inVars, lddVars
<1>. QED  BY <1>1, <1>2, <1>3

\* DoRequest passes a request on by the call that is for its kind.
LEMMA DispatchAsked ==
  ASSUME TypeInv, NEW m \in Requests, NEW n, Dispatch(m, n),
         issued'[KindOf[m.op]] > 0
  PROVE  /\ delayed' => delayed \/ issued'["ETx"] > 0
         /\ call'.fn # "Start"
         /\ call'.fn = "Write" => issued'["ETx"] > 0
         /\ call'.fn = "NotifySignals" => issued'["ESigChg"] > 0
         /\ call'.fn = "NotifyDataAvailable" => issued'["ERxDA"] > 0
<1>1. CASE DispatchRead(m, n)
  BY <1>1, NoCallType DEF DispatchRead, turnVars
<1>2. CASE DispatchWrite(m, n)
  <2>1. KindOf[m.op] = "ETx"
    BY <1>2 DEF DispatchWrite, KindOf
  <2>. QED  BY <1>2, <2>1, NoCallType DEF DispatchWrite
<1>3. CASE DispatchNotify(m, n)
  <2>1. \/ m.op = "NotifySignalChange" /\ KindOf[m.op] = "ESigChg"
        \/ m.op = "NotifyDataAvailable" /\ KindOf[m.op] = "ERxDA"
    BY <1>3 DEF DispatchNotify, KindOf
  <2>. QED  BY <1>3, <2>1 DEF DispatchNotify, turnVars
<1>. QED  BY <1>1, <1>2, <1>3 DEF Dispatch

LEMMA AskedStep == TypeInv /\ Asked /\ [Next]_lddVars => Asked'
<1>. SUFFICES ASSUME TypeInv, Asked, [Next]_lddVars PROVE Asked'
  OBVIOUS
<1>0. \A k \in Kinds : issued[k] > 0 => issued'[k] > 0
  BY IssuedGrows
<1>. DEFINE Same == /\ delayed' => delayed
                    /\ \/ call' = call
                       \/ call'.fn \in Kinds \cup {"none", "Panic", "Stop", "Die", "Configure"}
<1>1. Same => Asked'
  <2>. SUFFICES ASSUME Same PROVE Asked'
    OBVIOUS
  <2>1. call.fn = "Start" /\ call.msg.op \in DOMAIN KindOf => KindOf[call.msg.op] \in Kinds
    BY KindOfDomain DEF KindOf, Kinds
  <2>. QED  BY <1>0, <2>1 DEF Asked, Kinds
<1>2. ASSUME NEW m \in Requests, Request(m) PROVE Asked'
  <2>1. KindOf[m.op] \in Kinds /\ issued \in [Kinds -> Nat] /\ m \in Msgs
    BY KindOfType DEF TypeInv, TypeOK
  <2>2. issued' = [issued EXCEPT ![KindOf[m.op]] = @ + 1]
    BY <1>2 DEF Request
  <2>3. issued'[KindOf[m.op]] > 0
    BY <2>1, <2>2
  <2>4. CASE call' = [fn |-> "Start", msg |-> m] /\ UNCHANGED turnVars
    BY <1>0, <2>3, <2>4 DEF Asked, Kinds, turnVars
  <2>5. CASE Dispatch(m, issued[KindOf[m.op]] + 1)
    BY <1>0, <2>3, <2>5, DispatchAsked DEF Asked, Kinds
  <2>. QED  BY <1>2, <2>4, <2>5 DEF Request
<1>3. CASE PddReturns
  <2>1. CASE StartReturns
    <3>1. CASE call.msg.op \in DOMAIN KindOf /\ Dispatch(call.msg, issued[KindOf[call.msg.op]])
      <4>1. call.msg \in Requests
        BY <2>1, <3>1 DEF StartReturns, TypeInv, StartedMsg, BreakMsg, KindOf
      <4>2. issued'[KindOf[call.msg.op]] > 0
        BY <2>1, <3>1 DEF StartReturns, Asked, inVars
      <4>. QED  BY <1>0, <3>1, <4>1, <4>2, DispatchAsked DEF Asked, Kinds
    <3>2. CASE DispatchBreak(call.msg)
      BY <1>1, <3>2, NoCallType DEF DispatchBreak, turnVars
    <3>. QED  BY <2>1, <3>1, <3>2 DEF StartReturns
  <2>2. CASE StopReturns \/ DieReturns \/ CallReturns
    BY <1>1, <2>2, NoCallType DEF StopReturns, ShutdownTail, DieReturns, CallReturns, turnVars
  <2>. QED  BY <1>3, <2>1, <2>2 DEF PddReturns
<1>4. CASE Break
  <2>1. CASE call' = [fn |-> "Start", msg |-> BreakMsg] /\ UNCHANGED turnVars
    BY <1>0, <2>1, KindOfDomain DEF Asked, Kinds, turnVars, BreakMsg
  <2>2. CASE DispatchBreak(BreakMsg)
    BY <1>1, <2>2, NoCallType DEF DispatchBreak, turnVars
  <2>. QED  BY <1>4, <2>1, <2>2 DEF Break
<1>5. CASE TurnaroundTimeout
  BY <1>0, <1>5 DEF TurnaroundTimeout, Asked, Kinds, Idle, TakeDelayed, reqVars, inVars
<1>6. CASE Close \/ Delete
  BY <1>1, <1>6, NoCallType, CallingType
     DEF Close, ShutdownTail, Delete, turnVars, Fns, PddFns
<1>7. ASSUME NEW us \in TurnaroundUs, SetMinTurnaroundTime(us) PROVE Asked'
  BY <1>1, <1>7 DEF SetMinTurnaroundTime
<1>8. ASSUME NEW c \in PortControls, NEW anyPending \in BOOLEAN, PortControl(c, anyPending)
      PROVE  Asked'
  BY <1>1, <1>8, NoCallType, CallingType DEF PortControl, turnVars, Fns, PddFns
<1>9. ASSUME NEW C \in SUBSET {"ERx", "ETx", "ESigChg"}, NEW da \in BOOLEAN, Cancel(C, da)
      PROVE  Asked'
  BY <1>1, <1>9 DEF Cancel, StillDelayed
<1>10. ASSUME NEW k \in Kinds, CompleteDfc(k) \/ ClearError(k) PROVE Asked'
  BY <1>1, <1>10, NoCallType, CallingType DEF CompleteDfc, ClearError, turnVars, Fns
<1>11. CASE TimerExpired
  BY <1>1, <1>11 DEF TimerExpired
<1>12. ASSUME NEW k \in Kinds, NEW r \in PddReasons \cup {"KErrNone"}, PddEvent(k, r)
       PROVE  Asked'
  BY <1>1, <1>12 DEF PddEvent, turnVars
<1>13. CASE UNCHANGED lddVars
  BY <1>1, <1>13 DEF lddVars, turnVars
<1>. QED  BY <1>2, <1>3, <1>4, <1>5, <1>6, <1>7, <1>8, <1>9, <1>10, <1>11, <1>12, <1>13 DEF Next

\* Commands are stored for calls, so what the comm thread has was asked for.
LEMMA PostAsked ==
  ASSUME TypeInv, PddAsked, Asked', [Next]_lddVars, PostCommand
  PROVE  PddAsked'
<1>0. \A k \in Kinds : issued[k] > 0 => issued'[k] > 0
  BY IssuedGrows
<1>1. CASE ~Entering
  BY <1>0, <1>1 DEF PostCommand, PddAsked, Kinds
<1>2. CASE Entering
  <2>1. /\ iCommand' \in {"ETransmit", "ETransmit0"} => issued'["ETx"] > 0
        /\ iCommand' = "ENotifySignals" => issued'["ESigChg"] > 0
        /\ iCommand' = "ENotifyDataAvailable" => issued'["ERxDA"] > 0
    BY <1>2 DEF PostCommand, CommandOf, Asked
  <2>2. UNCHANGED <<writePending, wrReq, signalled, cpc, sigRequested, daNotify>>
    BY DEF PostCommand
  <2>. QED  BY <1>0, <2>1, <2>2 DEF PddAsked, Kinds
<1>. QED  BY <1>1, <1>2

LEMMA PddAskedStep ==
  TypeInv /\ PddAsked /\ Asked' /\ [Next]_lddVars /\ [PddNext]_vars => PddAsked'
<1>. SUFFICES ASSUME TypeInv, PddAsked, Asked', [Next]_lddVars, [PddNext]_vars
              PROVE  PddAsked'
  OBVIOUS
<1>0. \A k \in Kinds : issued[k] > 0 => issued'[k] > 0
  BY IssuedGrows
<1>1. CASE KReturns \/ KStep \/ \E k \in Kinds : KCompleteDfc(k)
  BY <1>1, PostAsked DEF KReturns, KStep, KCompleteDfc
<1>2. CASE KResetBuffers
  BY <1>0, <1>2 DEF KResetBuffers, PddAsked, Kinds, syncVars, writeVars, noteVars
<1>3. ASSUME NEW C \in SUBSET {"ERx", "ETx", "ESigChg"}, KCancel(C) PROVE PddAsked'
  <2>1. /\ iCommand' \in {iCommand, "EInvalidCommand"}
        /\ wrReq' \in {wrReq, 0} /\ UNCHANGED <<writePending, cpc>>
        /\ "write" \in signalled' => "write" \in signalled \/ wrReq # 0
        /\ sigRequested' \in {sigRequested, {}}
        /\ daNotify' => daNotify
    BY <1>3 DEF KCancel, AbortWrite
  <2>. QED  BY <1>0, <2>1 DEF PddAsked, Kinds
<1>4. CASE WaitForEvent
  <2>1. /\ UNCHANGED <<iCommand, writePending, wrReq, sigRequested, daNotify>>
        /\ "write" \in signalled' \/ cpc' = "event2" => "write" \in signalled
    BY <1>4 DEF WaitForEvent, Reset, writeVars, noteVars
  <2>. QED  BY <1>0, <2>1 DEF PddAsked, Kinds
<1>5. CASE DriverCommand
  <2>0. /\ iCommand' \in {iCommand, "EInvalidCommand"} /\ cpc' # "event2"
    BY <1>5 DEF DriverCommand, AfterCommand
  <2>1. CASE Transmit
    BY <1>0, <2>0, <2>1 DEF Transmit, PddAsked, Kinds, noteVars
  <2>2. CASE Transmit0
    BY <1>0, <2>0, <2>2 DEF Transmit0, PddAsked, Kinds, noteVars
  <2>3. CASE Receive
    <3>1. "write" \in signalled' => "write" \in signalled
      BY <2>3 DEF Receive, PostRead
    <3>. QED  BY <1>0, <2>0, <2>3, <3>1 DEF Receive, PddAsked, Kinds, writeVars, noteVars
  <2>4. CASE StartPort
    <3>1. "write" \in signalled' => "write" \in signalled
      BY <2>4 DEF StartPort
    <3>. QED  BY <1>0, <2>0, <2>4, <3>1 DEF StartPort, PddAsked, Kinds, writeVars, noteVars
  <2>5. CASE StopPort
    <3>1. "write" \in signalled' => "write" \in signalled
      BY <2>5 DEF StopPort
    <3>. QED  BY <1>0, <2>0, <2>5, <3>1 DEF StopPort, PddAsked, Kinds, noteVars
  <2>6. CASE NotifyData
    BY <1>0, <2>0, <2>6 DEF NotifyData, PddAsked, Kinds, writeVars
  <2>7. CASE NotifySignal
    BY <1>0, <2>0, <2>7 DEF NotifySignal, PddAsked, Kinds, writeVars
  <2>8. CASE NoEffect
    BY <1>0, <2>0, <2>8 DEF NoEffect, PddAsked, Kinds, writeVars, noteVars
  <2>. QED  BY <1>5, <2>1, <2>2, <2>3, <2>4, <2>5, <2>6, <2>7, <2>8 DEF DriverCommand
<1>6. CASE SignalDriverThread \/ ExitThread
  BY <1>0, <1>6 DEF SignalDriverThread, ExitThread, PddAsked, Kinds, writeVars, noteVars
<1>7. CASE DataAvailableEvent
  BY <1>0, <1>7 DEF DataAvailableEvent, PddAsked, Kinds, writeVars
<1>8. CASE SignalsEvent
  <2>1. /\ UNCHANGED <<iCommand, writePending, daNotify>>
        /\ wrReq' \in {wrReq, 0} /\ cpc' # "event2"
        /\ "write" \in signalled' => "write" \in signalled \/ wrReq # 0
        /\ sigRequested' \in {sigRequested, {}}
    BY <1>8 DEF SignalsEvent, AbortWrite
  <2>. QED  BY <1>0, <2>1 DEF PddAsked, Kinds
<1>9. CASE HeldWriteEvent
  <2>1. "write" \in signalled' => "write" \in signalled
    BY <1>9 DEF HeldWriteEvent
  <2>. QED  BY <1>0, <1>9, <2>1 DEF HeldWriteEvent, PddAsked, Kinds, noteVars
<1>10. CASE WriteCompletion
  BY <1>0, <1>10 DEF WriteCompletion, ClearWritePending, PddAsked, Kinds, noteVars
<1>11. CASE ReadCompletion
  <2>1. "write" \in signalled' => "write" \in signalled
    BY <1>11 DEF ReadCompletion, PostRead
  <2>. QED  BY <1>0, <1>11, <2>1 DEF ReadCompletion, PddAsked, Kinds, writeVars, noteVars
<1>12. CASE CompleteRead
  BY <1>0, <1>12 DEF CompleteRead, PddAsked, Kinds, writeVars, noteVars
<1>13. CASE WriteDone
  BY <1>0, <1>13 DEF WriteDone, PddAsked, Kinds, syncVars, noteVars
<1>14. CASE DataArrives
  <2>1. "write" \in signalled' => "write" \in signalled
    BY <1>14 DEF DataArrives
  <2>. QED  BY <1>0, <1>14, <2>1 DEF DataArrives, PddAsked, Kinds, syncVars, writeVars, noteVars
<1>15. CASE LineChanges
  <2>1. "write" \in signalled' => "write" \in signalled
    BY <1>15 DEF LineChanges, CommEvent
  <2>. QED  BY <1>0, <1>15, <2>1 DEF LineChanges, PddAsked, Kinds, syncVars, writeVars, noteVars
<1>16. CASE TimerInterrupt \/ UNCHANGED vars
  BY <1>0, <1>16 DEF TimerInterrupt, vars, pddVars, PddAsked, Kinds, syncVars, writeVars, noteVars
<1>. QED  BY <1>1, <1>2, <1>3, <1>4, <1>5, <1>6, <1>7, <1>8, <1>9, <1>10, <1>11, <1>12,
             <1>13, <1>14, <1>15, <1>16 DEF PddNext, Kernel, CommThread, Host

LEMMA ResultsStep == ClientAndHost /\ Results /\ [PddNext]_vars => Results'
<1>. SUFFICES ASSUME ClientAndHost, Results, [PddNext]_vars PROVE Results'
  OBVIOUS
<1>. DEFINE Ends == Reported \cup {"pending"}
<1>1. "LastError" \in Ends /\ "KErrNone" \in Ends /\ "pending" \in Ends /\ IoErrors \subseteq Ends
  BY DEF ClientAndHost, Reported
<1>2. CASE UNCHANGED <<wrRes, rdRes>> /\ daNotify' \in BOOLEAN
  BY <1>2 DEF Results
<1>3. CASE KReturns \/ KStep \/ \E k \in Kinds : KCompleteDfc(k)
  BY <1>2, <1>3 DEF KReturns, KStep, KCompleteDfc, PostCommand, Results
<1>4. ASSUME NEW C \in SUBSET {"ERx", "ETx", "ESigChg"}, KCancel(C) PROVE Results'
  <2>1. wrRes' \in {wrRes, "LastError"} /\ rdRes' \in {rdRes, "LastError"}
    BY <1>4 DEF KCancel, AbortWrite, AbortRead
  <2>2. daNotify' \in BOOLEAN
    BY <1>4 DEF KCancel
  <2>. QED  BY <1>1, <2>1, <2>2 DEF Results
<1>5. CASE KResetBuffers
  BY <1>2, <1>5 DEF KResetBuffers, writeVars, noteVars, Results
<1>6. CASE WaitForEvent \/ SignalDriverThread \/ ExitThread
  BY <1>2, <1>6 DEF WaitForEvent, SignalDriverThread, ExitThread, writeVars, readVars, noteVars, Results
<1>7. CASE DriverCommand
  <2>1. wrRes' \in {wrRes, "pending"} /\ rdRes' \in {rdRes, "KErrNone", "pending"}
        /\ daNotify' \in BOOLEAN
    <3>1. CASE Receive
      BY <3>1 DEF Receive, PostRead, writeVars, noteVars, Results
    <3>2. CASE Transmit \/ Transmit0 \/ StartPort \/ StopPort
      BY <3>2 DEF Transmit, Transmit0, StartPort, StopPort, writeVars, readVars, noteVars, Results
    <3>3. CASE NotifyData \/ NotifySignal \/ NoEffect
      BY <3>3 DEF NotifyData, NotifySignal, NoEffect, writeVars, readVars, noteVars, Results
    <3>. QED  BY <1>7, <3>1, <3>2, <3>3 DEF DriverCommand
  <2>. QED  BY <1>1, <2>1 DEF Results
<1>8. CASE DataAvailableEvent \/ HeldWriteEvent \/ WriteCompletion \/ CompleteRead
  BY <1>2, <1>8 DEF DataAvailableEvent, HeldWriteEvent, WriteCompletion, CompleteRead,
                    writeVars, readVars, noteVars, Results
<1>9. CASE SignalsEvent
  <2>1. wrRes' \in {wrRes, "LastError"} /\ rdRes' \in {rdRes, "LastError"} /\ UNCHANGED daNotify
    BY <1>9 DEF SignalsEvent, AbortWrite, AbortRead
  <2>. QED  BY <1>1, <2>1 DEF Results
<1>10. CASE ReadCompletion
  <2>1. UNCHANGED <<wrRes, daNotify>> /\ rdRes' \in {rdRes, "KErrNone", "pending"}
    BY <1>10 DEF ReadCompletion, PostRead, writeVars, noteVars
  <2>. QED  BY <1>1, <2>1 DEF Results
<1>11. CASE WriteDone
  <2>1. wrRes' \in {"KErrNone"} \cup IoErrors /\ UNCHANGED <<rdRes, daNotify>>
    BY <1>11 DEF WriteDone, readVars, noteVars
  <2>. QED  BY <1>1, <2>1 DEF Results
<1>12. CASE DataArrives
  <2>1. rdRes' \in {rdRes, "KErrNone"} /\ UNCHANGED <<wrRes, daNotify>>
    BY <1>12 DEF DataArrives, writeVars, noteVars
  <2>. QED  BY <1>1, <2>1 DEF Results
<1>13. CASE LineChanges \/ TimerInterrupt \/ UNCHANGED vars
  BY <1>2, <1>13 DEF LineChanges, TimerInterrupt, vars, pddVars, writeVars, readVars,
                     noteVars, Results
<1>. QED  BY <1>3, <1>4, <1>5, <1>6, <1>7, <1>8, <1>9, <1>10, <1>11, <1>12, <1>13
          DEF PddNext, Kernel, CommThread, Host

\* Only the kernel thread changes the status of the channel.
LEMMA ThreadSteps ==
  ASSUME [PddNext]_vars, ~Kernel
  PROVE  UNCHANGED <<status, call, running>>
<1>1. CASE DriverCommand
  BY <1>1, CommandSteps DEF DriverCommand
<1>2. CASE WaitForEvent \/ SignalDriverThread \/ ExitThread
  BY <1>2 DEF WaitForEvent, SignalDriverThread, ExitThread, lddVars
<1>3. CASE \/ DataAvailableEvent \/ SignalsEvent \/ HeldWriteEvent
           \/ WriteCompletion \/ ReadCompletion \/ CompleteRead
           \/ Host \/ TimerInterrupt \/ UNCHANGED vars
  <2>1. UNCHANGED status
    BY <1>3 DEF DataAvailableEvent, SignalsEvent, HeldWriteEvent, WriteCompletion,
                ReadCompletion, CompleteRead, Report, Host, WriteDone, DataArrives,
                LineChanges, TimerInterrupt, TimerExpired, vars, lddVars
  <2>. QED  BY <1>3, <2>1, EventSteps
<1>. QED  BY <1>1, <1>2, <1>3 DEF PddNext, CommThread

\* The thread runs from Start on, until Stop has suspended it.
LEMMA RunStep == TypeInv /\ RunInv /\ [PddNext]_vars => RunInv'
<1>. SUFFICES ASSUME TypeInv, RunInv, [PddNext]_vars PROVE RunInv'
  OBVIOUS
<1>0. NoCall.fn = "none" /\ \A f \in Fns : Calling(f).fn = f
  BY NoCallType, CallingType
<1>1. CASE KReturns
  <2>1. InPdd /\ call' # call /\ call'.fn \notin {"Start", "Stop", "Die"} /\ PddReturns
    BY <1>1, ReturnsCalls DEF KReturns
  <2>2. running' => running /\ call.fn # "Stop"
    BY <1>1, <2>1 DEF KReturns, PostCommand, Entering
  <2>3. CASE StartReturns
    BY <2>3 DEF StartReturns, RunInv
  <2>4. CASE DieReturns
    BY <2>4 DEF DieReturns, RunInv
  <2>5. CASE StopReturns
    BY <2>2, <2>5 DEF StopReturns, RunInv
  <2>6. CASE CallReturns
    BY <2>2, <2>6 DEF CallReturns, RunInv, PddFns
  <2>. QED  BY <2>1, <2>3, <2>4, <2>5, <2>6 DEF PddReturns
<1>2. CASE KStep
  <2>1. ~InPdd
    BY <1>2, StepBeginsOutside
  <2>2. running' => running \/ call'.fn \in {"Start", "Die"}
    BY <1>2 DEF KStep, PostCommand
  <2>3. running => status \in {"EActive", "Deleted"}
    BY <2>1 DEF RunInv, InPdd, PddFns
  <2>4. UNCHANGED status \/ status = "EOpen"
    BY <1>2 DEF KStep, Request, Break, Close, ShutdownTail, Delete, TurnaroundTimeout,
                SetMinTurnaroundTime, PortControl, ClearError
  <2>. QED  BY <2>2, <2>3, <2>4 DEF RunInv
<1>3. ASSUME NEW k \in Kinds, KCompleteDfc(k) PROVE RunInv'
  <2>1. UNCHANGED status /\ ~InPdd /\ ~(call'.fn \in PddFns)
    BY <1>0, <1>3 DEF KCompleteDfc, CompleteDfc, Idle, Fns, PddFns, Kinds, InPdd
  <2>2. running' => running
    BY <1>3, <2>1 DEF KCompleteDfc, PostCommand, Entering
  <2>. QED  BY <2>1, <2>2 DEF RunInv, InPdd, PddFns
<1>4. ASSUME NEW C \in SUBSET {"ERx", "ETx", "ESigChg"}, KCancel(C) PROVE RunInv'
  BY <1>4 DEF KCancel, Cancel, RunInv
<1>5. CASE KResetBuffers
  <2>1. UNCHANGED <<status, running>> /\ ~InPdd
    BY <1>5, ResetSteps DEF KResetBuffers, syncVars
  <2>. QED  BY <2>1 DEF RunInv, InPdd, PddFns
<1>6. CASE ~Kernel
  BY <1>6, ThreadSteps DEF RunInv
<1>. QED  BY <1>1, <1>2, <1>3, <1>4, <1>5, <1>6 DEF Kernel

\* Without Delete nothing is deleted.
LEMMA DeleteStep ==
  "Delete" \notin Ops /\ NotDeleted /\ [PddNext]_vars => NotDeleted'
<1>. SUFFICES ASSUME "Delete" \notin Ops, NotDeleted, [PddNext]_vars PROVE NotDeleted'
  OBVIOUS
<1>0. NoCall.fn = "none" /\ \A f \in Fns : Calling(f).fn = f
  BY NoCallType, CallingType
<1>1. CASE KReturns
  <2>1. PddReturns /\ call'.fn # "Die"
    BY <1>1, ReturnsCalls DEF KReturns
  <2>. QED  BY <2>1 DEF PddReturns, StartReturns, StopReturns, ShutdownTail, DieReturns,
                        CallReturns, NotDeleted
<1>2. CASE KStep
  <2>1. ASSUME NEW m \in Requests, Request(m) PROVE NotDeleted'
    BY <1>0, <2>1, DispatchCalls DEF Request, NotDeleted
  <2>2. CASE Break \/ Close \/ TurnaroundTimeout
    BY <1>0, <2>2 DEF Break, DispatchBreak, Close, ShutdownTail, TurnaroundTimeout, NotDeleted,
                      Fns, PddFns
  <2>3. ASSUME NEW us \in TurnaroundUs, SetMinTurnaroundTime(us) PROVE NotDeleted'
    BY <2>3 DEF SetMinTurnaroundTime, NotDeleted
  <2>4. ASSUME NEW c \in PortControls, PortControl(c, AreAnyPending) PROVE NotDeleted'
    BY <1>0, <2>4 DEF PortControl, NotDeleted, Fns, PddFns
  <2>5. ASSUME NEW k \in Kinds, ClearError(k) PROVE NotDeleted'
    BY <1>0, <2>5 DEF ClearError, NotDeleted
  <2>6. ~Delete
    BY DEF Delete
  <2>. QED  BY <1>2, <2>1, <2>2, <2>3, <2>4, <2>5, <2>6 DEF KStep
<1>3. ASSUME NEW k \in Kinds, KCompleteDfc(k) PROVE NotDeleted'
  BY <1>0, <1>3 DEF KCompleteDfc, CompleteDfc, Fns, Kinds, NotDeleted
<1>4. ASSUME NEW C \in SUBSET {"ERx", "ETx", "ESigChg"}, KCancel(C) PROVE NotDeleted'
  BY <1>4 DEF KCancel, Cancel, NotDeleted
<1>5. CASE KResetBuffers
  BY <1>5, ResetSteps DEF NotDeleted
<1>6. CASE ~Kernel
  BY <1>6, ThreadSteps DEF NotDeleted
<1>. QED  BY <1>1, <1>2, <1>3, <1>4, <1>5, <1>6 DEF Kernel

-----------------------------------------------------------------------------
LEMMA RefInit == PddInit => RefInv
<1>. SUFFICES ASSUME PddInit PROVE RefInv
  OBVIOUS
<1>1. TypeInv /\ CommandInv /\ call.fn = "none"
  BY InitType, CommandInit, NoCallType DEF PddInit, Init
<1>2. Asked /\ PddAsked
  BY <1>1 DEF PddInit, Init, Asked, PddAsked
<1>3. Results /\ RunInv /\ Quits
  BY <1>1 DEF PddInit, Init, Results, Reported, RunInv, Quits, NotDeleted
<1>. QED  BY <1>1, <1>2, <1>3 DEF RefInv

LEMMA RefStep == ClientAndHost /\ RefInv /\ [PddNext]_vars => RefInv'
<1>. SUFFICES ASSUME ClientAndHost, RefInv, [PddNext]_vars PROVE RefInv'
  OBVIOUS
<1>1. [Next]_lddVars
  BY StepMaps
<1>2. TypeInv' /\ Asked'
  BY <1>1, NextType, AskedStep DEF RefInv
<1>3. PddAsked' /\ Results' /\ RunInv'
  BY <1>1, <1>2, PddAskedStep, ResultsStep, RunStep DEF RefInv
<1>4. Quits'
  BY CommandStep, DeleteStep DEF RefInv, Quits
<1>. QED  BY <1>2, <1>3, <1>4 DEF RefInv

LEMMA Refined == ClientAndHost /\ PddSpec => []RefInv
<1>. SUFFICES ASSUME ClientAndHost PROVE PddSpec => []RefInv
  OBVIOUS
<1>1. RefInv /\ [PddNext]_vars => RefInv'
  BY RefStep
<1>. QED  BY RefInit, <1>1, PTL DEF PddSpec

\* The physical driver does to the channel only what CommLdd assumes of one, for
\* every client that does not both cancel requests and delete the channel.
THEOREM LddIsImplemented == ClientAndHost /\ PddSpec => ImplementsLdd
<1>. SUFFICES ASSUME ClientAndHost PROVE PddSpec => ImplementsLdd
  OBVIOUS
<1>1. PddInit => Init
  BY DEF PddInit
<1>2. RefInv /\ [PddNext]_vars => [Next]_lddVars
  BY StepMaps
<1>3. PddSpec => []RefInv
  BY Refined
<1>. QED  BY <1>1, <1>2, <1>3, PTL DEF PddSpec, Spec, ImplementsLdd

\* So what CommLdd promises of any physical driver holds of the two together: a
\* held write is due, the timer's flag is right and a closed channel is quiet.
THEOREM DriverKeepsPromises ==
  ClientAndHost /\ PddSpec => [](DelayedWriteScheduled /\ TimerInStep /\ ClosedIsQuiet)
<1>1. ClientAndHost /\ PddSpec => Spec
  BY LddIsImplemented DEF ImplementsLdd
<1>. QED  BY <1>1, DelayedWritesAreScheduled, TimerStaysInStep, ShutdownIsQuiet, PTL

-----------------------------------------------------------------------------
(***************************************************************************)
(* What becomes of the data.  For a client that does not cancel, at most   *)
(* one stage of the driver has a request of each kind at a time, from the  *)
(* call of the kernel thread to the completion DFC; therefore a write is   *)
(* reported as sent when it was, a read returns what arrived, and the      *)
(* driver never finds an operation it forgot.                              *)
(***************************************************************************)

(* The queue of DFCs: no DFC is in it twice.                                *)

NoRepeats(q) == \A i, j \in 1..Len(q) : q[i] = q[j] => i = j

LEMMA EnqueHas ==
  ASSUME NEW q \in Seq(Dfcs), NoRepeats(q), NEW d \in Dfcs
  PROVE  /\ NoRepeats(Enque(q, d))
         /\ \A e \in Dfcs : Has(Enque(q, d), e) => Has(q, e) \/ e = d
<1>1. CASE Has(q, d)
  BY <1>1 DEF Enque
<1>2. CASE ~Has(q, d)
  <2>. DEFINE r == Append(q, d)
  <2>1. Enque(q, d) = r /\ Len(q) \in Nat
    BY <1>2 DEF Enque
  <2>2. Len(r) = Len(q) + 1 /\ r[Len(q) + 1] = d /\ \A i \in 1..Len(q) : r[i] = q[i]
    OBVIOUS
  <2>3. \A i \in 1..Len(q) : q[i] # d
    BY <1>2 DEF Has
  <2>. HIDE DEF r
  <2>4. NoRepeats(r)
    BY <2>1, <2>2, <2>3 DEF NoRepeats
  <2>5. \A e \in Dfcs : Has(r, e) => Has(q, e) \/ e = d
    BY <2>1, <2>2 DEF Has
  <2>. QED  BY <2>1, <2>4, <2>5
<1>. QED  BY <1>1, <1>2

LEMMA TailHas ==
  ASSUME NEW q \in Seq(Dfcs), NoRepeats(q), q # << >>
  PROVE  /\ NoRepeats(Tail(q))
         /\ \A e \in Dfcs : Has(Tail(q), e) => Has(q, e) /\ e # Head(q)
<1>1. Len(q) \in Nat /\ Len(q) > 0 /\ Head(q) = q[1]
  OBVIOUS
<1>2. Len(Tail(q)) = Len(q) - 1 /\ \A i \in 1..Len(q) - 1 : Tail(q)[i] = q[i + 1]
  OBVIOUS
<1>3. NoRepeats(Tail(q))
  BY <1>1, <1>2 DEF NoRepeats
<1>4. ASSUME NEW e \in Dfcs, Has(Tail(q), e)
      PROVE  Has(q, e) /\ e # Head(q)
  <2>1. PICK i \in 1..Len(q) - 1 : q[i + 1] = e
    BY <1>2, <1>4 DEF Has
  <2>2. i + 1 \in 1..Len(q) /\ i + 1 # 1 /\ 1 \in 1..Len(q)
    BY <1>1
  <2>. QED  BY <1>1, <2>1, <2>2 DEF Has, NoRepeats
<1>. QED  BY <1>3, <1>4

LEMMA DequeueHas ==
  ASSUME NEW q \in Seq(Dfcs), NoRepeats(q), NEW d \in Dfcs
  PROVE  /\ NoRepeats(Dequeue(q, d))
         /\ \A e \in Dfcs : Has(Dequeue(q, d), e) => Has(q, e)
         /\ \A e \in Dfcs : e # d /\ Has(q, e) => Has(Dequeue(q, d), e)
<1>1. CASE Has(q, d)
  <2>. DEFINE i == CHOOSE i \in 1..Len(q) : q[i] = d
              r == SubSeq(q, 1, i - 1) \o SubSeq(q, i + 1, Len(q))
              at(j) == IF j < i THEN j ELSE j + 1
  <2>1. i \in 1..Len(q) /\ Len(q) \in Nat
    BY <1>1 DEF Has
  <2>2. Dequeue(q, d) = r
    BY <1>1 DEF Dequeue
  <2>. HIDE DEF i
  <2>3. /\ SubSeq(q, 1, i - 1) \in Seq(Dfcs) /\ Len(SubSeq(q, 1, i - 1)) = i - 1
        /\ \A j \in 1..i - 1 : SubSeq(q, 1, i - 1)[j] = q[j]
    BY <2>1
  <2>4. /\ SubSeq(q, i + 1, Len(q)) \in Seq(Dfcs)
        /\ Len(SubSeq(q, i + 1, Len(q))) = Len(q) - i
        /\ \A j \in 1..Len(q) - i : SubSeq(q, i + 1, Len(q))[j] = q[i + j]
    BY <2>1
  <2>5. Len(r) = Len(q) - 1 /\ \A j \in 1..Len(q) - 1 : r[j] = q[at(j)]
    <3>. DEFINE s == SubSeq(q, 1, i - 1)
                t == SubSeq(q, i + 1, Len(q))
    <3>. HIDE DEF s, t
    <3>1. s \in Seq(Dfcs) /\ t \in Seq(Dfcs) /\ Len(s) = i - 1 /\ Len(t) = Len(q) - i
      BY <2>3, <2>4 DEF s, t
    <3>2. Len(s \o t) = Len(q) - 1
      BY <2>1, <3>1
    <3>3. ASSUME NEW j \in 1..Len(q) - 1 PROVE (s \o t)[j] = q[at(j)]
      <4>1. (s \o t)[j] = IF j <= i - 1 THEN s[j] ELSE t[j - (i - 1)]
        BY <2>1, <3>1
      <4>2. j <= i - 1 => s[j] = q[j]
        BY <2>1, <2>3 DEF s
      <4>3. j > i - 1 => t[j - (i - 1)] = q[i + (j - (i - 1))]
        BY <2>1, <2>4 DEF t
      <4>. QED  BY <2>1, <4>1, <4>2, <4>3
    <3>. QED  BY <3>2, <3>3 DEF s, t
  <2>. HIDE DEF r
  <2>6. /\ \A j \in 1..Len(q) - 1 : at(j) \in 1..Len(q)
        /\ \A j, k \in 1..Len(q) - 1 : at(j) = at(k) => j = k
    BY <2>1
  <2>. HIDE DEF at
  <2>7. NoRepeats(r)
    BY <2>5, <2>6 DEF NoRepeats
  <2>8. \A e \in Dfcs : Has(r, e) => Has(q, e)
    BY <2>5, <2>6 DEF Has
  <2>9. ASSUME NEW e \in Dfcs, e # d, Has(q, e) PROVE Has(r, e)
    <3>1. PICK p \in 1..Len(q) : q[p] = e
      BY <2>9 DEF Has
    <3>2. q[i] = d
      BY <1>1 DEF Has, i
    <3>3. PICK j \in 1..Len(q) - 1 : at(j) = p
      <4>1. p # i
        BY <2>9, <3>1, <3>2
      <4>2. CASE p < i
        BY <2>1, <4>2 DEF at
      <4>3. CASE p > i
        <5>1. p - 1 \in 1..Len(q) - 1 /\ at(p - 1) = p
          BY <2>1, <4>3 DEF at
        <5>. QED  BY <5>1
      <4>. QED  BY <2>1, <4>1, <4>2, <4>3
    <3>4. r[j] = e /\ j \in 1..Len(r)
      BY <2>5, <3>1, <3>3
    <3>. QED  BY <3>4 DEF Has
  <2>. QED  BY <2>2, <2>7, <2>8, <2>9
<1>2. CASE ~Has(q, d)
  BY <1>2 DEF Dequeue
<1>. QED  BY <1>1, <1>2

LEMMA RepeatStep == TypeInv /\ NoRepeats(dfcq) /\ [Next]_lddVars => NoRepeats(dfcq)'
<1>. SUFFICES ASSUME TypeInv, NoRepeats(dfcq), [Next]_lddVars PROVE NoRepeats(dfcq')
  OBVIOUS
<1>0. dfcq \in Seq(Dfcs) /\ "Turnaround" \in Dfcs /\ Kinds \subseteq Dfcs /\ {"ERxDA", "ETx"} \subseteq Kinds
  BY DEF TypeInv, TypeOK, Dfcs, Kinds
<1>1. NoRepeats(<< >>)
  BY DEF NoRepeats
<1>2. CASE UNCHANGED dfcq
  BY <1>2
<1>3. ASSUME NEW us \in TurnaroundUs, SetMinTurnaroundTime(us) PROVE NoRepeats(dfcq')
  <2>1. dfcq' \in {dfcq, Dequeue(dfcq, "Turnaround"),
                   Enque(Dequeue(dfcq, "Turnaround"), "Turnaround")}
    BY <1>3 DEF SetMinTurnaroundTime, ReleaseDelayed
  <2>2. Dequeue(dfcq, "Turnaround") \in Seq(Dfcs) /\ NoRepeats(Dequeue(dfcq, "Turnaround"))
    BY <1>0, DequeueType, DequeueHas
  <2>. QED  BY <1>0, <2>1, <2>2, EnqueHas
<1>4. ASSUME NEW C \in SUBSET {"ERx", "ETx", "ESigChg"}, NEW da \in BOOLEAN, Cancel(C, da)
      PROVE  NoRepeats(dfcq')
  <2>1. PICK Q : Q \in {dfcq, Enque(dfcq, "ERxDA")} /\ dfcq' \in {Q, Enque(Q, "ETx")}
    BY <1>4 DEF Cancel, QueueCancelled
  <2>2. {"ERxDA", "ETx"} \subseteq Dfcs
    BY <1>0
  <2>3. Q \in Seq(Dfcs) /\ NoRepeats(Q)
    <3>1. Enque(dfcq, "ERxDA") \in Seq(Dfcs) /\ NoRepeats(Enque(dfcq, "ERxDA"))
      BY <1>0, <2>2, EnqueType, EnqueHas
    <3>. QED  BY <1>0, <2>1, <3>1
  <2>. QED  BY <2>1, <2>2, <2>3, EnqueHas
<1>5. ASSUME NEW k \in Kinds, CompleteDfc(k) PROVE NoRepeats(dfcq')
  BY <1>0, <1>5, TailHas DEF CompleteDfc
<1>6. ASSUME NEW k \in Kinds, ClearError(k) PROVE NoRepeats(dfcq')
  <2>1. dfcq' \in {dfcq, Dequeue(dfcq, "Turnaround")}
    BY <1>6 DEF ClearError
  <2>. QED  BY <1>0, <2>1, DequeueHas
<1>7. CASE TurnaroundTimeout
  BY <1>0, <1>7, TailHas DEF TurnaroundTimeout
<1>8. CASE TimerExpired
  BY <1>0, <1>8, EnqueHas DEF TimerExpired, ReleaseDelayed
<1>9. ASSUME NEW k \in Kinds, NEW r \in PddReasons \cup {"KErrNone"}, PddEvent(k, r)
      PROVE  NoRepeats(dfcq')
  BY <1>0, <1>9, EnqueHas DEF PddEvent
<1>10. CASE Close \/ PddReturns
  BY <1>1, <1>10 DEF Close, PddReturns, StartReturns, StopReturns, ShutdownTail,
                     CancelDfcsAndTimer, DieReturns, CallReturns
<1>11. \/ UNCHANGED dfcq \/ Close \/ PddReturns \/ TurnaroundTimeout \/ TimerExpired
       \/ \E us \in TurnaroundUs : SetMinTurnaroundTime(us)
       \/ \E C \in SUBSET {"ERx", "ETx", "ESigChg"}, da \in BOOLEAN : Cancel(C, da)
       \/ \E k \in Kinds : CompleteDfc(k) \/ ClearError(k)
       \/ \E k \in Kinds, r \in PddReasons \cup {"KErrNone"} : PddEvent(k, r)
  BY DEF Next, Request, Break, Delete, PortControl, lddVars
<1>. QED  BY <1>2, <1>3, <1>4, <1>5, <1>6, <1>7, <1>8, <1>9, <1>10, <1>11

-----------------------------------------------------------------------------
(* Requests are numbered: the one outstanding is one that was issued, and    *)
(* none is outstanding before the port is started.                           *)

NumberInv ==
  /\ \A k \in Kinds : pending[k] <= issued[k]
  /\ status = "EOpen" => \A k \in Kinds : pending[k] = 0
  /\ 0 \notin WriteLens => txDes # 0 /\ (call.fn = "Write" => call.msg.len # 0)

LEMMA DispatchNumbers ==
  ASSUME TypeInv, NEW m \in Requests, NEW n \in Nat, Dispatch(m, n)
  PROVE  /\ \A k \in Kinds : pending'[k] \in {pending[k], n}
         /\ \A k \in Kinds : k # KindOf[m.op] => pending'[k] = pending[k]
         /\ 0 \notin WriteLens => /\ txDes # 0 => txDes' # 0
                                  /\ call'.fn = "Write" => call'.msg.len # 0
<1>0. pending \in [Kinds -> Nat] /\ KindOf[m.op] \in Kinds
  BY KindOfType DEF TypeInv, TypeOK
<1>1. CASE DispatchRead(m, n)
  <2>1. KindOf[m.op] = "ERx"
    BY <1>1 DEF DispatchRead, KindOf
  <2>. QED  BY <1>0, <1>1, <2>1, NoCallType DEF DispatchRead, turnVars
<1>2. CASE DispatchWrite(m, n)
  <2>1. KindOf[m.op] = "ETx" /\ m.len \in WriteLens
    BY <1>2 DEF DispatchWrite, KindOf, Requests
  <2>. QED  BY <1>0, <1>2, <2>1, NoCallType DEF DispatchWrite
<1>3. CASE DispatchNotify(m, n)
  BY <1>0, <1>3 DEF DispatchNotify, turnVars
<1>. QED  BY <1>1, <1>2, <1>3 DEF Dispatch

LEMMA CompleteNumbers ==
  ASSUME NEW K, NEW r, Complete(K, r)
  PROVE  /\ \A k \in Kinds : pending'[k] = IF k \in K THEN 0 ELSE pending[k]
         /\ \A k \in Kinds : k \notin K => last'[k] = last[k]
  BY DEF Complete

LEMMA NumberInit == Init => NumberInv /\ NoRepeats(dfcq)
  BY NoCallType DEF Init, NumberInv, NoRepeats, NoDes

LEMMA NumberStep == TypeInv /\ CallInv /\ NumberInv /\ [Next]_lddVars => NumberInv'
<1>. SUFFICES ASSUME TypeInv, CallInv, NumberInv, [Next]_lddVars PROVE NumberInv'
  OBVIOUS
<1>0. /\ pending \in [Kinds -> Nat] /\ issued \in [Kinds -> Nat]
      /\ NoCall.fn = "none" /\ \A f \in Fns : Calling(f).fn = f
  BY NoCallType, CallingType DEF TypeInv, TypeOK
<1>. DEFINE Fewer == /\ \A k \in Kinds : pending'[k] \in {0, pending[k]}
                     /\ UNCHANGED issued
                     /\ txDes' \in {txDes, NoDes}
                     /\ call'.fn = "Write" => call' = call
                     /\ status' = "EOpen" => status = "EOpen"
<1>1. Fewer => NumberInv'
  BY <1>0 DEF NumberInv, NoDes
<1>2. ASSUME NEW m \in Requests, Request(m) PROVE NumberInv'
  <2>. DEFINE k == KindOf[m.op]
  <2>1. k \in Kinds /\ issued' = [issued EXCEPT ![k] = @ + 1] /\ issued[k] + 1 \in Nat
    BY <1>0, <1>2, KindOfType DEF Request
  <2>2. CASE call' = [fn |-> "Start", msg |-> m] /\ UNCHANGED <<reqVars, turnVars>>
    BY <1>0, <1>2, <2>1, <2>2 DEF Request, NumberInv, reqVars, turnVars
  <2>3. CASE status = "EActive" /\ Dispatch(m, issued[k] + 1)
    BY <1>0, <1>2, <2>1, <2>3, DispatchNumbers DEF Request, NumberInv
  <2>. QED  BY <1>2, <2>2, <2>3 DEF Request
<1>3. CASE Break
  <2>1. CASE DispatchBreak(BreakMsg)
    BY <1>0, <1>1, <1>3, <2>1, CompleteNumbers DEF Break, DispatchBreak, turnVars
  <2>. QED  BY <1>1, <1>3, <2>1 DEF Break, reqVars, turnVars
<1>4. CASE Close \/ Delete
  <2>1. CASE ShutdownTail
    BY <1>0, <1>1, <2>1, CompleteNumbers DEF ShutdownTail, inVars
  <2>2. CASE call' \in {Calling("Stop"), Calling("Die")}
             /\ UNCHANGED <<status, reqVars, err, dfcq, turnVars, inVars>>
    BY <1>0, <1>1, <2>2 DEF Fns, PddFns, reqVars, turnVars, inVars
  <2>. QED  BY <1>4, <2>1, <2>2 DEF Close, Delete
<1>5. ASSUME NEW us \in TurnaroundUs, SetMinTurnaroundTime(us) PROVE NumberInv'
  BY <1>1, <1>5 DEF SetMinTurnaroundTime, reqVars
<1>6. ASSUME NEW c \in PortControls, NEW anyPending \in BOOLEAN, PortControl(c, anyPending)
      PROVE  NumberInv'
  BY <1>0, <1>1, <1>6 DEF PortControl, reqVars, turnVars, Fns, PddFns
<1>7. ASSUME NEW C \in SUBSET {"ERx", "ETx", "ESigChg"}, NEW da \in BOOLEAN, Cancel(C, da)
      PROVE  NumberInv'
  BY <1>0, <1>1, <1>7, CompleteNumbers DEF Cancel
<1>8. CASE PddReturns
  <2>1. CASE StartReturns
    <3>1. CASE call.msg.op \in DOMAIN KindOf /\ Dispatch(call.msg, issued[KindOf[call.msg.op]])
      <4>1. call.msg \in Requests /\ KindOf[call.msg.op] \in Kinds
        BY <2>1, <3>1, KindOfType DEF StartReturns, TypeInv, StartedMsg, BreakMsg, KindOf
      <4>2. issued[KindOf[call.msg.op]] \in Nat /\ status' = "EActive" /\ UNCHANGED issued
        BY <1>0, <2>1, <4>1 DEF StartReturns, inVars
      <4>. QED  BY <1>0, <3>1, <4>1, <4>2, DispatchNumbers DEF NumberInv
    <3>2. CASE DispatchBreak(call.msg)
      BY <1>0, <1>1, <2>1, <3>2, CompleteNumbers DEF StartReturns, DispatchBreak, turnVars, inVars
    <3>. QED  BY <2>1, <3>1, <3>2 DEF StartReturns
  <2>2. CASE StopReturns
    BY <1>0, <1>1, <2>2, CompleteNumbers DEF StopReturns, ShutdownTail, inVars
  <2>3. CASE DieReturns
    BY <1>0, <1>1, <2>3 DEF DieReturns, reqVars, turnVars, inVars
  <2>4. CASE CallReturns
    BY <1>0, <1>1, <2>4 DEF CallReturns, reqVars, inVars
  <2>. QED  BY <1>8, <2>1, <2>2, <2>3, <2>4 DEF PddReturns
<1>9. ASSUME NEW k \in Kinds, CompleteDfc(k) \/ ClearError(k) PROVE NumberInv'
  BY <1>0, <1>1, <1>9, CompleteNumbers
     DEF CompleteDfc, ClearError, Fns, Kinds, reqVars, turnVars, inVars
<1>10. CASE TurnaroundTimeout
  <2>1. \A k \in Kinds : pending'[k] \in {0, pending[k]}
    BY <1>10, CompleteNumbers DEF TurnaroundTimeout, reqVars
  <2>2. call'.fn = "Write" /\ call' # call => call'.msg.len = txDes
    BY <1>10 DEF TurnaroundTimeout
  <2>3. UNCHANGED <<status, txDes, issued>>
    BY <1>10 DEF TurnaroundTimeout, inVars
  <2>. QED  BY <1>0, <2>1, <2>2, <2>3 DEF NumberInv
<1>11. CASE TimerExpired
  BY <1>1, <1>11 DEF TimerExpired, reqVars, inVars
<1>12. ASSUME NEW k \in Kinds, NEW r \in PddReasons \cup {"KErrNone"}, PddEvent(k, r)
       PROVE  NumberInv'
  BY <1>1, <1>12 DEF PddEvent, reqVars, turnVars, inVars
<1>13. CASE UNCHANGED lddVars
  BY <1>1, <1>13 DEF lddVars, reqVars, turnVars, inVars
<1>. QED  BY <1>2, <1>3, <1>4, <1>5, <1>6, <1>7, <1>8, <1>9, <1>10, <1>11, <1>12, <1>13 DEF Next

-----------------------------------------------------------------------------
(* A client whose requests end only when the driver completes them.          *)

Calm ==
  /\ "Cancel" \notin Ops
  /\ "Break" \in Ops => BreakMask \cap {"ERx", "ETx"} = {}

\* The channel serves requests: it is neither closed nor being closed.
Live == Open /\ call.fn # "Stop"

\* What one step of the kernel thread does to the write that is outstanding: nothing,
\* or it holds it back or calls the comm thread with it, or it calls the comm
\* thread with the one held back, or completes it.
KeepsWrite ==
  /\ UNCHANGED <<pending["ETx"], last["ETx"]>>
  /\ call'.fn \notin {"Write", "ETx"} /\ (delayed' => delayed)
  /\ Queued("ETx")' => Queued("ETx")
  /\ err'["ETx"] = err["ETx"] \/ call.fn = "ETx"

StartsWrite ==
  /\ UNCHANGED <<err["ETx"], last["ETx"]>>
  /\ pending["ETx"] = 0 /\ pending'["ETx"] # 0 /\ pending'["ETx"] = issued'["ETx"]
  /\ status = "EOpen" \/ issued["ETx"] < issued'["ETx"]
  /\ call'.fn \in {"none", "Write"} /\ (call'.fn = "Write" => delayed' = delayed)
  /\ Queued("ETx")' => Queued("ETx")

ReleasesWrite ==
  /\ UNCHANGED <<pending["ETx"], last["ETx"], err["ETx"]>>
  /\ delayed /\ ~delayed' /\ call'.fn = "Write"
  /\ Queued("ETx")' => Queued("ETx")

CompletesWrite ==
  /\ Queued("ETx") /\ ~Queued("ETx")' /\ UNCHANGED <<delayed, err["ETx"]>>
  /\ pending'["ETx"] = 0 /\ call'.fn = "ETx"
  /\ pending["ETx"] # 0 => last'["ETx"] = [req |-> pending["ETx"], reason |-> err["ETx"]]

\* ... and to the read.
KeepsRead ==
  /\ UNCHANGED pending["ERx"]
  /\ call'.fn \notin {"Read", "ERx"}
  /\ Queued("ERx")' <=> Queued("ERx")
  /\ err'["ERx"] = err["ERx"] \/ (call.fn = "ERx" /\ err'["ERx"] = "KErrNone")

StartsRead ==
  /\ UNCHANGED err["ERx"]
  /\ pending["ERx"] = 0 /\ pending'["ERx"] # 0
  /\ call'.fn = "Read" /\ call'.msg.len \in ReadLens
  /\ Queued("ERx")' => Queued("ERx")

CompletesRead ==
  /\ Queued("ERx") /\ ~Queued("ERx")' /\ UNCHANGED err["ERx"]
  /\ pending'["ERx"] = 0 /\ call'.fn = "ERx"

KernelSteps ==
  /\ KeepsWrite \/ StartsWrite \/ ReleasesWrite \/ CompletesWrite
  /\ KeepsRead \/ StartsRead \/ CompletesRead

\* The channel is closed, or about to be.
Closes ==
  /\ ~Live' /\ call'.fn \notin {"Read", "ERx"}
  /\ UNCHANGED last["ETx"] \/ last'["ETx"].reason = "KErrAbort"

LddInv == TypeInv /\ CallInv /\ HoldInv /\ NumberInv /\ NoRepeats(dfcq)

LEMMA DispatchSteps ==
  ASSUME LddInv, NEW m \in Requests, NEW n \in Nat \ {0}, Dispatch(m, n),
         pending[KindOf[m.op]] = 0, issued'[KindOf[m.op]] = n,
         status = "EOpen" \/ issued[KindOf[m.op]] < n,
         UNCHANGED <<dfcq, err>>
  PROVE  KernelSteps
<1>0. pending \in [Kinds -> Nat] /\ last \in [Kinds -> [req : Nat, reason : Reasons]]
  BY DEF LddInv, TypeInv, TypeOK
<1>. USE NoCallType DEF Queued, KernelSteps
<1>1. CASE DispatchRead(m, n)
  <2>1. KindOf[m.op] = "ERx" /\ m.len \in ReadLens
    BY <1>1 DEF DispatchRead, KindOf, Requests
  <2>2. KeepsWrite
    BY <1>0, <1>1 DEF DispatchRead, KeepsWrite, turnVars, Kinds
  <2>3. KeepsRead \/ StartsRead
    BY <1>0, <1>1, <2>1 DEF DispatchRead, KeepsRead, StartsRead, Kinds
  <2>. QED  BY <2>2, <2>3
<1>2. CASE DispatchWrite(m, n)
  <2>1. KindOf[m.op] = "ETx"
    BY <1>2 DEF DispatchWrite, KindOf
  <2>2. StartsWrite
    BY <1>0, <1>2, <2>1 DEF DispatchWrite, StartsWrite, Kinds
  <2>3. KeepsRead
    BY <1>0, <1>2 DEF DispatchWrite, KeepsRead, Kinds
  <2>. QED  BY <2>2, <2>3
<1>3. CASE DispatchNotify(m, n)
  <2>1. KindOf[m.op] \in {"ESigChg", "ERxDA"}
    BY <1>3 DEF DispatchNotify, KindOf
  <2>2. KeepsWrite
    BY <1>0, <1>3, <2>1 DEF DispatchNotify, KeepsWrite, turnVars, Kinds
  <2>3. KeepsRead
    BY <1>0, <1>3, <2>1 DEF DispatchNotify, KeepsRead, Kinds
  <2>. QED  BY <2>2, <2>3
<1>. QED  BY <1>1, <1>2, <1>3 DEF Dispatch

\* A step that leaves requests and errors alone keeps both.
LEMMA QuietSteps ==
  ASSUME UNCHANGED <<pending, last, err>>, call'.fn \notin {"Read", "Write", "ERx", "ETx"},
         delayed' => delayed,
         \A k \in {"ERx", "ETx"} : Queued(k)' <=> Queued(k)
  PROVE  KernelSteps
  BY DEF KernelSteps, KeepsWrite, KeepsRead

LEMMA BreakSteps ==
  ASSUME "Break" \in Ops, Calm, DispatchBreak(BreakMsg), UNCHANGED <<dfcq, err>>
  PROVE  KernelSteps
<1>1. UNCHANGED <<pending["ERx"], pending["ETx"], last["ETx"]>>
  BY CompleteNumbers DEF Calm, DispatchBreak, Kinds
<1>. QED  BY <1>1, NoCallType
          DEF DispatchBreak, turnVars, KernelSteps, KeepsWrite, KeepsRead, Queued

LEMMA ShutdownSteps ==
  ASSUME ShutdownTail, TypeInv
  PROVE  Closes
  BY NoCallType DEF ShutdownTail, Complete, Closes, Live, Open, Kinds, TypeInv, TypeOK

LEMMA ReturnSteps ==
  ASSUME Calm, LddInv, Asked, PddReturns
  PROVE  KernelSteps \/ Closes
<1>0. NoCall.fn = "none" /\ pending \in [Kinds -> Nat] /\ issued \in [Kinds -> Nat]
  BY NoCallType DEF LddInv, TypeInv, TypeOK
<1>1. CASE StartReturns
  <2>1. UNCHANGED <<err, dfcq, issued>> /\ status = "EOpen"
    BY <1>1 DEF StartReturns, inVars, LddInv, CallInv
  <2>2. CASE call.msg.op \in DOMAIN KindOf /\ Dispatch(call.msg, issued[KindOf[call.msg.op]])
    <3>1. call.msg \in Requests /\ KindOf[call.msg.op] \in Kinds
      BY <1>1, <2>2, KindOfType DEF StartReturns, LddInv, TypeInv, StartedMsg, BreakMsg, KindOf
    <3>2. issued[KindOf[call.msg.op]] \in Nat \ {0}
      BY <1>0, <1>1, <2>2, <3>1 DEF StartReturns, Asked
    <3>3. pending[KindOf[call.msg.op]] = 0
      BY <2>1, <3>1 DEF LddInv, NumberInv
    <3>. QED  BY <2>1, <2>2, <3>1, <3>2, <3>3, DispatchSteps
  <2>3. CASE DispatchBreak(call.msg)
    <3>1. /\ UNCHANGED <<pending["ERx"], pending["ETx"], last["ETx"]>>
          /\ call' = NoCall /\ UNCHANGED delayed
      <4>1. \A k \in Kinds : pending[k] = 0
        BY <2>1 DEF LddInv, NumberInv
      <4>2. /\ \A k \in Kinds : pending'[k] = 0
            /\ last' = [k \in Kinds |-> last[k]]
        BY <2>3, <4>1 DEF DispatchBreak, Complete
      <4>. QED  BY <2>3, <4>1, <4>2 DEF DispatchBreak, Kinds, turnVars
    <3>. QED  BY <1>0, <2>1, <3>1 DEF KernelSteps, KeepsWrite, KeepsRead, Queued
  <2>. QED  BY <1>1, <2>2, <2>3 DEF StartReturns
<1>2. CASE StopReturns
  BY <1>2, ShutdownSteps DEF StopReturns, LddInv
<1>3. CASE DieReturns
  BY <1>0, <1>3 DEF DieReturns, reqVars, Closes, Live, Open
<1>4. CASE CallReturns
  BY <1>0, <1>4, QuietSteps DEF CallReturns, reqVars, Queued
<1>. QED  BY <1>1, <1>2, <1>3, <1>4 DEF PddReturns

LEMMA DequeueTurnaround ==
  ASSUME LddInv, dfcq' \in {Dequeue(dfcq, "Turnaround"),
                            Enque(Dequeue(dfcq, "Turnaround"), "Turnaround"), dfcq},
         NEW k \in {"ERx", "ETx"}
  PROVE  Queued(k)' <=> Queued(k)
<1>1. dfcq \in Seq(Dfcs) /\ NoRepeats(dfcq) /\ k \in Dfcs /\ "Turnaround" \in Dfcs
  BY DEF LddInv, TypeInv, TypeOK, Dfcs, Kinds
<1>. DEFINE q == Dequeue(dfcq, "Turnaround")
<1>2. q \in Seq(Dfcs) /\ NoRepeats(q) /\ (Has(q, k) <=> Has(dfcq, k))
  BY <1>1, DequeueType, DequeueHas
<1>. HIDE DEF q
<1>3. Has(Enque(q, "Turnaround"), k) <=> Has(q, k)
  BY <1>1, <1>2, EnqueHas, EnqueQueues
<1>. QED  BY <1>2, <1>3 DEF Queued, q

LEMMA StepSteps ==
  ASSUME Calm, LddInv, KStep
  PROVE  KernelSteps \/ Closes
<1>0. /\ NoCall.fn = "none" /\ \A f \in Fns : Calling(f).fn = f
      /\ pending \in [Kinds -> Nat] /\ issued \in [Kinds -> Nat]
      /\ err \in [Kinds -> Reasons] /\ dfcq \in Seq(Dfcs) /\ NoRepeats(dfcq)
  BY NoCallType, CallingType DEF LddInv, TypeInv, TypeOK
<1>1. ASSUME NEW m \in Requests, Request(m) PROVE KernelSteps
  <2>. DEFINE k == KindOf[m.op]
  <2>1. /\ k \in Kinds /\ issued' = [issued EXCEPT ![k] = @ + 1]
        /\ issued[k] + 1 \in Nat \ {0} /\ issued'[k] = issued[k] + 1
        /\ pending[k] = 0 /\ UNCHANGED <<err, dfcq>>
    BY <1>0, <1>1, KindOfType DEF Request
  <2>2. CASE call' = [fn |-> "Start", msg |-> m] /\ UNCHANGED <<reqVars, turnVars>>
    BY <2>1, <2>2, QuietSteps DEF reqVars, turnVars, Queued
  <2>3. CASE Dispatch(m, issued[k] + 1)
    <3>1. issued[k] < issued[k] + 1
      BY <1>0, <2>1
    <3>. QED  BY <2>1, <2>3, <3>1, DispatchSteps
  <2>. QED  BY <1>1, <2>2, <2>3 DEF Request
<1>2. CASE Break
  <2>1. CASE call' = [fn |-> "Start", msg |-> BreakMsg] /\ UNCHANGED <<reqVars, turnVars>>
    BY <1>2, <2>1, QuietSteps DEF Break, reqVars, turnVars, Queued
  <2>2. CASE DispatchBreak(BreakMsg)
    BY <1>2, <2>2, BreakSteps DEF Break
  <2>. QED  BY <1>2, <2>1, <2>2 DEF Break
<1>3. CASE Close
  <2>1. CASE call' = Calling("Stop") /\ UNCHANGED reqVars
    BY <1>0, <2>1 DEF Closes, Live, reqVars, Fns, PddFns
  <2>. QED  BY <1>3, <2>1, ShutdownSteps DEF Close, LddInv
<1>4. CASE Delete
  BY <1>0, <1>4 DEF Delete, Closes, Live, Open, reqVars, Fns, PddFns
<1>5. CASE TurnaroundTimeout
  <2>1. \A k \in {"ERx", "ETx"} : Queued(k)' <=> Queued(k)
    <3>1. {"ERx", "ETx"} \subseteq Dfcs
      BY DEF Dfcs, Kinds
    <3>2. dfcq # << >> /\ Head(dfcq) = "Turnaround" /\ dfcq' = Tail(dfcq)
      BY <1>5 DEF TurnaroundTimeout
    <3>. QED  BY <1>0, <3>1, <3>2, TailHas, TailKeeps DEF Queued
  <2>2. UNCHANGED err /\ delayed' = FALSE /\ call.fn = "none"
    BY <1>0, <1>5 DEF TurnaroundTimeout, TakeDelayed, Idle
  <2>3. CASE ~delayed
    BY <1>5, <2>1, <2>2, <2>3, QuietSteps DEF TurnaroundTimeout, reqVars
  <2>4. CASE delayed
    <3>1. txDes # NoDes
      BY <2>4 DEF LddInv, HoldInv, DelayedWriteHasDescriptor
    <3>2. call'.fn = "Write" /\ UNCHANGED <<pending, last>>
      BY <1>5, <2>4, <3>1 DEF TurnaroundTimeout, reqVars
    <3>. QED  BY <2>1, <2>2, <2>4, <3>2 DEF KernelSteps, ReleasesWrite, KeepsRead
  <2>. QED  BY <2>3, <2>4
<1>6. ASSUME NEW us \in TurnaroundUs, SetMinTurnaroundTime(us) PROVE KernelSteps
  <2>1. dfcq' \in {Dequeue(dfcq, "Turnaround"),
                   Enque(Dequeue(dfcq, "Turnaround"), "Turnaround"), dfcq}
    BY <1>6 DEF SetMinTurnaroundTime, ReleaseDelayed
  <2>2. \A k \in {"ERx", "ETx"} : Queued(k)' <=> Queued(k)
    BY <2>1, DequeueTurnaround
  <2>. QED  BY <1>0, <1>6, <2>2, QuietSteps DEF SetMinTurnaroundTime, reqVars, Idle
<1>7. ASSUME NEW c \in PortControls, PortControl(c, AreAnyPending) PROVE KernelSteps
  BY <1>0, <1>7, QuietSteps DEF PortControl, reqVars, turnVars, Fns, PddFns, Queued
<1>8. ASSUME NEW k \in Kinds, ClearError(k) PROVE KernelSteps
  <2>1. dfcq' \in {Dequeue(dfcq, "Turnaround"),
                   Enque(Dequeue(dfcq, "Turnaround"), "Turnaround"), dfcq}
    BY <1>8 DEF ClearError
  <2>2. \A j \in {"ERx", "ETx"} : Queued(j)' <=> Queued(j)
    BY <2>1, DequeueTurnaround
  <2>3. \A j \in {"ERx", "ETx"} : err'[j] = err[j] \/ (call.fn = j /\ err'[j] = "KErrNone")
    BY <1>0, <1>8 DEF ClearError, Kinds
  <2>. QED  BY <1>0, <1>8, <2>2, <2>3 DEF ClearError, reqVars, KernelSteps, KeepsWrite, KeepsRead
<1>. QED  BY <1>1, <1>2, <1>3, <1>4, <1>5, <1>6, <1>7, <1>8 DEF KStep

LEMMA CompletionSteps ==
  ASSUME LddInv, NEW k \in Kinds, CompleteDfc(k)
  PROVE  KernelSteps
<1>0. /\ dfcq \in Seq(Dfcs) /\ NoRepeats(dfcq) /\ Kinds \subseteq Dfcs /\ {"ERx", "ETx"} \subseteq Kinds
      /\ NoCall.fn = "none" /\ Calling(k).fn = k
  BY NoCallType, CallingType DEF LddInv, TypeInv, TypeOK, Dfcs, Kinds, Fns
<1>1. /\ call' = Calling(k) /\ call = NoCall /\ UNCHANGED <<err, delayed>>
      /\ Complete({k}, err[k])
      /\ dfcq # << >> /\ Head(dfcq) = k /\ dfcq' = Tail(dfcq)
  BY DEF CompleteDfc, Idle, turnVars
<1>2. \A e \in {"ERx", "ETx"} : Queued(e)' <=> (Queued(e) /\ e # k)
  BY <1>0, <1>1, TailHas, TailKeeps DEF Queued
<1>3. Queued(k)
  <2>1. 1 \in 1..Len(dfcq) /\ dfcq[1] = k
    BY <1>0, <1>1
  <2>. QED  BY <2>1 DEF Queued, Has
<1>4. /\ \A e \in {"ERx", "ETx"} : e # k => UNCHANGED <<pending[e], last[e]>>
      /\ pending'[k] = 0
      /\ pending[k] # 0 => last'[k] = [req |-> pending[k], reason |-> err[k]]
  BY <1>0, <1>1 DEF Complete
<1>5. KeepsWrite \/ CompletesWrite
  BY <1>0, <1>1, <1>2, <1>3, <1>4 DEF KeepsWrite, CompletesWrite, Kinds
<1>6. KeepsRead \/ CompletesRead
  BY <1>0, <1>1, <1>2, <1>3, <1>4 DEF KeepsRead, CompletesRead, Kinds
<1>. QED  BY <1>5, <1>6 DEF KernelSteps

\* A channel that is closed stays closed.
LEMMA ClosedSteps ==
  ASSUME Calm, TypeInv, CallInv, ~Live, Kernel
  PROVE  Closes
<1>0. NoCall.fn = "none" /\ \A f \in Fns : Calling(f).fn = f
  BY NoCallType, CallingType
<1>1. Idle => ~Open
  BY <1>0 DEF Live, Idle
<1>2. CASE KReturns
  <2>1. CASE StartReturns
    BY <2>1 DEF StartReturns, CallInv, Live, Open
  <2>2. CASE StopReturns
    BY <2>2, ShutdownSteps DEF StopReturns
  <2>3. CASE DieReturns
    BY <1>0, <2>3 DEF DieReturns, Closes, Live, Open, reqVars
  <2>4. CASE CallReturns
    BY <1>0, <2>4 DEF CallReturns, Closes, Live, Open, reqVars
  <2>. QED  BY <1>2, <2>1, <2>2, <2>3, <2>4 DEF KReturns, PddReturns
<1>3. CASE KStep
  <2>1. Delete \/ \E k \in Kinds : ClearError(k)
    BY <1>1, <1>3 DEF KStep, Request, Break, Close, TurnaroundTimeout, SetMinTurnaroundTime,
                     PortControl
  <2>2. CASE Delete
    BY <1>0, <2>2 DEF Delete, Closes, Live, Open, reqVars, Fns, PddFns
  <2>3. ASSUME NEW k \in Kinds, ClearError(k) PROVE Closes
    BY <1>0, <2>3 DEF ClearError, Closes, Live, Open, reqVars, Kinds
  <2>. QED  BY <2>1, <2>2, <2>3
<1>4. ASSUME NEW k \in Kinds, KCompleteDfc(k) PROVE FALSE
  BY <1>1, <1>4 DEF KCompleteDfc, CompleteDfc
<1>5. CASE KResetBuffers
  BY <1>1, <1>5 DEF KResetBuffers, PortControl
<1>6. ASSUME NEW C \in SUBSET {"ERx", "ETx", "ESigChg"}, KCancel(C) PROVE FALSE
  BY <1>6 DEF KCancel, Cancel, Calm
<1>. QED  BY <1>2, <1>3, <1>4, <1>5, <1>6 DEF Kernel

\* What the kernel thread does to a client that does not cancel.
LEMMA KernelDoes ==
  ASSUME Calm, LddInv, Asked, Kernel
  PROVE  (Live /\ KernelSteps) \/ Closes
<1>1. CASE KReturns
  BY <1>1, ReturnSteps, ClosedSteps DEF KReturns, LddInv
<1>2. ASSUME NEW k \in Kinds, KCompleteDfc(k) PROVE KernelSteps
  BY <1>2, CompletionSteps DEF KCompleteDfc
<1>3. ASSUME KResetBuffers PROVE KernelSteps
  <2>1. /\ UNCHANGED <<pending, last, err, dfcq, delayed>>
        /\ call' \in {Calling("Panic"), NoCall, Calling("Configure")}
    BY <1>3 DEF KResetBuffers, PortControl, reqVars, turnVars
  <2>2. call'.fn \in {"Panic", "none", "Configure"}
    BY <2>1, NoCallType, CallingType DEF Fns, PddFns
  <2>. QED  BY <2>1, <2>2, QuietSteps DEF Queued
<1>4. ASSUME NEW C \in SUBSET {"ERx", "ETx", "ESigChg"}, KCancel(C) PROVE FALSE
  BY <1>4 DEF KCancel, Cancel, Calm
<1>. QED  BY <1>1, <1>2, <1>3, <1>4, StepSteps, ClosedSteps DEF Kernel, LddInv

\* It does nothing else to the data and the I/O than these, and is never between
\* RunCommThread's two halves.
Posted(f) == call.fn = f /\ (commSem > 0 \/ cpc = "event1")

LEMMA KernelFrame ==
  ASSUME "Cancel" \notin Ops, CommandInv, Kernel
  PROVE  /\ UNCHANGED <<cpc, signalled, writePending, wrReq, wrRes, wire, readPending,
                       rdOut, rdRes, rxLineFail, inBuf, arrived>>
         /\ commSem = 0 /\ cpc # "event1"
         /\ outReq' = IF commSem' > 0 /\ call'.fn = "Write" /\ call'.msg.len # 0
                      THEN pending'["ETx"] ELSE outReq
         /\ readLen' = IF commSem' > 0 /\ call'.fn = "Read"
                       THEN IF call'.msg.len < 0 THEN -call'.msg.len ELSE call'.msg.len
                       ELSE readLen
<1>0. commSem \in Nat /\ drvSem \in Nat
  BY DEF CommandInv, BalanceInv, SemTypes
<1>1. CASE KReturns \/ KStep \/ \E k \in Kinds : KCompleteDfc(k)
  <2>1. PostCommand
    BY <1>1 DEF KReturns, KStep, KCompleteDfc
  <2>2. commSem = 0 /\ cpc # "event1"
    <3>1. CASE KReturns
      BY <1>0, <3>1, OneHandOver DEF KReturns, Acknowledged
    <3>2. CASE KStep
      BY <3>2, OneHandOver, StepBeginsOutside
    <3>3. ASSUME NEW k \in Kinds, KCompleteDfc(k) PROVE ~InPdd
      BY <3>3, NoCallType DEF KCompleteDfc, CompleteDfc, Idle, InPdd, PddFns
    <3>. QED  BY <1>1, <3>1, <3>2, <3>3, OneHandOver
  <2>3. commSem' > 0 <=> Entering
    BY <2>1, <2>2 DEF PostCommand
  <2>. QED  BY <2>1, <2>2, <2>3 DEF PostCommand
<1>2. CASE KResetBuffers
  <2>1. commSem = 0 /\ cpc # "event1" /\ commSem' = commSem
    BY <1>2, ResetSteps, OneHandOver
  <2>. QED  BY <1>2, <2>1 DEF KResetBuffers, syncVars, writeVars
<1>3. ASSUME NEW C \in SUBSET {"ERx", "ETx", "ESigChg"}, KCancel(C) PROVE FALSE
  BY <1>3 DEF KCancel, Cancel
<1>. QED  BY <1>1, <1>2, <1>3 DEF Kernel

-----------------------------------------------------------------------------
(* What the comm thread and the host do.                                     *)

BaseInv == RefInv /\ LddInv

LEMMA ThreadFrame ==
  ASSUME [PddNext]_vars, ~Kernel
  PROVE  UNCHANGED <<status, call, pending, last, issued, delayed, txDes, outReq, readLen,
                     purged, got>>
<1>. USE DEF reqVars, turnVars, inVars, lddVars, writeVars, readVars, Report
<1>1. CASE WaitForEvent \/ SignalDriverThread \/ ExitThread
  BY <1>1 DEF WaitForEvent, SignalDriverThread, ExitThread
<1>2. CASE DriverCommand
  BY <1>2 DEF DriverCommand, Transmit, Transmit0, Receive, StartPort, StopPort, NotifyData,
              NotifySignal, NoEffect
<1>3. CASE \/ DataAvailableEvent \/ SignalsEvent \/ HeldWriteEvent
           \/ WriteCompletion \/ ReadCompletion \/ CompleteRead
  BY <1>3 DEF DataAvailableEvent, SignalsEvent, HeldWriteEvent, WriteCompletion,
              ReadCompletion, CompleteRead
<1>4. CASE Host \/ TimerInterrupt \/ UNCHANGED vars
  BY <1>4 DEF Host, WriteDone, DataArrives, LineChanges, TimerInterrupt, TimerExpired,
              vars, pddVars
<1>. QED  BY <1>1, <1>2, <1>3, <1>4 DEF PddNext, CommThread

\* The comm thread takes what was posted, and posts nothing itself.
LEMMA ThreadPosts ==
  ASSUME CommandInv, [PddNext]_vars, ~Kernel, NEW f
  PROVE  /\ Posted(f)' => Posted(f)
         /\ DriverCommand => Posted(call.fn) /\ ~Posted(f)'
<1>1. CASE DriverCommand
  <2>1. cpc = "event1" /\ cpc' # "event1" /\ commSem' = commSem
    BY <1>1 DEF DriverCommand, AfterCommand
  <2>2. commSem = 0
    BY <2>1, OneHandOver
  <2>. QED  BY <2>1, <2>2 DEF Posted
<1>2. CASE WaitForEvent
  <2>1. UNCHANGED call
    BY <1>2 DEF WaitForEvent, lddVars
  <2>2. \/ commSem > 0
        \/ commSem' = commSem /\ cpc' # "event1"
    BY <1>2 DEF WaitForEvent
  <2>. QED  BY <1>2, <2>1, <2>2 DEF Posted, WaitForEvent, DriverCommand
<1>3. CASE SignalDriverThread \/ ExitThread
  BY <1>3 DEF SignalDriverThread, ExitThread, Posted, lddVars, DriverCommand
<1>4. CASE \/ DataAvailableEvent \/ SignalsEvent \/ HeldWriteEvent
           \/ WriteCompletion \/ ReadCompletion \/ CompleteRead
           \/ Host \/ TimerInterrupt \/ UNCHANGED vars
  <2>1. UNCHANGED <<call, commSem>> /\ (cpc' = "event1" => cpc = "event1")
    BY <1>4, EventSteps
  <2>. QED  BY <1>1, <2>1 DEF Posted
<1>. QED  BY <1>1, <1>2, <1>3, <1>4 DEF PddNext, CommThread

\* A report concerns no other DFC.
LEMMA ReportQueues ==
  ASSUME LddInv, NEW d \in Dfcs, dfcq' \in {dfcq, Enque(dfcq, d)}, NEW k \in Dfcs, k # d
  PROVE  Queued(k)' <=> Queued(k)
<1>1. dfcq \in Seq(Dfcs) /\ NoRepeats(dfcq)
  BY DEF LddInv, TypeInv, TypeOK
<1>. QED  BY <1>1, EnqueHas, EnqueQueues DEF Queued

\* The command the comm thread executes is that of the call.
LEMMA CommandCalls ==
  ASSUME TypeInv, CommandInv, CallInv, cpc = "event1"
  PROVE  /\ iCommand = "ETransmit" => call.fn = "Write" /\ call.msg.len # 0
         /\ iCommand = "ETransmit0" => call.fn = "Write" /\ call.msg.len = 0
         /\ iCommand \in {"EReceive", "EReceiveOneOrMore"} => call.fn = "Read"
         /\ iCommand = "EStop" => call.fn = "Stop"
         /\ call.fn \in {"Read", "Write"} => Live
<1>1. iCommand = CommandOf(call)
  BY DEF CommandInv
<1>2. status # "Deleted"
  BY DEF CommandInv, DeletedMeansLeft, HasLeft
<1>3. status \in {"EOpen", "EActive", "EClosed", "Deleted"}
  BY DEF TypeInv, TypeOK
<1>. QED  BY <1>1, <1>2, <1>3 DEF CommandOf, CallInv, Live, Open

Quiet(k) == (Queued(k)' <=> Queued(k)) /\ UNCHANGED err[k]

\* To the write: nothing; the comm thread takes the event of its end, starts its
\* I/O or, if it is empty, finds it done or has it wait for the line; the line is
\* ready; the I/O ends; the write is reported complete; the port is stopped.
LeavesWrite ==
  /\ UNCHANGED <<writePending, wrReq, wrRes, wire>> /\ Quiet("ETx")
  /\ "write" \in signalled' => "write" \in signalled
  /\ cpc' = "event2" => cpc = "event2"

TakesWriteEvent ==
  /\ UNCHANGED <<writePending, wrReq, wrRes, wire>> /\ Quiet("ETx")
  /\ "write" \in signalled /\ "write" \notin signalled' /\ cpc' = "event2"

StartsWriteIo ==
  /\ Live /\ Posted("Write") /\ ~Posted("Write")' /\ writePending = "none"
  /\ writePending' = "ETransmit" /\ wrReq' = outReq /\ wrRes' = "pending"
  /\ UNCHANGED wire /\ Quiet("ETx")
  /\ "write" \notin signalled' /\ cpc' # "event2"

StartsEmptyWrite ==
  /\ Live /\ call.fn = "Write" /\ call.msg.len = 0
  /\ Posted("Write") /\ ~Posted("Write")' /\ writePending = "none"
  /\ UNCHANGED <<wrReq, wrRes, wire, signalled>> /\ cpc' # "event2"
  /\ \/ writePending' = "ETransmit0" /\ Quiet("ETx")
     \/ UNCHANGED writePending /\ Queued("ETx")'

EmptyWriteReady ==
  /\ writePending = "ETransmit0" /\ writePending' = "none" /\ Queued("ETx")'
  /\ UNCHANGED <<wrReq, wrRes, wire>>
  /\ "write" \in signalled' => "write" \in signalled
  /\ cpc = "heldWrite" /\ cpc' = "wait"

EndsWriteIo ==
  /\ wrReq # 0 /\ wrReq' = 0 /\ UNCHANGED writePending /\ Quiet("ETx")
  /\ "write" \in signalled' /\ cpc' \in {cpc, "heldWrite"}
  /\ \/ wrRes' = "KErrNone" /\ wire' = Append(wire, wrReq)
     \/ wrRes' # "KErrNone" /\ UNCHANGED wire

ReportsWrite ==
  /\ cpc = "event2" /\ cpc' = "wait" /\ writePending' = "none" /\ Queued("ETx")'
  /\ UNCHANGED <<wrReq, wrRes, wire, signalled>>
  /\ err'["ETx"] = "KErrNone" => wrRes = "KErrNone"

StopsWrite == ~Live /\ UNCHANGED <<wrReq, wire>>

WriteSteps == \/ LeavesWrite \/ TakesWriteEvent \/ StartsWriteIo \/ StartsEmptyWrite
              \/ EmptyWriteReady \/ EndsWriteIo \/ ReportsWrite \/ StopsWrite

\* ... in a step that may report something else.
LEMMA QuietReport ==
  ASSUME LddInv, NEW d \in Dfcs, NEW k \in Kinds, k # d, dfcq' \in {dfcq, Enque(dfcq, d)},
         UNCHANGED err[k]
  PROVE  Quiet(k)
<1>1. k \in Dfcs
  BY DEF Dfcs
<1>. QED  BY <1>1, ReportQueues DEF Quiet

LEMMA ReportedQueued ==
  ASSUME LddInv, NEW k \in Kinds, dfcq' = Enque(dfcq, k)
  PROVE  Queued(k)'
<1>1. dfcq \in Seq(Dfcs) /\ k \in Dfcs
  BY DEF LddInv, TypeInv, TypeOK, Dfcs
<1>. QED  BY <1>1, EnqueQueues DEF Queued

LEMMA CommandWrites ==
  ASSUME BaseInv, CommandInv, DriverCommand, ~Kernel, PddNext
  PROVE  WriteSteps
<1>0. /\ cpc = "event1" /\ cpc' # "event2" /\ {"ETx", "ERx", "ESigChg"} \subseteq Kinds \cap Dfcs
      /\ TypeInv /\ CallInv /\ LddInv
  BY DEF DriverCommand, AfterCommand, Kinds, Dfcs, BaseInv, LddInv
<1>1. Posted(call.fn) /\ ~Posted("Write")'
  BY ThreadPosts
<1>. USE DEF writeVars
<1>2. CASE Transmit
  <2>1. call.fn = "Write" /\ Live
    BY <1>0, <1>2, CommandCalls DEF Transmit
  <2>2. Quiet("ETx")
    BY <1>2 DEF Transmit, lddVars, Quiet, Queued
  <2>. QED  BY <1>0, <1>1, <1>2, <2>1, <2>2
            DEF Transmit, WriteSteps, StartsWriteIo, LeavesWrite
<1>3. CASE Transmit0
  <2>1. call.fn = "Write" /\ call.msg.len = 0 /\ Live
    BY <1>0, <1>3, CommandCalls DEF Transmit0
  <2>2. lddVars' = lddVars => Quiet("ETx")
    BY DEF lddVars, Quiet, Queued
  <2>3. Report("ETx", "KErrNone") => Queued("ETx")'
    BY <1>0, ReportedQueued DEF Report
  <2>. QED  BY <1>0, <1>1, <1>3, <2>1, <2>2, <2>3
            DEF Transmit0, WriteSteps, StartsEmptyWrite, LeavesWrite
<1>4. CASE Receive
  <2>1. "write" \in signalled' => "write" \in signalled
    BY <1>4 DEF Receive, PostRead
  <2>2. Quiet("ETx") /\ UNCHANGED <<writePending, wrReq, wrRes, wire>>
    BY <1>4 DEF Receive, lddVars, Quiet, Queued
  <2>. QED  BY <1>0, <2>1, <2>2 DEF WriteSteps, LeavesWrite
<1>5. CASE StartPort
  <2>1. "write" \in signalled' => "write" \in signalled
    BY <1>5 DEF StartPort
  <2>2. Quiet("ETx") /\ UNCHANGED <<writePending, wrReq, wrRes, wire>>
    BY <1>5 DEF StartPort, lddVars, Quiet, Queued
  <2>. QED  BY <1>0, <2>1, <2>2 DEF WriteSteps, LeavesWrite
<1>6. CASE StopPort
  <2>1. call.fn = "Stop"
    BY <1>0, <1>6, CommandCalls DEF StopPort
  <2>. QED  BY <1>6, <2>1 DEF StopPort, WriteSteps, StopsWrite, Live
<1>7. CASE NotifyData \/ NoEffect
  BY <1>0, <1>7 DEF NotifyData, NoEffect, lddVars, Quiet, Queued, WriteSteps, LeavesWrite
<1>8. CASE NotifySignal
  <2>1. /\ UNCHANGED <<signalled, writePending, wrReq, wrRes, wire>>
        /\ dfcq' \in {dfcq, Enque(dfcq, "ESigChg")} /\ UNCHANGED err["ETx"]
    <3>1. err \in [Kinds -> Reasons]
      BY <1>0 DEF LddInv, TypeInv, TypeOK
    <3>2. UNCHANGED <<signalled, writePending, wrReq, wrRes, wire>>
          /\ (UNCHANGED lddVars \/ Report("ESigChg", "KErrNone"))
      BY <1>8 DEF NotifySignal
    <3>. QED  BY <1>0, <3>1, <3>2 DEF Report, lddVars
  <2>2. Quiet("ETx")
    BY <1>0, <2>1, QuietReport
  <2>. QED  BY <1>0, <2>1, <2>2 DEF WriteSteps, LeavesWrite
<1>. QED  BY <1>2, <1>3, <1>4, <1>5, <1>6, <1>7, <1>8 DEF DriverCommand

LEMMA EventWrites ==
  ASSUME BaseInv,
         \/ DataAvailableEvent \/ SignalsEvent \/ HeldWriteEvent
         \/ WriteCompletion \/ ReadCompletion \/ CompleteRead
  PROVE  WriteSteps
<1>0. /\ {"ETx", "ERx", "ESigChg", "ERxDA"} \subseteq Kinds \cap Dfcs
      /\ LddInv /\ err \in [Kinds -> Reasons]
  BY DEF Kinds, Dfcs, BaseInv, LddInv, TypeInv, TypeOK
<1>. USE DEF writeVars
<1>1. CASE DataAvailableEvent
  <2>1. Quiet("ETx")
    BY <1>0, <1>1, QuietReport DEF DataAvailableEvent
  <2>. QED  BY <1>1, <2>1 DEF DataAvailableEvent, WriteSteps, LeavesWrite
<1>2. CASE SignalsEvent
  <2>1. UNCHANGED lddVars \/ Report("ESigChg", "KErrNone")
    BY <1>2 DEF SignalsEvent
  <2>2. Quiet("ETx")
    <3>1. dfcq' \in {dfcq, Enque(dfcq, "ESigChg")} /\ UNCHANGED err["ETx"]
      BY <1>0, <2>1 DEF Report, lddVars
    <3>. QED  BY <1>0, <3>1, QuietReport
  <2>. DEFINE failW == ~(FailSignals \subseteq curSignals) /\ writePending # "none"
  <2>3. /\ cpc' = "heldWrite" /\ UNCHANGED <<writePending, wire>>
        /\ "write" \in signalled' <=> "write" \in signalled \/ (failW /\ wrReq # 0)
        /\ IF failW THEN AbortWrite ELSE UNCHANGED <<wrReq, wrRes>>
    BY <1>2 DEF SignalsEvent
  <2>4. CASE failW /\ wrReq # 0
    <3>1. ~UseSocket
      BY <2>4, PddAssumption
    <3>2. wrReq' = 0 /\ wrRes' = "LastError"
      BY <2>3, <2>4, <3>1 DEF AbortWrite
    <3>. QED  BY <2>2, <2>3, <2>4, <3>2 DEF WriteSteps, EndsWriteIo
  <2>5. CASE ~(failW /\ wrReq # 0)
    <3>1. UNCHANGED <<wrReq, wrRes>>
      BY <2>3, <2>5 DEF AbortWrite
    <3>. QED  BY <2>2, <2>3, <2>5, <3>1 DEF WriteSteps, LeavesWrite
  <2>. QED  BY <2>4, <2>5
<1>3. CASE HeldWriteEvent
  <2>1. /\ UNCHANGED <<wrReq, wrRes, wire>> /\ cpc = "heldWrite" /\ cpc' = "wait"
        /\ "write" \in signalled' => "write" \in signalled
    BY <1>3 DEF HeldWriteEvent
  <2>2. CASE writePending = "ETransmit0" /\ "CTS" \in curSignals
    <3>1. Report("ETx", "KErrNone") /\ writePending' = "none"
      BY <1>3, <2>2 DEF HeldWriteEvent
    <3>2. Queued("ETx")'
      BY <1>0, <3>1, ReportedQueued DEF Report
    <3>. QED  BY <2>1, <2>2, <3>1, <3>2 DEF WriteSteps, EmptyWriteReady
  <2>3. CASE ~(writePending = "ETransmit0" /\ "CTS" \in curSignals)
    <3>1. UNCHANGED <<lddVars, writePending>>
      BY <1>3, <2>3 DEF HeldWriteEvent
    <3>. QED  BY <2>1, <3>1 DEF WriteSteps, LeavesWrite, lddVars, Quiet, Queued
  <2>. QED  BY <2>2, <2>3
<1>4. CASE WriteCompletion
  <2>1. Queued("ETx")' /\ err'["ETx"] = WriteResult
    BY <1>0, <1>4, ReportedQueued DEF WriteCompletion, Report
  <2>2. WriteResult = "KErrNone" => wrRes = "KErrNone"
    BY DEF WriteResult
  <2>. QED  BY <1>4, <2>1, <2>2 DEF WriteCompletion, ClearWritePending, WriteSteps, ReportsWrite
<1>5. CASE ReadCompletion
  <2>1. "write" \in signalled' => "write" \in signalled
    BY <1>5 DEF ReadCompletion, PostRead
  <2>2. Quiet("ETx")
    BY <1>0, <1>5 DEF ReadCompletion, Quiet, Queued
  <2>. QED  BY <1>5, <2>1, <2>2 DEF ReadCompletion, WriteSteps, LeavesWrite
<1>6. CASE CompleteRead
  <2>1. Quiet("ETx")
    BY <1>0, <1>6, QuietReport DEF CompleteRead
  <2>. QED  BY <1>6, <2>1 DEF CompleteRead, WriteSteps, LeavesWrite
<1>. QED  BY <1>1, <1>2, <1>3, <1>4, <1>5, <1>6

LEMMA HostWrites ==
  ASSUME BaseInv,
         \/ WaitForEvent \/ SignalDriverThread \/ ExitThread
         \/ Host \/ TimerInterrupt \/ UNCHANGED vars
  PROVE  WriteSteps
<1>0. UNCHANGED lddVars => Quiet("ETx")
  BY DEF lddVars, Quiet, Queued
<1>. USE DEF writeVars, WriteSteps
<1>1. CASE WaitForEvent
  <2>1. UNCHANGED <<writePending, wrReq, wrRes, wire>> /\ Quiet("ETx")
    BY <1>0, <1>1 DEF WaitForEvent
  <2>2. CASE cpc' = "event2"
    BY <1>1, <2>1, <2>2 DEF WaitForEvent, Reset, TakesWriteEvent
  <2>3. CASE cpc' # "event2"
    BY <1>1, <2>1, <2>3 DEF WaitForEvent, Reset, LeavesWrite
  <2>. QED  BY <2>2, <2>3
<1>2. CASE SignalDriverThread \/ ExitThread
  BY <1>0, <1>2 DEF SignalDriverThread, ExitThread, LeavesWrite
<1>3. CASE WriteDone
  <2>1. PICK r \in {"KErrNone"} \cup IoErrors :
          wrRes' = r /\ wire' = IF r = "KErrNone" THEN Append(wire, wrReq) ELSE wire
    BY <1>3 DEF WriteDone
  <2>. QED  BY <1>0, <1>3, <2>1 DEF WriteDone, EndsWriteIo, syncVars
<1>4. CASE DataArrives
  <2>1. "write" \in signalled' => "write" \in signalled
    BY <1>4 DEF DataArrives
  <2>. QED  BY <1>0, <1>4, <2>1 DEF DataArrives, LeavesWrite, syncVars
<1>5. CASE LineChanges
  <2>1. "write" \in signalled' => "write" \in signalled
    BY <1>5 DEF LineChanges, CommEvent
  <2>. QED  BY <1>0, <1>5, <2>1 DEF LineChanges, LeavesWrite, syncVars
<1>6. CASE TimerInterrupt
  <2>1. Quiet("ETx")
    <3>1. dfcq' \in {dfcq, Enque(dfcq, "Turnaround")} /\ UNCHANGED err
      BY <1>6 DEF TimerInterrupt, TimerExpired, ReleaseDelayed
    <3>2. "Turnaround" \in Dfcs /\ "ETx" \in Kinds /\ LddInv
      BY DEF Dfcs, Kinds, BaseInv
    <3>. QED  BY <3>1, <3>2, QuietReport
  <2>. QED  BY <1>6, <2>1 DEF TimerInterrupt, pddVars, syncVars, LeavesWrite
<1>7. CASE UNCHANGED vars
  BY <1>0, <1>7 DEF vars, pddVars, syncVars, LeavesWrite
<1>. QED  BY <1>1, <1>2, <1>3, <1>4, <1>5, <1>6, <1>7 DEF Host

LEMMA ThreadWrites ==
  ASSUME BaseInv, CommandInv, [PddNext]_vars, ~Kernel
  PROVE  WriteSteps
  BY CommandWrites, EventWrites, HostWrites DEF PddNext, CommThread

-----------------------------------------------------------------------------
(* One stage at a time: the write is held back, posted to the comm thread, in *)
(* its hands, or reported and about to be completed; the write event means    *)
(* that its I/O has ended.                                                    *)

WriteStage ==
  /\ delayed \/ Posted("Write") \/ writePending # "none" \/ Queued("ETx")
       => pending["ETx"] # 0
  /\ delayed => ~Posted("Write") /\ writePending = "none" /\ ~Queued("ETx")
  /\ Posted("Write") => writePending = "none" /\ ~Queued("ETx")
  /\ writePending # "none" => ~Queued("ETx")
  /\ call.fn = "ETx" => pending["ETx"] = 0
  /\ wrReq # 0 => writePending = "ETransmit" /\ "write" \notin signalled /\ cpc # "event2"
  /\ "write" \in signalled => writePending = "ETransmit" /\ cpc # "event2"
  /\ cpc = "event2" => writePending = "ETransmit"

LEMMA WriteStageKernel ==
  ASSUME Calm, BaseInv, CommandInv, Kernel, Live => WriteStage, Live'
  PROVE  WriteStage'
<1>1. Live /\ KernelSteps
  BY KernelDoes DEF BaseInv, RefInv, Closes
<1>2. /\ UNCHANGED <<cpc, signalled, writePending, wrReq>>
      /\ ~Posted("Write") /\ (Posted("Write")' => call'.fn = "Write")
  BY KernelFrame DEF Calm, Posted
<1>3. WriteStage
  BY <1>1
<1>4. CASE KeepsWrite
  BY <1>2, <1>3, <1>4 DEF KeepsWrite, WriteStage
<1>5. CASE StartsWrite
  BY <1>2, <1>3, <1>5 DEF StartsWrite, WriteStage
<1>6. CASE ReleasesWrite
  BY <1>2, <1>3, <1>6 DEF ReleasesWrite, WriteStage
<1>7. CASE CompletesWrite
  BY <1>2, <1>3, <1>7 DEF CompletesWrite, WriteStage
<1>. QED  BY <1>1, <1>4, <1>5, <1>6, <1>7 DEF KernelSteps

LEMMA WriteStageThread ==
  ASSUME BaseInv, CommandInv, [PddNext]_vars, ~Kernel, Live => WriteStage, Live'
  PROVE  WriteStage'
<1>1. UNCHANGED <<status, call, pending, delayed>>
  BY ThreadFrame
<1>2. Live /\ WriteStage
  BY <1>1 DEF Live, Open
<1>3. WriteSteps /\ (Posted("Write")' => Posted("Write"))
  BY ThreadWrites, ThreadPosts
<1>4. CASE LeavesWrite
  BY <1>1, <1>2, <1>3, <1>4 DEF LeavesWrite, Quiet, WriteStage
<1>5. CASE TakesWriteEvent
  BY <1>1, <1>2, <1>3, <1>5 DEF TakesWriteEvent, Quiet, WriteStage
<1>6. CASE StartsWriteIo
  BY <1>1, <1>2, <1>3, <1>6 DEF StartsWriteIo, Quiet, WriteStage
<1>7. CASE StartsEmptyWrite
  BY <1>1, <1>2, <1>3, <1>7 DEF StartsEmptyWrite, Quiet, WriteStage
<1>8. CASE EmptyWriteReady
  BY <1>1, <1>2, <1>3, <1>8 DEF EmptyWriteReady, WriteStage
<1>9. CASE EndsWriteIo
  BY <1>1, <1>2, <1>3, <1>9 DEF EndsWriteIo, Quiet, WriteStage
<1>10. CASE ReportsWrite
  BY <1>1, <1>2, <1>3, <1>10 DEF ReportsWrite, WriteStage
<1>. QED  BY <1>2, <1>3, <1>4, <1>5, <1>6, <1>7, <1>8, <1>9, <1>10 DEF WriteSteps, StopsWrite

LEMMA BaseStep ==
  ASSUME ClientAndHost, BaseInv, [PddNext]_vars
  PROVE  BaseInv' /\ [Next]_lddVars
<1>1. RefInv' /\ [Next]_lddVars
  BY RefStep, StepMaps DEF BaseInv
<1>2. LddInv'
  BY <1>1, NextType, CallStep, HoldStep, NumberStep, RepeatStep DEF BaseInv, LddInv
<1>. QED  BY <1>1, <1>2 DEF BaseInv

LEMMA BaseInit == PddInit => BaseInv
<1>1. Init => LddInv
  BY InitInv, NumberInit DEF IInv, LddInv
<1>. QED  BY <1>1, RefInit DEF BaseInv, PddInit

LEMMA BaseCommands == ASSUME "Cancel" \notin Ops, BaseInv PROVE CommandInv
  BY DEF BaseInv, RefInv, Quits

\* The client does not cancel, and what is assumed of the host.
Client == Calm /\ ClientAndHost

\* Only Close stops the channel.
LEMMA StopSteps ==
  ASSUME Calm, Kernel, call'.fn = "Stop"
  PROVE  Live /\ UNCHANGED <<delayed, pending>>
<1>0. NoCall.fn = "none" /\ \A f \in Fns : Calling(f).fn = f
  BY NoCallType, CallingType
<1>1. CASE KReturns
  BY <1>1, ReturnsCalls DEF KReturns
<1>2. CASE KStep
  <2>1. ASSUME NEW m \in Requests, Request(m) PROVE FALSE
    BY <1>0, <2>1, DispatchCalls DEF Request
  <2>2. CASE Break \/ TurnaroundTimeout \/ Delete
    BY <1>0, <2>2 DEF Break, DispatchBreak, TurnaroundTimeout, Idle, Delete, Fns, PddFns
  <2>3. ASSUME NEW us \in TurnaroundUs, SetMinTurnaroundTime(us) PROVE FALSE
    BY <1>0, <2>3 DEF SetMinTurnaroundTime, Idle
  <2>4. ASSUME NEW c \in PortControls, PortControl(c, AreAnyPending) PROVE FALSE
    BY <1>0, <2>4 DEF PortControl, Fns, PddFns
  <2>5. ASSUME NEW k \in Kinds, ClearError(k) PROVE FALSE
    BY <1>0, <2>5 DEF ClearError
  <2>6. CASE Close
    BY <1>0, <2>6 DEF Close, ShutdownTail, Idle, Live, reqVars, turnVars
  <2>. QED  BY <1>2, <2>1, <2>2, <2>3, <2>4, <2>5, <2>6 DEF KStep
<1>3. ASSUME NEW k \in Kinds, KCompleteDfc(k) PROVE FALSE
  BY <1>0, <1>3 DEF KCompleteDfc, CompleteDfc, Fns, Kinds
<1>4. ASSUME NEW C \in SUBSET {"ERx", "ETx", "ESigChg"}, KCancel(C) PROVE FALSE
  BY <1>4 DEF KCancel, Cancel, Calm
<1>5. CASE KResetBuffers
  BY <1>0, <1>5 DEF KResetBuffers, PortControl, Fns, PddFns
<1>. QED  BY <1>1, <1>2, <1>3, <1>4, <1>5 DEF Kernel

StageInv ==
  /\ BaseInv
  /\ Live => WriteStage
  /\ call.fn = "Stop" /\ delayed => pending["ETx"] # 0

LEMMA StageInit == PddInit => StageInv
<1>. SUFFICES ASSUME PddInit PROVE StageInv
  OBVIOUS
<1>1. call.fn = "none" /\ ~Queued("ETx")
  BY NoCallType DEF PddInit, Init, Queued, Has
<1>. QED  BY <1>1, BaseInit DEF StageInv, WriteStage, Posted, PddInit, Init

LEMMA StageStep == Client /\ StageInv /\ [PddNext]_vars => StageInv'
<1>. SUFFICES ASSUME Client, StageInv, [PddNext]_vars PROVE StageInv'
  OBVIOUS
<1>1. CommandInv
  BY BaseCommands DEF Client, Calm, StageInv
<1>2. BaseInv'
  BY BaseStep DEF Client, StageInv
<1>3. Live' => WriteStage'
  BY <1>1, WriteStageKernel, WriteStageThread DEF Client, StageInv
<1>4. call'.fn = "Stop" /\ delayed' => pending'["ETx"] # 0
  <2>1. CASE Kernel
    BY <2>1, StopSteps DEF Client, StageInv, WriteStage
  <2>2. CASE ~Kernel
    BY <2>2, ThreadFrame DEF StageInv
  <2>. QED  BY <2>1, <2>2
<1>. QED  BY <1>2, <1>3, <1>4 DEF StageInv

LEMMA Staged == Client /\ PddSpec => []StageInv
<1>. SUFFICES ASSUME Client PROVE PddSpec => []StageInv
  OBVIOUS
<1>1. StageInv /\ [PddNext]_vars => StageInv'
  BY StageStep
<1>. QED  BY StageInit, <1>1, PTL DEF PddSpec

\* A write that is held back belongs to the request it was given for, whatever else
\* the client of the driver asks for short of a cancel: on COM ports and sockets,
\* with every outcome of the host's writes.
THEOREM HeldWritesHaveRequests == Client /\ PddSpec => []DelayedWriteHasRequest
<1>1. StageInv => DelayedWriteHasRequest
  <2>. SUFFICES ASSUME StageInv, Open, delayed PROVE pending["ETx"] # 0
    BY DEF DelayedWriteHasRequest
  <2>1. CASE Live
    BY <2>1 DEF StageInv, WriteStage
  <2>2. CASE call.fn = "Stop"
    BY <2>2 DEF StageInv
  <2>. QED  BY <2>1, <2>2 DEF Live
<1>. QED  BY <1>1, Staged, PTL

-----------------------------------------------------------------------------
(* What was written.  A client without empty writes.                          *)

Sent(r) == \E i \in 1..Len(wire) : wire[i] = r

WireInv ==
  /\ wrReq \in Nat /\ outReq \in Nat /\ wire \in Seq(Nat)
  /\ \A i, j \in 1..Len(wire) : i < j => wire[i] < wire[j]
  /\ \A i \in 1..Len(wire) : wire[i] <= issued["ETx"] /\ (wrReq # 0 => wire[i] < wrReq)
  /\ wrReq <= issued["ETx"]
  /\ status = "EOpen" => wire = << >>
  /\ last["ETx"].reason = "KErrNone" /\ last["ETx"].req > 0 => Sent(last["ETx"].req)

WriteInv ==
  /\ writePending # "ETransmit0"
  /\ Posted("Write") => outReq = pending["ETx"]
  /\ delayed \/ Posted("Write") => \A i \in 1..Len(wire) : wire[i] < pending["ETx"]
  /\ wrReq # 0 => wrReq = pending["ETx"]
  /\ ("write" \in signalled \/ cpc = "event2") /\ wrRes = "KErrNone" => Sent(pending["ETx"])
  /\ Queued("ETx") /\ err["ETx"] = "KErrNone" => Sent(pending["ETx"])

LEMMA IssuedMonotone == TypeInv /\ [Next]_lddVars => issued["ETx"] <= issued'["ETx"]
<1>. SUFFICES ASSUME TypeInv, [Next]_lddVars PROVE issued["ETx"] <= issued'["ETx"]
  OBVIOUS
<1>0. issued \in [Kinds -> Nat] /\ "ETx" \in Kinds
  BY DEF TypeInv, TypeOK, Kinds
<1>1. ASSUME NEW m \in Requests, Request(m) PROVE issued["ETx"] <= issued'["ETx"]
  <2>1. issued' = [issued EXCEPT ![KindOf[m.op]] = @ + 1]
    BY <1>1 DEF Request
  <2>. QED  BY <1>0, <2>1
<1>2. CASE UNCHANGED issued
  BY <1>0, <1>2
<1>3. \/ UNCHANGED issued
      \/ \E m \in Requests : Request(m)
  BY DEF Next, Break, Close, ShutdownTail, Delete, SetMinTurnaroundTime, PortControl,
         Cancel, PddReturns, StartReturns, StopReturns, DieReturns, CallReturns,
         CompleteDfc, ClearError, TurnaroundTimeout, TimerExpired, PddEvent, inVars, lddVars
<1>. QED  BY <1>1, <1>2, <1>3

\* A channel is opened once.
LEMMA OpenedOnce == [Next]_lddVars => (status' = "EOpen" => status = "EOpen")
  BY DEF Next, Request, Break, Close, ShutdownTail, Delete, SetMinTurnaroundTime, PortControl,
         Cancel, PddReturns, StartReturns, StopReturns, DieReturns, CallReturns,
         CompleteDfc, ClearError, TurnaroundTimeout, TimerExpired, PddEvent, lddVars

LEMMA WireKernel ==
  ASSUME Client, 0 \notin WriteLens, StageInv, WireInv, Live => WriteInv, Kernel
  PROVE  WireInv' /\ (Live' => WriteInv')
<1>0. CommandInv /\ BaseInv /\ BaseInv' /\ [Next]_lddVars
  BY BaseCommands, BaseStep DEF Client, Calm, StageInv, PddNext
<1>1. /\ TypeInv /\ TypeInv' /\ NumberInv'
      /\ pending["ETx"] \in Nat /\ pending'["ETx"] \in Nat
      /\ issued["ETx"] \in Nat /\ issued'["ETx"] \in Nat
      /\ commSem' \in Nat
  <2>1. CommandInv'
    BY <1>0, BaseCommands DEF Client, Calm, BaseInv, RefInv, Quits
  <2>. QED  BY <1>0, <2>1 DEF BaseInv, LddInv, TypeInv, TypeOK, Kinds, CommandInv, BalanceInv,
                              SemTypes
<1>2. /\ UNCHANGED <<cpc, signalled, writePending, wrReq, wrRes, wire>>
      /\ ~Posted("Write") /\ (Posted("Write")' => commSem' > 0 /\ call'.fn = "Write")
      /\ outReq' \in Nat /\ (Posted("Write")' => outReq' = pending'["ETx"])
  <2>1. /\ UNCHANGED <<cpc, signalled, writePending, wrReq, wrRes, wire>>
        /\ commSem = 0 /\ cpc # "event1"
        /\ outReq' = IF commSem' > 0 /\ call'.fn = "Write" /\ call'.msg.len # 0
                     THEN pending'["ETx"] ELSE outReq
    BY <1>0, KernelFrame DEF Client, Calm
  <2>2. call'.fn = "Write" => call'.msg.len # 0
    BY <1>1 DEF NumberInv
  <2>3. Posted("Write")' => commSem' > 0 /\ call'.fn = "Write"
    BY <2>1 DEF Posted
  <2>. QED  BY <1>1, <2>1, <2>2, <2>3 DEF Posted, WireInv
<1>3. issued["ETx"] <= issued'["ETx"] /\ (status' = "EOpen" => status = "EOpen")
  BY <1>0, <1>1, IssuedMonotone, OpenedOnce
<1>4. \/ Live /\ KernelSteps
      \/ Closes
  BY <1>0, KernelDoes DEF Client, BaseInv, RefInv
<1>5. ASSUME Live PROVE WriteStage /\ WriteInv
  BY <1>5 DEF StageInv
<1>6. UNCHANGED last["ETx"] \/ last'["ETx"].reason # "KErrNone"
      \/ (last'["ETx"].req > 0 => Sent(last'["ETx"].req))
  <2>1. CASE Live /\ CompletesWrite
    <3>1. (pending["ETx"] # 0 /\ Sent(pending["ETx"])) \/ err["ETx"] # "KErrNone"
      BY <1>5, <2>1 DEF CompletesWrite, WriteStage, WriteInv
    <3>2. last'["ETx"] = [req |-> pending["ETx"], reason |-> err["ETx"]]
      BY <1>5, <2>1 DEF CompletesWrite, WriteStage
    <3>. QED  BY <3>1, <3>2
  <2>. QED  BY <1>4, <2>1 DEF Closes, KernelSteps, KeepsWrite, StartsWrite, ReleasesWrite
<1>7. WireInv'
  <2>1. \A i \in 1..Len(wire) : wire[i] <= issued'["ETx"]
    <3>1. \A i \in 1..Len(wire) : wire[i] \in Nat /\ wire[i] <= issued["ETx"]
      BY DEF WireInv
    <3>. QED  BY <1>1, <1>3, <3>1
  <2>2. last'["ETx"].reason = "KErrNone" /\ last'["ETx"].req > 0 => Sent(last["ETx"].req)'
    BY <1>2, <1>6 DEF WireInv, Sent
  <2>3. wrReq <= issued'["ETx"]
    BY <1>1, <1>3 DEF WireInv
  <2>. QED  BY <1>2, <1>3, <2>1, <2>2, <2>3 DEF WireInv
<1>8. ASSUME Live' PROVE WriteInv'
  <2>1. Live /\ WriteStage /\ WriteInv /\ KernelSteps
    BY <1>4, <1>5, <1>8 DEF Closes
  <2>2. CASE KeepsWrite
    BY <1>2, <2>1, <2>2 DEF KeepsWrite, WriteStage, WriteInv, Sent
  <2>3. CASE StartsWrite
    <3>1. \A i \in 1..Len(wire) : wire[i] < pending'["ETx"]
      BY <1>1, <2>3 DEF StartsWrite, WireInv
    <3>. QED  BY <1>2, <2>1, <2>3, <3>1 DEF StartsWrite, WriteStage, WriteInv, Sent
  <2>4. CASE ReleasesWrite
    BY <1>2, <2>1, <2>4 DEF ReleasesWrite, WriteStage, WriteInv, Sent
  <2>5. CASE CompletesWrite
    BY <1>2, <2>1, <2>5 DEF CompletesWrite, WriteStage, WriteInv, Sent
  <2>. QED  BY <2>1, <2>2, <2>3, <2>4, <2>5 DEF KernelSteps
<1>. QED  BY <1>7, <1>8

LEMMA WireThread ==
  ASSUME Client, 0 \notin WriteLens, StageInv, WireInv, Live => WriteInv,
         [PddNext]_vars, ~Kernel
  PROVE  WireInv' /\ (Live' => WriteInv')
<1>0. CommandInv /\ BaseInv /\ NumberInv /\ CallInv
      /\ pending["ETx"] \in Nat /\ issued["ETx"] \in Nat
  BY BaseCommands
     DEF Client, Calm, StageInv, BaseInv, LddInv, TypeInv, TypeOK, Kinds
<1>1. UNCHANGED <<status, call, pending, last, issued, delayed, outReq>>
  BY ThreadFrame
<1>2. WriteSteps /\ (Posted("Write")' => Posted("Write"))
  BY <1>0, ThreadWrites, ThreadPosts
<1>3. Live' <=> Live
  BY <1>1 DEF Live, Open
<1>4. ASSUME Live PROVE WriteStage /\ WriteInv
  BY <1>4 DEF StageInv
<1>5. call.fn = "Write" => call.msg.len # 0
  BY <1>0 DEF NumberInv
<1>. USE DEF Quiet
<1>6. CASE LeavesWrite
  BY <1>0, <1>1, <1>2, <1>3, <1>4, <1>6 DEF LeavesWrite, WireInv, WriteInv, Sent
<1>7. CASE TakesWriteEvent
  BY <1>0, <1>1, <1>2, <1>3, <1>4, <1>7 DEF TakesWriteEvent, WireInv, WriteInv, Sent
<1>8. CASE StartsWriteIo
  <2>1. Live /\ WriteStage /\ WriteInv /\ wrReq' = pending["ETx"]
    BY <1>4, <1>8 DEF StartsWriteIo, WriteInv
  <2>2. pending["ETx"] <= issued["ETx"]
    BY <1>0 DEF NumberInv, Kinds
  <2>. QED  BY <1>0, <1>1, <1>2, <1>8, <2>1, <2>2 DEF StartsWriteIo, WireInv, WriteInv, Sent
<1>9. CASE StartsEmptyWrite
  BY <1>5, <1>9 DEF StartsEmptyWrite
<1>10. CASE EmptyWriteReady
  <2>1. ~Live
    BY <1>4, <1>10 DEF EmptyWriteReady, WriteInv
  <2>. QED  BY <1>1, <1>3, <1>10, <2>1 DEF EmptyWriteReady, WireInv, Sent
<1>11. CASE EndsWriteIo
  <2>1. CASE wire' = Append(wire, wrReq)
    <3>1. /\ wire' \in Seq(Nat) /\ Len(wire') = Len(wire) + 1 /\ wire'[Len(wire) + 1] = wrReq
          /\ \A i \in 1..Len(wire) : wire'[i] = wire[i]
      BY <2>1 DEF WireInv
    <3>2. status # "EOpen"
      <4>1. CASE Live
        BY <1>0, <1>4, <1>11, <4>1 DEF EndsWriteIo, WriteStage, NumberInv, Kinds
      <4>2. CASE ~Live
        BY <1>0, <4>2 DEF Live, Open, CallInv
      <4>. QED  BY <4>1, <4>2
    <3>3. \A r : Sent(r) => Sent(r)'
      BY <3>1 DEF WireInv, Sent
    <3>4. \E i \in 1..Len(wire') : wire'[i] = wrReq
      BY <3>1 DEF WireInv
    <3>5. WireInv'
      <4>1. wrReq # 0 /\ wrReq' = 0
        BY <1>11 DEF EndsWriteIo
      <4>0. /\ Len(wire) \in Nat /\ \A i \in 1..Len(wire) : wire[i] \in Nat
            /\ wrReq \in Nat /\ wrReq <= issued["ETx"]
            /\ \A i, j \in 1..Len(wire) : i < j => wire[i] < wire[j]
            /\ \A i \in 1..Len(wire) : wire[i] <= issued["ETx"] /\ wire[i] < wrReq
        BY <4>1 DEF WireInv
      <4>5. \A i \in 1..Len(wire') : i \in 1..Len(wire) \/ i = Len(wire) + 1
        BY <3>1, <4>0
      <4>2. ASSUME NEW i \in 1..Len(wire'), NEW j \in 1..Len(wire'), i < j
            PROVE  wire'[i] < wire'[j]
        <5>1. i \in 1..Len(wire)
          BY <3>1, <4>0, <4>2
        <5>2. wire'[i] = wire[i] /\ (j \in 1..Len(wire) => wire'[j] = wire[j])
          BY <3>1, <5>1
        <5>. QED  BY <3>1, <4>0, <4>2, <4>5, <5>1, <5>2
      <4>3. \A i \in 1..Len(wire') : wire'[i] <= issued["ETx"]
        BY <3>1, <4>0, <4>5
      <4>4. last'["ETx"].reason = "KErrNone" /\ last'["ETx"].req > 0 => Sent(last["ETx"].req)'
        BY <1>1, <3>3 DEF WireInv
      <4>. QED  BY <1>0, <1>1, <3>1, <3>2, <4>1, <4>2, <4>3, <4>4 DEF WireInv
    <3>6. Live => WriteInv'
      BY <1>1, <1>2, <1>4, <1>11, <3>3, <3>4 DEF EndsWriteIo, WriteStage, WriteInv, Sent
    <3>. QED  BY <1>3, <3>5, <3>6
  <2>2. CASE wrRes' # "KErrNone" /\ UNCHANGED wire
    BY <1>0, <1>1, <1>2, <1>3, <1>4, <1>11, <2>2 DEF EndsWriteIo, WireInv, WriteInv, Sent
  <2>. QED  BY <1>11, <2>1, <2>2 DEF EndsWriteIo
<1>12. CASE ReportsWrite
  BY <1>0, <1>1, <1>2, <1>3, <1>4, <1>12 DEF ReportsWrite, WireInv, WriteInv, WriteStage, Sent
<1>13. CASE StopsWrite
  BY <1>1, <1>3, <1>13 DEF StopsWrite, WireInv, Sent
<1>. QED  BY <1>2, <1>6, <1>7, <1>8, <1>9, <1>10, <1>11, <1>12, <1>13 DEF WriteSteps

SentInv == StageInv /\ WireInv /\ (Live => WriteInv)

LEMMA SentInit == PddInit => SentInv
<1>. SUFFICES ASSUME PddInit PROVE SentInv
  OBVIOUS
<1>1. call.fn = "none" /\ ~Queued("ETx") /\ issued["ETx"] = 0 /\ last["ETx"].req = 0
  BY NoCallType DEF PddInit, Init, Queued, Has, Kinds
<1>2. WireInv
  BY <1>1 DEF PddInit, WireInv, Sent
<1>3. WriteInv
  BY <1>1 DEF PddInit, Init, WriteInv, Posted
<1>. QED  BY <1>2, <1>3, StageInit DEF SentInv

LEMMA SentStep == Client /\ 0 \notin WriteLens /\ SentInv /\ [PddNext]_vars => SentInv'
  BY StageStep, WireKernel, WireThread DEF SentInv

\* A write is reported as done only when the host took its data, and no data go out
\* twice or out of order: on COM ports and sockets, with the turnaround timer and
\* line failures, for every client that does not cancel.  Empty writes, which only
\* wait for the line, send nothing and are left out.
THEOREM WritesMeanSent ==
  Client /\ 0 \notin WriteLens /\ PddSpec => []WriteMeansSent
<1>. SUFFICES ASSUME Client, 0 \notin WriteLens PROVE PddSpec => []WriteMeansSent
  OBVIOUS
<1>1. SentInv /\ [PddNext]_vars => SentInv'
  BY SentStep
<1>2. SentInv => WriteMeansSent
  BY DEF SentInv, WireInv, Sent, WriteMeansSent
<1>. QED  BY SentInit, <1>1, <1>2, PTL DEF PddSpec

-----------------------------------------------------------------------------
(* The read, on a COM port.                                                   *)

\* To the read: nothing; the comm thread takes the event of its end, starts its
\* I/O, reads on or is done, reports it complete; a line failure aborts it; data
\* arrive for it or are buffered.
LeavesRead ==
  /\ UNCHANGED <<readPending, rdOut, rdRes, inBuf, rx, arrived>> /\ Quiet("ERx")
  /\ "read" \in signalled' => "read" \in signalled
  /\ cpc' \in {"event3", "completeRead"} => cpc' = cpc

TakesReadEvent ==
  /\ UNCHANGED <<readPending, rdOut, rdRes, inBuf, rx, arrived>> /\ Quiet("ERx")
  /\ "read" \in signalled /\ "read" \notin signalled' /\ cpc' = "event3"

StartsReadIo ==
  /\ Live /\ Posted("Read") /\ ~Posted("Read")' /\ readPending = "none"
  /\ readPending' \in {"EReceive", "EReceiveOneOrMore"}
  /\ PostRead(<< >>)
  /\ UNCHANGED arrived /\ Quiet("ERx") /\ cpc' = "signalDriver"

ReadsOn ==
  /\ cpc = "event3" /\ cpc' = "wait" /\ TerminatedRead /\ ReadMore
  /\ rdRes = "KErrNone" /\ err'["ERx"] = "KErrNone"
  /\ PostRead(inBuf)
  /\ UNCHANGED <<readPending, arrived, Queued("ERx")>>

EndsRead ==
  /\ cpc = "event3" /\ cpc' = "completeRead"
  /\ err'["ERx"] = "KErrNone" => rdRes = "KErrNone" /\ ~(TerminatedRead /\ ReadMore)
  /\ rxLineFail \/ err'["ERx"] = (IF rdRes = "pending" THEN "LastError" ELSE rdRes)
  /\ UNCHANGED <<readPending, rdOut, rdRes, inBuf, rx, arrived, signalled, Queued("ERx")>>

ReportsRead ==
  /\ cpc = "completeRead" /\ cpc' = "wait" /\ readPending' = "none" /\ Queued("ERx")'
  /\ UNCHANGED <<rdOut, rdRes, inBuf, rx, arrived, signalled, err["ERx"]>>

AbortsRead ==
  /\ FailSignals # {} /\ readPending # "none" /\ rdOut # 0
  /\ rdOut' = 0 /\ rdRes' = "LastError" /\ cpc' = "heldWrite"
  /\ UNCHANGED <<readPending, inBuf, rx, arrived>> /\ Quiet("ERx")

ArrivesForRead ==
  /\ rdOut > 0 /\ rdOut' = rdOut - 1 /\ rdRes' = "KErrNone" /\ arrived' = arrived + 1
  /\ inBuf' = IF TerminatedRead THEN Append(inBuf, arrived + 1) ELSE <<arrived + 1>>
  /\ UNCHANGED <<readPending, rx, cpc>> /\ Quiet("ERx")

ArrivesEarly ==
  /\ ~(rdOut > 0) /\ rx' = Append(rx, arrived + 1) /\ arrived' = arrived + 1
  /\ UNCHANGED <<readPending, rdOut, rdRes, inBuf, cpc>> /\ Quiet("ERx")
  /\ "read" \in signalled' => "read" \in signalled

ReadSteps == \/ LeavesRead \/ TakesReadEvent \/ StartsReadIo \/ ReadsOn \/ EndsRead
             \/ ReportsRead \/ AbortsRead \/ ArrivesForRead \/ ArrivesEarly

LEMMA CommandReads ==
  ASSUME ~UseSocket, BaseInv, CommandInv, DriverCommand, ~Kernel, PddNext
  PROVE  ReadSteps
<1>0. /\ cpc = "event1" /\ cpc' \in {"signalDriver", "signalDie"}
      /\ {"ETx", "ERx", "ESigChg"} \subseteq Kinds \cap Dfcs
      /\ TypeInv /\ CallInv /\ LddInv /\ err \in [Kinds -> Reasons]
  BY DEF DriverCommand, AfterCommand, Kinds, Dfcs, BaseInv, LddInv, TypeInv, TypeOK
<1>1. Posted(call.fn) /\ ~Posted("Read")'
  BY ThreadPosts
<1>2. UNCHANGED lddVars => Quiet("ERx")
  BY DEF lddVars, Quiet, Queued
<1>. USE DEF readVars, ReadSteps
<1>3. CASE Receive
  <2>1. call.fn = "Read" /\ Live
    BY <1>0, <1>3, CommandCalls DEF Receive
  <2>2. cpc' = "signalDriver"
    BY <1>3 DEF DriverCommand, AfterCommand, Receive
  <2>3. CASE readPending = "none"
    BY <1>1, <1>2, <1>3, <2>1, <2>2, <2>3 DEF Receive, StartsReadIo
  <2>4. CASE readPending # "none"
    BY <1>2, <1>3, <2>2, <2>4 DEF Receive, LeavesRead
  <2>. QED  BY <2>3, <2>4
<1>4. CASE Transmit \/ NotifyData \/ NoEffect
  BY <1>0, <1>2, <1>4 DEF Transmit, NotifyData, NoEffect, LeavesRead
<1>5. CASE StartPort \/ StopPort
  <2>1. "read" \in signalled' => "read" \in signalled
    BY <1>5 DEF StartPort, StopPort
  <2>. QED  BY <1>0, <1>2, <1>5, <2>1 DEF StartPort, StopPort, LeavesRead
<1>6. CASE Transmit0
  <2>1. UNCHANGED lddVars \/ Report("ETx", "KErrNone")
    BY <1>6 DEF Transmit0
  <2>2. dfcq' \in {dfcq, Enque(dfcq, "ETx")} /\ UNCHANGED err["ERx"]
    BY <1>0, <2>1 DEF Report, lddVars
  <2>3. Quiet("ERx")
    BY <1>0, <2>2, QuietReport
  <2>. QED  BY <1>0, <1>6, <2>3 DEF Transmit0, LeavesRead
<1>7. CASE NotifySignal
  <2>1. UNCHANGED lddVars \/ Report("ESigChg", "KErrNone")
    BY <1>7 DEF NotifySignal
  <2>2. dfcq' \in {dfcq, Enque(dfcq, "ESigChg")} /\ UNCHANGED err["ERx"]
    BY <1>0, <2>1 DEF Report, lddVars
  <2>3. Quiet("ERx")
    BY <1>0, <2>2, QuietReport
  <2>. QED  BY <1>0, <1>7, <2>3 DEF NotifySignal, LeavesRead
<1>. QED  BY <1>3, <1>4, <1>5, <1>6, <1>7 DEF DriverCommand

LEMMA EventReads ==
  ASSUME ~UseSocket, BaseInv,
         \/ DataAvailableEvent \/ SignalsEvent \/ HeldWriteEvent
         \/ WriteCompletion \/ ReadCompletion \/ CompleteRead
  PROVE  ReadSteps
<1>0. /\ {"ETx", "ERx", "ESigChg", "ERxDA"} \subseteq Kinds \cap Dfcs
      /\ LddInv /\ err \in [Kinds -> Reasons]
  BY DEF Kinds, Dfcs, BaseInv, LddInv, TypeInv, TypeOK
<1>. USE DEF readVars, ReadSteps
<1>1. CASE DataAvailableEvent
  <2>1. Quiet("ERx")
    BY <1>0, <1>1, QuietReport DEF DataAvailableEvent
  <2>. QED  BY <1>1, <2>1 DEF DataAvailableEvent, LeavesRead
<1>2. CASE SignalsEvent
  <2>1. UNCHANGED lddVars \/ Report("ESigChg", "KErrNone")
    BY <1>2 DEF SignalsEvent
  <2>2. Quiet("ERx")
    <3>1. dfcq' \in {dfcq, Enque(dfcq, "ESigChg")} /\ UNCHANGED err["ERx"]
      BY <1>0, <2>1 DEF Report, lddVars
    <3>. QED  BY <1>0, <3>1, QuietReport
  <2>. DEFINE failR == ~(FailSignals \subseteq curSignals) /\ readPending # "none"
  <2>3. /\ cpc' = "heldWrite" /\ UNCHANGED <<readPending, inBuf, rx, arrived>>
        /\ "read" \in signalled' <=> "read" \in signalled \/ (failR /\ rdOut # 0)
        /\ IF failR THEN AbortRead ELSE UNCHANGED <<rdOut, rdRes>>
    BY <1>2 DEF SignalsEvent
  <2>4. CASE failR /\ rdOut # 0
    <3>1. rdOut' = 0 /\ rdRes' = "LastError" /\ FailSignals # {}
      BY <2>3, <2>4 DEF AbortRead
    <3>. QED  BY <2>2, <2>3, <2>4, <3>1 DEF AbortsRead
  <2>5. CASE ~(failR /\ rdOut # 0)
    <3>1. UNCHANGED <<rdOut, rdRes>>
      BY <2>3, <2>5 DEF AbortRead
    <3>. QED  BY <2>2, <2>3, <2>5, <3>1 DEF LeavesRead
  <2>. QED  BY <2>4, <2>5
<1>3. CASE HeldWriteEvent
  <2>1. "read" \in signalled' => "read" \in signalled
    BY <1>3 DEF HeldWriteEvent
  <2>2. Quiet("ERx")
    <3>1. UNCHANGED lddVars \/ Report("ETx", "KErrNone")
      BY <1>3 DEF HeldWriteEvent
    <3>2. dfcq' \in {dfcq, Enque(dfcq, "ETx")} /\ UNCHANGED err["ERx"]
      BY <1>0, <3>1 DEF Report, lddVars
    <3>. QED  BY <1>0, <3>2, QuietReport
  <2>. QED  BY <1>3, <2>1, <2>2 DEF HeldWriteEvent, LeavesRead
<1>4. CASE WriteCompletion
  <2>1. Quiet("ERx")
    <3>1. dfcq' \in {dfcq, Enque(dfcq, "ETx")} /\ UNCHANGED err["ERx"]
      BY <1>0, <1>4 DEF WriteCompletion, Report
    <3>. QED  BY <1>0, <3>1, QuietReport
  <2>. QED  BY <1>4, <2>1 DEF WriteCompletion, LeavesRead
<1>5. CASE ReadCompletion
  <2>. DEFINE result == IF rxLineFail THEN "KErrCommsLineFail"
                        ELSE IF rdRes = "pending" THEN "LastError" ELSE rdRes
              more == TerminatedRead /\ result = "KErrNone" /\ ReadMore
  <2>1. /\ cpc = "event3" /\ err' = [err EXCEPT !["ERx"] = result]
        /\ IF more THEN PostRead(inBuf) ELSE UNCHANGED <<signalled, rdOut, rdRes, inBuf, rx>>
        /\ cpc' = IF more THEN "wait" ELSE "completeRead"
        /\ UNCHANGED <<dfcq, readPending, arrived>>
    BY <1>5 DEF ReadCompletion
  <2>2. err'["ERx"] = result /\ UNCHANGED Queued("ERx")
    BY <1>0, <2>1 DEF Queued
  <2>3. result = "KErrNone" => rdRes = "KErrNone"
    OBVIOUS
  <2>4. CASE more
    BY <2>1, <2>2, <2>3, <2>4 DEF ReadsOn
  <2>5. CASE ~more
    BY <2>1, <2>2, <2>3, <2>5 DEF EndsRead
  <2>. QED  BY <2>4, <2>5
<1>6. CASE CompleteRead
  <2>1. Queued("ERx")'
    BY <1>0, <1>6, ReportedQueued DEF CompleteRead
  <2>. QED  BY <1>6, <2>1 DEF CompleteRead, ReportsRead
<1>. QED  BY <1>1, <1>2, <1>3, <1>4, <1>5, <1>6

LEMMA HostReads ==
  ASSUME ~UseSocket, BaseInv,
         \/ WaitForEvent \/ SignalDriverThread \/ ExitThread
         \/ Host \/ TimerInterrupt \/ UNCHANGED vars
  PROVE  ReadSteps
<1>0. UNCHANGED lddVars => Quiet("ERx")
  BY DEF lddVars, Quiet, Queued
<1>. USE DEF readVars, ReadSteps
<1>1. CASE WaitForEvent
  <2>1. UNCHANGED <<readPending, rdOut, rdRes, inBuf, rx, arrived>> /\ Quiet("ERx")
    BY <1>0, <1>1 DEF WaitForEvent
  <2>2. CASE cpc' = "event3"
    BY <1>1, <2>1, <2>2 DEF WaitForEvent, Reset, TakesReadEvent
  <2>3. CASE cpc' # "event3"
    BY <1>1, <2>1, <2>3 DEF WaitForEvent, Reset, LeavesRead
  <2>. QED  BY <2>2, <2>3
<1>2. CASE SignalDriverThread \/ ExitThread
  BY <1>0, <1>2 DEF SignalDriverThread, ExitThread, LeavesRead
<1>3. CASE WriteDone
  BY <1>0, <1>3 DEF WriteDone, LeavesRead, syncVars
<1>4. CASE DataArrives
  <2>1. CASE rdOut > 0
    BY <1>0, <1>4, <2>1 DEF DataArrives, ArrivesForRead, syncVars
  <2>2. CASE ~(rdOut > 0)
    <3>1. "read" \in signalled' => "read" \in signalled
      BY <1>4, <2>2 DEF DataArrives
    <3>. QED  BY <1>0, <1>4, <2>2, <3>1 DEF DataArrives, ArrivesEarly, syncVars
  <2>. QED  BY <2>1, <2>2
<1>5. CASE LineChanges
  <2>1. "read" \in signalled' => "read" \in signalled
    BY <1>5 DEF LineChanges, CommEvent
  <2>. QED  BY <1>0, <1>5, <2>1 DEF LineChanges, LeavesRead, syncVars
<1>6. CASE TimerInterrupt
  <2>1. Quiet("ERx")
    <3>1. dfcq' \in {dfcq, Enque(dfcq, "Turnaround")} /\ UNCHANGED err
      BY <1>6 DEF TimerInterrupt, TimerExpired, ReleaseDelayed
    <3>2. "Turnaround" \in Dfcs /\ "ERx" \in Kinds /\ LddInv
      BY DEF Dfcs, Kinds, BaseInv
    <3>. QED  BY <3>1, <3>2, QuietReport
  <2>. QED  BY <1>6, <2>1 DEF TimerInterrupt, pddVars, syncVars, LeavesRead
<1>7. CASE UNCHANGED vars
  BY <1>0, <1>7 DEF vars, pddVars, syncVars, LeavesRead
<1>. QED  BY <1>1, <1>2, <1>3, <1>4, <1>5, <1>6, <1>7 DEF Host

LEMMA ThreadReads ==
  ASSUME ~UseSocket, BaseInv, CommandInv, [PddNext]_vars, ~Kernel
  PROVE  ReadSteps
  BY CommandReads, EventReads, HostReads DEF PddNext, CommThread

-----------------------------------------------------------------------------
(* A ReadFile is outstanding, or ended and its event signalled or taken, only *)
(* for a read that is pending; and a read is at one stage at a time.          *)

ReadIo ==
  /\ rdOut \in {0, 1} /\ rdRes \in {"KErrNone", "pending", "LastError"}
  /\ rdOut > 0 => /\ readPending # "none" /\ rdRes = "pending" /\ rx = << >>
                  /\ "read" \notin signalled /\ cpc \notin {"event3", "completeRead"}
  /\ "read" \in signalled => readPending # "none" /\ cpc \notin {"event3", "completeRead"}
  /\ cpc \in {"event3", "completeRead"} => readPending # "none"
  /\ rdRes = "pending" => rdOut = 1

ReadStage ==
  /\ Posted("Read") \/ readPending # "none" \/ Queued("ERx") => pending["ERx"] # 0
  /\ Posted("Read") => readPending = "none" /\ ~Queued("ERx")
  /\ readPending # "none" => ~Queued("ERx")
  /\ call.fn = "ERx" => pending["ERx"] = 0

\* What the kernel thread does to the buffers: the completion DFC copies the read to
\* the client, ResetBuffers purges the port.
CopiesRead ==
  /\ call'.fn = "ERx" /\ UNCHANGED <<rx, purged>>
  /\ got' = IF err["ERx"] = "KErrNone" THEN got \o inBuf ELSE got

PurgesPort ==
  /\ UNCHANGED got /\ pending["ERx"] = 0
  /\ rx' = << >> /\ purged' = purged \cup {rx[i] : i \in 1..Len(rx)}

LEMMA KernelBuffers ==
  ASSUME "Cancel" \notin Ops, Kernel
  PROVE  \/ CopiesRead
         \/ call'.fn # "ERx" /\ (PurgesPort \/ UNCHANGED <<rx, purged, got>>)
<1>0. NoCall.fn = "none" /\ \A f \in Fns : Calling(f).fn = f
  BY NoCallType, CallingType
<1>1. CASE KReturns
  <2>1. call'.fn # "ERx"
    BY <1>0, <1>1, DispatchCalls
       DEF KReturns, PddReturns, StartReturns, DispatchBreak, StopReturns, ShutdownTail,
           DieReturns, CallReturns
  <2>. QED  BY <1>1, <2>1 DEF KReturns, PostCommand
<1>2. CASE KStep
  <2>1. call'.fn # "ERx"
    <3>1. ASSUME NEW m \in Requests, Request(m) PROVE call'.fn # "ERx"
      BY <3>1, DispatchCalls DEF Request
    <3>2. CASE Break \/ Close \/ Delete \/ TurnaroundTimeout
      BY <1>0, <3>2 DEF Break, DispatchBreak, Close, ShutdownTail, Delete, TurnaroundTimeout,
                        Idle, Fns, PddFns
    <3>3. ASSUME NEW us \in TurnaroundUs, SetMinTurnaroundTime(us) PROVE call'.fn # "ERx"
      BY <1>0, <3>3 DEF SetMinTurnaroundTime, Idle
    <3>4. ASSUME NEW c \in PortControls, PortControl(c, AreAnyPending) PROVE call'.fn # "ERx"
      BY <1>0, <3>4 DEF PortControl, Fns, PddFns
    <3>5. ASSUME NEW k \in Kinds, ClearError(k) PROVE call'.fn # "ERx"
      BY <1>0, <3>5 DEF ClearError
    <3>. QED  BY <1>2, <3>1, <3>2, <3>3, <3>4, <3>5 DEF KStep
  <2>. QED  BY <1>2, <2>1 DEF KStep, PostCommand
<1>3. ASSUME NEW k \in Kinds, KCompleteDfc(k)
      PROVE  CopiesRead \/ (call'.fn # "ERx" /\ UNCHANGED <<rx, purged, got>>)
  <2>1. call'.fn = k
    BY <1>0, <1>3 DEF KCompleteDfc, CompleteDfc, Fns
  <2>. QED  BY <1>3, <2>1 DEF KCompleteDfc, PostCommand, CopiesRead
<1>4. ASSUME NEW C \in SUBSET {"ERx", "ETx", "ESigChg"}, KCancel(C) PROVE FALSE
  BY <1>4 DEF KCancel, Cancel
<1>5. CASE KResetBuffers
  <2>1. call'.fn # "ERx" /\ pending["ERx"] = 0
    BY <1>0, <1>5 DEF KResetBuffers, PortControl, Fns, PddFns
  <2>. DEFINE all  == {rx[i] : i \in 1..Len(rx)}
              drop == IF AreAnyPending \/ UseSocket THEN {} ELSE all
  <2>2. /\ UNCHANGED got /\ purged' = purged \cup drop
        /\ rx' = IF drop = {} THEN rx ELSE << >>
    BY <1>5 DEF KResetBuffers
  <2>. HIDE DEF all
  <2>3. CASE drop = {}
    <3>1. purged' = purged /\ rx' = rx
      BY <2>2, <2>3
    <3>. QED  BY <2>1, <2>2, <3>1
  <2>4. CASE drop # {}
    <3>1. drop = all
      BY <2>4
    <3>. QED  BY <2>1, <2>2, <2>4, <3>1 DEF PurgesPort, all
  <2>. QED  BY <2>3, <2>4
<1>. QED  BY <1>1, <1>2, <1>3, <1>4, <1>5 DEF Kernel

LEMMA ReadIoStep ==
  ASSUME Client, ~UseSocket, BaseInv, [PddNext]_vars, ReadIo
  PROVE  ReadIo'
<1>0. CommandInv
  BY BaseCommands DEF Client, Calm
<1>1. CASE Kernel
  <2>1. UNCHANGED <<cpc, signalled, readPending, rdOut, rdRes>>
    BY <1>0, <1>1, KernelFrame DEF Client, Calm
  <2>2. rx' = rx \/ rx' = << >>
    BY <1>1, KernelBuffers DEF Client, Calm, CopiesRead, PurgesPort
  <2>. QED  BY <2>1, <2>2 DEF ReadIo
<1>2. CASE ~Kernel
  <2>1. ReadSteps
    BY <1>0, <1>2, ThreadReads
  <2>2. CASE LeavesRead \/ TakesReadEvent
    BY <2>2 DEF LeavesRead, TakesReadEvent, ReadIo
  <2>3. CASE StartsReadIo
    BY <2>3 DEF StartsReadIo, PostRead, ReadIo
  <2>4. CASE ReadsOn
    BY <2>4 DEF ReadsOn, PostRead, ReadIo
  <2>5. CASE EndsRead \/ ReportsRead
    BY <2>5 DEF EndsRead, ReportsRead, ReadIo
  <2>6. CASE AbortsRead
    BY <2>6 DEF AbortsRead, ReadIo
  <2>7. CASE ArrivesForRead
    BY <2>7 DEF ArrivesForRead, ReadIo
  <2>8. CASE ArrivesEarly
    BY <2>8 DEF ArrivesEarly, ReadIo
  <2>. QED  BY <2>1, <2>2, <2>3, <2>4, <2>5, <2>6, <2>7, <2>8 DEF ReadSteps
<1>. QED  BY <1>1, <1>2

LEMMA ReadStageStep ==
  ASSUME Client, ~UseSocket, BaseInv, [PddNext]_vars, ReadIo, Live => ReadStage, Live'
  PROVE  ReadStage'
<1>0. CommandInv
  BY BaseCommands DEF Client, Calm
<1>1. CASE Kernel
  <2>1. Live /\ KernelSteps
    BY <1>1, KernelDoes DEF Client, BaseInv, RefInv, Closes
  <2>2. UNCHANGED readPending /\ ~Posted("Read") /\ (Posted("Read")' => call'.fn = "Read")
    BY <1>0, <1>1, KernelFrame DEF Client, Calm, Posted
  <2>3. CASE KeepsRead
    BY <2>1, <2>2, <2>3 DEF KeepsRead, ReadStage
  <2>4. CASE StartsRead
    BY <2>1, <2>2, <2>4 DEF StartsRead, ReadStage
  <2>5. CASE CompletesRead
    BY <2>1, <2>2, <2>5 DEF CompletesRead, ReadStage
  <2>. QED  BY <2>1, <2>3, <2>4, <2>5 DEF KernelSteps
<1>2. CASE ~Kernel
  <2>1. UNCHANGED <<status, call, pending>>
    BY <1>2, ThreadFrame
  <2>2. Live /\ ReadStage
    BY <2>1 DEF Live, Open
  <2>3. ReadSteps /\ (Posted("Read")' => Posted("Read"))
    BY <1>0, <1>2, ThreadReads, ThreadPosts
  <2>4. CASE LeavesRead \/ TakesReadEvent
    BY <2>1, <2>2, <2>3, <2>4 DEF LeavesRead, TakesReadEvent, Quiet, ReadStage
  <2>5. CASE StartsReadIo
    BY <2>1, <2>2, <2>5 DEF StartsReadIo, Quiet, ReadStage
  <2>6. CASE ReadsOn \/ EndsRead
    BY <2>1, <2>2, <2>3, <2>6 DEF ReadsOn, EndsRead, ReadStage
  <2>7. CASE ReportsRead
    BY <2>1, <2>2, <2>3, <2>7 DEF ReportsRead, ReadIo, ReadStage
  <2>8. CASE AbortsRead \/ ArrivesForRead \/ ArrivesEarly
    BY <2>1, <2>2, <2>3, <2>8 DEF AbortsRead, ArrivesForRead, ArrivesEarly, Quiet, ReadStage
  <2>. QED  BY <2>3, <2>4, <2>5, <2>6, <2>7, <2>8 DEF ReadSteps
<1>. QED  BY <1>1, <1>2

-----------------------------------------------------------------------------
(* The stream of chunks: what the client was given, what is on its way to the *)
(* client in iInDes, and what the port has buffered.                          *)

Increasing(s)      == \A i, j \in 1..Len(s) : i < j => s[i] < s[j]
Chunks(s)          == {s[i] : i \in 1..Len(s)}
Below(s, t)        == \A m \in Chunks(s), n \in Chunks(t) : m < n
InOrder(g, b, r)   == /\ Increasing(g) /\ Increasing(b) /\ Increasing(r)
                      /\ Below(g, b) /\ Below(g, r) /\ Below(b, r)
AllChunks(g, b, r) == Chunks(g) \cup Chunks(b) \cup Chunks(r)

LEMMA EmptyChunks == Chunks(<< >>) = {} /\ Increasing(<< >>)
  BY DEF Chunks, Increasing

LEMMA AppendChunks ==
  ASSUME NEW s \in Seq(Nat), NEW n \in Nat
  PROVE  /\ Chunks(Append(s, n)) = Chunks(s) \cup {n} /\ Chunks(s) \subseteq Nat
         /\ Increasing(s) /\ (\A m \in Chunks(s) : m < n) => Increasing(Append(s, n))
<1>. DEFINE t == Append(s, n)
<1>1. /\ Len(s) \in Nat /\ Len(t) = Len(s) + 1 /\ t[Len(s) + 1] = n
      /\ \A i \in 1..Len(s) : t[i] = s[i] /\ s[i] \in Nat
  OBVIOUS
<1>. HIDE DEF t
<1>2. \A i \in 1..Len(t) : i \in 1..Len(s) \/ i = Len(s) + 1
  BY <1>1
<1>3. Chunks(t) = Chunks(s) \cup {n}
  <2>1. ASSUME NEW m \in Chunks(t) PROVE m \in Chunks(s) \cup {n}
    BY <1>1, <1>2, <2>1 DEF Chunks
  <2>2. ASSUME NEW m \in Chunks(s) PROVE m \in Chunks(t)
    <3>1. PICK i \in 1..Len(s) : s[i] = m
      BY <2>2 DEF Chunks
    <3>2. i \in 1..Len(t) /\ t[i] = m
      BY <1>1, <3>1
    <3>. QED  BY <3>2 DEF Chunks
  <2>3. n \in Chunks(t)
    <3>1. Len(s) + 1 \in 1..Len(t)
      BY <1>1
    <3>. QED  BY <1>1, <3>1 DEF Chunks
  <2>. QED  BY <2>1, <2>2, <2>3
<1>4. ASSUME Increasing(s), \A m \in Chunks(s) : m < n PROVE Increasing(t)
  <2>1. ASSUME NEW i \in 1..Len(t), NEW j \in 1..Len(t), i < j PROVE t[i] < t[j]
    <3>1. i \in 1..Len(s) /\ t[i] = s[i] /\ s[i] < n
      BY <1>1, <1>4, <2>1 DEF Chunks
    <3>2. CASE j \in 1..Len(s)
      BY <1>1, <1>4, <2>1, <3>1, <3>2 DEF Increasing
    <3>. QED  BY <1>1, <1>2, <3>1, <3>2
  <2>. QED  BY <2>1 DEF Increasing
<1>5. Chunks(s) \subseteq Nat
  BY <1>1 DEF Chunks
<1>. QED  BY <1>3, <1>4, <1>5 DEF t

LEMMA TailChunks ==
  ASSUME NEW s \in Seq(Nat), s # << >>
  PROVE  /\ Tail(s) \in Seq(Nat) /\ Head(s) \in Nat
         /\ Chunks(s) = {Head(s)} \cup Chunks(Tail(s))
         /\ Increasing(s) => Increasing(Tail(s)) /\ \A m \in Chunks(Tail(s)) : Head(s) < m
<1>. DEFINE t == Tail(s)
<1>1. /\ Len(s) \in Nat /\ Len(s) > 0 /\ Head(s) = s[1] /\ s[1] \in Nat /\ t \in Seq(Nat)
      /\ Len(t) = Len(s) - 1 /\ \A i \in 1..Len(t) : t[i] = s[i + 1]
  OBVIOUS
<1>. HIDE DEF t
<1>2. Chunks(s) = {s[1]} \cup Chunks(t)
  <2>1. ASSUME NEW m \in Chunks(s), m # s[1] PROVE m \in Chunks(t)
    <3>1. PICK i \in 1..Len(s) : s[i] = m
      BY <2>1 DEF Chunks
    <3>2. i - 1 \in 1..Len(t) /\ t[i - 1] = m
      BY <1>1, <2>1, <3>1
    <3>. QED  BY <3>2 DEF Chunks
  <2>2. ASSUME NEW m \in Chunks(t) PROVE m \in Chunks(s)
    <3>1. PICK i \in 1..Len(t) : t[i] = m
      BY <2>2 DEF Chunks
    <3>2. i + 1 \in 1..Len(s) /\ s[i + 1] = m
      BY <1>1, <3>1
    <3>. QED  BY <3>2 DEF Chunks
  <2>3. 1 \in 1..Len(s)
    BY <1>1
  <2>4. s[1] \in Chunks(s)
    BY <2>3 DEF Chunks
  <2>. QED  BY <2>1, <2>2, <2>4
<1>3. ASSUME Increasing(s) PROVE Increasing(t) /\ \A m \in Chunks(t) : s[1] < m
  <2>1. \A i \in 1..Len(t) : i + 1 \in 1..Len(s) /\ 1 \in 1..Len(s) /\ 1 < i + 1
    BY <1>1
  <2>2. \A i, j \in 1..Len(t) : i < j => i + 1 < j + 1
    BY <1>1
  <2>3. Increasing(t)
    BY <1>1, <1>3, <2>1, <2>2 DEF Increasing
  <2>4. ASSUME NEW m \in Chunks(t) PROVE s[1] < m
    BY <1>1, <1>3, <2>1, <2>4 DEF Increasing, Chunks
  <2>. QED  BY <2>3, <2>4
<1>. QED  BY <1>1, <1>2, <1>3 DEF t

LEMMA JoinChunks ==
  ASSUME NEW s \in Seq(Nat), NEW t \in Seq(Nat)
  PROVE  /\ s \o t \in Seq(Nat) /\ Chunks(s \o t) = Chunks(s) \cup Chunks(t)
         /\ Increasing(s) /\ Increasing(t) /\ Below(s, t) => Increasing(s \o t)
<1>. DEFINE u == s \o t
<1>1. /\ u \in Seq(Nat) /\ Len(s) \in Nat /\ Len(t) \in Nat /\ Len(u) = Len(s) + Len(t)
      /\ \A i \in 1..Len(s) : u[i] = s[i]
      /\ \A i \in 1..Len(t) : u[i + Len(s)] = t[i]
  OBVIOUS
<1>. HIDE DEF u
<1>2. \A i \in 1..Len(u) : i \in 1..Len(s) \/ (i > Len(s) /\ i - Len(s) \in 1..Len(t))
  BY <1>1
<1>3. \A i \in 1..Len(u) : i > Len(s) => u[i] = t[i - Len(s)]
  <2>1. ASSUME NEW i \in 1..Len(u), i > Len(s) PROVE u[i] = t[i - Len(s)]
    <3>1. i - Len(s) \in 1..Len(t) /\ (i - Len(s)) + Len(s) = i
      BY <1>1, <2>1
    <3>. QED  BY <1>1, <3>1
  <2>. QED  BY <2>1
<1>4. Chunks(u) = Chunks(s) \cup Chunks(t)
  <2>1. ASSUME NEW m \in Chunks(u) PROVE m \in Chunks(s) \cup Chunks(t)
    BY <1>1, <1>2, <1>3, <2>1 DEF Chunks
  <2>2. ASSUME NEW m \in Chunks(s) PROVE m \in Chunks(u)
    <3>1. PICK i \in 1..Len(s) : s[i] = m
      BY <2>2 DEF Chunks
    <3>2. i \in 1..Len(u) /\ u[i] = m
      BY <1>1, <3>1
    <3>. QED  BY <3>2 DEF Chunks
  <2>3. ASSUME NEW m \in Chunks(t) PROVE m \in Chunks(u)
    <3>1. PICK i \in 1..Len(t) : t[i] = m
      BY <2>3 DEF Chunks
    <3>2. i + Len(s) \in 1..Len(u) /\ u[i + Len(s)] = m
      BY <1>1, <3>1
    <3>. QED  BY <3>2 DEF Chunks
  <2>. QED  BY <2>1, <2>2, <2>3
<1>5. ASSUME Increasing(s), Increasing(t), Below(s, t) PROVE Increasing(u)
  <2>1. ASSUME NEW i \in 1..Len(u), NEW j \in 1..Len(u), i < j PROVE u[i] < u[j]
    <3>1. CASE j \in 1..Len(s)
      <4>1. i \in 1..Len(s)
        BY <1>1, <2>1, <3>1
      <4>. QED  BY <1>1, <1>5, <2>1, <3>1, <4>1 DEF Increasing
    <3>2. CASE j > Len(s) /\ i \in 1..Len(s)
      <4>1. u[i] \in Chunks(s) /\ u[j] \in Chunks(t)
        <5>1. j - Len(s) \in 1..Len(t)
          BY <1>1, <3>2
        <5>2. u[i] = s[i] /\ u[j] = t[j - Len(s)]
          BY <1>1, <1>3, <3>2
        <5>. QED  BY <3>2, <5>1, <5>2 DEF Chunks
      <4>. QED  BY <1>5, <4>1 DEF Below
    <3>3. CASE j > Len(s) /\ i > Len(s)
      <4>1. i - Len(s) \in 1..Len(t) /\ j - Len(s) \in 1..Len(t) /\ i - Len(s) < j - Len(s)
        BY <1>1, <2>1, <3>3
      <4>2. u[i] = t[i - Len(s)] /\ u[j] = t[j - Len(s)]
        BY <1>3, <3>3
      <4>. QED  BY <1>5, <4>1, <4>2 DEF Increasing
    <3>. QED  BY <1>1, <1>2, <3>1, <3>2, <3>3
  <2>. QED  BY <2>1 DEF Increasing
<1>. QED  BY <1>1, <1>4, <1>5 DEF u

\* What the driver does with the stream leaves it in order.
LEMMA StreamMoves ==
  ASSUME NEW g \in Seq(Nat), NEW b \in Seq(Nat), NEW r \in Seq(Nat), InOrder(g, b, r)
  PROVE  /\ InOrder(g \o b, << >>, r) /\ AllChunks(g \o b, << >>, r) = AllChunks(g, b, r)
         /\ InOrder(g, << >>, r) /\ AllChunks(g, << >>, r) \subseteq AllChunks(g, b, r)
         /\ InOrder(g, b, << >>) /\ AllChunks(g, b, << >>) = Chunks(g) \cup Chunks(b)
         /\ r # << >> =>
              /\ InOrder(g, Append(b, Head(r)), Tail(r))
              /\ AllChunks(g, Append(b, Head(r)), Tail(r)) = AllChunks(g, b, r)
              /\ InOrder(g, << >>, Tail(r))
              /\ AllChunks(g, << >>, Tail(r)) \subseteq AllChunks(g, b, r)
<1>. USE EmptyChunks DEF InOrder, AllChunks, Below
<1>1. InOrder(g \o b, << >>, r) /\ AllChunks(g \o b, << >>, r) = AllChunks(g, b, r)
  BY JoinChunks
<1>2. InOrder(g, << >>, r) /\ AllChunks(g, << >>, r) \subseteq AllChunks(g, b, r)
  OBVIOUS
<1>3. InOrder(g, b, << >>) /\ AllChunks(g, b, << >>) = Chunks(g) \cup Chunks(b)
  OBVIOUS
<1>4. ASSUME r # << >>
      PROVE  /\ InOrder(g, Append(b, Head(r)), Tail(r))
             /\ AllChunks(g, Append(b, Head(r)), Tail(r)) = AllChunks(g, b, r)
             /\ InOrder(g, << >>, Tail(r))
             /\ AllChunks(g, << >>, Tail(r)) \subseteq AllChunks(g, b, r)
  <2>1. /\ Tail(r) \in Seq(Nat) /\ Head(r) \in Nat /\ Increasing(Tail(r))
        /\ Chunks(r) = {Head(r)} \cup Chunks(Tail(r))
        /\ \A m \in Chunks(Tail(r)) : Head(r) < m
    BY <1>4, TailChunks
  <2>2. Chunks(Append(b, Head(r))) = Chunks(b) \cup {Head(r)} /\ Increasing(Append(b, Head(r)))
    BY <2>1, AppendChunks
  <2>. QED  BY <2>1, <2>2
<1>. QED  BY <1>1, <1>2, <1>3, <1>4

LEMMA StreamArrives ==
  ASSUME NEW g \in Seq(Nat), NEW b \in Seq(Nat), NEW r \in Seq(Nat), InOrder(g, b, r),
         NEW n \in Nat, \A m \in AllChunks(g, b, r) : m < n
  PROVE  InOrder(g, b, Append(r, n)) /\ AllChunks(g, b, Append(r, n)) = AllChunks(g, b, r) \cup {n}
<1>. USE DEF InOrder, AllChunks, Below
<1>1. Chunks(Append(r, n)) = Chunks(r) \cup {n} /\ Increasing(Append(r, n))
  BY AppendChunks
<1>. QED  BY <1>1

LEMMA StreamAnswers ==
  ASSUME NEW g \in Seq(Nat), NEW b \in Seq(Nat), NEW r, r = << >>, InOrder(g, b, r),
         NEW n \in Nat, \A m \in AllChunks(g, b, r) : m < n
  PROVE  InOrder(g, Append(b, n), r) /\ AllChunks(g, Append(b, n), r) = AllChunks(g, b, r) \cup {n}
<1>. USE DEF InOrder, AllChunks, Below
<1>1. Chunks(r) = {} /\ Increasing(r)
  BY EmptyChunks
<1>2. Chunks(Append(b, n)) = Chunks(b) \cup {n} /\ Increasing(Append(b, n))
  BY AppendChunks
<1>. QED  BY <1>1, <1>2

-----------------------------------------------------------------------------
(* The stream of a COM port stays in order.                                   *)

Fresh == \/ readPending # "none" /\ (TerminatedRead \/ rdRes = "KErrNone")
         \/ Queued("ERx") /\ err["ERx"] = "KErrNone"

\* The chunks of iInDes the client will be given.
Buffered == IF Live /\ Fresh THEN inBuf ELSE << >>

Stream == AllChunks(got, Buffered, rx)

StreamInv ==
  /\ arrived \in Nat /\ inBuf \in Seq(Nat) /\ rx \in Seq(Nat) /\ got \in Seq(Nat)
  /\ InOrder(got, Buffered, rx)
  /\ Stream \cup purged \subseteq 1..arrived /\ Stream \cap purged = {}
  /\ Live /\ cpc = "completeRead" /\ err["ERx"] = "KErrNone"
       => TerminatedRead \/ rdRes = "KErrNone"

\* Without line failures no chunk is missing.
GapInv ==
  /\ ~rxLineFail /\ rdRes # "LastError"
  /\ \A n \in Chunks(got) : 1..n - 1 \subseteq purged \cup Chunks(got)
  /\ Live => err["ERx"] = "KErrNone" /\ 1..arrived \subseteq purged \cup Stream

ReadInv ==
  /\ ReadIo /\ (Live => ReadStage)
  /\ StreamInv /\ (FailSignals = {} => GapInv)

\* What the comm thread and the host do to the stream: nothing, give up what was
\* read after an error, take the first chunk of the buffer, add one.
StreamStays == UNCHANGED <<rx, arrived>> /\ Buffered' = Buffered
StreamDrops == UNCHANGED <<rx, arrived>> /\ Buffered' = << >> /\ (Live => err["ERx"] # "KErrNone")
StreamTaken ==
  /\ rx # << >> /\ rx' = Tail(rx) /\ UNCHANGED arrived
  /\ Buffered' = IF Live THEN Append(Buffered, Head(rx)) ELSE << >>
StreamGrows ==
  /\ arrived' = arrived + 1
  /\ \/ rx = << >> /\ UNCHANGED rx
        /\ Buffered' = IF Live THEN Append(Buffered, arrived + 1) ELSE << >>
     \/ rx' = Append(rx, arrived + 1) /\ Buffered' = Buffered

LEMMA ThreadStream ==
  ASSUME Client, ~UseSocket, BaseInv, ReadIo, Live => ReadStage, StreamInv,
         ReadSteps, Live' <=> Live
  PROVE  /\ StreamStays \/ StreamDrops \/ StreamTaken \/ StreamGrows
         /\ inBuf' \in Seq(Nat)
<1>0. /\ inBuf \in Seq(Nat) /\ rx \in Seq(Nat) /\ arrived + 1 \in Nat /\ << >> \in Seq(Nat)
      /\ <<arrived + 1>> \in Seq(Nat) /\ Append(<< >>, arrived + 1) = <<arrived + 1>>
  BY DEF StreamInv
<1>1. ~Live => Buffered = << >> /\ Buffered' = << >>
  BY DEF Buffered
<1>2. CASE LeavesRead \/ TakesReadEvent
  <2>1. Buffered' = Buffered
    BY <1>2 DEF LeavesRead, TakesReadEvent, Quiet, Buffered, Fresh
  <2>. QED  BY <1>0, <1>2, <2>1 DEF LeavesRead, TakesReadEvent, StreamStays
<1>3. CASE StartsReadIo
  <2>1. Live /\ readPending = "none" /\ ~Queued("ERx") /\ ~Queued("ERx")'
    BY <1>3 DEF StartsReadIo, ReadStage, Quiet
  <2>2. Buffered = << >>
    BY <2>1 DEF Buffered, Fresh
  <2>3. CASE rx # << >>
    <3>1. inBuf' = Append(<< >>, Head(rx)) /\ rx' = Tail(rx) /\ rdRes' = "KErrNone"
      BY <1>3, <2>3 DEF StartsReadIo, PostRead
    <3>2. Buffered' = inBuf'
      BY <1>3, <2>1, <3>1 DEF StartsReadIo, Buffered, Fresh
    <3>3. Head(rx) \in Nat
      BY <1>0, <2>3
    <3>. QED  BY <1>3, <2>1, <2>2, <2>3, <3>1, <3>2, <3>3 DEF StartsReadIo, StreamTaken
  <2>4. CASE rx = << >>
    <3>1. inBuf' = (IF TerminatedRead THEN << >> ELSE inBuf) /\ rx' = rx /\ rdRes' = "pending"
      BY <1>3, <2>4 DEF StartsReadIo, PostRead
    <3>2. Buffered' = << >>
      BY <2>1, <3>1 DEF Buffered, Fresh
    <3>. QED  BY <1>0, <1>3, <2>2, <3>1, <3>2 DEF StartsReadIo, StreamStays
  <2>. QED  BY <2>3, <2>4
<1>4. CASE ReadsOn
  <2>1. readPending # "none" /\ UNCHANGED <<readPending, arrived>> /\ TerminatedRead
    BY <1>4 DEF ReadsOn, ReadIo
  <2>2. Live => Buffered = inBuf /\ Buffered' = inBuf'
    BY <2>1 DEF Buffered, Fresh
  <2>3. CASE rx # << >>
    <3>1. inBuf' = Append(inBuf, Head(rx)) /\ rx' = Tail(rx)
      BY <1>4, <2>3 DEF ReadsOn, PostRead
    <3>2. Head(rx) \in Nat
      BY <1>0, <2>3
    <3>. QED  BY <1>0, <1>1, <2>1, <2>2, <2>3, <3>1, <3>2 DEF StreamTaken
  <2>4. CASE rx = << >>
    <3>1. inBuf' = inBuf /\ rx' = rx
      BY <1>4, <2>1, <2>4 DEF ReadsOn, PostRead
    <3>. QED  BY <1>0, <1>1, <2>1, <2>2, <3>1 DEF StreamStays
  <2>. QED  BY <2>3, <2>4
<1>5. CASE EndsRead
  <2>1. Buffered' = Buffered
    BY <1>5 DEF EndsRead, ReadIo, ReadStage, Buffered, Fresh
  <2>. QED  BY <1>0, <1>5, <2>1 DEF EndsRead, StreamStays
<1>6. CASE ReportsRead
  <2>1. readPending # "none" /\ readPending' = "none" /\ Queued("ERx")'
        /\ UNCHANGED <<rdRes, inBuf, rx, arrived, err["ERx"]>>
    BY <1>6 DEF ReportsRead, ReadIo
  <2>2. CASE Live /\ err["ERx"] = "KErrNone"
    <3>1. TerminatedRead \/ rdRes = "KErrNone"
      BY <1>6, <2>2 DEF ReportsRead, StreamInv
    <3>2. Buffered = inBuf /\ Buffered' = inBuf'
      BY <2>1, <2>2, <3>1 DEF Buffered, Fresh
    <3>. QED  BY <1>0, <2>1, <3>2 DEF StreamStays
  <2>3. CASE ~Live \/ err["ERx"] # "KErrNone"
    <3>1. Buffered' = << >>
      BY <2>1, <2>3 DEF Buffered, Fresh
    <3>. QED  BY <1>0, <2>1, <2>3, <3>1 DEF StreamDrops
  <2>. QED  BY <2>2, <2>3
<1>7. CASE AbortsRead
  <2>1. Buffered' = Buffered
    BY <1>7 DEF AbortsRead, ReadIo, ReadStage, Quiet, Buffered, Fresh
  <2>. QED  BY <1>0, <1>7, <2>1 DEF AbortsRead, StreamStays
<1>8. CASE ArrivesForRead
  <2>1. /\ readPending # "none" /\ rdRes = "pending" /\ rx = << >> /\ rdRes' = "KErrNone"
        /\ UNCHANGED <<readPending, rx>> /\ arrived' = arrived + 1
        /\ inBuf' = IF TerminatedRead THEN Append(inBuf, arrived + 1) ELSE <<arrived + 1>>
    BY <1>8 DEF ArrivesForRead, ReadIo
  <2>2. inBuf' \in Seq(Nat)
    BY <1>0, <2>1
  <2>3. Live => Buffered = (IF TerminatedRead THEN inBuf ELSE << >>) /\ Buffered' = inBuf'
    BY <1>8, <2>1 DEF ArrivesForRead, ReadStage, Quiet, Buffered, Fresh
  <2>. QED  BY <1>0, <1>1, <2>1, <2>2, <2>3 DEF StreamGrows
<1>9. CASE ArrivesEarly
  <2>1. Buffered' = Buffered
    BY <1>9 DEF ArrivesEarly, Quiet, Buffered, Fresh
  <2>. QED  BY <1>0, <1>9, <2>1 DEF ArrivesEarly, StreamGrows
<1>. QED  BY <1>2, <1>3, <1>4, <1>5, <1>6, <1>7, <1>8, <1>9 DEF ReadSteps

LEMMA CompleteReadStep ==
  ASSUME StreamInv, ReadSteps, Live' <=> Live
  PROVE  (Live /\ cpc = "completeRead" /\ err["ERx"] = "KErrNone"
            => TerminatedRead \/ rdRes = "KErrNone")'
<1>. SUFFICES ASSUME Live', cpc' = "completeRead", err'["ERx"] = "KErrNone"
              PROVE  TerminatedRead \/ rdRes' = "KErrNone"
  OBVIOUS
<1>1. CASE LeavesRead \/ ArrivesEarly
  BY <1>1 DEF LeavesRead, ArrivesEarly, Quiet, StreamInv
<1>2. CASE EndsRead
  BY <1>2 DEF EndsRead
<1>3. CASE ArrivesForRead
  BY <1>3 DEF ArrivesForRead
<1>4. CASE TakesReadEvent \/ StartsReadIo \/ ReadsOn \/ ReportsRead \/ AbortsRead
  BY <1>4 DEF TakesReadEvent, StartsReadIo, ReadsOn, ReportsRead, AbortsRead
<1>. QED  BY <1>1, <1>2, <1>3, <1>4 DEF ReadSteps

LEMMA StreamThread ==
  ASSUME Client, ~UseSocket, BaseInv, ReadIo, Live => ReadStage, StreamInv,
         [PddNext]_vars, ~Kernel
  PROVE  StreamInv' /\ (1..arrived \subseteq purged \cup Stream /\ ~StreamDrops /\ Live
                          => 1..arrived' \subseteq purged' \cup Stream')
<1>0. CommandInv
  BY BaseCommands DEF Client, Calm
<1>1. UNCHANGED <<purged, got>> /\ (Live' <=> Live)
  BY ThreadFrame DEF Live, Open
<1>2. ReadSteps
  BY <1>0, ThreadReads
<1>3. (StreamStays \/ StreamDrops \/ StreamTaken \/ StreamGrows) /\ inBuf' \in Seq(Nat)
  BY <1>1, <1>2, ThreadStream
<1>4. (Live /\ cpc = "completeRead" /\ err["ERx"] = "KErrNone"
         => TerminatedRead \/ rdRes = "KErrNone")'
  BY <1>1, <1>2, CompleteReadStep
<1>5. /\ arrived \in Nat /\ rx \in Seq(Nat) /\ got \in Seq(Nat) /\ Buffered \in Seq(Nat)
      /\ InOrder(got, Buffered, rx)
      /\ Stream \cup purged \subseteq 1..arrived /\ Stream \cap purged = {}
      /\ ~Live => Buffered = << >>
  BY DEF StreamInv, Buffered
<1>. DEFINE b == Buffered
            b1 == Buffered'
            r1 == rx'
<1>6. SUFFICES /\ arrived' \in Nat /\ r1 \in Seq(Nat) /\ InOrder(got, b1, r1)
               /\ AllChunks(got, b1, r1) \cup purged \subseteq 1..arrived'
               /\ AllChunks(got, b1, r1) \cap purged = {}
               /\ 1..arrived \subseteq purged \cup Stream /\ ~StreamDrops /\ Live
                    => 1..arrived' \subseteq purged \cup AllChunks(got, b1, r1)
  <2>1. got' = got /\ purged' = purged /\ got' \in Seq(Nat)
    BY <1>1, <1>5
  <2>2. Stream' = AllChunks(got, b1, r1)
    BY <2>1 DEF Stream, AllChunks, Chunks
  <2>3. InOrder(got, Buffered, rx)' = InOrder(got, b1, r1)
    BY <2>1 DEF InOrder, Increasing, Below, Chunks
  <2>. QED  BY <1>3, <1>4, <2>1, <2>2, <2>3 DEF StreamInv
<1>7. Stream = AllChunks(got, b, rx) /\ b \in Seq(Nat) /\ InOrder(got, b, rx)
  BY <1>5 DEF Stream
<1>8. CASE StreamStays
  BY <1>5, <1>7, <1>8 DEF StreamStays
<1>9. CASE StreamDrops
  BY <1>5, <1>7, <1>9, StreamMoves DEF StreamDrops
<1>10. CASE StreamTaken
  <2>1. b1 \in {Append(b, Head(rx)), << >>} /\ (Live => b1 = Append(b, Head(rx)))
    BY <1>10 DEF StreamTaken
  <2>2. rx # << >> /\ r1 = Tail(rx) /\ arrived' = arrived /\ r1 \in Seq(Nat)
    BY <1>5, <1>10 DEF StreamTaken
  <2>. HIDE DEF b1, r1, b
  <2>3. CASE b1 = Append(b, Head(rx))
    BY <1>5, <1>7, <2>2, <2>3, StreamMoves DEF b
  <2>4. CASE b1 = << >> /\ ~Live
    <3>1. InOrder(got, << >>, Tail(rx)) /\ AllChunks(got, << >>, Tail(rx)) \subseteq Stream
      BY <1>5, <1>7, <2>2, StreamMoves
    <3>. QED  BY <1>5, <2>2, <2>4, <3>1
  <2>. QED  BY <2>1, <2>3, <2>4
<1>11. CASE StreamGrows
  <2>. DEFINE n == arrived + 1
  <2>1. n \in Nat /\ arrived' = n /\ 1..n = 1..arrived \cup {n} /\ n \notin 1..arrived
        /\ \A m \in 1..arrived : m < n
    <3>1. arrived' = n /\ arrived \in Nat
      BY <1>5, <1>11 DEF StreamGrows
    <3>. QED  BY <3>1
  <2>2. \A m \in AllChunks(got, b, rx) : m < n
    BY <1>5, <1>7, <2>1
  <2>3. \/ rx = << >> /\ r1 = rx /\ IF Live THEN b1 = Append(b, n) ELSE b1 = b
        \/ r1 = Append(rx, n) /\ b1 = b
    <3>1. ~Live => b = << >>
      BY <1>5
    <3>2. \/ rx = << >> /\ r1 = rx /\ b1 = IF Live THEN Append(b, n) ELSE << >>
          \/ r1 = Append(rx, n) /\ b1 = b
      BY <1>11 DEF StreamGrows
    <3>. HIDE DEF b, b1, r1, n
    <3>. QED  BY <3>1, <3>2
  <2>. HIDE DEF b1, r1, n
  <2>4. CASE rx = << >> /\ r1 = rx /\ b1 = Append(b, n)
    <3>1. InOrder(got, b1, r1) /\ AllChunks(got, b1, r1) = AllChunks(got, b, rx) \cup {n}
      <4>1. /\ InOrder(got, Append(b, n), rx)
            /\ AllChunks(got, Append(b, n), rx) = AllChunks(got, b, rx) \cup {n}
        BY <1>5, <1>7, <2>1, <2>2, <2>4, StreamAnswers
      <4>. QED  BY <2>4, <4>1
    <3>. QED  BY <1>5, <1>7, <2>1, <2>4, <3>1
  <2>5. CASE r1 = Append(rx, n) /\ b1 = b
    <3>1. InOrder(got, b1, r1) /\ AllChunks(got, b1, r1) = AllChunks(got, b, rx) \cup {n}
      BY <1>5, <2>1, <2>2, <2>5, StreamArrives
    <3>2. r1 \in Seq(Nat)
      BY <1>5, <2>1, <2>5
    <3>. QED  BY <1>5, <1>7, <2>1, <3>1, <3>2
  <2>6. CASE rx = << >> /\ r1 = rx /\ ~Live /\ b1 = b
    BY <1>5, <1>7, <2>1, <2>6
  <2>. QED  BY <2>3, <2>4, <2>5, <2>6
<1>. QED  BY <1>3, <1>8, <1>9, <1>10, <1>11

\* What the kernel thread does to the stream: nothing (or, when it closes the channel,
\* give up what was read); give it to the client; purge what the port has buffered.
StreamRests ==
  /\ UNCHANGED <<rx, got, purged>>
  /\ Buffered' = Buffered \/ (Buffered' = << >> /\ ~Live')
StreamGiven ==
  /\ UNCHANGED <<rx, purged>> /\ Live
  /\ got' = got \o Buffered /\ Buffered' = << >>
StreamPurged ==
  /\ UNCHANGED got /\ rx' = << >> /\ purged' = purged \cup Chunks(rx)
  /\ Buffered' = << >> /\ (Live' => Buffered = << >>)

LEMMA KernelStream ==
  ASSUME Client, BaseInv, Live => ReadStage, Kernel, inBuf \in Seq(Nat), got \in Seq(Nat)
  PROVE  /\ StreamRests \/ StreamGiven \/ StreamPurged
         /\ Live' => /\ Live
                     /\ \/ err'["ERx"] = err["ERx"]
                        \/ err'["ERx"] = "KErrNone" /\ pending["ERx"] = 0
<1>0. CommandInv
  BY BaseCommands DEF Client, Calm
<1>1. UNCHANGED <<readPending, rdRes, inBuf>>
  BY <1>0, KernelFrame DEF Client, Calm
<1>2. CopiesRead \/ (call'.fn # "ERx" /\ (PurgesPort \/ UNCHANGED <<rx, purged, got>>))
  BY KernelBuffers DEF Client, Calm
<1>3. (Live /\ KernelSteps) \/ Closes
  BY KernelDoes DEF Client, BaseInv, RefInv
<1>4. CASE Closes
  <2>1. call'.fn # "ERx" /\ Buffered' = << >> /\ ~Live'
    BY <1>4 DEF Closes, Buffered
  <2>. QED  BY <1>2, <2>1 DEF CopiesRead, PurgesPort, StreamRests, StreamPurged, Chunks
<1>5. CASE Live /\ KeepsRead
  <2>1. call'.fn # "ERx" /\ (Queued("ERx")' <=> Queued("ERx"))
        /\ (err'["ERx"] = err["ERx"] \/ (call.fn = "ERx" /\ err'["ERx"] = "KErrNone"))
    BY <1>5 DEF KeepsRead
  <2>2. /\ pending["ERx"] = 0 => ~Fresh /\ ~Fresh'
        /\ call.fn = "ERx" => pending["ERx"] = 0
    BY <1>1, <1>5, <2>1 DEF ReadStage, Fresh
  <2>3. Fresh' <=> Fresh
    <3>1. CASE call.fn = "ERx"
      BY <1>5, <2>2, <3>1 DEF ReadStage
    <3>2. CASE call.fn # "ERx"
      BY <1>1, <2>1, <3>2 DEF Fresh
    <3>. QED  BY <3>1, <3>2
  <2>4. Buffered' = Buffered \/ (Buffered' = << >> /\ ~Live')
    BY <1>1, <1>5, <2>3 DEF Buffered
  <2>5. CASE PurgesPort
    <3>1. Buffered = << >> /\ Buffered' = << >>
      BY <2>2, <2>5 DEF PurgesPort, Buffered
    <3>. QED  BY <1>5, <2>1, <2>2, <2>5, <3>1 DEF PurgesPort, StreamPurged, Chunks
  <2>6. CASE UNCHANGED <<rx, purged, got>>
    BY <1>5, <2>1, <2>2, <2>4, <2>6 DEF StreamRests
  <2>. QED  BY <1>2, <2>1, <2>5, <2>6 DEF CopiesRead
<1>6. CASE Live /\ StartsRead
  <2>1. call'.fn = "Read" /\ err'["ERx"] = err["ERx"] /\ ~Fresh /\ ~Fresh'
    BY <1>1, <1>6 DEF StartsRead, ReadStage, Fresh
  <2>2. Buffered = << >> /\ Buffered' = << >>
    BY <2>1 DEF Buffered
  <2>. QED  BY <1>2, <1>6, <2>1, <2>2 DEF CopiesRead, PurgesPort, StreamPurged, StreamRests, Chunks
<1>7. CASE Live /\ CompletesRead
  <2>1. readPending = "none" /\ Queued("ERx") /\ ~Queued("ERx")' /\ call'.fn = "ERx"
        /\ err'["ERx"] = err["ERx"]
    BY <1>7 DEF CompletesRead, ReadStage
  <2>2. Buffered' = << >> /\ Buffered = IF err["ERx"] = "KErrNone" THEN inBuf ELSE << >>
    BY <1>1, <1>7, <2>1 DEF Buffered, Fresh
  <2>3. CopiesRead
    BY <1>2, <2>1
  <2>4. got \o << >> = got
    OBVIOUS
  <2>. QED  BY <1>7, <2>1, <2>2, <2>3, <2>4 DEF CopiesRead, StreamGiven
<1>. QED  BY <1>3, <1>4, <1>5, <1>6, <1>7 DEF KernelSteps
LEMMA StreamKernel ==
  ASSUME Client, BaseInv, ReadIo, Live => ReadStage, StreamInv, Kernel
  PROVE  StreamInv'
<1>0. CommandInv
  BY BaseCommands DEF Client, Calm
<1>1. UNCHANGED <<cpc, readPending, rdRes, inBuf, arrived>>
  BY <1>0, KernelFrame DEF Client, Calm
<1>2. /\ inBuf \in Seq(Nat) /\ got \in Seq(Nat) /\ rx \in Seq(Nat) /\ Buffered \in Seq(Nat)
      /\ << >> \in Seq(Nat) /\ InOrder(got, Buffered, rx) /\ Stream = AllChunks(got, Buffered, rx)
      /\ Stream \cup purged \subseteq 1..arrived /\ Stream \cap purged = {}
  BY DEF StreamInv, Buffered, Stream
<1>3. /\ StreamRests \/ StreamGiven \/ StreamPurged
      /\ Live' => /\ Live
                  /\ \/ err'["ERx"] = err["ERx"]
                     \/ err'["ERx"] = "KErrNone" /\ pending["ERx"] = 0
  BY <1>2, KernelStream
<1>4. (Live /\ cpc = "completeRead" /\ err["ERx"] = "KErrNone"
         => TerminatedRead \/ rdRes = "KErrNone")'
  <2>1. CASE pending["ERx"] = 0 /\ Live
    BY <1>1, <2>1 DEF ReadIo, ReadStage
  <2>. QED  BY <1>1, <1>3, <2>1 DEF StreamInv
<1>. DEFINE b == Buffered
            b1 == Buffered'
            r1 == rx'
            g1 == got'
            p1 == purged'
<1>5. SUFFICES /\ r1 \in Seq(Nat) /\ g1 \in Seq(Nat) /\ InOrder(g1, b1, r1)
               /\ AllChunks(g1, b1, r1) \cup p1 \subseteq 1..arrived
               /\ AllChunks(g1, b1, r1) \cap p1 = {}
  <2>1. Stream' = AllChunks(g1, b1, r1) /\ InOrder(got, Buffered, rx)' = InOrder(g1, b1, r1)
    BY DEF Stream, AllChunks, Chunks, InOrder, Increasing, Below
  <2>. QED  BY <1>1, <1>2, <1>4, <2>1 DEF StreamInv
<1>6. CASE StreamRests
  <2>1. b1 \in {b, << >>} /\ r1 = rx /\ g1 = got /\ p1 = purged
    BY <1>6 DEF StreamRests
  <2>2. InOrder(got, << >>, rx) /\ AllChunks(got, << >>, rx) \subseteq AllChunks(got, b, rx)
    BY <1>2, StreamMoves
  <2>. HIDE DEF b, b1, r1, g1, p1
  <2>3. CASE b1 = b
    BY <1>2, <2>1, <2>3 DEF b
  <2>4. CASE b1 = << >>
    BY <1>2, <2>1, <2>2, <2>4 DEF b
  <2>. QED  BY <2>1, <2>3, <2>4
<1>7. CASE StreamGiven
  <2>1. b1 = << >> /\ r1 = rx /\ g1 = got \o b /\ p1 = purged
    BY <1>7 DEF StreamGiven
  <2>2. InOrder(got \o b, << >>, rx) /\ AllChunks(got \o b, << >>, rx) = AllChunks(got, b, rx)
    BY <1>2, StreamMoves
  <2>3. got \o b \in Seq(Nat)
    BY <1>2
  <2>. HIDE DEF b1, r1, g1, p1
  <2>. QED  BY <1>2, <2>1, <2>2, <2>3
<1>8. CASE StreamPurged
  <2>1. b1 = << >> /\ r1 = << >> /\ g1 = got /\ p1 = purged \cup Chunks(rx)
    BY <1>8 DEF StreamPurged
  <2>2. InOrder(got, << >>, rx)
    BY <1>2, StreamMoves
  <2>3. InOrder(got, << >>, << >>) /\ AllChunks(got, << >>, << >>) = Chunks(got) \cup Chunks(<< >>)
    BY <1>2, <2>2, StreamMoves
  <2>4. Chunks(got) \cap Chunks(rx) = {} /\ Chunks(<< >>) = {}
    <3>1. Below(got, rx) /\ Chunks(got) \subseteq Nat
      BY <1>2, AppendChunks DEF InOrder
    <3>. QED  BY <3>1, EmptyChunks DEF Below
  <2>5. AllChunks(got, << >>, << >>) \cup p1 \subseteq 1..arrived
        /\ AllChunks(got, << >>, << >>) \cap p1 = {}
    BY <1>2, <2>1, <2>3, <2>4 DEF AllChunks
  <2>. HIDE DEF b1, r1, g1, p1
  <2>. QED  BY <1>2, <2>1, <2>3, <2>5
<1>. QED  BY <1>3, <1>6, <1>7, <1>8

\* Without line failures no ReadFile is aborted and no read fails.
LEMMA NoFailures ==
  ASSUME Client, ~UseSocket, FailSignals = {}, BaseInv, ReadIo, Live => ReadStage,
         StreamInv, GapInv, [PddNext]_vars
  PROVE  /\ ~rxLineFail' /\ rdRes' # "LastError"
         /\ Live' => Live /\ err'["ERx"] = "KErrNone"
<1>0. CommandInv /\ inBuf \in Seq(Nat) /\ got \in Seq(Nat)
  BY BaseCommands DEF Client, Calm, StreamInv
<1>1. CASE Kernel
  <2>1. UNCHANGED <<rdRes, rxLineFail>>
    BY <1>0, <1>1, KernelFrame DEF Client, Calm
  <2>. QED  BY <1>0, <1>1, <2>1, KernelStream DEF GapInv
<1>2. CASE ~Kernel
  <2>1. ReadSteps /\ (Live' => Live)
    BY <1>0, <1>2, ThreadReads, ThreadFrame DEF Live, Open
  <2>2. ~rxLineFail'
    <3>1. ~rxLineFail
      BY DEF GapInv
    <3>. USE DEF readVars
    <3>2. CASE WaitForEvent \/ SignalDriverThread \/ ExitThread
      BY <3>1, <3>2 DEF WaitForEvent, SignalDriverThread, ExitThread
    <3>3. CASE DriverCommand
      BY <3>1, <3>3 DEF DriverCommand, Transmit, Transmit0, Receive, StartPort, StopPort,
                        NotifyData, NotifySignal, NoEffect
    <3>4. CASE \/ DataAvailableEvent \/ SignalsEvent \/ HeldWriteEvent
               \/ WriteCompletion \/ ReadCompletion \/ CompleteRead
      BY <3>1, <3>4 DEF DataAvailableEvent, SignalsEvent, HeldWriteEvent, WriteCompletion,
                        ReadCompletion, CompleteRead
    <3>5. CASE Host \/ TimerInterrupt \/ UNCHANGED vars
      BY <3>1, <3>5 DEF Host, WriteDone, DataArrives, LineChanges, TimerInterrupt, vars, pddVars
    <3>. QED  BY <1>2, <3>2, <3>3, <3>4, <3>5 DEF PddNext, CommThread
  <2>3. rdRes # "LastError" /\ ~rxLineFail /\ (Live' => err["ERx"] = "KErrNone")
    BY <2>1 DEF GapInv
  <2>4. CASE LeavesRead \/ TakesReadEvent \/ ArrivesEarly
    BY <2>1, <2>2, <2>3, <2>4 DEF LeavesRead, TakesReadEvent, ArrivesEarly, Quiet
  <2>5. CASE StartsReadIo \/ ReadsOn \/ ArrivesForRead
    BY <2>1, <2>2, <2>3, <2>5 DEF StartsReadIo, ReadsOn, ArrivesForRead, PostRead, Quiet
  <2>6. CASE EndsRead
    <3>1. rdRes = "KErrNone"
      BY <2>3, <2>6 DEF EndsRead, ReadIo
    <3>. QED  BY <2>1, <2>2, <2>3, <2>6, <3>1 DEF EndsRead
  <2>7. CASE ReportsRead
    BY <2>1, <2>2, <2>3, <2>7 DEF ReportsRead
  <2>8. CASE AbortsRead
    BY <2>8 DEF AbortsRead
  <2>. QED  BY <2>1, <2>4, <2>5, <2>6, <2>7, <2>8 DEF ReadSteps
<1>. QED  BY <1>1, <1>2

\* No chunk is missing: what is not in the stream was purged.
LEMMA GapStep ==
  ASSUME Client, ~UseSocket, FailSignals = {}, BaseInv, ReadIo, Live => ReadStage,
         StreamInv, GapInv, [PddNext]_vars
  PROVE  GapInv'
<1>0. /\ CommandInv /\ inBuf \in Seq(Nat) /\ got \in Seq(Nat) /\ rx \in Seq(Nat)
      /\ Buffered \in Seq(Nat) /\ InOrder(got, Buffered, rx)
      /\ Stream = AllChunks(got, Buffered, rx) /\ Stream \subseteq 1..arrived /\ arrived \in Nat
  BY BaseCommands DEF Client, Calm, StreamInv, Stream, Buffered
<1>1. /\ ~rxLineFail' /\ rdRes' # "LastError"
      /\ Live' => Live /\ err'["ERx"] = "KErrNone"
  BY NoFailures
<1>2. \A n \in Chunks(got) : 1..n - 1 \subseteq purged \cup Chunks(got)
  BY DEF GapInv
<1>3. Live' => 1..arrived \subseteq purged \cup Stream /\ err["ERx"] = "KErrNone"
  BY <1>1 DEF GapInv
<1>. DEFINE c1 == Chunks(got)'
            s1 == Stream'
<1>4. c1 = Chunks(got') /\ s1 = AllChunks(got', Buffered', rx')
  BY DEF Stream, AllChunks, Chunks
<1>5. SUFFICES /\ \A n \in c1 : 1..n - 1 \subseteq purged' \cup c1
               /\ Live' => 1..arrived' \subseteq purged' \cup s1
  BY <1>1 DEF GapInv
<1>. HIDE DEF c1, s1
<1>6. CASE ~Kernel
  <2>1. UNCHANGED <<purged, got>>
    BY <1>6, ThreadFrame
  <2>2. c1 = Chunks(got)
    BY <1>4, <2>1
  <2>3. ASSUME Live' PROVE 1..arrived' \subseteq purged' \cup Stream'
    <3>1. ~StreamDrops /\ Live
      BY <1>1, <1>3, <2>3 DEF StreamDrops
    <3>. QED  BY <1>3, <1>6, <2>3, <3>1, StreamThread
  <2>. QED  BY <1>2, <2>1, <2>2, <2>3 DEF s1
<1>7. CASE Kernel
  <2>1. StreamRests \/ StreamGiven \/ StreamPurged
    BY <1>0, <1>7, KernelStream
  <2>2. arrived' = arrived
    BY <1>0, <1>7, KernelFrame DEF Client, Calm
  <2>3. CASE StreamRests
    <3>1. /\ got' = got /\ rx' = rx /\ purged' = purged
          /\ Live' => Buffered' = Buffered
      BY <2>3 DEF StreamRests
    <3>2. c1 = Chunks(got) /\ (Live' => s1 = Stream)
      BY <1>0, <1>4, <3>1
    <3>. QED  BY <1>2, <1>3, <2>2, <3>1, <3>2
  <2>4. CASE StreamGiven
    <3>1. got' = got \o Buffered /\ rx' = rx /\ purged' = purged /\ Buffered' = << >> /\ Live
      BY <2>4 DEF StreamGiven
    <3>2. /\ c1 = Chunks(got) \cup Chunks(Buffered)
          /\ AllChunks(got \o Buffered, << >>, rx) = Stream
      BY <1>0, <1>4, <3>1, JoinChunks, StreamMoves
    <3>3. s1 = Stream
      BY <1>4, <3>1, <3>2
    <3>4. 1..arrived \subseteq purged \cup Stream
      BY <3>1 DEF GapInv
    <3>5. ASSUME NEW n \in Chunks(Buffered), NEW m \in 1..n - 1 PROVE m \in purged \cup c1
      <4>1. n \in 1..arrived /\ \A l \in Chunks(rx) : n < l
        BY <1>0, <3>5 DEF AllChunks, InOrder, Below
      <4>2. m \in 1..arrived /\ m < n
        BY <1>0, <3>5, <4>1
      <4>3. m \in purged \cup Stream
        BY <3>4, <4>2
      <4>4. m \notin Chunks(rx)
        BY <4>1, <4>2
      <4>. QED  BY <1>0, <3>2, <4>3, <4>4 DEF AllChunks
    <3>. QED  BY <1>2, <2>2, <3>1, <3>2, <3>3, <3>4, <3>5
  <2>5. CASE StreamPurged
    <3>1. /\ got' = got /\ rx' = << >> /\ purged' = purged \cup Chunks(rx) /\ Buffered' = << >>
          /\ Live' => Buffered = << >>
      BY <2>5 DEF StreamPurged
    <3>2. c1 = Chunks(got)
      BY <1>4, <3>1
    <3>3. ASSUME Live' PROVE 1..arrived \subseteq purged' \cup s1
      BY <1>0, <1>3, <1>4, <3>1, <3>3, EmptyChunks DEF AllChunks
    <3>. QED  BY <1>2, <2>2, <3>1, <3>2, <3>3
  <2>. QED  BY <2>1, <2>3, <2>4, <2>5
<1>. QED  BY <1>6, <1>7

PortInv == BaseInv /\ ReadInv

LEMMA PortInit == PddInit => PortInv
<1>. SUFFICES ASSUME PddInit PROVE PortInv
  OBVIOUS
<1>1. call.fn = "none" /\ ~Queued("ERx")
  BY NoCallType DEF PddInit, Init, Queued, Has
<1>2. ReadIo /\ ReadStage
  BY <1>1 DEF PddInit, Init, ReadIo, ReadStage, Posted
<1>3. Buffered = << >> /\ got = << >> /\ rx = << >> /\ << >> \in Seq(Nat)
  BY <1>1 DEF PddInit, Init, Buffered, Fresh
<1>4. Stream = {} /\ InOrder(got, Buffered, rx) /\ Chunks(got) = {}
  BY <1>3, EmptyChunks DEF Stream, AllChunks, InOrder, Below
<1>5. StreamInv
  BY <1>3, <1>4 DEF PddInit, StreamInv
<1>6. GapInv
  BY <1>4 DEF PddInit, Init, GapInv, Kinds
<1>. QED  BY <1>2, <1>5, <1>6, BaseInit DEF PortInv, ReadInv

LEMMA PortStep == Client /\ ~UseSocket /\ PortInv /\ [PddNext]_vars => PortInv'
<1>. SUFFICES ASSUME Client, ~UseSocket, PortInv, [PddNext]_vars PROVE PortInv'
  OBVIOUS
<1>1. BaseInv' /\ ReadIo' /\ (Live' => ReadStage')
  BY BaseStep, ReadIoStep, ReadStageStep DEF Client, PortInv, ReadInv
<1>2. StreamInv'
  BY StreamKernel, StreamThread DEF PortInv, ReadInv
<1>3. FailSignals = {} => GapInv'
  BY GapStep DEF PortInv, ReadInv
<1>. QED  BY <1>1, <1>2, <1>3 DEF PortInv, ReadInv

LEMMA PortKept == Client /\ ~UseSocket /\ PddSpec => []PortInv
<1>. SUFFICES ASSUME Client, ~UseSocket PROVE PddSpec => []PortInv
  OBVIOUS
<1>1. PortInv /\ [PddNext]_vars => PortInv'
  BY PortStep
<1>. QED  BY PortInit, <1>1, PTL DEF PddSpec

\* The client of a COM port is given what arrived, in order, each chunk once; when
\* line failures do not end reads nothing is skipped but what it had purged itself.
\* A socket is left out: its FD_READ may signal the event of a read there is not.
THEOREM ReadsStayInOrder == Client /\ ~UseSocket /\ PddSpec => []ReadsInOrder
<1>1. PortInv => ReadsInOrder
  <2>. SUFFICES ASSUME PortInv PROVE ReadsInOrder
    OBVIOUS
  <2>1. got \in Seq(Nat) /\ Increasing(got) /\ Chunks(got) \cap purged = {}
    BY DEF PortInv, ReadInv, StreamInv, InOrder, Stream, AllChunks
  <2>2. ASSUME FailSignals = {}, NEW i \in 1..Len(got), NEW m \in 1..got[i] - 1, m \notin purged
        PROVE  m \in {got[j] : j \in 1..i - 1}
    <3>1. got[i] \in Nat /\ i \in Nat /\ m < got[i] /\ got[i] \in Chunks(got)
      BY <2>1, <2>2 DEF Chunks
    <3>2. m \in Chunks(got)
      BY <2>2, <3>1 DEF PortInv, ReadInv, GapInv
    <3>3. PICK j \in 1..Len(got) : got[j] = m
      BY <3>2 DEF Chunks
    <3>4. ~(i < j) /\ i # j
      BY <2>1, <3>1, <3>3 DEF Increasing
    <3>5. j \in 1..i - 1
      BY <3>1, <3>3, <3>4
    <3>. QED  BY <3>3, <3>5
  <2>3. \A i \in 1..Len(got) : got[i] \notin purged
    BY <2>1 DEF Chunks
  <2>. QED  BY <2>1, <2>2, <2>3 DEF ReadsInOrder, Increasing
<1>. QED  BY <1>1, PortKept, PTL

\* On a COM port the comm thread finds a read pending whenever it takes the read event.
THEOREM PortReadEvents == Client /\ ~UseSocket /\ PddSpec => []ReadEventMeansRead
<1>1. PortInv => ReadEventMeansRead
  BY DEF PortInv, ReadInv, ReadIo, ReadEventMeansRead
<1>. QED  BY <1>1, PortKept, PTL

\* The client's descriptor is written only while its read is outstanding: on a COM
\* port the completion DFC runs for a read that was asked for and not yet completed.
THEOREM CopiesOnlyWhilePending == Client /\ ~UseSocket /\ PddSpec => CopyOnlyWhilePending
<1>. SUFFICES ASSUME Client, ~UseSocket PROVE PddSpec => CopyOnlyWhilePending
  OBVIOUS
<1>1. PortInv /\ [PddNext]_vars => [got' # got => pending["ERx"] # 0]_vars
  <2>. SUFFICES ASSUME PortInv, [PddNext]_vars, got' # got PROVE pending["ERx"] # 0
    OBVIOUS
  <2>1. Kernel
    BY ThreadFrame
  <2>2. call'.fn = "ERx"
    BY <2>1, KernelBuffers DEF Client, Calm, CopiesRead, PurgesPort
  <2>3. Live /\ KernelSteps
    BY <2>1, <2>2, KernelDoes DEF Client, PortInv, BaseInv, RefInv, Closes
  <2>4. CompletesRead
    BY <2>2, <2>3 DEF KernelSteps, KeepsRead, StartsRead
  <2>. QED  BY <2>3, <2>4 DEF CompletesRead, PortInv, ReadInv, ReadStage
<1>. QED  BY <1>1, PortKept, PTL DEF PddSpec, CopyOnlyWhilePending

-----------------------------------------------------------------------------
(* The driver's own checks.                                                   *)

\* Only a control finds operations of its own still pending.
LEMMA PanicSteps ==
  ASSUME Calm, Kernel, call'.fn = "Panic"
  PROVE  AreAnyPending /\ Live /\ pending["ERx"] = 0 /\ pending["ETx"] = 0
<1>0. NoCall.fn = "none" /\ \A f \in Fns : Calling(f).fn = f
  BY NoCallType, CallingType
<1>1. ASSUME NEW c \in PortControls, PortControl(c, AreAnyPending)
      PROVE  AreAnyPending /\ Live /\ pending["ERx"] = 0 /\ pending["ETx"] = 0
  BY <1>0, <1>1 DEF PortControl, Fns, PddFns, Live, Idle
<1>2. CASE KReturns
  BY <1>2, ReturnsCalls DEF KReturns
<1>3. CASE KStep
  <2>1. ASSUME NEW m \in Requests, Request(m) PROVE FALSE
    BY <1>0, <2>1, DispatchCalls DEF Request
  <2>2. CASE Break \/ TurnaroundTimeout \/ Delete \/ Close
    BY <1>0, <2>2 DEF Break, DispatchBreak, TurnaroundTimeout, Idle, Delete, Fns, PddFns,
                      Close, ShutdownTail, reqVars, turnVars
  <2>3. ASSUME NEW us \in TurnaroundUs, SetMinTurnaroundTime(us) PROVE FALSE
    BY <1>0, <2>3 DEF SetMinTurnaroundTime, Idle
  <2>4. ASSUME NEW k \in Kinds, ClearError(k) PROVE FALSE
    BY <1>0, <2>4 DEF ClearError
  <2>. QED  BY <1>1, <1>3, <2>1, <2>2, <2>3, <2>4 DEF KStep
<1>4. ASSUME NEW k \in Kinds, KCompleteDfc(k) PROVE FALSE
  BY <1>0, <1>4 DEF KCompleteDfc, CompleteDfc, Fns, Kinds
<1>5. ASSUME NEW C \in SUBSET {"ERx", "ETx", "ESigChg"}, KCancel(C) PROVE FALSE
  BY <1>5 DEF KCancel, Cancel, Calm
<1>6. CASE KResetBuffers
  BY <1>1, <1>6 DEF KResetBuffers, PortControls
<1>. QED  BY <1>2, <1>3, <1>4, <1>5, <1>6 DEF Kernel

\* A client of a COM port whose reads and writes are completed may configure the port:
\* an operation the physical driver still has belongs to a request still outstanding.
THEOREM DriverNeverPanics == Client /\ ~UseSocket /\ PddSpec => []NoPanic
<1>. SUFFICES ASSUME Client, ~UseSocket PROVE PddSpec => []NoPanic
  OBVIOUS
<1>1. PortInv /\ StageInv /\ NoPanic /\ [PddNext]_vars => NoPanic'
  <2>. SUFFICES ASSUME PortInv, StageInv, NoPanic, [PddNext]_vars, call'.fn = "Panic"
                PROVE  FALSE
    BY DEF NoPanic
  <2>1. Kernel
    BY ThreadFrame DEF NoPanic
  <2>2. AreAnyPending /\ Live /\ pending["ERx"] = 0 /\ pending["ETx"] = 0
    BY <2>1, PanicSteps DEF Client
  <2>3. readPending = "none" /\ writePending = "none"
    BY <2>2 DEF PortInv, ReadInv, ReadStage, StageInv, WriteStage
  <2>. QED  BY <2>2, <2>3 DEF AreAnyPending
<1>2. PddInit => NoPanic
  BY NoCallType DEF PddInit, Init, NoPanic
<1>. QED  BY <1>1, <1>2, PortKept, Staged, PTL DEF PddSpec

-----------------------------------------------------------------------------
(* Terminated reads, which the comm thread makes one chunk at a time.  A read *)
(* of no length never counts up to it: the client makes none.                 *)

NoTerminatorBefore == \A i \in 1..Len(inBuf) - 1 : inBuf[i] \notin Terminators

\* While the read is pending what it has so far fits; while a ReadFile is outstanding
\* more is wanted.
TermInv ==
  /\ readLen \in Nat /\ (Posted("Read") => readLen > 0)
  /\ readPending # "none" => readLen > 0 /\ Len(inBuf) <= readLen /\ NoTerminatorBefore
  /\ rdOut > 0 => ReadMore
  /\ TerminatedReadsEnd

\* The error of the read is cleared by its own completion only.
LEMMA ErrorStays ==
  ASSUME Calm, Kernel, call.fn # "ERx"
  PROVE  err'["ERx"] = err["ERx"]
<1>. USE DEF reqVars, turnVars, inVars
<1>1. CASE KReturns
  BY <1>1 DEF KReturns, PddReturns, StartReturns, StopReturns, DieReturns, CallReturns,
              ShutdownTail
<1>2. CASE KStep
  <2>1. CASE \E m \in Requests : Request(m)
    BY <2>1 DEF Request
  <2>2. CASE Break \/ TurnaroundTimeout \/ Delete \/ Close
    BY <2>2 DEF Break, TurnaroundTimeout, Delete, Close, ShutdownTail
  <2>3. CASE \E us \in TurnaroundUs : SetMinTurnaroundTime(us)
    BY <2>3 DEF SetMinTurnaroundTime
  <2>4. ASSUME NEW c \in PortControls, PortControl(c, AreAnyPending) PROVE err' = err
    BY <2>4 DEF PortControl
  <2>5. ASSUME NEW k \in Kinds, ClearError(k) PROVE err'["ERx"] = err["ERx"]
    BY <2>5 DEF ClearError
  <2>. QED  BY <1>2, <2>1, <2>2, <2>3, <2>4, <2>5 DEF KStep
<1>3. ASSUME NEW k \in Kinds, KCompleteDfc(k) PROVE err' = err
  BY <1>3 DEF KCompleteDfc, CompleteDfc
<1>4. ASSUME NEW C \in SUBSET {"ERx", "ETx", "ESigChg"}, KCancel(C) PROVE FALSE
  BY <1>4 DEF KCancel, Cancel, Calm
<1>5. CASE KResetBuffers
  BY <1>5 DEF KResetBuffers, PortControl
<1>. QED  BY <1>1, <1>2, <1>3, <1>4, <1>5 DEF Kernel

LEMMA TermKernel ==
  ASSUME Client, ~UseSocket, 0 \notin ReadLens, PortInv, TermInv, Kernel
  PROVE  TermInv'
<1>0. CommandInv /\ BaseInv
  BY BaseCommands DEF Client, Calm, PortInv
<1>1. /\ UNCHANGED <<cpc, readPending, rdOut, inBuf>> /\ commSem = 0 /\ cpc # "event1"
      /\ readLen' = IF commSem' > 0 /\ call'.fn = "Read"
                    THEN IF call'.msg.len < 0 THEN -call'.msg.len ELSE call'.msg.len
                    ELSE readLen
  BY <1>0, KernelFrame DEF Client, Calm
<1>2. (Live /\ KernelSteps) \/ Closes
  BY <1>0, KernelDoes DEF Client, BaseInv, RefInv
<1>3. ASSUME call'.fn = "Read"
      PROVE  readPending = "none" /\ call'.msg.len \in ReadLens
  <2>1. Live /\ StartsRead
    BY <1>2, <1>3 DEF Closes, KernelSteps, KeepsRead, CompletesRead
  <2>. QED  BY <2>1 DEF StartsRead, PortInv, ReadInv, ReadStage
<1>4. readLen' \in Nat /\ (Posted("Read")' => readLen' > 0)
  <2>1. Posted("Read")' => commSem' > 0 /\ call'.fn = "Read"
    BY <1>1 DEF Posted
  <2>2. ASSUME commSem' > 0, call'.fn = "Read" PROVE readLen' \in Nat /\ readLen' > 0
    <3>. DEFINE l == call'.msg.len
    <3>1. l \in ReadLens /\ readLen' = IF l < 0 THEN -l ELSE l
      BY <1>1, <1>3, <2>2
    <3>2. l \in Int /\ l # 0
      BY <3>1, LensAssumption
    <3>. HIDE DEF l
    <3>. QED  BY <3>1, <3>2
  <2>3. ~(commSem' > 0 /\ call'.fn = "Read") => readLen' \in Nat
    BY <1>1 DEF TermInv
  <2>. QED  BY <2>1, <2>2, <2>3
<1>5. readPending # "none" => readLen' = readLen
  BY <1>1, <1>3
<1>6. rdOut > 0 \/ cpc = "completeRead" => readPending # "none"
  BY DEF PortInv, ReadInv, ReadIo
<1>7. cpc = "completeRead" => err'["ERx"] = err["ERx"]
  <2>. SUFFICES ASSUME cpc = "completeRead", call.fn = "ERx" PROVE FALSE
    BY ErrorStays DEF Client
  <2>1. status # "Deleted" /\ status \in {"EOpen", "EActive", "EClosed", "Deleted"}
    BY <1>0 DEF CommandInv, DeletedMeansLeft, HasLeft, BaseInv, RefInv, TypeInv, TypeOK
  <2>2. status # "EClosed"
    BY <1>0 DEF BaseInv, LddInv, CallInv
  <2>3. Live
    BY <2>1, <2>2 DEF Live, Open
  <2>. QED  BY <1>6, <2>3 DEF PortInv, ReadInv, ReadStage
<1>8. TerminatedReadsEnd'
  BY <1>1, <1>5, <1>6, <1>7 DEF TerminatedReadsEnd, TermInv
<1>9. rdOut' > 0 => ReadMore'
  BY <1>1, <1>5, <1>6 DEF TermInv, ReadMore
<1>10. readPending' # "none" => readLen' > 0 /\ Len(inBuf') <= readLen' /\ NoTerminatorBefore'
  BY <1>1, <1>5 DEF TermInv, NoTerminatorBefore
<1>. QED  BY <1>4, <1>8, <1>9, <1>10 DEF TermInv

\* One more chunk for a read that wants more.
LEMMA TakesChunk ==
  ASSUME NEW s \in Seq(Nat), NEW n \in Nat, NEW len \in Nat, len > 0,
         s = << >> \/ (Len(s) # len /\ s[Len(s)] \notin Terminators), Len(s) <= len,
         \A i \in 1..Len(s) - 1 : s[i] \notin Terminators
  PROVE  /\ Len(Append(s, n)) <= len /\ Append(s, n) \in Seq(Nat)
         /\ \A i \in 1..Len(Append(s, n)) - 1 : Append(s, n)[i] \notin Terminators
<1>1. /\ Len(s) \in Nat /\ Len(Append(s, n)) = Len(s) + 1 /\ Append(s, n) \in Seq(Nat)
      /\ \A i \in 1..Len(s) : Append(s, n)[i] = s[i]
      /\ s = << >> => Len(s) = 0
  OBVIOUS
<1>2. Len(s) + 1 <= len
  BY <1>1
<1>3. \A i \in 1..Len(s) : s[i] \notin Terminators
  BY <1>1
<1>. QED  BY <1>1, <1>2, <1>3

LEMMA TermThread ==
  ASSUME Client, ~UseSocket, TerminatedRead, PortInv, TermInv, [PddNext]_vars, ~Kernel
  PROVE  TermInv'
<1>0. CommandInv
  BY BaseCommands DEF Client, Calm, PortInv
<1>1. UNCHANGED <<readLen, call>> /\ (Posted("Read")' => Posted("Read"))
  BY <1>0, ThreadFrame, ThreadPosts
<1>2. /\ ReadSteps
      /\ readLen \in Nat /\ rx \in Seq(Nat) /\ inBuf \in Seq(Nat) /\ arrived + 1 \in Nat
  BY <1>0, ThreadReads DEF PortInv, ReadInv, StreamInv, TermInv
<1>. DEFINE Fits(s) == Len(s) <= readLen /\ \A i \in 1..Len(s) - 1 : s[i] \notin Terminators
<1>3. SUFFICES /\ Posted("Read")' => readLen > 0
               /\ readPending' # "none" => readLen > 0 /\ Fits(inBuf')
               /\ rdOut' > 0 => ReadMore'
               /\ TerminatedReadsEnd'
  BY <1>1, <1>2 DEF TermInv, NoTerminatorBefore
<1>4. /\ Posted("Read") => readLen > 0
      /\ readPending # "none" => readLen > 0 /\ Fits(inBuf)
      /\ rdOut > 0 => ReadMore /\ readPending # "none"
      /\ cpc = "event3" => readPending # "none" /\ rdOut = 0
      /\ TerminatedReadsEnd
  BY DEF TermInv, NoTerminatorBefore, PortInv, ReadInv, ReadIo
<1>5. ASSUME NEW n \in Nat, ReadMore, readPending # "none" PROVE Fits(Append(inBuf, n))
  BY <1>2, <1>4, <1>5, TakesChunk DEF ReadMore
<1>. HIDE DEF Fits
<1>6. CASE \/ LeavesRead \/ TakesReadEvent \/ ReportsRead \/ AbortsRead \/ ArrivesEarly
  <2>1. /\ UNCHANGED inBuf /\ rdOut' \in {0, rdOut} /\ readPending' \in {readPending, "none"}
        /\ cpc' = "completeRead" => cpc = cpc' /\ UNCHANGED <<err["ERx"], readPending>>
        /\ rdOut' > 0 => UNCHANGED <<readPending, rdOut>>
    BY <1>4, <1>6 DEF LeavesRead, TakesReadEvent, ReportsRead, AbortsRead, ArrivesEarly, Quiet,
                PortInv, ReadInv, ReadIo
  <2>. QED  BY <1>1, <1>4, <2>1 DEF TerminatedReadsEnd, ReadMore
<1>7. CASE StartsReadIo
  <2>1. readLen > 0 /\ cpc' # "completeRead" /\ rdOut = 0
    BY <1>4, <1>7 DEF StartsReadIo, PortInv, ReadInv, ReadIo
  <2>2. CASE rx = << >>
    <3>1. inBuf' = << >>
      BY <1>7, <2>2 DEF StartsReadIo, PostRead
    <3>. QED  BY <1>1, <1>2, <1>4, <2>1, <3>1 DEF Fits, ReadMore, TerminatedReadsEnd
  <2>3. CASE rx # << >>
    <3>1. inBuf' = Append(<< >>, Head(rx)) /\ rdOut' = rdOut /\ Head(rx) \in Nat
      BY <1>2, <1>7, <2>3 DEF StartsReadIo, PostRead
    <3>2. Len(inBuf') = 1
      BY <3>1
    <3>. QED  BY <1>1, <1>2, <1>4, <2>1, <3>1, <3>2 DEF Fits, TerminatedReadsEnd
  <2>. QED  BY <2>2, <2>3
<1>8. CASE ReadsOn
  <2>1. cpc' = "wait" /\ ReadMore /\ readPending # "none" /\ rdOut = 0 /\ UNCHANGED readPending
    BY <1>4, <1>8 DEF ReadsOn
  <2>2. CASE rx = << >>
    <3>1. inBuf' = inBuf
      BY <1>8, <2>2 DEF ReadsOn, PostRead
    <3>. QED  BY <1>1, <1>4, <2>1, <3>1 DEF ReadMore, TerminatedReadsEnd
  <2>3. CASE rx # << >>
    <3>1. inBuf' = Append(inBuf, Head(rx)) /\ rdOut' = rdOut /\ Head(rx) \in Nat
      BY <1>2, <1>8, <2>3 DEF ReadsOn, PostRead
    <3>. QED  BY <1>1, <1>4, <1>5, <2>1, <3>1 DEF TerminatedReadsEnd
  <2>. QED  BY <2>2, <2>3
<1>9. CASE EndsRead
  <2>1. /\ UNCHANGED <<readPending, rdOut, inBuf>> /\ rdOut = 0 /\ readPending # "none"
        /\ err'["ERx"] = "KErrNone" => ~ReadMore
    BY <1>4, <1>9 DEF EndsRead
  <2>. QED  BY <1>1, <1>4, <2>1 DEF TerminatedReadsEnd, ReadMore, Fits
<1>10. CASE ArrivesForRead
  <2>1. /\ ReadMore /\ readPending # "none" /\ UNCHANGED readPending /\ ~(rdOut' > 0)
        /\ inBuf' = Append(inBuf, arrived + 1) /\ cpc' = cpc /\ cpc # "completeRead"
    BY <1>4, <1>10 DEF ArrivesForRead, PortInv, ReadInv, ReadIo
  <2>. QED  BY <1>1, <1>2, <1>4, <1>5, <2>1 DEF TerminatedReadsEnd
<1>. QED  BY <1>2, <1>6, <1>7, <1>8, <1>9, <1>10 DEF ReadSteps

\* A terminated read of a COM port ends where its terminator is, or when it is full,
\* or with what there is when one chunk was asked for; it never outgrows the length
\* the client asked for.
THEOREM TerminatedReadsEndRight ==
  Client /\ ~UseSocket /\ 0 \notin ReadLens /\ PddSpec => []TerminatedReadsEnd
<1>. SUFFICES ASSUME Client, ~UseSocket, 0 \notin ReadLens
              PROVE  PddSpec => []TerminatedReadsEnd
  OBVIOUS
<1>1. CASE ~TerminatedRead
  <2>1. TerminatedReadsEnd
    BY <1>1 DEF TerminatedReadsEnd
  <2>. QED  BY <2>1, PTL
<1>2. CASE TerminatedRead
  <2>1. PddInit => TermInv
    <3>. SUFFICES ASSUME PddInit PROVE TermInv
      OBVIOUS
    <3>1. call.fn = "none"
      BY NoCallType DEF PddInit, Init
    <3>. QED  BY <3>1 DEF PddInit, TermInv, Posted, TerminatedReadsEnd
  <2>2. PortInv /\ TermInv /\ [PddNext]_vars => TermInv'
    BY <1>2, TermKernel, TermThread
  <2>3. TermInv => TerminatedReadsEnd
    BY DEF TermInv
  <2>. QED  BY <2>1, <2>2, <2>3, PortKept, PTL DEF PddSpec
<1>. QED  BY <1>1, <1>2
=============================================================================
