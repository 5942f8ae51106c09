------------------------------- MODULE CommLdd -------------------------------
(***************************************************************************)
(* DChannelComm, the logical device driver (LDD) of the EKA2 serial driver *)
(* in toolsandutils/wintunnel/src_cedar: the requests of one client, the   *)
(* five deferred function calls (DFCs) of the channel and the turnaround   *)
(* timer that holds a transmission back after a reception.                 *)
(*                                                                         *)
(* Everything here runs in the one kernel thread that serves iDfcQ, except *)
(* TimerExpired (the nanokernel timer interrupt) and PddEvent, which       *)
(* stands for whatever the physical driver does from its own thread.       *)
(* CommPdd gives PddEvent and the returns of the calls their real code.    *)
(***************************************************************************)
EXTENDS Integers, Sequences

CONSTANTS
  Ops,           \* the operations the client of this instance uses
  MaxReq,        \* bound: requests of each kind the client makes
  MaxCtl,        \* bound: cancels and controls the client makes
  ReadLens,      \* lengths of reads; a negative one asks for "one or more"
  WriteLens,     \* lengths of writes; zero only waits for the line
  DesMax,        \* maximum length of the client's read descriptor
  TurnaroundUs,  \* turnaround times the client sets, in microseconds
  BreakMask,     \* completions the number ERequestBreak selects as a mask
  PddReasons     \* what the physical driver reports besides KErrNone

Kinds == {"ERx", "ETx", "ESigChg", "ERxDA"}

ASSUME MaxReqAssumption == MaxReq \in [Kinds -> Nat]
ASSUME MaxCtlAssumption == MaxCtl \in Nat
ASSUME LensAssumption ==
  ReadLens \subseteq Int /\ WriteLens \subseteq Nat /\ DesMax \in Nat
ASSUME TurnaroundAssumption == TurnaroundUs \subseteq Int
ASSUME BreakAssumption == BreakMask \subseteq Kinds

KindOf == [Read |-> "ERx", Write |-> "ETx",
           NotifySignalChange |-> "ESigChg", NotifyDataAvailable |-> "ERxDA"]
Dfcs    == Kinds \cup {"Turnaround"}
Reasons == {"KErrNone", "KErrCancel", "KErrAbort", "KErrGeneral",
            "KErrArgument", "KErrNotSupported", "KErrCommsLineFail", "LastError"}

ASSUME PddReasonsAssumption == PddReasons \subseteq Reasons

Requests == [op : {"Read"}, len : ReadLens]
            \cup [op : {"Write"}, len : WriteLens]
            \cup [op : {"NotifySignalChange", "NotifyDataAvailable"}, len : {0}]
Msgs     == [op : DOMAIN KindOf \cup {"Break", "Turnaround", "None"}, len : Int]
BreakMsg == [op |-> "Break", len |-> 0]
NoMsg    == [op |-> "None", len |-> 0]
NoDes    == -1

\* Calls of the physical driver that block the kernel thread in RunCommThread.
PddFns == {"Start", "Stop", "Write", "Read", "NotifySignals",
           "NotifyDataAvailable", "Configure", "Die"}
Fns    == PddFns \cup Kinds \cup {"none", "Panic"}
Calls  == [fn : Fns, msg : Msgs]

VARIABLES
  status,        \* iStatus; "Deleted" once the destructors have run
  pending,       \* iRxStatus, iTxStatus, iSignalStatus, iRxDAStatus: the number
                 \* of the request they point to, or 0 for NULL
  err,           \* iRxError, iTxError, iSignalError, iRxDAError
  dfcq,          \* the DFCs of this channel queued on iDfcQ, first in first out
  minTurn,       \* iTurnaroundMinMilliSeconds
  timerRunning,  \* iTurnaroundTimerRunning
  timerArmed,    \* iTurnaroundTimer is queued in the nanokernel
  delayed,       \* iTurnaroundTransmitDelayed
  txDes,         \* iTurnaroundTxDesLength, NoDes while iTurnaroundTxDesPtr is 0
  call,          \* what the kernel thread is in the middle of
  issued, ctl,   \* requests of each kind made so far; cancels and controls
  last,          \* history: the last completion of each kind
  cancelReq      \* history: the last request of each kind a cancel was sent for

turnVars == <<minTurn, timerRunning, timerArmed, delayed, txDes>>
reqVars  == <<pending, last>>
inVars   == <<issued, ctl, cancelReq>>
lddVars  == <<status, reqVars, err, dfcq, turnVars, call, inVars>>

Calling(f) == [fn |-> f, msg |-> NoMsg]
NoCall     == Calling("none")
InPdd      == call.fn \in PddFns
Idle       == call = NoCall
Open       == status \in {"EOpen", "EActive"}

Has(q, d)  == \E i \in 1..Len(q) : q[i] = d
Queued(d)  == Has(dfcq, d)

\* TDfc::Add and TDfc::Enque: a DFC that is queued stays where it is.
Enque(q, d) == IF Has(q, d) THEN q ELSE Append(q, d)

\* TDfc::Cancel
Dequeue(q, d) ==
  IF Has(q, d)
  THEN LET i == CHOOSE i \in 1..Len(q) : q[i] = d
       IN  SubSeq(q, 1, i - 1) \o SubSeq(q, i + 1, Len(q))
  ELSE q

\* DChannelComm::Complete: Kern::RequestComplete ignores a NULL status pointer
\* and clears the one it signals.
Complete(K, reason) ==
  /\ pending' = [k \in Kinds |-> IF k \in K THEN 0 ELSE pending[k]]
  /\ last' = [k \in Kinds |-> IF k \in K /\ pending[k] # 0
                              THEN [req |-> pending[k], reason |-> reason]
                              ELSE last[k]]

Init ==
  /\ status = "EOpen"
  /\ pending = [k \in Kinds |-> 0]
  /\ err = [k \in Kinds |-> "KErrNone"]
  /\ dfcq = << >>
  /\ minTurn = 0 /\ timerRunning = FALSE /\ timerArmed = FALSE
  /\ delayed = FALSE /\ txDes = NoDes
  /\ call = NoCall
  /\ issued = [k \in Kinds |-> 0] /\ ctl = 0
  /\ last = [k \in Kinds |-> [req |-> 0, reason |-> "KErrNone"]]
  /\ cancelReq = [k \in Kinds |-> 0]

-----------------------------------------------------------------------------
(* Requests.  The client keeps at most one request of each kind outstanding *)
(* and is blocked until the kernel thread has taken its message.            *)

\* DoRequest once the channel is started, for the n-th request of its kind.
DispatchRead(m, n) ==
  /\ m.op = "Read"
  /\ IF DesMax < (IF m.len < 0 THEN -m.len ELSE m.len)
     THEN /\ last' = [last EXCEPT !["ERx"] = [req |-> n, reason |-> "KErrGeneral"]]
          /\ call' = NoCall
          /\ UNCHANGED pending
     ELSE /\ pending' = [pending EXCEPT !["ERx"] = n]
          /\ call' = [fn |-> "Read", msg |-> m]
          /\ UNCHANGED last
  /\ UNCHANGED turnVars

DispatchWrite(m, n) ==
  /\ m.op = "Write"
  /\ pending' = [pending EXCEPT !["ETx"] = n]
  /\ IF timerRunning
     THEN delayed' = TRUE /\ txDes' = m.len /\ call' = NoCall
     ELSE call' = [fn |-> "Write", msg |-> m] /\ UNCHANGED <<delayed, txDes>>
  /\ UNCHANGED <<minTurn, timerRunning, timerArmed, last>>

DispatchNotify(m, n) ==
  /\ m.op \in {"NotifySignalChange", "NotifyDataAvailable"}
  /\ pending' = [pending EXCEPT ![KindOf[m.op]] = n]
  /\ call' = [fn |-> IF m.op = "NotifySignalChange" THEN "NotifySignals"
                     ELSE "NotifyDataAvailable", msg |-> m]
  /\ UNCHANGED <<turnVars, last>>

\* A break request passes its own number to Complete as the mask.
DispatchBreak(m) ==
  /\ m.op = "Break"
  /\ Complete(BreakMask, "KErrNotSupported")
  /\ call' = NoCall
  /\ UNCHANGED turnVars

Dispatch(m, n) ==
  DispatchRead(m, n) \/ DispatchWrite(m, n) \/ DispatchNotify(m, n)

\* HandleMsg with a request: the first one starts the port.
Request(m) ==
  LET k == KindOf[m.op] IN
  /\ Idle /\ Open /\ m.op \in Ops
  /\ pending[k] = 0 /\ issued[k] < MaxReq[k]
  /\ issued' = [issued EXCEPT ![k] = @ + 1]
  /\ \/ /\ status = "EOpen"
        /\ call' = [fn |-> "Start", msg |-> m]
        /\ UNCHANGED <<reqVars, turnVars>>
     \/ /\ status = "EActive"
        /\ Dispatch(m, issued[k] + 1)
  /\ UNCHANGED <<status, err, dfcq, ctl, cancelReq>>

Break ==
  /\ Idle /\ Open /\ "Break" \in Ops /\ ctl < MaxCtl
  /\ ctl' = ctl + 1
  /\ \/ /\ status = "EOpen"
        /\ call' = [fn |-> "Start", msg |-> BreakMsg]
        /\ UNCHANGED <<reqVars, turnVars>>
     \/ status = "EActive" /\ DispatchBreak(BreakMsg)
  /\ UNCHANGED <<status, err, dfcq, issued, cancelReq>>

-----------------------------------------------------------------------------
(* Controls and cancels *)

\* The client gives microseconds, a negative time meaning none.
MillisecondsUnclamped(us) == us \div 1000
Milliseconds(us) == IF us < 0 THEN 0 ELSE us \div 1000

\* TurnaroundStopTimer; its caller also cancels the DFC.
StopTimerFlagOnly == timerRunning' = FALSE /\ UNCHANGED timerArmed
StopTimer == timerRunning' = FALSE /\ timerArmed' = FALSE

\* TurnaroundStartDfcImplementation: the DFC will start the delayed write.
ReleaseNothing(q) == q
ReleaseDelayed(q) == IF delayed THEN Enque(q, "Turnaround") ELSE q

\* TurnaroundClear and TurnaroundSet: a stopped timer releases the write it was
\* holding through the turnaround DFC.
SetMinTurnaroundTime(us) ==
  LET ms == Milliseconds(us) IN
  /\ Idle /\ Open /\ "SetMinTurnaroundTime" \in Ops /\ ctl < MaxCtl
  /\ ctl' = ctl + 1
  /\ minTurn' = ms
  /\ IF ms # minTurn /\ timerRunning
     THEN StopTimer /\ dfcq' = ReleaseDelayed(Dequeue(dfcq, "Turnaround"))
     ELSE UNCHANGED <<timerRunning, timerArmed, dfcq>>
  /\ UNCHANGED <<status, reqVars, err, delayed, txDes, call, issued, cancelReq>>

\* EControlSetConfig, EControlResetBuffers and EControlSetReceiveBufferLength.
\* "anyPending" is AreAnyPending() of the physical driver; it panics the thread
\* that runs the handler, which is the kernel thread.  Only a configuration goes
\* through the comm thread, and only on a port that was started.
PortControls == {"SetConfig", "ResetBuffers", "SetReceiveBufferLength"}

PortControl(c, anyPending) ==
  /\ Idle /\ Open /\ c \in Ops /\ ctl < MaxCtl
  /\ \A k \in {"ERx", "ETx"} : pending[k] = 0
  /\ ctl' = ctl + 1
  /\ call' = IF anyPending THEN Calling("Panic")
             ELSE IF c = "SetConfig" /\ status = "EActive" THEN Calling("Configure")
             ELSE NoCall
  /\ UNCHANGED <<status, reqVars, err, dfcq, turnVars, issued, cancelReq>>

\* DoCancel forgets a delayed write, and WriteCancel queues the completion of the
\* write, delayed or not.
StillDelayedBug(C) == delayed
StillDelayed(C) == delayed /\ "ETx" \notin C
QueueCancelledBug(C, q) == q
QueueCancelled(C, q) == IF "ETx" \in C THEN Enque(q, "ETx") ELSE q

\* DoCancel.  ReadCancel queues the completion of the data-available notification
\* when it finds one and no read ("da").
Cancel(C, da) ==
  LET Q == IF da THEN Enque(dfcq, "ERxDA") ELSE dfcq IN
  /\ Idle /\ Open /\ "Cancel" \in Ops /\ ctl < MaxCtl
  /\ C # {} /\ (da => "ERx" \in C /\ issued["ERxDA"] > 0)
  /\ ctl' = ctl + 1
  /\ delayed' = StillDelayed(C)
  /\ txDes' = IF delayed /\ "ETx" \in C THEN NoDes ELSE txDes
  /\ err' = [k \in Kinds |-> IF (k = "ERxDA" /\ da) \/ (k = "ETx" /\ k \in C)
                             THEN "KErrCancel" ELSE err[k]]
  /\ dfcq' = QueueCancelled(C, Q)
  /\ Complete(C \cap {"ESigChg"}, "KErrCancel")
  /\ cancelReq' = [k \in Kinds |->
       IF pending[k] # 0 /\ (k \in C \/ (k = "ERxDA" /\ "ERx" \in C))
       THEN pending[k] ELSE cancelReq[k]]
  /\ UNCHANGED <<status, minTurn, timerRunning, timerArmed, call, issued>>

-----------------------------------------------------------------------------
(* Closing *)

\* The DFCs and the timer are cancelled.
CancelDfcsOnly == dfcq' = << >> /\ UNCHANGED timerArmed
CancelDfcsAndTimer == dfcq' = << >> /\ timerArmed' = FALSE

\* The part of Shutdown and of ECloseMsg that follows Stop.
ShutdownTail ==
  /\ Complete(Kinds, "KErrAbort")
  /\ CancelDfcsAndTimer
  /\ status' = "EClosed"
  /\ call' = NoCall
  /\ UNCHANGED <<err, minTurn, timerRunning, delayed, txDes, inVars>>

Close ==
  /\ Idle /\ Open /\ "Close" \in Ops
  /\ \/ /\ status = "EActive"
        /\ call' = Calling("Stop")
        /\ UNCHANGED <<status, reqVars, err, dfcq, turnVars, inVars>>
     \/ status = "EOpen" /\ ShutdownTail

\* The last reference goes: the destructors, which tell the comm thread to die.
Delete ==
  /\ Idle /\ status = "EClosed" /\ "Delete" \in Ops
  /\ call' = Calling("Die")
  /\ UNCHANGED <<status, reqVars, err, dfcq, turnVars, inVars>>

-----------------------------------------------------------------------------
(* Returns of the physical driver's calls *)

StartReturns ==
  /\ call.fn = "Start"
  /\ status' = "EActive"
  /\ \/ /\ call.msg.op \in DOMAIN KindOf
        /\ Dispatch(call.msg, issued[KindOf[call.msg.op]])
     \/ DispatchBreak(call.msg)
  /\ UNCHANGED <<err, dfcq, inVars>>

StopReturns == call.fn = "Stop" /\ ShutdownTail

DieReturns ==
  /\ call.fn = "Die"
  /\ status' = "Deleted" /\ call' = NoCall
  /\ UNCHANGED <<reqVars, err, dfcq, turnVars, inVars>>

CallReturns ==
  /\ call.fn \in PddFns \ {"Start", "Stop", "Die"}
  /\ call' = NoCall
  /\ txDes' = IF call.msg.op = "Turnaround" THEN NoDes ELSE txDes
  /\ UNCHANGED <<status, reqVars, err, dfcq, minTurn, timerRunning, timerArmed,
                 delayed, inVars>>

PddReturns == StartReturns \/ StopReturns \/ DieReturns \/ CallReturns

-----------------------------------------------------------------------------
(* The DFCs.  A DFC leaves the queue before its function runs.              *)

\* DoCompleteRx, DoCompleteTx, DoSignalNotify, DoRxDataAvailable up to Complete
CompleteDfc(k) ==
  /\ Idle /\ Open /\ dfcq # << >> /\ Head(dfcq) = k /\ k \in Kinds
  /\ dfcq' = Tail(dfcq)
  /\ Complete({k}, err[k])
  /\ call' = Calling(k)
  /\ UNCHANGED <<status, err, turnVars, inVars>>

\* ... and after it: the error is cleared, and a completed read (re)starts the
\* turnaround timer.
ClearError(k) ==
  /\ call.fn = k /\ k \in Kinds
  /\ err' = [err EXCEPT ![k] = "KErrNone"]
  /\ IF k = "ERx" /\ minTurn > 0
     THEN /\ timerRunning' = TRUE /\ timerArmed' = TRUE
          /\ dfcq' = IF timerRunning THEN Dequeue(dfcq, "Turnaround") ELSE dfcq
     ELSE UNCHANGED <<timerRunning, timerArmed, dfcq>>
  /\ call' = NoCall
  /\ UNCHANGED <<status, reqVars, minTurn, delayed, txDes, inVars>>

\* The write is no longer delayed: nothing will start it a second time.
TakeDelayedBug == UNCHANGED delayed
TakeDelayed == delayed' = FALSE

\* TurnaroundTimeoutImplementation.  Its test for EClosed is not reached:
\* Shutdown cancels the DFC.
TurnaroundTimeout ==
  /\ Idle /\ Open /\ dfcq # << >> /\ Head(dfcq) = "Turnaround"
  /\ dfcq' = Tail(dfcq)
  /\ TakeDelayed
  /\ IF ~delayed THEN UNCHANGED <<reqVars, call>>
     ELSE IF txDes = NoDes
     THEN Complete({"ETx"}, "KErrArgument") /\ UNCHANGED call
     ELSE /\ call' = [fn |-> "Write", msg |-> [op |-> "Turnaround", len |-> txDes]]
          /\ UNCHANGED reqVars
  /\ UNCHANGED <<status, err, minTurn, timerRunning, timerArmed, txDes, inVars>>

\* TurnaroundStartDfc, called by the timer interrupt.
TimerExpired ==
  /\ timerArmed
  /\ timerArmed' = FALSE /\ timerRunning' = FALSE
  /\ dfcq' = ReleaseDelayed(dfcq)
  /\ UNCHANGED <<status, reqVars, err, minTurn, delayed, txDes, call, inVars>>

\* What the physical driver may do to the channel from its own thread, while
\* that thread is not suspended: store an error, queue a completion DFC.  Only a
\* read may be reported complete before the client ever asked for one.
PddEvent(k, r) ==
  /\ status = "EActive" \/ call.fn \in {"Start", "Die"}
  /\ k = "ERx" \/ issued[k] > 0
  /\ err' \in {err, [err EXCEPT ![k] = r]}
  /\ dfcq' \in {dfcq, Enque(dfcq, k)}
  /\ UNCHANGED <<status, reqVars, turnVars, call, inVars>>

Next ==
  \/ \E m \in Requests : Request(m)
  \/ Break \/ Close \/ Delete
  \/ \E us \in TurnaroundUs : SetMinTurnaroundTime(us)
  \/ \E c \in PortControls, anyPending \in BOOLEAN : PortControl(c, anyPending)
  \/ \E C \in SUBSET {"ERx", "ETx", "ESigChg"}, da \in BOOLEAN : Cancel(C, da)
  \/ PddReturns
  \/ \E k \in Kinds : CompleteDfc(k) \/ ClearError(k)
  \/ TurnaroundTimeout \/ TimerExpired
  \/ \E k \in Kinds, r \in PddReasons \cup {"KErrNone"} : PddEvent(k, r)

Spec == Init /\ [][Next]_lddVars

-----------------------------------------------------------------------------
(* Properties *)

TypeOK ==
  /\ status \in {"EOpen", "EActive", "EClosed", "Deleted"}
  /\ pending \in [Kinds -> Nat]
  /\ err \in [Kinds -> Reasons]
  /\ dfcq \in Seq(Dfcs)
  /\ minTurn \in Nat
  /\ timerRunning \in BOOLEAN /\ timerArmed \in BOOLEAN
  /\ delayed \in BOOLEAN /\ txDes \in Nat \cup {NoDes}
  /\ call \in Calls
  /\ issued \in [Kinds -> Nat] /\ ctl \in Nat
  /\ last \in [Kinds -> [req : Nat, reason : Reasons]]
  /\ cancelReq \in [Kinds -> Nat]

\* A write that is held back is never forgotten: as long as the channel is
\* open, either the timer that will release it is running or the DFC that
\* releases it is queued, whatever timers, cancels and controls did before.
DelayedWriteScheduled ==
  Open /\ delayed => timerRunning \/ Queued("Turnaround")

\* iTurnaroundTimerRunning tells the truth about the nanokernel's timer: OneShot
\* is never called on a timer that is queued, nor a write held for one that is not.
TimerInStep == Open => (timerArmed <=> timerRunning)

\* After Shutdown nothing of the channel is left behind: no request that would
\* never complete, no DFC and no timer that would run on a closed channel.
ClosedIsQuiet ==
  status = "EClosed" /\ Idle =>
    /\ \A k \in Kinds : pending[k] = 0
    /\ dfcq = << >> /\ ~timerArmed

\* A write released by the turnaround DFC has the descriptor the client gave:
\* InitiateWrite never completes it with KErrArgument.
DelayedWriteHasDescriptor == delayed => txDes # NoDes

\* A write that is held back still belongs to a request of the client; it is
\* not sent on behalf of a request that was already completed.
DelayedWriteHasRequest == Open /\ delayed => pending["ETx"] # 0

\* "a transmission is held until time elapses after a receive": no write is
\* handed to the port while the turnaround timer runs.
HeldDuringTurnaround ==
  [][call'.fn = "Write" /\ call.fn # "Write" => ~timerRunning']_lddVars

\* "If a write has already been delayed, it will be started immediately": the
\* step that changes the turnaround time leaves no write waiting for a timer.
NewTurnaroundReleases ==
  [][minTurn' # minTurn /\ delayed => Queued("Turnaround")' /\ ~timerRunning']_lddVars
=============================================================================
