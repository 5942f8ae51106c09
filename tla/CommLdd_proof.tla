---------------------------- MODULE CommLdd_proof ----------------------------
(* Proofs about CommLdd, for every client, every bound and every physical    *)
(* driver PddEvent allows.                                                   *)
EXTENDS CommLdd, TLAPS

\* DFC queues are sequences of DFCs whatever is added or cancelled.
LEMMA EnqueType ==
  ASSUME NEW q \in Seq(Dfcs), NEW d \in Dfcs
  PROVE  Enque(q, d) \in Seq(Dfcs)
  BY DEF Enque

LEMMA DequeueType ==
  ASSUME NEW q \in Seq(Dfcs), NEW d \in Dfcs
  PROVE  Dequeue(q, d) \in Seq(Dfcs)
<1>1. CASE Has(q, d)
  <2>. DEFINE i == CHOOSE i \in 1..Len(q) : q[i] = d
  <2>1. i \in 1..Len(q)
    BY <1>1 DEF Has
  <2>. HIDE DEF i
  <2>2. /\ SubSeq(q, 1, i - 1) \in Seq(Dfcs)
        /\ SubSeq(q, i + 1, Len(q)) \in Seq(Dfcs)
    BY <2>1
  <2>3. Dequeue(q, d) = SubSeq(q, 1, i - 1) \o SubSeq(q, i + 1, Len(q))
    BY <1>1 DEF Dequeue, i
  <2>. QED  BY <2>2, <2>3
<1>2. CASE ~Has(q, d)
  BY <1>2 DEF Dequeue
<1>. QED  BY <1>1, <1>2

\* A DFC that was asked to run is queued, and nothing else leaves the queue.
LEMMA EnqueQueues ==
  ASSUME NEW q \in Seq(Dfcs), NEW d \in Dfcs
  PROVE  Has(Enque(q, d), d) /\ \A e \in Dfcs : Has(q, e) => Has(Enque(q, d), e)
<1>1. CASE Has(q, d)
  BY <1>1 DEF Enque
<1>2. CASE ~Has(q, d)
  <2>1. Enque(q, d) = Append(q, d)
    BY <1>2 DEF Enque
  <2>2. Len(Append(q, d)) = Len(q) + 1 /\ Append(q, d)[Len(q) + 1] = d
    OBVIOUS
  <2>3. \A i \in 1..Len(q) : Append(q, d)[i] = q[i]
    OBVIOUS
  <2>4. Len(q) \in Nat
    OBVIOUS
  <2>. QED  BY <2>1, <2>2, <2>3, <2>4 DEF Has
<1>. QED  BY <1>1, <1>2

\* The DFC at the head runs; the others stay queued.
LEMMA TailKeeps ==
  ASSUME NEW q \in Seq(Dfcs), q # << >>, NEW e \in Dfcs, Head(q) # e, Has(q, e)
  PROVE  Has(Tail(q), e)
<1>1. PICK i \in 1..Len(q) : q[i] = e
  BY DEF Has
<1>2. i # 1
  BY <1>1
<1>3. i - 1 \in 1..Len(Tail(q)) /\ Tail(q)[i - 1] = q[i]
  BY <1>1, <1>2
<1>. QED  BY <1>1, <1>3 DEF Has

-----------------------------------------------------------------------------
(* Type correctness.  The lengths in TypeOK come from the client's request,  *)
(* which waits in call.msg while the port is started.                        *)

StartedMsg ==
  call.fn = "Start" => call.msg \in Requests \cup {BreakMsg}

TypeInv == TypeOK /\ StartedMsg

USE DEF Kinds

LEMMA KindOfDomain ==
  DOMAIN KindOf = {"Read", "Write", "NotifySignalChange", "NotifyDataAvailable"}
  BY DEF KindOf

LEMMA KindOfType == \A m \in Requests : KindOf[m.op] \in Kinds /\ m \in Msgs
<1>. SUFFICES ASSUME NEW m \in Requests
              PROVE  KindOf[m.op] \in Kinds /\ m \in Msgs
  OBVIOUS
<1>1. m \in [op : DOMAIN KindOf, len : Int]
  <2>1. CASE m \in [op : {"Read"}, len : ReadLens]
    BY <2>1, KindOfDomain, LensAssumption
  <2>2. CASE m \in [op : {"Write"}, len : WriteLens]
    <3>1. WriteLens \subseteq Int
      BY LensAssumption
    <3>. QED  BY <2>2, <3>1, KindOfDomain
  <2>3. CASE m \in [op : {"NotifySignalChange", "NotifyDataAvailable"}, len : {0}]
    BY <2>3, KindOfDomain
  <2>. QED  BY <2>1, <2>2, <2>3 DEF Requests
<1>2. m \in Msgs
  BY <1>1 DEF Msgs
<1>3. KindOf[m.op] \in Kinds
  BY <1>1, KindOfDomain DEF KindOf
<1>. QED  BY <1>2, <1>3

LEMMA CallingType ==
  ASSUME NEW f \in Fns
  PROVE  /\ Calling(f) \in Calls
         /\ Calling(f).fn = f
         /\ Calling(f).msg = NoMsg
<1>1. NoMsg \in Msgs
  BY DEF NoMsg, Msgs
<1>. QED  BY <1>1 DEF Calling, Calls

LEMMA NoCallType == NoCall \in Calls /\ NoCall.fn = "none" /\ NoCall.msg = NoMsg
  BY CallingType DEF NoCall, Fns

\* Passing a message on to the physical driver.
LEMMA PddCallType ==
  ASSUME NEW f \in PddFns, NEW m \in Msgs
  PROVE  [fn |-> f, msg |-> m] \in Calls
  BY DEF Calls, Fns

\* Complete leaves the request pointers and the last completions well typed.
LEMMA CompleteType ==
  ASSUME TypeOK, NEW K, NEW r \in Reasons, Complete(K, r)
  PROVE  /\ pending' \in [Kinds -> Nat]
         /\ last' \in [Kinds -> [req : Nat, reason : Reasons]]
  BY DEF Complete, TypeOK

\* What DoRequest does with a request keeps the types.
LEMMA DispatchType ==
  ASSUME TypeInv, NEW m \in Requests, NEW n \in Nat, Dispatch(m, n)
  PROVE  /\ pending' \in [Kinds -> Nat]
         /\ last' \in [Kinds -> [req : Nat, reason : Reasons]]
         /\ minTurn' \in Nat /\ timerRunning' \in BOOLEAN /\ timerArmed' \in BOOLEAN
         /\ delayed' \in BOOLEAN /\ txDes' \in Nat \cup {NoDes}
         /\ call' \in Calls
         /\ call'.fn # "Start"
<1>. USE DEF TypeInv, TypeOK, turnVars
<1>0. m \in Msgs
  BY KindOfType
<1>1. CASE DispatchRead(m, n)
  <2>1. call' \in Calls /\ call'.fn # "Start"
    BY <1>0, <1>1, NoCallType, PddCallType DEF DispatchRead, PddFns
  <2>2. pending' \in [Kinds -> Nat]
    BY <1>1 DEF DispatchRead
  <2>3. last' \in [Kinds -> [req : Nat, reason : Reasons]]
    <3>1. [req |-> n, reason |-> "KErrGeneral"] \in [req : Nat, reason : Reasons]
      BY DEF Reasons
    <3>2. \/ UNCHANGED last
          \/ last' = [last EXCEPT !["ERx"] = [req |-> n, reason |-> "KErrGeneral"]]
      BY <1>1 DEF DispatchRead
    <3>. QED  BY <3>1, <3>2
  <2>. QED  BY <1>1, <2>1, <2>2, <2>3 DEF DispatchRead
<1>2. CASE DispatchWrite(m, n)
  <2>1. m.len \in Nat
    BY <1>2, LensAssumption DEF DispatchWrite, Requests
  <2>2. call' \in Calls /\ call'.fn # "Start"
    <3>1. call' \in {NoCall, [fn |-> "Write", msg |-> m]}
      BY <1>2 DEF DispatchWrite
    <3>2. [fn |-> "Write", msg |-> m] \in Calls
      BY <1>0, PddCallType DEF PddFns
    <3>. QED  BY <3>1, <3>2, NoCallType
  <2>. QED  BY <1>2, <2>1, <2>2 DEF DispatchWrite
<1>3. CASE DispatchNotify(m, n)
  <2>1. call' \in Calls /\ call'.fn # "Start"
    BY <1>0, <1>3, PddCallType DEF DispatchNotify, PddFns
  <2>2. pending' \in [Kinds -> Nat]
    BY <1>3 DEF DispatchNotify
  <2>. QED  BY <1>3, <2>1, <2>2 DEF DispatchNotify
<1>. QED  BY <1>1, <1>2, <1>3 DEF Dispatch

LEMMA InitType == Init => TypeInv
<1>. SUFFICES ASSUME Init PROVE TypeInv
  OBVIOUS
<1>1. err \in [Kinds -> Reasons] /\ last \in [Kinds -> [req : Nat, reason : Reasons]]
  BY DEF Init, Reasons
<1>2. call \in Calls /\ call.fn # "Start"
  BY NoCallType DEF Init
<1>3. dfcq \in Seq(Dfcs)
  BY DEF Init
<1>. QED  BY <1>1, <1>2, <1>3 DEF Init, TypeInv, TypeOK, StartedMsg, NoDes

LEMMA NextType == TypeInv /\ [Next]_lddVars => TypeInv'
<1>. SUFFICES ASSUME TypeInv, [Next]_lddVars
              PROVE  TypeInv'
  OBVIOUS
<1>. USE DEF TypeInv
<1>0. NoCall \in Calls /\ NoCall.fn # "Start"
  BY NoCallType
<1>1. ASSUME NEW m \in Requests, Request(m)
      PROVE  TypeInv'
  <2>. DEFINE k == KindOf[m.op]
  <2>1. k \in Kinds /\ m \in Msgs
    BY KindOfType
  <2>. HIDE DEF k
  <2>2. issued' \in [Kinds -> Nat] /\ issued[k] + 1 \in Nat
    <3>1. issued' = [issued EXCEPT ![k] = issued[k] + 1]
      BY <1>1 DEF Request, k
    <3>2. issued \in [Kinds -> Nat] /\ issued[k] \in Nat
      BY <2>1 DEF TypeOK
    <3>. QED  BY <2>1, <3>1, <3>2
  <2>3. CASE status = "EOpen" /\ call' = [fn |-> "Start", msg |-> m]
             /\ UNCHANGED <<reqVars, turnVars>>
    <3>1. call' \in Calls /\ call'.msg \in Requests
      BY <2>1, <2>3, PddCallType DEF PddFns
    <3>. QED  BY <1>1, <2>2, <2>3, <3>1
              DEF Request, TypeOK, StartedMsg, reqVars, turnVars
  <2>4. CASE Dispatch(m, issued[k] + 1)
    <3>1. UNCHANGED <<status, err, dfcq, ctl, cancelReq>>
      BY <1>1 DEF Request
    <3>. QED  BY <2>2, <2>4, <3>1, DispatchType DEF TypeOK, StartedMsg
  <2>. QED  BY <1>1, <2>3, <2>4 DEF Request, k
<1>2. CASE Break
  <2>1. BreakMsg \in Msgs
    BY DEF BreakMsg, Msgs
  <2>2. ctl' \in Nat /\ UNCHANGED <<status, err, dfcq, issued, cancelReq>>
    BY <1>2 DEF Break, TypeOK
  <2>3. CASE call' = [fn |-> "Start", msg |-> BreakMsg] /\ UNCHANGED <<reqVars, turnVars>>
    <3>1. call' \in Calls /\ call'.msg = BreakMsg
      BY <2>1, <2>3, PddCallType DEF PddFns
    <3>. QED  BY <2>2, <2>3, <3>1 DEF TypeOK, StartedMsg, reqVars, turnVars
  <2>4. CASE DispatchBreak(BreakMsg)
    <3>1. /\ pending' \in [Kinds -> Nat]
          /\ last' \in [Kinds -> [req : Nat, reason : Reasons]]
      BY <2>4, CompleteType DEF DispatchBreak, Reasons
    <3>. QED  BY <1>0, <2>2, <2>4, <3>1 DEF DispatchBreak, TypeOK, StartedMsg, turnVars
  <2>. QED  BY <1>2, <2>3, <2>4 DEF Break
<1>3. CASE Close
  <2>1. CASE call' = Calling("Stop")
             /\ UNCHANGED <<status, reqVars, err, dfcq, turnVars, inVars>>
    <3>1. call' \in Calls /\ call'.fn # "Start"
      BY <2>1, CallingType DEF Fns, PddFns
    <3>. QED  BY <2>1, <3>1 DEF TypeOK, StartedMsg, reqVars, turnVars, inVars
  <2>2. CASE ShutdownTail
    <3>1. /\ pending' \in [Kinds -> Nat]
          /\ last' \in [Kinds -> [req : Nat, reason : Reasons]]
      BY <2>2, CompleteType DEF ShutdownTail, Reasons
    <3>2. dfcq' = << >> /\ timerArmed' = FALSE
      BY <2>2 DEF ShutdownTail, CancelDfcsAndTimer
    <3>3. dfcq' \in Seq(Dfcs)
      BY <3>2
    <3>. QED  BY <1>0, <2>2, <3>1, <3>2, <3>3 DEF ShutdownTail, TypeOK, StartedMsg, inVars
  <2>. QED  BY <1>3, <2>1, <2>2 DEF Close
<1>4. CASE Delete
  <2>1. call' \in Calls /\ call'.fn # "Start"
    BY <1>4, CallingType DEF Delete, Fns, PddFns
  <2>. QED  BY <1>4, <2>1 DEF Delete, TypeOK, StartedMsg, reqVars, turnVars, inVars
<1>5. ASSUME NEW us \in TurnaroundUs, SetMinTurnaroundTime(us)
      PROVE  TypeInv'
  <2>1. Milliseconds(us) \in Nat
    BY TurnaroundAssumption DEF Milliseconds
  <2>2. dfcq' \in Seq(Dfcs)
    <3>1. dfcq \in Seq(Dfcs) /\ "Turnaround" \in Dfcs
      BY DEF TypeOK, Dfcs
    <3>2. dfcq' \in {dfcq, Dequeue(dfcq, "Turnaround"),
                     Enque(Dequeue(dfcq, "Turnaround"), "Turnaround")}
      BY <1>5 DEF SetMinTurnaroundTime, ReleaseDelayed
    <3>. QED  BY <3>1, <3>2, EnqueType, DequeueType
  <2>3. timerRunning' \in BOOLEAN /\ timerArmed' \in BOOLEAN
    BY <1>5 DEF SetMinTurnaroundTime, StopTimer, TypeOK
  <2>4. minTurn' \in Nat /\ ctl' \in Nat
    BY <1>5, <2>1 DEF SetMinTurnaroundTime, TypeOK
  <2>. QED  BY <1>5, <2>2, <2>3, <2>4
            DEF SetMinTurnaroundTime, TypeOK, StartedMsg, reqVars
<1>6. ASSUME NEW c \in PortControls, NEW anyPending \in BOOLEAN,
             PortControl(c, anyPending)
      PROVE  TypeInv'
  <2>1. call' \in Calls /\ call'.fn # "Start"
    BY <1>0, <1>6, CallingType DEF PortControl, Fns, PddFns
  <2>. QED  BY <1>6, <2>1 DEF PortControl, TypeOK, StartedMsg, reqVars, turnVars
<1>7. ASSUME NEW C \in SUBSET {"ERx", "ETx", "ESigChg"}, NEW da \in BOOLEAN, Cancel(C, da)
      PROVE  TypeInv'
  <2>1. dfcq' \in Seq(Dfcs)
    BY <1>7, EnqueType DEF Cancel, QueueCancelled, TypeOK, Dfcs
  <2>2. /\ pending' \in [Kinds -> Nat]
        /\ last' \in [Kinds -> [req : Nat, reason : Reasons]]
    BY <1>7, CompleteType DEF Cancel, Reasons
  <2>3. err' \in [Kinds -> Reasons] /\ cancelReq' \in [Kinds -> Nat]
    BY <1>7 DEF Cancel, TypeOK, Reasons
  <2>4. delayed' \in BOOLEAN /\ txDes' \in Nat \cup {NoDes} /\ ctl' \in Nat
    BY <1>7 DEF Cancel, StillDelayed, TypeOK
  <2>. QED  BY <1>7, <2>1, <2>2, <2>3, <2>4 DEF Cancel, TypeOK, StartedMsg
<1>8. CASE PddReturns
  <2>1. CASE StartReturns
    <3>1. CASE call.msg.op \in DOMAIN KindOf /\ Dispatch(call.msg, issued[KindOf[call.msg.op]])
      <4>1. call.msg \in Requests
        BY <2>1, <3>1 DEF StartReturns, StartedMsg, BreakMsg, KindOf
      <4>2. issued[KindOf[call.msg.op]] \in Nat
        BY <4>1, KindOfType DEF TypeOK
      <4>. QED  BY <2>1, <3>1, <4>1, <4>2, DispatchType
                DEF StartReturns, TypeOK, StartedMsg, inVars
    <3>2. CASE DispatchBreak(call.msg)
      <4>1. /\ pending' \in [Kinds -> Nat]
            /\ last' \in [Kinds -> [req : Nat, reason : Reasons]]
        BY <3>2, CompleteType DEF DispatchBreak, Reasons
      <4>. QED  BY <1>0, <2>1, <3>2, <4>1
                DEF StartReturns, DispatchBreak, TypeOK, StartedMsg, turnVars, inVars
    <3>. QED  BY <2>1, <3>1, <3>2 DEF StartReturns
  <2>2. CASE StopReturns
    <3>1. /\ pending' \in [Kinds -> Nat]
          /\ last' \in [Kinds -> [req : Nat, reason : Reasons]]
      BY <2>2, CompleteType DEF StopReturns, ShutdownTail, Reasons
    <3>2. dfcq' = << >> /\ timerArmed' = FALSE
      BY <2>2 DEF StopReturns, ShutdownTail, CancelDfcsAndTimer
    <3>3. dfcq' \in Seq(Dfcs)
      BY <3>2
    <3>. QED  BY <1>0, <2>2, <3>1, <3>2, <3>3
              DEF StopReturns, ShutdownTail, TypeOK, StartedMsg, inVars
  <2>3. CASE DieReturns
    BY <1>0, <2>3 DEF DieReturns, TypeOK, StartedMsg, reqVars, turnVars, inVars
  <2>4. CASE CallReturns
    BY <1>0, <2>4 DEF CallReturns, TypeOK, StartedMsg, reqVars, inVars
  <2>. QED  BY <1>8, <2>1, <2>2, <2>3, <2>4 DEF PddReturns
<1>9. ASSUME NEW k \in Kinds, CompleteDfc(k)
      PROVE  TypeInv'
  <2>1. /\ pending' \in [Kinds -> Nat]
        /\ last' \in [Kinds -> [req : Nat, reason : Reasons]]
    BY <1>9, CompleteType DEF CompleteDfc, TypeOK
  <2>2. dfcq' \in Seq(Dfcs)
    BY <1>9 DEF CompleteDfc, TypeOK
  <2>3. call' \in Calls /\ call'.fn # "Start"
    BY <1>9, CallingType DEF CompleteDfc, Fns
  <2>. QED  BY <1>9, <2>1, <2>2, <2>3
            DEF CompleteDfc, TypeOK, StartedMsg, turnVars, inVars
<1>10. ASSUME NEW k \in Kinds, ClearError(k)
       PROVE  TypeInv'
  <2>1. dfcq' \in Seq(Dfcs)
    BY <1>10, DequeueType DEF ClearError, TypeOK, Dfcs
  <2>2. err' \in [Kinds -> Reasons]
    BY <1>10 DEF ClearError, TypeOK, Reasons
  <2>. QED  BY <1>0, <1>10, <2>1, <2>2 DEF ClearError, TypeOK, StartedMsg, reqVars, inVars
<1>11. CASE TurnaroundTimeout
  <2>1. /\ pending' \in [Kinds -> Nat]
        /\ last' \in [Kinds -> [req : Nat, reason : Reasons]]
    BY <1>11, CompleteType DEF TurnaroundTimeout, TypeOK, reqVars, Reasons
  <2>2. dfcq' \in Seq(Dfcs)
    BY <1>11 DEF TurnaroundTimeout, TypeOK
  <2>4. delayed' \in BOOLEAN
    BY <1>11 DEF TurnaroundTimeout, TakeDelayed
  <2>3. call' \in Calls /\ call'.fn # "Start"
    <3>1. txDes # NoDes => [op |-> "Turnaround", len |-> txDes] \in Msgs
      BY DEF TypeOK, Msgs
    <3>. QED  BY <1>0, <1>11, <3>1, PddCallType DEF TurnaroundTimeout, Idle, PddFns, reqVars
  <2>. QED  BY <1>11, <2>1, <2>2, <2>3, <2>4 DEF TurnaroundTimeout, TypeOK, StartedMsg, inVars
<1>12. CASE TimerExpired
  <2>1. dfcq' \in Seq(Dfcs)
    BY <1>12, EnqueType DEF TimerExpired, ReleaseDelayed, TypeOK, Dfcs
  <2>. QED  BY <1>12, <2>1 DEF TimerExpired, TypeOK, StartedMsg, reqVars, inVars
<1>13. ASSUME NEW k \in Kinds, NEW r \in PddReasons \cup {"KErrNone"}, PddEvent(k, r)
       PROVE  TypeInv'
  <2>1. r \in Reasons
    BY PddReasonsAssumption DEF Reasons
  <2>2. dfcq' \in Seq(Dfcs) /\ err' \in [Kinds -> Reasons]
    BY <1>13, <2>1, EnqueType DEF PddEvent, TypeOK, Dfcs
  <2>. QED  BY <1>13, <2>2 DEF PddEvent, TypeOK, StartedMsg, reqVars, turnVars, inVars
<1>14. CASE UNCHANGED lddVars
  BY <1>14 DEF lddVars, TypeOK, StartedMsg, reqVars, turnVars, inVars
<1>. QED  BY <1>1, <1>2, <1>3, <1>4, <1>5, <1>6, <1>7, <1>8, <1>9, <1>10,
             <1>11, <1>12, <1>13, <1>14 DEF Next

\* Every variable of the channel stays of its type, lengths and errors included.
THEOREM TypeCorrect == Spec => []TypeOK
<1>1. Spec => []TypeInv
  BY InitType, NextType, PTL DEF Spec
<1>2. TypeInv => TypeOK
  BY DEF TypeInv
<1>. QED  BY <1>1, <1>2, PTL

-----------------------------------------------------------------------------
(* The turnaround timer and closing.  The invariants the runs check are made *)
(* inductive by what the kernel thread may be in the middle of (CallInv) and *)
(* by the write a turnaround DFC released being no longer delayed.           *)

CallInv ==
  /\ call.fn = "Start" => status = "EOpen"
  /\ call.fn = "Stop" => status = "EActive"
  /\ call.fn = "Die" => status = "EClosed"
  /\ status = "EClosed" => call.fn \in {"none", "Die"}

ReleasedOnce == call.msg.op = "Turnaround" => ~delayed

HoldInv ==
  /\ DelayedWriteScheduled
  /\ TimerInStep
  /\ DelayedWriteHasDescriptor
  /\ ReleasedOnce

ClosedInv ==
  status = "EClosed" =>
    /\ \A k \in Kinds : pending[k] = 0
    /\ ~timerArmed
    /\ Idle => dfcq = << >>

IInv == TypeInv /\ CallInv /\ HoldInv /\ ClosedInv

\* DoRequest leaves the timer alone and holds a write only while it runs.
LEMMA DispatchHolds ==
  ASSUME TypeInv, NEW m \in Requests, NEW n \in Nat, Dispatch(m, n)
  PROVE  /\ call'.fn \in {"none", "Read", "Write", "NotifySignals", "NotifyDataAvailable"}
         /\ call'.msg.op # "Turnaround"
         /\ UNCHANGED <<minTurn, timerRunning, timerArmed>>
         /\ \/ UNCHANGED <<delayed, txDes>>
            \/ delayed' /\ timerRunning /\ txDes' # NoDes
<1>0. NoMsg.op # "Turnaround" /\ NoCall.msg.op # "Turnaround"
  BY NoCallType DEF NoMsg
<1>1. CASE DispatchRead(m, n)
  BY <1>0, <1>1, NoCallType DEF DispatchRead, turnVars
<1>2. CASE DispatchWrite(m, n)
  <2>1. m.len # NoDes
    BY <1>2, LensAssumption DEF DispatchWrite, Requests, NoDes
  <2>. QED  BY <1>0, <1>2, <2>1, NoCallType DEF DispatchWrite
<1>3. CASE DispatchNotify(m, n)
  BY <1>0, <1>3 DEF DispatchNotify, turnVars
<1>. QED  BY <1>1, <1>2, <1>3 DEF Dispatch

LEMMA IssuedType ==
  ASSUME TypeInv, NEW m \in Requests
  PROVE  issued[KindOf[m.op]] \in Nat /\ issued[KindOf[m.op]] + 1 \in Nat
<1>1. KindOf[m.op] \in Kinds
  BY KindOfType
<1>2. issued \in [Kinds -> Nat]
  BY DEF TypeInv, TypeOK
<1>3. issued[KindOf[m.op]] \in Nat
  BY <1>1, <1>2
<1>. QED  BY <1>3

LEMMA CallStep == TypeInv /\ CallInv /\ [Next]_lddVars => CallInv'
<1>. SUFFICES ASSUME TypeInv, CallInv, [Next]_lddVars
              PROVE  CallInv'
  OBVIOUS
<1>0. NoCall.fn = "none" /\ \A f \in Fns : Calling(f).fn = f
  BY NoCallType, CallingType
<1>. USE DEF CallInv
<1>1. ASSUME NEW m \in Requests, Request(m)
      PROVE  CallInv'
  <2>1. issued[KindOf[m.op]] + 1 \in Nat
    BY IssuedType
  <2>. QED  BY <1>1, <2>1, DispatchHolds DEF Request
<1>2. CASE Break
  BY <1>0, <1>2 DEF Break, DispatchBreak
<1>3. CASE Close
  BY <1>0, <1>3 DEF Close, ShutdownTail, Fns, PddFns
<1>4. CASE Delete
  BY <1>0, <1>4 DEF Delete, Fns, PddFns
<1>5. ASSUME NEW us \in TurnaroundUs, SetMinTurnaroundTime(us)
      PROVE  CallInv'
  BY <1>5 DEF SetMinTurnaroundTime
<1>6. ASSUME NEW c \in PortControls, NEW anyPending \in BOOLEAN,
             PortControl(c, anyPending)
      PROVE  CallInv'
  BY <1>0, <1>6 DEF PortControl, Open, Fns, PddFns
<1>7. ASSUME NEW C \in SUBSET {"ERx", "ETx", "ESigChg"}, NEW da \in BOOLEAN, Cancel(C, da)
      PROVE  CallInv'
  BY <1>7 DEF Cancel
<1>8. CASE PddReturns
  <2>1. CASE StartReturns
    <3>1. CASE call.msg.op \in DOMAIN KindOf /\ Dispatch(call.msg, issued[KindOf[call.msg.op]])
      <4>1. call.msg \in Requests
        BY <2>1, <3>1 DEF StartReturns, TypeInv, StartedMsg, BreakMsg, KindOf
      <4>2. issued[KindOf[call.msg.op]] \in Nat
        BY <4>1, IssuedType
      <4>. QED  BY <2>1, <3>1, <4>1, <4>2, DispatchHolds DEF StartReturns
    <3>2. CASE DispatchBreak(call.msg)
      BY <1>0, <2>1, <3>2 DEF StartReturns, DispatchBreak
    <3>. QED  BY <2>1, <3>1, <3>2 DEF StartReturns
  <2>2. CASE StopReturns
    BY <1>0, <2>2 DEF StopReturns, ShutdownTail
  <2>3. CASE DieReturns
    BY <1>0, <2>3 DEF DieReturns
  <2>4. CASE CallReturns
    BY <1>0, <2>4 DEF CallReturns
  <2>. QED  BY <1>8, <2>1, <2>2, <2>3, <2>4 DEF PddReturns
<1>9. ASSUME NEW k \in Kinds, CompleteDfc(k)
      PROVE  CallInv'
  BY <1>0, <1>9 DEF CompleteDfc, Open, Fns
<1>10. ASSUME NEW k \in Kinds, ClearError(k)
       PROVE  CallInv'
  BY <1>0, <1>10 DEF ClearError
<1>11. CASE TurnaroundTimeout
  BY <1>11 DEF TurnaroundTimeout, Open, reqVars
<1>12. CASE TimerExpired
  BY <1>12 DEF TimerExpired
<1>13. ASSUME NEW k \in Kinds, NEW r \in PddReasons \cup {"KErrNone"}, PddEvent(k, r)
       PROVE  CallInv'
  BY <1>13 DEF PddEvent
<1>14. CASE UNCHANGED lddVars
  BY <1>14 DEF lddVars
<1>. QED  BY <1>1, <1>2, <1>3, <1>4, <1>5, <1>6, <1>7, <1>8, <1>9, <1>10,
             <1>11, <1>12, <1>13, <1>14 DEF Next

\* A step that neither holds nor frees a write, leaves the timer alone and keeps
\* the turnaround DFC queued keeps HoldInv.
LEMMA QueueHolds ==
  ASSUME HoldInv, UNCHANGED <<delayed, txDes, timerRunning, timerArmed>>,
         Open' => Open, Queued("Turnaround") => Queued("Turnaround")',
         call'.msg.op = "Turnaround" => call.msg.op = "Turnaround"
  PROVE  HoldInv'
  BY DEF HoldInv, DelayedWriteScheduled, TimerInStep, DelayedWriteHasDescriptor,
         ReleasedOnce

LEMMA HoldStep == TypeInv /\ CallInv /\ HoldInv /\ [Next]_lddVars => HoldInv'
<1>. SUFFICES ASSUME TypeInv, CallInv, HoldInv, [Next]_lddVars
              PROVE  HoldInv'
  OBVIOUS
<1>. DEFINE Held == \/ UNCHANGED <<delayed, txDes>>
                    \/ delayed' /\ timerRunning /\ txDes' # NoDes
<1>0. NoMsg.op # "Turnaround" /\ NoCall.msg = NoMsg /\ \A f \in Fns : Calling(f).msg = NoMsg
  BY NoCallType, CallingType DEF NoMsg
<1>a. dfcq \in Seq(Dfcs) /\ "Turnaround" \in Dfcs /\ Kinds \subseteq Dfcs
  BY DEF TypeInv, TypeOK, Dfcs
<1>b. ASSUME Held, UNCHANGED <<timerRunning, timerArmed, dfcq>>, Open' => Open,
             call'.msg.op # "Turnaround"
      PROVE  HoldInv'
  BY <1>b DEF HoldInv, DelayedWriteScheduled, TimerInStep, DelayedWriteHasDescriptor,
              ReleasedOnce, Queued
<1>1. ASSUME NEW m \in Requests, Request(m)
      PROVE  HoldInv'
  <2>1. UNCHANGED dfcq /\ Open /\ m.op # "Turnaround"
    BY <1>1 DEF Request, Requests
  <2>2. CASE call' = [fn |-> "Start", msg |-> m] /\ UNCHANGED <<reqVars, turnVars>>
    BY <1>b, <2>1, <2>2 DEF turnVars
  <2>3. CASE Dispatch(m, issued[KindOf[m.op]] + 1)
    <3>1. issued[KindOf[m.op]] + 1 \in Nat
      BY IssuedType
    <3>. QED  BY <1>b, <2>1, <2>3, <3>1, DispatchHolds
  <2>. QED  BY <1>1, <2>2, <2>3 DEF Request
<1>2. CASE Break
  <2>1. UNCHANGED <<turnVars, dfcq>> /\ Open /\ call'.msg.op # "Turnaround"
    BY <1>0, <1>2 DEF Break, DispatchBreak, BreakMsg
  <2>. QED  BY <1>b, <2>1 DEF turnVars
<1>3. CASE Close
  <2>1. CASE call' = Calling("Stop") /\ UNCHANGED <<status, reqVars, err, dfcq, turnVars, inVars>>
    BY <1>0, <1>b, <2>1 DEF turnVars, Open, Fns, PddFns
  <2>2. CASE ShutdownTail
    BY <1>0, <2>2 DEF ShutdownTail, HoldInv, DelayedWriteScheduled, TimerInStep,
                      DelayedWriteHasDescriptor, ReleasedOnce, Open
  <2>. QED  BY <1>3, <2>1, <2>2 DEF Close
<1>4. CASE Delete
  BY <1>0, <1>4, <1>b DEF Delete, turnVars, Open, Fns, PddFns
<1>5. ASSUME NEW us \in TurnaroundUs, SetMinTurnaroundTime(us)
      PROVE  HoldInv'
  <2>1. CASE Milliseconds(us) # minTurn /\ timerRunning
    <3>1. timerRunning' = FALSE /\ timerArmed' = FALSE
      BY <1>5, <2>1 DEF SetMinTurnaroundTime, StopTimer
    <3>2. delayed => dfcq' = Enque(Dequeue(dfcq, "Turnaround"), "Turnaround")
      BY <1>5, <2>1 DEF SetMinTurnaroundTime, ReleaseDelayed
    <3>3. delayed => Queued("Turnaround")'
      BY <1>a, <3>2, DequeueType, EnqueQueues DEF Queued
    <3>. QED  BY <1>5, <3>1, <3>3
              DEF SetMinTurnaroundTime, HoldInv, DelayedWriteScheduled, TimerInStep,
                  DelayedWriteHasDescriptor, ReleasedOnce
  <2>2. CASE ~(Milliseconds(us) # minTurn /\ timerRunning)
    BY <1>5, <2>2, QueueHolds DEF SetMinTurnaroundTime, Queued, Open
  <2>. QED  BY <2>1, <2>2
<1>6. ASSUME NEW c \in PortControls, NEW anyPending \in BOOLEAN,
             PortControl(c, anyPending)
      PROVE  HoldInv'
  <2>1. call'.msg = NoMsg
    BY <1>0, <1>6 DEF PortControl, Fns, PddFns
  <2>. QED  BY <1>0, <1>6, <1>b, <2>1 DEF PortControl, turnVars, Open
<1>7. ASSUME NEW C \in SUBSET {"ERx", "ETx", "ESigChg"}, NEW da \in BOOLEAN, Cancel(C, da)
      PROVE  HoldInv'
  <2>1. Queued("Turnaround") => Queued("Turnaround")'
    <3>1. PICK Q : Q \in {dfcq, Enque(dfcq, "ERxDA")} /\ dfcq' \in {Q, Enque(Q, "ETx")}
      BY <1>7 DEF Cancel, QueueCancelled
    <3>2. Q \in Seq(Dfcs) /\ (Queued("Turnaround") => Has(Q, "Turnaround"))
      <4>1. "ERxDA" \in Dfcs
        BY <1>a
      <4>2. /\ Enque(dfcq, "ERxDA") \in Seq(Dfcs)
            /\ Has(dfcq, "Turnaround") => Has(Enque(dfcq, "ERxDA"), "Turnaround")
        BY <1>a, <4>1, EnqueType, EnqueQueues
      <4>. QED  BY <1>a, <3>1, <4>2 DEF Queued
    <3>. QED  BY <1>a, <3>1, <3>2, EnqueQueues DEF Queued
  <2>2. UNCHANGED <<status, timerRunning, timerArmed, call>>
    BY <1>7 DEF Cancel
  <2>3. delayed' => delayed /\ UNCHANGED txDes
    BY <1>7 DEF Cancel, StillDelayed
  <2>. QED  BY <2>1, <2>2, <2>3
            DEF HoldInv, DelayedWriteScheduled, TimerInStep, DelayedWriteHasDescriptor,
                ReleasedOnce, Open
<1>8. CASE PddReturns
  <2>1. CASE StartReturns
    <3>1. UNCHANGED dfcq /\ Open
      BY <2>1 DEF StartReturns, CallInv, Open
    <3>2. CASE call.msg.op \in DOMAIN KindOf /\ Dispatch(call.msg, issued[KindOf[call.msg.op]])
      <4>1. call.msg \in Requests
        BY <2>1, <3>2 DEF StartReturns, TypeInv, StartedMsg, BreakMsg, KindOf
      <4>2. issued[KindOf[call.msg.op]] \in Nat
        BY <4>1, IssuedType
      <4>. QED  BY <1>b, <3>1, <3>2, <4>1, <4>2, DispatchHolds
    <3>3. CASE DispatchBreak(call.msg)
      BY <1>0, <1>b, <3>1, <3>3 DEF DispatchBreak, turnVars
    <3>. QED  BY <2>1, <3>2, <3>3 DEF StartReturns
  <2>2. CASE StopReturns
    BY <1>0, <2>2 DEF StopReturns, ShutdownTail, HoldInv, DelayedWriteScheduled, TimerInStep,
                      DelayedWriteHasDescriptor, ReleasedOnce, Open
  <2>3. CASE DieReturns
    BY <1>0, <1>b, <2>3 DEF DieReturns, turnVars, Open
  <2>4. CASE CallReturns
    BY <1>0, <2>4 DEF CallReturns, HoldInv, DelayedWriteScheduled, TimerInStep,
                      DelayedWriteHasDescriptor, ReleasedOnce, Open, Queued
  <2>. QED  BY <1>8, <2>1, <2>2, <2>3, <2>4 DEF PddReturns
<1>9. ASSUME NEW k \in Kinds, CompleteDfc(k)
      PROVE  HoldInv'
  <2>1. Queued("Turnaround") => Queued("Turnaround")'
    BY <1>9, <1>a, TailKeeps DEF CompleteDfc, Queued
  <2>2. UNCHANGED <<status, turnVars>> /\ call'.msg = NoMsg
    BY <1>0, <1>9 DEF CompleteDfc, Fns
  <2>. QED  BY <1>0, <2>1, <2>2, QueueHolds DEF turnVars, Open
<1>10. ASSUME NEW k \in Kinds, ClearError(k)
       PROVE  HoldInv'
  <2>1. CASE k = "ERx" /\ minTurn > 0
    BY <1>0, <1>10, <2>1
    DEF ClearError, HoldInv, DelayedWriteScheduled, TimerInStep, DelayedWriteHasDescriptor,
        ReleasedOnce, Open
  <2>2. CASE ~(k = "ERx" /\ minTurn > 0)
    BY <1>0, <1>10, <2>2, QueueHolds DEF ClearError, Queued, Open
  <2>. QED  BY <2>1, <2>2
<1>11. CASE TurnaroundTimeout
  <2>1. delayed' = FALSE /\ UNCHANGED <<status, timerRunning, timerArmed>>
    BY <1>11 DEF TurnaroundTimeout, TakeDelayed
  <2>. QED  BY <2>1 DEF HoldInv, DelayedWriteScheduled, TimerInStep,
                        DelayedWriteHasDescriptor, ReleasedOnce, Open
<1>12. CASE TimerExpired
  <2>1. delayed => Queued("Turnaround")'
    BY <1>12, <1>a, EnqueQueues DEF TimerExpired, ReleaseDelayed, Queued
  <2>. QED  BY <1>12, <2>1
            DEF TimerExpired, HoldInv, DelayedWriteScheduled, TimerInStep,
                DelayedWriteHasDescriptor, ReleasedOnce
<1>13. ASSUME NEW k \in Kinds, NEW r \in PddReasons \cup {"KErrNone"}, PddEvent(k, r)
       PROVE  HoldInv'
  <2>1. Queued("Turnaround") => Queued("Turnaround")'
    BY <1>13, <1>a, EnqueQueues DEF PddEvent, Queued
  <2>. QED  BY <1>13, <2>1, QueueHolds DEF PddEvent, turnVars, Open
<1>14. CASE UNCHANGED lddVars
  BY <1>14, QueueHolds DEF lddVars, turnVars, Open, Queued
<1>. QED  BY <1>1, <1>2, <1>3, <1>4, <1>5, <1>6, <1>7, <1>8, <1>9, <1>10,
             <1>11, <1>12, <1>13, <1>14 DEF Next

LEMMA ClosedStep == TypeInv /\ CallInv /\ ClosedInv /\ [Next]_lddVars => ClosedInv'
<1>. SUFFICES ASSUME TypeInv, CallInv, ClosedInv, [Next]_lddVars
              PROVE  ClosedInv'
  OBVIOUS
<1>0. NoCall.fn = "none" /\ Calling("Die").fn = "Die"
  BY NoCallType, CallingType DEF Fns, PddFns
<1>a. Complete(Kinds, "KErrAbort") => \A k \in Kinds : pending'[k] = 0
  BY DEF Complete
<1>. USE DEF ClosedInv
<1>b. ASSUME status' = "EActive" \/ (UNCHANGED status /\ status # "EClosed")
      PROVE  ClosedInv'
  BY <1>b
<1>c. ASSUME ShutdownTail
      PROVE  ClosedInv'
  BY <1>a, <1>c DEF ShutdownTail, CancelDfcsAndTimer
<1>1. ASSUME NEW m \in Requests, Request(m)
      PROVE  ClosedInv'
  BY <1>1, <1>b DEF Request, Open
<1>2. CASE Break
  BY <1>2, <1>b DEF Break, Open
<1>3. CASE Close
  <2>1. CASE UNCHANGED status
    BY <1>3, <1>b, <2>1 DEF Close, Open
  <2>. QED  BY <1>3, <1>c, <2>1 DEF Close
<1>4. CASE Delete
  BY <1>0, <1>4 DEF Delete, Idle, reqVars, turnVars
<1>5. ASSUME NEW us \in TurnaroundUs, SetMinTurnaroundTime(us)
      PROVE  ClosedInv'
  BY <1>5, <1>b DEF SetMinTurnaroundTime, Open
<1>6. ASSUME NEW c \in PortControls, NEW anyPending \in BOOLEAN,
             PortControl(c, anyPending)
      PROVE  ClosedInv'
  BY <1>6, <1>b DEF PortControl, Open
<1>7. ASSUME NEW C \in SUBSET {"ERx", "ETx", "ESigChg"}, NEW da \in BOOLEAN, Cancel(C, da)
      PROVE  ClosedInv'
  BY <1>7, <1>b DEF Cancel, Open
<1>8. CASE PddReturns
  <2>1. CASE StartReturns
    BY <1>b, <2>1 DEF StartReturns
  <2>2. CASE StopReturns
    BY <1>c, <2>2 DEF StopReturns
  <2>3. CASE DieReturns
    BY <2>3 DEF DieReturns
  <2>4. CASE CallReturns
    BY <1>b, <2>4 DEF CallReturns, CallInv, PddFns
  <2>. QED  BY <1>8, <2>1, <2>2, <2>3, <2>4 DEF PddReturns
<1>9. ASSUME NEW k \in Kinds, CompleteDfc(k)
      PROVE  ClosedInv'
  BY <1>9, <1>b DEF CompleteDfc, Open
<1>10. ASSUME NEW k \in Kinds, ClearError(k)
       PROVE  ClosedInv'
  <2>1. status # "EClosed"
    BY <1>10 DEF ClearError, CallInv
  <2>. QED  BY <1>10, <1>b, <2>1 DEF ClearError
<1>11. CASE TurnaroundTimeout
  BY <1>11, <1>b DEF TurnaroundTimeout, Open
<1>12. CASE TimerExpired
  BY <1>12, <1>b DEF TimerExpired
<1>13. ASSUME NEW k \in Kinds, NEW r \in PddReasons \cup {"KErrNone"}, PddEvent(k, r)
       PROVE  ClosedInv'
  BY <1>0, <1>13 DEF PddEvent, Idle, reqVars, turnVars, CallInv
<1>14. CASE UNCHANGED lddVars
  BY <1>14 DEF lddVars, reqVars, turnVars, Idle
<1>. QED  BY <1>1, <1>2, <1>3, <1>4, <1>5, <1>6, <1>7, <1>8, <1>9, <1>10,
             <1>11, <1>12, <1>13, <1>14 DEF Next

LEMMA InitInv == Init => IInv
<1>. SUFFICES ASSUME Init PROVE IInv
  OBVIOUS
<1>1. call.fn = "none" /\ call.msg.op # "Turnaround"
  BY NoCallType DEF Init, NoMsg
<1>2. CallInv /\ ClosedInv
  BY <1>1 DEF Init, CallInv, ClosedInv
<1>3. HoldInv
  BY <1>1 DEF Init, HoldInv, DelayedWriteScheduled, TimerInStep,
              DelayedWriteHasDescriptor, ReleasedOnce
<1>. QED  BY InitType, <1>2, <1>3 DEF IInv

\* The inductive invariant.
LEMMA Inductive == Spec => []IInv
<1>1. IInv /\ [Next]_lddVars => IInv'
  BY NextType, CallStep, HoldStep, ClosedStep DEF IInv
<1>. QED  BY InitInv, <1>1, PTL DEF Spec

\* A write held by TurnaroundSet's timer is never forgotten: its timer runs or
\* its DFC is queued.
THEOREM DelayedWritesAreScheduled == Spec => []DelayedWriteScheduled
<1>1. IInv => DelayedWriteScheduled
  BY DEF IInv, HoldInv
<1>. QED  BY Inductive, <1>1, PTL

\* iTurnaroundTimerRunning agrees with the nanokernel timer while the channel is
\* open, so OneShot is never called on a timer that is already queued.
THEOREM TimerStaysInStep == Spec => []TimerInStep
<1>1. IInv => TimerInStep
  BY DEF IInv, HoldInv
<1>. QED  BY Inductive, <1>1, PTL

\* InitiateWrite finds the descriptor of the write the turnaround DFC releases.
THEOREM DelayedWritesHaveDescriptors == Spec => []DelayedWriteHasDescriptor
<1>1. IInv => DelayedWriteHasDescriptor
  BY DEF IInv, HoldInv
<1>. QED  BY Inductive, <1>1, PTL

\* Shutdown leaves no request, DFC or timer behind.
THEOREM ShutdownIsQuiet == Spec => []ClosedIsQuiet
<1>1. IInv => ClosedIsQuiet
  BY DEF IInv, ClosedInv, ClosedIsQuiet
<1>. QED  BY Inductive, <1>1, PTL

\* Only SetMinTurnaroundTime changes the turnaround time, and it leaves the write
\* it finds delayed to the turnaround DFC: the one it queues, or the one that is
\* queued already because the timer no longer runs.
LEMMA TurnaroundSetReleases ==
  IInv /\ [Next]_lddVars /\ minTurn' # minTurn /\ delayed
    => Queued("Turnaround")' /\ ~timerRunning'
<1>. SUFFICES ASSUME IInv, [Next]_lddVars, minTurn' # minTurn, delayed
              PROVE  Queued("Turnaround")' /\ ~timerRunning'
  OBVIOUS
<1>0. TypeInv /\ HoldInv
  BY DEF IInv
<1>1. ASSUME NEW m \in Requests, Request(m)
      PROVE  UNCHANGED minTurn
  <2>1. issued[KindOf[m.op]] + 1 \in Nat
    BY <1>0, IssuedType
  <2>. QED  BY <1>0, <1>1, <2>1, DispatchHolds DEF Request, turnVars
<1>2. StartReturns => UNCHANGED minTurn
  <2>. SUFFICES ASSUME StartReturns
                PROVE  UNCHANGED minTurn
    OBVIOUS
  <2>1. CASE call.msg.op \in DOMAIN KindOf /\ Dispatch(call.msg, issued[KindOf[call.msg.op]])
    <3>1. call.msg \in Requests
      BY <1>0, <2>1 DEF StartReturns, TypeInv, StartedMsg, BreakMsg, KindOf
    <3>2. issued[KindOf[call.msg.op]] \in Nat
      BY <1>0, <3>1, IssuedType
    <3>. QED  BY <1>0, <2>1, <3>1, <3>2, DispatchHolds
  <2>. QED  BY <2>1 DEF StartReturns, DispatchBreak, turnVars
<1>3. PICK us \in TurnaroundUs : SetMinTurnaroundTime(us)
  <2>1. (Break \/ Close \/ Delete) => UNCHANGED minTurn
    BY DEF Break, DispatchBreak, Close, ShutdownTail, Delete, turnVars
  <2>2. PddReturns => UNCHANGED minTurn
    <3>1. StopReturns \/ DieReturns \/ CallReturns => UNCHANGED minTurn
      BY DEF StopReturns, ShutdownTail, DieReturns, CallReturns, turnVars
    <3>. QED  BY <1>2, <3>1 DEF PddReturns
  <2>3. \A c \in PortControls, anyPending \in BOOLEAN :
           PortControl(c, anyPending) => UNCHANGED minTurn
    BY DEF PortControl, turnVars
  <2>4. \A C \in SUBSET {"ERx", "ETx", "ESigChg"}, da \in BOOLEAN :
           Cancel(C, da) => UNCHANGED minTurn
    BY DEF Cancel
  <2>5. \A k \in Kinds : CompleteDfc(k) \/ ClearError(k) => UNCHANGED minTurn
    BY DEF CompleteDfc, ClearError, turnVars
  <2>6. (TurnaroundTimeout \/ TimerExpired) => UNCHANGED minTurn
    BY DEF TurnaroundTimeout, TimerExpired
  <2>7. \A k \in Kinds, r \in PddReasons \cup {"KErrNone"} :
           PddEvent(k, r) => UNCHANGED minTurn
    BY DEF PddEvent, turnVars
  <2>8. UNCHANGED lddVars => UNCHANGED minTurn
    BY DEF lddVars, turnVars
  <2>. QED  BY <1>1, <2>1, <2>2, <2>3, <2>4, <2>5, <2>6, <2>7, <2>8 DEF Next
<1>4. Open /\ Milliseconds(us) # minTurn
  BY <1>3 DEF SetMinTurnaroundTime
<1>5. dfcq \in Seq(Dfcs) /\ "Turnaround" \in Dfcs
  BY <1>0 DEF TypeInv, TypeOK, Dfcs
<1>6. CASE timerRunning
  <2>1. timerRunning' = FALSE /\ dfcq' = Enque(Dequeue(dfcq, "Turnaround"), "Turnaround")
    BY <1>3, <1>4, <1>6 DEF SetMinTurnaroundTime, StopTimer, ReleaseDelayed
  <2>. QED  BY <1>5, <2>1, DequeueType, EnqueQueues DEF Queued
<1>7. CASE ~timerRunning
  BY <1>0, <1>3, <1>4, <1>7 DEF SetMinTurnaroundTime, Queued, HoldInv, DelayedWriteScheduled
<1>. QED  BY <1>6, <1>7

\* A new turnaround time starts a delayed write immediately.
THEOREM NewTurnaroundAlwaysReleases == Spec => NewTurnaroundReleases
<1>1. IInv /\ [Next]_lddVars =>
        [minTurn' # minTurn /\ delayed => Queued("Turnaround")' /\ ~timerRunning']_lddVars
  BY TurnaroundSetReleases
<1>. QED  BY Inductive, <1>1, PTL DEF Spec, NewTurnaroundReleases
=============================================================================
