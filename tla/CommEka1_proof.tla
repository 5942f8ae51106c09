--------------------------- MODULE CommEka1_proof ---------------------------
(* Proofs about CommEka1, for every buffer, client and bound: no request to    *)
(* the DFC is lost; one thread fills the transmit buffer at a time; a write    *)
(* that ended well was sent; a reader is served; the fields keep their types.  *)
EXTENDS CommEka1, SequenceTheorems, TLAPS

\* Where the DFC can be, and where it goes on when the comm thread has answered.
DfcPlaces == {"idle", "loop", "Drain", "CompleteWrite", "Fill", "drain", "drained",
              "fill", "copy", "filled", "wait", "stopped", "reset"}

Shape ==
  /\ DOMAIN pc = Threads /\ DOMAIN ret = Threads
  /\ {"runningDfc", "dfcRequest"} \subseteq DOMAIN ch
  /\ ch.runningDfc \in BOOLEAN /\ dfcQueued \in BOOLEAN
  /\ pc["dfc"] \in DfcPlaces
  /\ pc["dfc"] = "wait" => ret["dfc"] \in {"drained", "filled", "stopped"}

\* The inductive invariant: besides, the DFC is not queued while it runs.
DfcInv == Shape /\ DfcRequestsServed /\ ~(dfcQueued /\ InDfcHandler)

\* The channel c asks the DFC for what ch does.
SameDfc(c) ==
  /\ {"runningDfc", "dfcRequest"} \subseteq DOMAIN c
  /\ c.runningDfc = ch.runningDfc /\ c.dfcRequest = ch.dfcRequest

\* Another thread moves.
OtherMoves ==
  /\ DOMAIN pc' = Threads /\ DOMAIN ret' = Threads
  /\ pc'["dfc"] = pc["dfc"] /\ ret'["dfc"] = ret["dfc"]

\* The handler goes from one place to another.
HandlerMoves ==
  /\ DOMAIN pc' = Threads /\ DOMAIN ret' = Threads
  /\ InDfcHandler /\ InDfcHandler'
  /\ pc'["dfc"] \in DfcPlaces
  /\ pc'["dfc"] = "wait" => ret'["dfc"] \in {"drained", "filled"}

LEMMA Asked ==
  ASSUME DfcInv, OtherMoves, NEW c, SameDfc(c), NEW R, QueueDfc(c, R)
  PROVE  DfcInv'
<1>. USE DEF DfcInv, Shape, SameDfc, QueueDfc, Queued, DfcRequestsServed
<1>1. InDfcHandler' = InDfcHandler
  BY DEF OtherMoves, InDfcHandler, TimingOut
<1>2. Shape'
  BY DEF OtherMoves
<1>3. DfcRequestsServed' /\ ~(dfcQueued' /\ InDfcHandler')
  BY <1>1
<1>. QED  BY <1>2, <1>3

LEMMA NotAsked ==
  ASSUME DfcInv, OtherMoves, SameDfc(ch'), dfcQueued' = dfcQueued
  PROVE  DfcInv'
<1>1. InDfcHandler' = InDfcHandler
  BY DEF OtherMoves, InDfcHandler, TimingOut
<1>2. Shape'
  BY DEF OtherMoves, DfcInv, Shape, SameDfc
<1>3. DfcRequestsServed' /\ ~(dfcQueued' /\ InDfcHandler')
  BY <1>1 DEF DfcInv, SameDfc, DfcRequestsServed
<1>. QED  BY <1>2, <1>3 DEF DfcInv

LEMMA Handling ==
  ASSUME DfcInv, HandlerMoves, SameDfc(ch'), dfcQueued' = dfcQueued
  PROVE  DfcInv'
<1>1. Shape'
  BY DEF HandlerMoves, DfcInv, Shape, SameDfc
<1>2. DfcRequestsServed' /\ ~(dfcQueued' /\ InDfcHandler')
  BY DEF HandlerMoves, DfcInv, SameDfc, DfcRequestsServed
<1>. QED  BY <1>1, <1>2 DEF DfcInv
-----------------------------------------------------------------------------
\* EnableTransmit, called by another thread or by the handler.
LEMMA EnableTransmitOther ==
  ASSUME Shape, NEW t \in {"client", "comm"}, NEW c, NEW p, NEW next,
         SameDfc(c), EnableTransmit(t, c, p, next)
  PROVE  SameDfc(ch') /\ OtherMoves
  BY DEF Shape, SameDfc, EnableTransmit, RunCommThread, Goto, OtherMoves, Threads

LEMMA EnableTransmitDfc ==
  ASSUME Shape, NEW c, NEW p, NEW next \in {"drained", "filled"},
         InDfcHandler, SameDfc(c), EnableTransmit("dfc", c, p, next)
  PROVE  SameDfc(ch') /\ HandlerMoves
  BY DEF Shape, SameDfc, EnableTransmit, RunCommThread, Goto, HandlerMoves, Threads,
         InDfcHandler, TimingOut, DfcPlaces
-----------------------------------------------------------------------------
\* StateIsr in another thread, and the calls that both threads make.
LEMMA StateIsrOther ==
  ASSUME DfcInv, NEW t \in {"client", "comm"}, NEW cts, NEW next, StateIsr(t, cts, next)
  PROVE  DfcInv'
<1>1. CASE ch.writeZero /\ cts /\ ch.isClientWriting /\ ch.tx = <<>>
  <2>1. OtherMoves /\ QueueDfc(ch, {"CompleteWrite"}) /\ SameDfc(ch)
    BY <1>1 DEF StateIsr, OtherMoves, Goto, DfcInv, Shape, Threads, SameDfc
  <2>. QED  BY <2>1, Asked
<1>2. CASE ~(ch.writeZero /\ cts /\ ch.isClientWriting /\ ch.tx = <<>>)
  <2>1. CASE cts /\ ch.isWriting
    <3>. DEFINE c == [ch EXCEPT !.outputHeld = FALSE]
    <3>1. SameDfc(c) /\ Shape
      BY DEF SameDfc, DfcInv, Shape
    <3>2. EnableTransmit(t, c, Enabled(port), next) /\ dfcQueued' = dfcQueued
      BY <1>2, <2>1 DEF StateIsr
    <3>. QED  BY <3>1, <3>2, EnableTransmitOther, NotAsked
  <2>2. CASE ~(cts /\ ch.isWriting)
    <3>1. OtherMoves /\ SameDfc(ch') /\ dfcQueued' = dfcQueued
      BY <1>2, <2>2 DEF StateIsr, OtherMoves, Goto, DfcInv, Shape, Threads, SameDfc
    <3>. QED  BY <3>1, NotAsked
  <2>. QED  BY <2>1, <2>2
<1>. QED  BY <1>1, <1>2

\* A filling finds no room and ends.
CopiesNothing(t) == Goto(t, "filled") /\ UNCHANGED <<ch, port, ret, doing>>

\* What Copy hands to EnableTransmit, and the three ways through Drain.
LEMMA CopyChannel ==
  ASSUME Shape, NEW t, Copy(t), ~CopiesNothing(t)
  PROVE  \E c : SameDfc(c) /\ EnableTransmit(t, c, port, "filled")
<1>. DEFINE n == Lesser(ch.transmitLength, TxSize - Len(ch.tx))
            c == [ch EXCEPT !.transmitLength = @ - n,
                            !.tx = @ \o [i \in 1..n |-> client.writes]]
<1>1. EnableTransmit(t, c, port, "filled")
  BY DEF Copy, CopiesNothing
<1>2. SameDfc(c)
  BY DEF SameDfc, Shape
<1>. QED  BY <1>1, <1>2

LEMMA DrainWays ==
  ASSUME Shape, NEW t, Drain(t)
  PROVE  \/ SameDfc(ch') /\ Goto(t, After(t)) /\ UNCHANGED ret
         \/ \E c : SameDfc(c) /\ EnableTransmit(t, c, port, "drained")
<1>. DEFINE copy == Lesser(ch.receiveLength, ch.rx)
            ends == ch.receiveError \/ copy = ch.receiveLength
            c    == [ch EXCEPT !.rx = @ - copy, !.receiveLength = @ - copy,
                               !.isReading = ~ends,
                               !.receiveError = IF ends THEN FALSE ELSE @]
            x    == [c EXCEPT !.inputHeld = XonChar, !.draining = TRUE]
            r    == [c EXCEPT !.rts = TRUE, !.inputHeld = KInputHeldFree]
<1>1. SameDfc(c) /\ SameDfc(x) /\ SameDfc(r) /\ SameDfc(ch)
  BY DEF SameDfc, Shape
<1>2. CASE ~ch.isReading \/ ch.draining \/ (ch.rx = 0 /\ ~ch.receiveError)
  BY <1>1, <1>2 DEF Drain
<1>3. CASE ~(~ch.isReading \/ ch.draining \/ (ch.rx = 0 /\ ~ch.receiveError))
  <2>1. CASE Resumes(c) /\ ch.sendXoff
    <3>1. EnableTransmit(t, x, port, "drained")
      BY <1>3, <2>1 DEF Drain
    <3>. QED  BY <1>1, <3>1
  <2>2. CASE ~(Resumes(c) /\ ch.sendXoff)
    <3>1. ch' = (IF Resumes(c) THEN r ELSE c) /\ Goto(t, After(t)) /\ UNCHANGED ret
      BY <1>3, <2>2 DEF Drain
    <3>. QED  BY <1>1, <3>1
  <2>. QED  BY <2>1, <2>2
<1>. QED  BY <1>2, <1>3

\* The client's thread, the comm thread and the host: what they do to the DFC.
LEMMA ClientSteps ==
  ASSUME DfcInv, ClientNext
  PROVE  DfcInv'
<1>. DEFINE Quietly == OtherMoves /\ SameDfc(ch') /\ dfcQueued' = dfcQueued
<1>. USE DEF DfcInv, Shape, SameDfc, Goto, Threads
<1>1. ASSUME NEW n, AskRead(n) \/ AskWrite(n)  PROVE Quietly
  BY <1>1 DEF AskRead, AskWrite, Ask, OtherMoves
<1>2. ASSUME NEW kind, SetConfig(kind)  PROVE Quietly
  BY <1>2 DEF SetConfig, RunCommThread, OtherMoves
<1>3. ASSUME Start  PROVE Quietly
  BY <1>3 DEF Start, Emptied, RunCommThread, OtherMoves
<1>4. ASSUME NEW l, NEW next, Started(l, next)  PROVE Quietly
  <2>1. CASE ch.sendXoff /\ ch.inputHeld >= 0
    BY <1>4, <2>1, EnableTransmitOther DEF Started
  <2>2. CASE ~(ch.sendXoff /\ ch.inputHeld >= 0)
    BY <1>4, <2>2 DEF Started, OtherMoves
  <2>. QED  BY <2>1, <2>2
<1>5. ASSUME Activate \/ BeginRead \/ BeginWrite  PROVE Quietly
  BY <1>5 DEF Activate, BeginRead, BeginWrite, OtherMoves
<1>6. ASSUME SendXon  PROVE Quietly
  <2>. DEFINE c == [ch EXCEPT !.inputHeld = XonChar]
  <2>1. SameDfc(c)
    OBVIOUS
  <2>. QED  BY <1>6, <2>1, EnableTransmitOther DEF SendXon
<1>7. ASSUME CancelRead \/ CancelWrite  PROVE Quietly
  BY <1>7 DEF CancelRead, CancelWrite, OtherMoves
<1>8. ASSUME ConfigStopped  PROVE Quietly
  <2>. DEFINE c == [Emptied(ch) EXCEPT !.rts = TRUE]
              x == [c EXCEPT !.inputHeld = XonChar]
  <2>1. SameDfc(c) /\ SameDfc(x)
    BY DEF Emptied
  <2>2. CASE client.todo[1] = "restart"
    BY <1>8, <2>2 DEF ConfigStopped, OtherMoves
  <2>3. CASE client.todo[1] # "restart" /\ ch.sendXoff
    <3>1. EnableTransmit("client", x, Stopped(port), "cfgStart")
      BY <1>8, <2>3 DEF ConfigStopped
    <3>. QED  BY <1>8, <2>1, <3>1, EnableTransmitOther DEF ConfigStopped
  <2>4. CASE client.todo[1] # "restart" /\ ~ch.sendXoff
    BY <1>8, <2>1, <2>4 DEF ConfigStopped, OtherMoves
  <2>. QED  BY <2>2, <2>3, <2>4
<1>9. ASSUME ConfigStart \/ Configured  PROVE Quietly
  BY <1>9 DEF ConfigStart, Configured, RunCommThread, OtherMoves
<1>10. ASSUME Written \/ ReadLines \/ Acknowledged("client")  PROVE Quietly
  BY <1>10 DEF Written, ReadLines, Acknowledged, OtherMoves
<1>11. ASSUME ClientState  PROVE DfcInv'
  BY <1>11, StateIsrOther DEF ClientState
<1>12. ASSUME Drain("client") \/ Drained("client")  PROVE Quietly
  <2>1. CASE Drained("client")
    BY <2>1 DEF Drained, OtherMoves
  <2>2. CASE Drain("client")
    <3>1. dfcQueued' = dfcQueued
      BY <2>2 DEF Drain
    <3>2. CASE SameDfc(ch') /\ Goto("client", After("client")) /\ UNCHANGED ret
      BY <3>1, <3>2 DEF OtherMoves
    <3>3. CASE \E c : SameDfc(c) /\ EnableTransmit("client", c, port, "drained")
      BY <3>1, <3>3, EnableTransmitOther
    <3>. QED  BY <2>2, <3>2, <3>3, DrainWays
  <2>. QED  BY <1>12, <2>1, <2>2
<1>13. ASSUME Fill("client") \/ Filled("client")  PROVE Quietly
  BY <1>13 DEF Fill, Filled, OtherMoves
<1>14. ASSUME Copy("client")  PROVE Quietly
  <2>1. CASE CopiesNothing("client")
    BY <1>14, <2>1 DEF Copy, CopiesNothing, OtherMoves
  <2>. QED  BY <1>14, <2>1, CopyChannel, EnableTransmitOther DEF Copy
<1>15. Quietly => DfcInv'
  BY NotAsked
<1>. QED
  BY <1>1, <1>2, <1>3, <1>4, <1>5, <1>6, <1>7, <1>8, <1>9, <1>10, <1>11, <1>12,
     <1>13, <1>14, <1>15 DEF ClientNext

\* TransmitIsr asks the DFC for what it finds necessary.
LEMMA Isr ==
  ASSUME DfcInv, TransmitIsr, OtherMoves
  PROVE  DfcInv'
<1>1. SameDfc(IsrChannel)
  BY DEF SameDfc, DfcInv, Shape, IsrChannel
<1>2. QueueDfc(IsrChannel, IsrRequests)
  BY DEF TransmitIsr
<1>. QED  BY <1>1, <1>2, Asked

LEMMA CommSteps ==
  ASSUME DfcInv, CommNext
  PROVE  DfcInv'
<1>. DEFINE Quietly == OtherMoves /\ SameDfc(ch') /\ dfcQueued' = dfcQueued
<1>. USE DEF DfcInv, Shape, SameDfc, Goto, Threads
<1>1. ASSUME WaitForEvent \/ EnterSignal \/ Leave  PROVE Quietly
  BY <1>1 DEF WaitForEvent, EnterSignal, Leave, OtherMoves
<1>2. ASSUME Receive  PROVE Quietly
  <2>. DEFINE x == [ch EXCEPT !.inputHeld = XoffChar]
  <2>1. SameDfc(x)
    OBVIOUS
  <2>2. CASE Holding /\ ch.sendXoff
    BY <1>2, <2>1, <2>2, EnableTransmitOther DEF Receive
  <2>3. CASE ~(Holding /\ ch.sendXoff)
    BY <1>2, <2>3 DEF Receive, OtherMoves
  <2>. QED  BY <2>2, <2>3
<1>3. ASSUME PutChar  PROVE DfcInv'
  <2>. DEFINE c == IF Full THEN [ch EXCEPT !.receiveError = TRUE]
                   ELSE [ch EXCEPT !.rx = @ + 1]
              drain == Holding \/ Full \/ DrainDue(c)
              R == IF drain THEN {"Drain"} ELSE {}
  <2>1. SameDfc(c)
    OBVIOUS
  <2>2. QueueDfc(c, R) /\ OtherMoves
    BY <1>3 DEF PutChar, OtherMoves
  <2>. QED  BY <2>1, <2>2, Asked
<1>4. ASSUME LineState  PROVE DfcInv'
  <2>1. CASE "lines" \in host.status
    BY <1>4, <2>1, StateIsrOther DEF LineState
  <2>2. CASE "lines" \notin host.status
    <3>1. Quietly
      BY <1>4, <2>2 DEF LineState, OtherMoves
    <3>. QED  BY <3>1, NotAsked
  <2>. QED  BY <2>1, <2>2
<1>5. ASSUME DriverCommand  PROVE DfcInv'
  <2>1. OtherMoves
    BY <1>5 DEF DriverCommand, OtherMoves
  <2>2. ASSUME Transmit  PROVE DfcInv'
    <3>1. CASE port.writePending
      <4>1. Quietly
        BY <2>1, <2>2, <3>1 DEF Transmit
      <4>. QED  BY <4>1, NotAsked
    <3>2. CASE ~port.writePending
      <4>1. TransmitIsr
        BY <2>2, <3>2 DEF Transmit
      <4>. QED  BY <4>1, <2>1, Isr
    <3>. QED  BY <3>1, <3>2
  <2>3. ASSUME StopPort \/ StartPort \/ NoCommand  PROVE DfcInv'
    <3>1. Quietly
      BY <2>1, <2>3 DEF StopPort, StartPort, NoCommand
    <3>. QED  BY <3>1, NotAsked
  <2>. QED  BY <1>5, <2>2, <2>3 DEF DriverCommand
<1>6. ASSUME EnterWrite \/ WriteOut \/ Acknowledged("comm")  PROVE Quietly
  BY <1>6 DEF EnterWrite, WriteOut, Acknowledged, OtherMoves
<1>7. ASSUME Gather  PROVE DfcInv'
  <2>1. OtherMoves
    BY <1>7 DEF Gather, OtherMoves
  <2>2. CASE Len(port.out) < OutSize
    <3>1. TransmitIsr
      BY <1>7, <2>2 DEF Gather
    <3>. QED  BY <2>1, <3>1, Isr
  <2>3. CASE ~(Len(port.out) < OutSize)
    <3>1. Quietly
      BY <1>7, <2>1, <2>3 DEF Gather
    <3>. QED  BY <3>1, NotAsked
  <2>. QED  BY <2>2, <2>3
<1>8. Quietly => DfcInv'
  BY NotAsked
<1>. QED
  BY <1>1, <1>2, <1>3, <1>4, <1>5, <1>6, <1>7, <1>8 DEF CommNext

\* The DFC itself: it begins when it is queued, ends when nothing is left, and
\* a time-out, which runs in its place, leaves its queue alone.
LEMMA DfcSteps ==
  ASSUME DfcInv, DfcNext
  PROVE  DfcInv'
<1>. DEFINE Quietly == HandlerMoves /\ SameDfc(ch') /\ dfcQueued' = dfcQueued
<1>. USE DEF DfcInv, Shape, SameDfc, Goto, Threads, DfcPlaces, InDfcHandler, TimingOut
<1>1. ASSUME StartDfc  PROVE DfcInv'
  BY <1>1 DEF StartDfc, DfcRequestsServed
<1>2. ASSUME TakeRequest  PROVE DfcInv'
  BY <1>2 DEF TakeRequest, First, DfcRequestsServed
<1>3. ASSUME EndDfc  PROVE DfcInv'
  BY <1>3 DEF EndDfc, DfcRequestsServed
<1>4. ASSUME DfcCalls  PROVE Quietly
  BY <1>4 DEF DfcCalls, HandlerMoves
<1>5. ASSUME CompleteWrite  PROVE Quietly
  BY <1>5 DEF CompleteWrite, HandlerMoves
<1>6. ASSUME Timeout  PROVE DfcInv'
  BY <1>6 DEF Timeout, RunCommThread, DfcRequestsServed
<1>7. ASSUME TimeoutStopped \/ ResetDevice  PROVE DfcInv'
  <2>1. CASE TimeoutStopped
    BY <2>1 DEF TimeoutStopped, DfcRequestsServed
  <2>2. CASE ResetDevice
    <3>1. /\ {"runningDfc", "dfcRequest"} \subseteq DOMAIN ch'
          /\ ch'.runningDfc = ch.runningDfc /\ ch'.dfcRequest = {}
      BY <2>2 DEF ResetDevice
    <3>2. DOMAIN pc' = Threads /\ DOMAIN ret' = Threads /\ pc'["dfc"] = "idle"
      BY <2>2 DEF ResetDevice
    <3>3. dfcQueued' = dfcQueued /\ ~InDfcHandler
      BY <2>2 DEF ResetDevice
    <3>. QED  BY <3>1, <3>2, <3>3 DEF DfcRequestsServed
  <2>. QED  BY <1>7, <2>1, <2>2
<1>8. ASSUME Acknowledged("dfc")  PROVE DfcInv'
  BY <1>8 DEF Acknowledged, DfcRequestsServed
<1>9. ASSUME Drain("dfc")  PROVE Quietly
  <2>1. dfcQueued' = dfcQueued /\ pc["dfc"] = "drain"
    BY <1>9 DEF Drain
  <2>2. CASE SameDfc(ch') /\ Goto("dfc", After("dfc")) /\ UNCHANGED ret
    BY <2>1, <2>2 DEF HandlerMoves, After
  <2>3. CASE \E c : SameDfc(c) /\ EnableTransmit("dfc", c, port, "drained")
    BY <2>1, <2>3, EnableTransmitDfc
  <2>. QED  BY <1>9, <2>2, <2>3, DrainWays
<1>10. ASSUME Drained("dfc") \/ Fill("dfc") \/ Filled("dfc")  PROVE Quietly
  BY <1>10 DEF Drained, Fill, Filled, HandlerMoves, After
<1>11. ASSUME Copy("dfc")  PROVE Quietly
  <2>1. CASE CopiesNothing("dfc")
    BY <1>11, <2>1 DEF Copy, CopiesNothing, HandlerMoves
  <2>. QED  BY <1>11, <2>1, CopyChannel, EnableTransmitDfc DEF Copy
<1>12. Quietly => DfcInv'
  BY Handling
<1>. QED
  BY <1>1, <1>2, <1>3, <1>4, <1>5, <1>6, <1>7, <1>8, <1>9, <1>10, <1>11, <1>12
     DEF DfcNext
-----------------------------------------------------------------------------
LEMMA DfcInvInductive == Spec => []DfcInv
<1>1. Init => DfcInv
  <2>. SUFFICES ASSUME Init  PROVE DfcInv
    OBVIOUS
  <2>1. /\ {"runningDfc", "dfcRequest"} \subseteq DOMAIN ch
        /\ ch.runningDfc = FALSE /\ ch.dfcRequest = {}
    BY DEF Init
  <2>2. /\ DOMAIN pc = Threads /\ DOMAIN ret = Threads
        /\ pc["dfc"] = "idle" /\ dfcQueued = FALSE
    BY DEF Init, Threads
  <2>. QED
    BY <2>1, <2>2 DEF DfcInv, Shape, DfcPlaces, DfcRequestsServed, InDfcHandler, TimingOut
<1>2. DfcInv /\ [Next]_vars => DfcInv'
  <2>. SUFFICES ASSUME DfcInv, [Next]_vars  PROVE DfcInv'
    OBVIOUS
  <2>1. CASE HostNext
    <3>1. OtherMoves /\ SameDfc(ch') /\ dfcQueued' = dfcQueued
      BY <2>1 DEF HostNext, CharArrives, HostWrites, LineChanges, OtherMoves, SameDfc,
                  DfcInv, Shape
    <3>. QED  BY <3>1, NotAsked
  <2>2. CASE UNCHANGED vars
    <3>1. OtherMoves /\ SameDfc(ch') /\ dfcQueued' = dfcQueued
      BY <2>2 DEF vars, OtherMoves, SameDfc, DfcInv, Shape
    <3>. QED  BY <3>1, NotAsked
  <2>. QED  BY <2>1, <2>2, ClientSteps, CommSteps, DfcSteps DEF Next
<1>. QED  BY <1>1, <1>2, PTL DEF Spec

\* No request to the DFC is lost, and iRunningDfc is set exactly while the DFC
\* is queued or runs: for every client, buffer size and bound, and whatever the
\* idle timer does to the port.
THEOREM DfcRequestsAlwaysServed == Spec => []DfcRequestsServed
<1>1. DfcInv => DfcRequestsServed
  BY DEF DfcInv
<1>. QED  BY <1>1, DfcInvInductive, PTL
-----------------------------------------------------------------------------
(* What the client's thread is asked for *)

\* The port is being started for a request.
Asking ==
  \/ pc["client"] \in {"start", "started", "active"}
  \/ pc["client"] = "wait" /\ ret["client"] \in {"started", "active"}

\* Where the client's thread goes on when the comm thread has answered.
ClientReturns == {"idle", "started", "active", "drain", "drained", "filled",
                  "cfgStopped", "cfgStart", "cfgStarted", "configured"}

\* A write is asked for when none is outstanding, and stays so until it begins;
\* a read and a write keep the length that was asked for.
AskInv ==
  /\ {"todo", "writing"} \subseteq DOMAIN client
  /\ ret["client"] \in ClientReturns
  /\ Asking => client.todo[1] \in {"Read", "Write"}
  /\ pc["client"] = "Write" \/ (Asking /\ client.todo[1] = "Write")
       => client.writing = 0 /\ client.todo[2] \in WriteLens
  /\ pc["client"] = "Read" \/ (Asking /\ client.todo[1] = "Read")
       => client.todo[2] \in ReadLens

\* A step in which nothing is asked for: the thread that asks goes on with it.
NothingAsked ==
  /\ {"todo", "writing"} \subseteq DOMAIN client'
  /\ ret'["client"] \in ClientReturns
  /\ Asking' => Asking /\ client'.todo = client.todo /\ client'.writing \in {client.writing, 0}
  /\ pc'["client"] = "Write" =>
       /\ pc["client"] = "Write" \/ (Asking /\ client.todo[1] = "Write")
       /\ client'.todo = client.todo /\ client'.writing \in {client.writing, 0}
  /\ pc'["client"] = "Read" =>
       /\ pc["client"] = "Read" \/ (Asking /\ client.todo[1] = "Read")
       /\ client'.todo = client.todo

LEMMA NothingWasAsked ==
  ASSUME AskInv, NothingAsked
  PROVE  AskInv'
  BY DEF AskInv, NothingAsked

\* EnableTransmit in the client's thread.
LEMMA TransmitAsk ==
  ASSUME Shape, AskInv, NEW c, NEW p, NEW next \in ClientReturns,
         next \in {"started", "active"} => Asking,
         EnableTransmit("client", c, p, next), UNCHANGED client
  PROVE  NothingAsked
  BY DEF Shape, AskInv, NothingAsked, Asking, ClientReturns, EnableTransmit, RunCommThread,
         Goto, Threads

\* The client's thread goes to a place where it has not asked for anything.
LEMMA GoesElsewhere ==
  ASSUME Shape, AskInv, NEW next, Goto("client", next), UNCHANGED ret,
         next \notin {"start", "started", "active", "wait", "Read", "Write"},
         {"todo", "writing"} \subseteq DOMAIN client'
  PROVE  NothingAsked
  BY DEF Shape, AskInv, NothingAsked, Asking, Goto, Threads

\* The client's thread asks for something, or goes on with it.
LEMMA ClientGoesOn ==
  ASSUME DfcInv, AskInv, ClientNext
  PROVE  \/ NothingAsked
         \/ \E n \in ReadLens : AskRead(n)
         \/ \E n \in WriteLens : AskWrite(n)
         \/ \E kind \in {"restart", "purge"} : SetConfig(kind)
         \/ Activate
<1>. USE DEF DfcInv, Shape, Threads
<1>1. ASSUME Start \/ ConfigStart  PROVE NothingAsked
  BY <1>1 DEF Start, ConfigStart, Client, RunCommThread, Goto, AskInv, NothingAsked, Asking,
              ClientReturns
<1>2. ASSUME NEW l, NEW next, Started(l, next),
             \/ l = "started" /\ next = "active"
             \/ l = "cfgStarted" /\ next = "configured"
      PROVE NothingAsked
  <2>1. /\ next \in ClientReturns
        /\ next \in {"started", "active"} => Asking
        /\ UNCHANGED client
    BY <1>2 DEF ClientReturns, Started, Client, Asking
  <2>2. CASE ch.sendXoff /\ ch.inputHeld >= 0
    <3>1. EnableTransmit("client", ch, port, next)
      BY <1>2, <2>2 DEF Started
    <3>. QED  BY <2>1, <3>1, TransmitAsk
  <2>3. CASE ~(ch.sendXoff /\ ch.inputHeld >= 0)
    BY <1>2, <2>1, <2>3 DEF Started, Client, Goto, AskInv, NothingAsked, Asking
  <2>. QED  BY <2>2, <2>3
<1>3. ASSUME BeginRead  PROVE NothingAsked
  BY <1>3 DEF BeginRead, Goto, AskInv, NothingAsked, Asking
<1>4. ASSUME BeginWrite  PROVE NothingAsked
  BY <1>4 DEF BeginWrite, Goto, AskInv, NothingAsked, Asking
<1>5. ASSUME SendXon  PROVE NothingAsked
  BY <1>5, TransmitAsk DEF SendXon, ClientReturns
<1>6. ASSUME CancelRead \/ CancelWrite  PROVE NothingAsked
  BY <1>6 DEF CancelRead, CancelWrite, Client, ReadDone, WriteDone, AskInv, NothingAsked, Asking
<1>7. ASSUME ConfigStopped  PROVE NothingAsked
  <2>1. CASE client.todo[1] # "restart" /\ ch.sendXoff
    BY <1>7, <2>1, TransmitAsk DEF ConfigStopped, ClientReturns
  <2>2. CASE ~(client.todo[1] # "restart" /\ ch.sendXoff)
    <3>1. Goto("client", "cfgStart") /\ UNCHANGED <<ret, client>>
      BY <1>7, <2>2 DEF ConfigStopped
    <3>. QED  BY <3>1, GoesElsewhere DEF AskInv
  <2>. QED  BY <2>1, <2>2
<1>8. ASSUME Configured \/ Written \/ ReadLines \/ Drained("client") \/ Fill("client") \/ Filled("client")
       PROVE NothingAsked
  BY <1>8, GoesElsewhere DEF AskInv, Configured, Written, ReadLines, Drained, After, Fill, Filled
<1>9. ASSUME Acknowledged("client")  PROVE NothingAsked
  BY <1>9 DEF Acknowledged, Goto, AskInv, NothingAsked, Asking, ClientReturns
<1>10. ASSUME ClientState  PROVE NothingAsked
  <2>1. UNCHANGED client
    BY <1>10 DEF ClientState
  <2>2. CASE Goto("client", "idle") /\ UNCHANGED ret
    BY <2>1, <2>2, GoesElsewhere DEF AskInv
  <2>3. CASE \E c, p : EnableTransmit("client", c, p, "idle")
    BY <2>1, <2>3, TransmitAsk DEF ClientReturns
  <2>. QED  BY <1>10, <2>2, <2>3 DEF ClientState, StateIsr
<1>11. ASSUME Drain("client")  PROVE NothingAsked
  <2>1. {"todo", "writing"} \subseteq DOMAIN client'
    BY <1>11 DEF Drain, ReadDone, AskInv
  <2>2. CASE Goto("client", "idle") /\ UNCHANGED ret
    BY <2>1, <2>2, GoesElsewhere
  <2>3. CASE \E c, p : EnableTransmit("client", c, p, "drained")
    BY <1>11, <2>1, <2>3 DEF Drain, EnableTransmit, RunCommThread, Goto, AskInv, NothingAsked,
       Asking, ClientReturns
  <2>. QED  BY <1>11, <2>2, <2>3, DrainWays DEF After
<1>12. ASSUME Copy("client")  PROVE NothingAsked
  <2>1. CASE CopiesNothing("client")
    BY <1>12, <2>1, GoesElsewhere DEF Copy, CopiesNothing, AskInv
  <2>2. CASE \E c, p : EnableTransmit("client", c, p, "filled")
    BY <1>12, <2>2, TransmitAsk DEF Copy, ClientReturns
  <2>. QED  BY <1>12, <2>1, <2>2, CopyChannel
<1>. QED
  BY <1>1, <1>2, <1>3, <1>4, <1>5, <1>6, <1>7, <1>8, <1>9, <1>10, <1>11, <1>12
     DEF ClientNext

LEMMA ClientAsk ==
  ASSUME DfcInv, AskInv, ClientNext
  PROVE  AskInv'
<1>. USE DEF DfcInv, Shape, Threads
<1>1. ASSUME NEW n \in ReadLens, AskRead(n)  PROVE AskInv'
  BY <1>1 DEF AskRead, Ask, Client, Goto, AskInv, Asking
<1>2. ASSUME NEW n \in WriteLens, AskWrite(n)  PROVE AskInv'
  BY <1>2 DEF AskWrite, Ask, Client, Goto, AskInv, Asking
<1>3. ASSUME NEW kind, SetConfig(kind)  PROVE AskInv'
  BY <1>3 DEF SetConfig, RunCommThread, Goto, AskInv, Asking, ClientReturns
<1>4. ASSUME Activate  PROVE AskInv'
  BY <1>4 DEF Activate, Client, Goto, AskInv, Asking
<1>. QED  BY <1>1, <1>2, <1>3, <1>4, ClientGoesOn, NothingWasAsked

\* The other threads leave it where it is.
LEMMA OthersAsk ==
  ASSUME DfcInv, AskInv, DfcNext \/ CommNext \/ HostNext \/ UNCHANGED vars
  PROVE  NothingAsked
<1>. USE DEF DfcInv, Shape, Threads
<1>. DEFINE Apart == pc'["client"] = pc["client"] /\ ret'["client"] = ret["client"]
<1>1. Apart
  <2>1. CASE DfcNext
    <3>1. ASSUME NEW c, NEW p, NEW next, EnableTransmit("dfc", c, p, next)  PROVE Apart
      BY <3>1 DEF EnableTransmit, RunCommThread, Goto
    <3>2. Drain("dfc") \/ Copy("dfc") => Apart
      BY <3>1, DrainWays, CopyChannel DEF Goto, CopiesNothing
    <3>. QED
      BY <2>1, <3>2 DEF DfcNext, StartDfc, TakeRequest, EndDfc, DfcCalls, CompleteWrite,
         Timeout, TimeoutStopped, ResetDevice, Acknowledged, Drained, Fill, Filled,
         RunCommThread, Goto
  <2>2. CASE CommNext
    <3>1. ASSUME NEW c, NEW p, NEW next, EnableTransmit("comm", c, p, next)  PROVE Apart
      BY <3>1 DEF EnableTransmit, RunCommThread, Goto
    <3>2. Receive \/ LineState => Apart
      BY <3>1 DEF Receive, LineState, StateIsr, Goto
    <3>. QED
      BY <2>2, <3>2 DEF CommNext, WaitForEvent, EnterSignal, PutChar, Leave, DriverCommand,
         EnterWrite, Gather, WriteOut, Acknowledged, Goto
  <2>3. CASE HostNext \/ UNCHANGED vars
    BY <2>3 DEF HostNext, CharArrives, HostWrites, LineChanges, vars
  <2>. QED  BY <2>1, <2>2, <2>3
<1>2. /\ {"todo", "writing"} \subseteq DOMAIN client'
      /\ client'.todo = client.todo /\ client'.writing \in {client.writing, 0}
  <2>. DEFINE Kept == UNCHANGED client
  <2>1. CASE DfcNext
    BY <2>1 DEF DfcNext, StartDfc, TakeRequest, EndDfc, DfcCalls, CompleteWrite,
         Timeout, TimeoutStopped, ResetDevice, Acknowledged, Drain, Drained, Fill, Filled, Copy,
         ReadDone, WriteDone, AskInv
  <2>2. ASSUME TransmitIsr \/ UNCHANGED client
        PROVE  /\ {"todo", "writing"} \subseteq DOMAIN client'
               /\ client'.todo = client.todo /\ client'.writing = client.writing
    BY <2>2 DEF TransmitIsr, SentOne, AskInv
  <2>3. CASE CommNext
    <3>1. TransmitIsr \/ UNCHANGED client
      BY <2>3 DEF CommNext, WaitForEvent, EnterSignal, Receive, PutChar, LineState, Leave,
         DriverCommand, Transmit, StopPort, StartPort, NoCommand, EnterWrite, Gather,
         WriteOut, Acknowledged
    <3>. QED  BY <2>2, <3>1
  <2>4. CASE HostNext \/ UNCHANGED vars
    BY <2>2, <2>4 DEF HostNext, CharArrives, HostWrites, LineChanges, vars
  <2>. QED  BY <2>1, <2>3, <2>4
<1>. QED  BY <1>1, <1>2 DEF NothingAsked, Asking, AskInv
-----------------------------------------------------------------------------
(* One thread fills at a time *)

\* The DFC will fill the buffer, or has been asked to.
AboutToFill == pc["dfc"] \in {"Fill", "fill"} \/ "Fill" \in ch.dfcRequest

\* Who is filling has set iFillingTxBuf, and nobody else is filling.  The idle
\* timer resets the flag under a client that began while it stopped the port:
\* then the comm thread is suspended, and nothing will have the DFC fill before
\* the client's thread starts the port again, which it does not do in a fill.
FillInv ==
  /\ {"filling", "dfcRequest"} \subseteq DOMAIN ch /\ "running" \in DOMAIN port
  /\ ch.filling \in BOOLEAN /\ port.running \in BOOLEAN
  /\ ret["client"] # "copy"
  /\ ch.dfcRequest \subseteq Requests
  /\ FillingIn("dfc") => ch.filling
  /\ FillingIn("client") =>
       /\ ~FillingIn("dfc")
       /\ ch.filling \/ (~port.running /\ ~AboutToFill)
       /\ pc["dfc"] = "reset" => ~port.running

\* A step in which nobody begins to fill: the flag stays, the port does not
\* start, and the DFC is asked to fill by a running comm thread only.
NobodyBegins ==
  /\ {"filling", "dfcRequest"} \subseteq DOMAIN ch' /\ "running" \in DOMAIN port'
  /\ ch'.filling = ch.filling
  /\ port'.running \in BOOLEAN
  /\ ret'["client"] # "copy"
  /\ ch'.dfcRequest \subseteq Requests
  /\ \A t \in {"client", "dfc"} : FillingIn(t)' => FillingIn(t)
  /\ FillingIn("client") /\ ~port.running => ~port'.running
  /\ FillingIn("client") /\ AboutToFill' => AboutToFill \/ port.running
  /\ FillingIn("client") /\ pc'["dfc"] = "reset" => pc["dfc"] = "reset" \/ ~port'.running

LEMMA NobodyBegan ==
  ASSUME FillInv, NobodyBegins
  PROVE  FillInv'
<1>1. AboutToFill' \in BOOLEAN /\ AboutToFill \in BOOLEAN
  BY DEF AboutToFill
<1>. QED  BY <1>1 DEF FillInv, NobodyBegins

\* A channel and a port that say of filling what ch and port do.
SameFill(c, p) ==
  /\ {"filling", "dfcRequest"} \subseteq DOMAIN c /\ "running" \in DOMAIN p
  /\ c.filling = ch.filling /\ c.dfcRequest = ch.dfcRequest /\ p.running = port.running

LEMMA TransmitFill ==
  ASSUME Shape, FillInv, NEW t \in Threads, NEW c, NEW p, NEW next,
         SameFill(c, p), next \notin {"copy", "reset", "Fill", "fill", "wait"}, next = "filled" => FillingIn(t),
         EnableTransmit(t, c, p, next)
  PROVE  NobodyBegins
<1>1. SameFill(ch', port')
  BY DEF SameFill, EnableTransmit, RunCommThread
<1>2. /\ \A u \in {"client", "dfc"} : FillingIn(u)' => FillingIn(u)
      /\ ret'["client"] # "copy"
      /\ pc'["dfc"] \in {"Fill", "fill", "reset"} => pc["dfc"] = pc'["dfc"] \/ next = pc'["dfc"]
  BY DEF Shape, FillInv, EnableTransmit, RunCommThread, Goto, FillingIn, Threads
<1>3. AboutToFill' => AboutToFill \/ next \in {"Fill", "fill"}
  BY <1>1, <1>2 DEF AboutToFill, SameFill
<1>. QED  BY <1>1, <1>2, <1>3 DEF SameFill, NobodyBegins, FillInv

\* What the calls of a filling, of StateIsr and of a drain do to it.
LEMMA DrainFill ==
  ASSUME Shape, FillInv, NEW t \in {"client", "dfc"}, Drain(t)
  PROVE  NobodyBegins
<1>. DEFINE copy == Lesser(ch.receiveLength, ch.rx)
            ends == ch.receiveError \/ copy = ch.receiveLength
            c    == [ch EXCEPT !.rx = @ - copy, !.receiveLength = @ - copy,
                               !.isReading = ~ends,
                               !.receiveError = IF ends THEN FALSE ELSE @]
            x    == [c EXCEPT !.inputHeld = XonChar, !.draining = TRUE]
            r    == [c EXCEPT !.rts = TRUE, !.inputHeld = KInputHeldFree]
<1>1. SameFill(c, port) /\ SameFill(x, port) /\ SameFill(r, Enabled(port))
      /\ SameFill(ch, Enabled(port)) /\ SameFill(c, Enabled(port))
  BY DEF SameFill, FillInv, Enabled
<1>2. CASE EnableTransmit(t, x, port, "drained")
  BY <1>1, <1>2, TransmitFill DEF Threads
<1>3. CASE /\ ch' \in {ch, c, r} /\ port' = Enabled(port)
           /\ Goto(t, After(t)) /\ UNCHANGED ret
  <2>1. SameFill(ch', port')
    BY <1>1, <1>3 DEF SameFill
  <2>2. /\ \A u \in {"client", "dfc"} : FillingIn(u)' => FillingIn(u)
        /\ pc'["dfc"] \in {"Fill", "fill", "reset"} => pc["dfc"] = pc'["dfc"]
    BY <1>3 DEF Shape, Goto, After, FillingIn, Threads
  <2>. QED  BY <1>3, <2>1, <2>2 DEF SameFill, NobodyBegins, FillInv, AboutToFill
<1>4. CASE ~ch.isReading \/ ch.draining \/ (ch.rx = 0 /\ ~ch.receiveError)
  BY <1>3, <1>4 DEF Drain
<1>5. CASE /\ ~(~ch.isReading \/ ch.draining \/ (ch.rx = 0 /\ ~ch.receiveError))
           /\ Resumes(c) /\ ch.sendXoff
  BY <1>2, <1>5 DEF Drain
<1>6. CASE /\ ~(~ch.isReading \/ ch.draining \/ (ch.rx = 0 /\ ~ch.receiveError))
           /\ ~(Resumes(c) /\ ch.sendXoff)
  <2>1. /\ ch' = (IF Resumes(c) THEN r ELSE c) /\ port' = Enabled(port)
        /\ Goto(t, After(t)) /\ UNCHANGED ret
    BY <1>6 DEF Drain
  <2>. QED  BY <1>3, <2>1
<1>. QED  BY <1>4, <1>5, <1>6

LEMMA CopyFill ==
  ASSUME Shape, FillInv, NEW t \in {"client", "dfc"}, Copy(t)
  PROVE  NobodyBegins
<1>. DEFINE n == Lesser(ch.transmitLength, TxSize - Len(ch.tx))
            c == [ch EXCEPT !.transmitLength = @ - n,
                            !.tx = @ \o [i \in 1..n |-> client.writes]]
<1>1. CopiesNothing(t) \/ EnableTransmit(t, c, port, "filled")
  BY DEF Copy, CopiesNothing
<1>2. FillingIn(t) /\ pc[t] = "copy"
  BY DEF Copy, FillingIn
<1>3. SameFill(c, port)
  BY DEF SameFill, FillInv
<1>. HIDE DEF c, n
<1>4. CASE CopiesNothing(t)
  BY <1>2, <1>4 DEF CopiesNothing, NobodyBegins, FillInv, FillingIn, AboutToFill, Goto, Shape, Threads
<1>. QED  BY <1>1, <1>2, <1>3, <1>4, TransmitFill DEF Threads

LEMMA StateIsrFill ==
  ASSUME Shape, FillInv, NEW t \in {"client", "comm"}, NEW cts,
         NEW next \in {"idle", "leave"}, StateIsr(t, cts, next)
  PROVE  NobodyBegins
<1>1. /\ SameFill([ch EXCEPT !.outputHeld = FALSE], Enabled(port))
      /\ SameFill([ch EXCEPT !.outputHeld = ~cts], Enabled(port))
  BY DEF SameFill, FillInv, Enabled
<1>2. CASE ch.writeZero /\ cts /\ ch.isClientWriting /\ ch.tx = <<>>
  <2>1. /\ QueueDfc(ch, {"CompleteWrite"}) /\ port' = Enabled(port)
        /\ Goto(t, next) /\ UNCHANGED ret
    BY <1>2 DEF StateIsr
  <2>2. /\ {"filling", "dfcRequest"} \subseteq DOMAIN ch' /\ ch'.filling = ch.filling
        /\ ch'.dfcRequest = ch.dfcRequest \cup {"CompleteWrite"}
    BY <2>1 DEF QueueDfc, Queued, FillInv
  <2>3. /\ \A u \in {"client", "dfc"} : FillingIn(u)' => FillingIn(u)
        /\ pc'["dfc"] = pc["dfc"]
    BY <2>1 DEF Shape, Goto, FillingIn, Threads
  <2>. QED  BY <2>1, <2>2, <2>3 DEF NobodyBegins, FillInv, AboutToFill, Enabled, Requests
<1>3. CASE /\ ~(ch.writeZero /\ cts /\ ch.isClientWriting /\ ch.tx = <<>>)
           /\ cts /\ ch.isWriting
  <2>1. EnableTransmit(t, [ch EXCEPT !.outputHeld = FALSE], Enabled(port), next)
    BY <1>3 DEF StateIsr
  <2>. QED  BY <1>1, <2>1, TransmitFill DEF Threads
<1>4. CASE /\ ~(ch.writeZero /\ cts /\ ch.isClientWriting /\ ch.tx = <<>>)
           /\ ~(cts /\ ch.isWriting)
  <2>1. /\ ch' = [ch EXCEPT !.outputHeld = ~cts] /\ port' = Enabled(port)
        /\ Goto(t, next) /\ UNCHANGED ret
    BY <1>4 DEF StateIsr
  <2>2. /\ \A u \in {"client", "dfc"} : FillingIn(u)' => FillingIn(u)
        /\ pc'["dfc"] = pc["dfc"]
    BY <2>1 DEF Shape, Goto, FillingIn, Threads
  <2>. QED  BY <1>1, <2>1, <2>2 DEF SameFill, NobodyBegins, FillInv, AboutToFill
<1>. QED  BY <1>2, <1>3, <1>4

LEMMA ClientFill ==
  ASSUME DfcInv, AskInv, FillInv, ClientNext
  PROVE  FillInv'
<1>. USE DEF DfcInv, Shape, Goto, Threads
<1>. DEFINE Plain == /\ SameFill(ch', port') \/ (SameFill(ch', port) /\ port'.running = FALSE
                                                 /\ "running" \in DOMAIN port')
                     /\ pc'["dfc"] = pc["dfc"] /\ ret'["dfc"] = ret["dfc"]
                     /\ ret'["client"] # "copy"
                     /\ FillingIn("client")' => FillingIn("client")
<1>0. Plain => NobodyBegins
  BY DEF SameFill, NobodyBegins, FillInv, FillingIn, AboutToFill
<1>1. ASSUME NEW n, AskRead(n) \/ AskWrite(n)  PROVE Plain
  BY <1>1 DEF AskRead, AskWrite, Ask, FillInv, FillingIn, SameFill
<1>2. ASSUME NEW kind, SetConfig(kind)  PROVE Plain
  BY <1>2 DEF SetConfig, RunCommThread, FillInv, FillingIn, SameFill, Enabled
<1>3. ASSUME Start \/ ConfigStart  PROVE FillInv'
  <2>1. /\ {"filling", "dfcRequest"} \subseteq DOMAIN ch'
        /\ ch'.filling = ch.filling /\ ch'.dfcRequest = ch.dfcRequest
    BY <1>3 DEF Start, ConfigStart, Emptied, FillInv
  <2>2. "running" \in DOMAIN port' /\ port'.running \in BOOLEAN
    BY <1>3 DEF Start, ConfigStart, RunCommThread, FillInv
  <2>3. /\ pc'["client"] = "wait" /\ ret'["client"] \in {"started", "cfgStarted"}
        /\ pc'["dfc"] = pc["dfc"] /\ ret'["dfc"] = ret["dfc"]
    BY <1>3 DEF Start, ConfigStart, RunCommThread
  <2>. QED  BY <2>1, <2>2, <2>3 DEF FillInv, FillingIn
<1>4. ASSUME NEW l, NEW next \in {"active", "configured"}, Started(l, next), l \notin {"copy", "filled", "wait"}
      PROVE NobodyBegins
  <2>1. CASE ch.sendXoff /\ ch.inputHeld >= 0
    <3>1. SameFill(ch, port) /\ EnableTransmit("client", ch, port, next)
      BY <1>4, <2>1 DEF Started, SameFill, FillInv
    <3>. QED  BY <3>1, TransmitFill
  <2>2. CASE ~(ch.sendXoff /\ ch.inputHeld >= 0)
    <3>1. Plain
      BY <1>4, <2>2 DEF Started, FillInv, FillingIn, SameFill
    <3>. QED  BY <3>1, <1>0
  <2>. QED  BY <2>1, <2>2
<1>5. ASSUME Activate  PROVE Plain
  <2>1. pc["client"] = "active" /\ pc' = [pc EXCEPT !["client"] = client.todo[1]]
    BY <1>5 DEF Activate, Client
  <2>2. client.todo[1] \in {"Read", "Write"}
    BY <2>1 DEF AskInv, Asking
  <2>. QED  BY <1>5, <2>1, <2>2 DEF Activate, FillInv, FillingIn, SameFill
<1>6. ASSUME BeginRead \/ BeginWrite  PROVE Plain
  BY <1>6 DEF BeginRead, BeginWrite, FillInv, FillingIn, SameFill, Enabled
<1>7. ASSUME SendXon  PROVE NobodyBegins
  <2>. DEFINE c == [ch EXCEPT !.inputHeld = XonChar]
  <2>1. SameFill(c, port)
    BY DEF FillInv, SameFill
  <2>2. EnableTransmit("client", c, port, "drain")
    BY <1>7 DEF SendXon
  <2>. QED  BY <2>1, <2>2, TransmitFill
<1>8. ASSUME CancelRead \/ CancelWrite  PROVE Plain
  BY <1>8 DEF CancelRead, CancelWrite, FillInv, FillingIn, SameFill
<1>9. ASSUME ConfigStopped  PROVE NobodyBegins
  <2>. DEFINE c == [Emptied(ch) EXCEPT !.rts = TRUE]
              x == [c EXCEPT !.inputHeld = XonChar]
              f == [c EXCEPT !.inputHeld = KInputHeldFree]
  <2>1. CASE client.todo[1] # "restart" /\ ch.sendXoff
    <3>1. EnableTransmit("client", x, Stopped(port), "cfgStart")
      BY <1>9, <2>1 DEF ConfigStopped
    <3>2. Plain
      BY <1>9, <3>1 DEF ConfigStopped, Client, EnableTransmit, RunCommThread, Emptied, Stopped,
                  SameFill, FillInv, FillingIn
    <3>. QED  BY <3>2, <1>0
  <2>2. CASE ~(client.todo[1] # "restart" /\ ch.sendXoff)
    <3>1. Plain
      BY <1>9, <2>2 DEF ConfigStopped, Client, Emptied, Stopped, SameFill, FillInv, FillingIn
    <3>. QED  BY <3>1, <1>0
  <2>. QED  BY <2>1, <2>2
<1>10. ASSUME Configured \/ Written \/ ReadLines  PROVE Plain
  BY <1>10 DEF Configured, Written, ReadLines, FillInv, FillingIn, SameFill, Enabled
<1>11. ASSUME Acknowledged("client")  PROVE Plain
  BY <1>11 DEF Acknowledged, FillInv, FillingIn, SameFill
<1>12. ASSUME ClientState  PROVE NobodyBegins
  BY <1>12, StateIsrFill DEF ClientState
<1>13. ASSUME Drained("client")  PROVE Plain
  BY <1>13 DEF Drained, After, FillInv, FillingIn, SameFill, Enabled
<1>14. ASSUME Fill("client"), ClientRuns  PROVE FillInv'
  <2>1. pc["dfc"] \in {"idle", "wait"}
    BY <1>14 DEF Fill, ClientRuns
  <2>2. CASE ch.filling
    <3>1. Plain
      BY <1>14, <2>2 DEF Fill, FillBusy, FillInv, FillingIn, SameFill, Enabled
    <3>. QED  BY <3>1, <1>0, NobodyBegan
  <2>3. CASE ~ch.filling
    <3>1. /\ {"filling", "dfcRequest"} \subseteq DOMAIN ch' /\ ch'.filling = TRUE
          /\ ch'.dfcRequest = ch.dfcRequest
          /\ "running" \in DOMAIN port' /\ port'.running = port.running
          /\ ret' = ret /\ pc'["dfc"] = pc["dfc"] /\ pc'["client"] = "copy"
      BY <1>14, <2>3 DEF Fill, FillBusy, FillInv, Enabled
    <3>2. ~FillingIn("dfc")
      BY <2>3 DEF FillInv
    <3>. QED  BY <2>1, <3>1, <3>2 DEF FillInv, FillingIn
  <2>. QED  BY <2>2, <2>3 DEF FillInv
<1>15. ASSUME Filled("client")  PROVE FillInv'
  <2>1. FillingIn("client") /\ ~FillingIn("client")' /\ ~FillingIn("dfc")'
    BY <1>15 DEF Filled, FillInv, FillingIn
  <2>. QED  BY <1>15, <2>1 DEF Filled, FillInv
<1>. QED
  BY <1>0, <1>1, <1>2, <1>3, <1>4, <1>5, <1>6, <1>7, <1>8, <1>9, <1>10, <1>11, <1>12,
     <1>13, <1>14, <1>15, NobodyBegan, DrainFill, CopyFill DEF ClientNext

\* TransmitIsr may ask the DFC to fill, in the comm thread, which runs.
LEMMA IsrFill ==
  ASSUME Shape, FillInv, TransmitIsr, port.running,
         "running" \in DOMAIN port', port'.running = port.running,
         pc'["dfc"] = pc["dfc"], pc'["client"] = pc["client"], UNCHANGED ret
  PROVE  NobodyBegins
<1>1. /\ {"filling", "dfcRequest"} \subseteq DOMAIN IsrChannel
      /\ IsrChannel.filling = ch.filling /\ IsrChannel.dfcRequest = ch.dfcRequest
  BY DEF IsrChannel, FillInv
<1>2. IsrRequests \subseteq Requests
  BY DEF IsrRequests, Requests
<1>3. /\ {"filling", "dfcRequest"} \subseteq DOMAIN ch'
      /\ ch'.filling = ch.filling /\ ch'.dfcRequest \subseteq Requests
  BY <1>1, <1>2 DEF TransmitIsr, QueueDfc, Queued, FillInv
<1>. QED  BY <1>3 DEF FillInv, NobodyBegins, FillingIn

LEMMA CommFill ==
  ASSUME DfcInv, FillInv, CommNext
  PROVE  FillInv'
<1>. USE DEF DfcInv, Shape, Goto, Threads
<1>. DEFINE Apart == /\ pc'["dfc"] = pc["dfc"] /\ pc'["client"] = pc["client"]
                     /\ ret'["dfc"] = ret["dfc"] /\ ret'["client"] = ret["client"]
            Plain == SameFill(ch', port') /\ Apart
<1>0. Plain => NobodyBegins
  BY DEF SameFill, NobodyBegins, FillInv, FillingIn, AboutToFill
<1>1. ASSUME WaitForEvent \/ EnterSignal \/ Leave \/ EnterWrite \/ WriteOut \/ Acknowledged("comm")
      PROVE Plain
  BY <1>1 DEF WaitForEvent, EnterSignal, Leave, EnterWrite, WriteOut, Acknowledged,
              FillInv, SameFill
<1>2. ASSUME Receive  PROVE NobodyBegins
  <2>. DEFINE x == [ch EXCEPT !.inputHeld = XoffChar]
  <2>1. CASE Holding /\ ch.sendXoff
    <3>1. EnableTransmit("comm", x, port, "put") /\ SameFill(x, port)
      BY <1>2, <2>1 DEF Receive, SameFill, FillInv
    <3>. QED  BY <3>1, TransmitFill
  <2>2. CASE ~(Holding /\ ch.sendXoff)
    <3>1. Plain
      BY <1>2, <2>2 DEF Receive, FillInv, SameFill
    <3>. QED  BY <3>1, <1>0
  <2>. QED  BY <2>1, <2>2
<1>3. ASSUME PutChar  PROVE NobodyBegins
  <2>. DEFINE c == IF Full THEN [ch EXCEPT !.receiveError = TRUE]
                   ELSE [ch EXCEPT !.rx = @ + 1]
              drain == Holding \/ Full \/ DrainDue(c)
              R == IF drain THEN {"Drain"} ELSE {}
  <2>1. SameFill(c, port) /\ R \subseteq {"Drain"}
    BY DEF SameFill, FillInv
  <2>2. QueueDfc(c, R) /\ Apart /\ port.running
    BY <1>3 DEF PutChar, Comm
  <2>3. "running" \in DOMAIN port' /\ port'.running = port.running
    BY <1>3 DEF PutChar, Enabled, FillInv
  <2>4. /\ {"filling", "dfcRequest"} \subseteq DOMAIN ch'
        /\ ch'.filling = ch.filling /\ ch'.dfcRequest \subseteq Requests
    <3>. HIDE DEF c, R
    <3>. QED  BY <2>1, <2>2 DEF QueueDfc, Queued, SameFill, FillInv, Requests
  <2>. QED  BY <2>2, <2>3, <2>4 DEF NobodyBegins, FillInv, FillingIn
<1>4. ASSUME LineState  PROVE NobodyBegins
  <2>1. CASE "lines" \in host.status
    BY <1>4, <2>1, StateIsrFill DEF LineState
  <2>2. CASE "lines" \notin host.status
    <3>1. Plain
      BY <1>4, <2>2 DEF LineState, FillInv, SameFill
    <3>. QED  BY <3>1, <1>0
  <2>. QED  BY <2>1, <2>2
<1>5. ASSUME DriverCommand  PROVE NobodyBegins
  <2>1. Apart /\ UNCHANGED ret /\ port.running
    BY <1>5 DEF DriverCommand, Comm
  <2>2. "running" \in DOMAIN port' /\ port'.running = port.running
    BY <1>5 DEF DriverCommand, Transmit, WithChar, Enabled, Signalled, StopPort, StartPort,
                NoCommand, FillInv
  <2>3. CASE TransmitIsr
    BY <2>1, <2>2, <2>3, IsrFill
  <2>4. CASE UNCHANGED ch
    BY <2>1, <2>2, <2>4, <1>0 DEF SameFill, FillInv
  <2>. QED  BY <1>5, <2>3, <2>4 DEF DriverCommand, Transmit, StopPort, StartPort, NoCommand
<1>6. ASSUME Gather  PROVE NobodyBegins
  <2>1. Apart /\ UNCHANGED ret /\ port.running
    BY <1>6 DEF Gather, Comm
  <2>2. "running" \in DOMAIN port' /\ port'.running = port.running
    BY <1>6 DEF Gather, WithChar, FillInv
  <2>3. CASE TransmitIsr
    BY <2>1, <2>2, <2>3, IsrFill
  <2>4. CASE UNCHANGED ch
    BY <2>1, <2>2, <2>4, <1>0 DEF SameFill, FillInv
  <2>. QED  BY <1>6, <2>3, <2>4 DEF Gather
<1>. QED
  BY <1>0, <1>1, <1>2, <1>3, <1>4, <1>5, <1>6, NobodyBegan DEF CommNext

LEMMA DfcFill ==
  ASSUME DfcInv, FillInv, DfcNext
  PROVE  FillInv'
<1>. USE DEF DfcInv, Shape, Goto, Threads, DfcPlaces
<1>. DEFINE Aside == /\ pc'["client"] = pc["client"] /\ ret'["client"] = ret["client"]
            Kept  == /\ {"filling", "dfcRequest"} \subseteq DOMAIN ch'
                     /\ ch'.filling = ch.filling /\ ch'.dfcRequest \subseteq ch.dfcRequest
                     /\ "running" \in DOMAIN port' /\ port'.running = port.running
            Plain == /\ Aside /\ Kept
                     /\ FillingIn("dfc")' => FillingIn("dfc")
                     /\ pc'["dfc"] \in {"Fill", "fill"} => AboutToFill
                     /\ pc'["dfc"] = "reset" => pc["dfc"] = "reset"
<1>0. Plain => NobodyBegins
  BY DEF NobodyBegins, FillInv, FillingIn, AboutToFill
<1>1. ASSUME StartDfc \/ EndDfc \/ CompleteWrite \/ DfcCalls  PROVE Plain
  BY <1>1 DEF StartDfc, EndDfc, CompleteWrite, DfcCalls, FillInv, FillingIn, Enabled, AboutToFill
<1>2. ASSUME TakeRequest  PROVE Plain
  <2>1. First \in ch.dfcRequest /\ First \in Requests
    BY <1>2 DEF TakeRequest, First, FillInv, Requests
  <2>. QED  BY <1>2, <2>1 DEF TakeRequest, FillInv, FillingIn, Enabled, AboutToFill, Requests
<1>3. ASSUME Timeout  PROVE FillInv'
  <2>1. pc'["client"] = "idle" /\ ret'["client"] = ret["client"] /\ UNCHANGED ch
    BY <1>3 DEF Timeout, RunCommThread
  <2>2. "running" \in DOMAIN port' /\ port'.running = port.running
    BY <1>3 DEF Timeout, RunCommThread, Enabled, FillInv
  <2>3. ~FillingIn("dfc")' /\ ~FillingIn("client")'
    BY <1>3, <2>1 DEF Timeout, RunCommThread, FillingIn
  <2>. QED  BY <2>1, <2>2, <2>3 DEF FillInv
<1>4. ASSUME TimeoutStopped  PROVE NobodyBegins
  <2>1. /\ Aside /\ UNCHANGED ch /\ pc'["dfc"] = "reset"
        /\ "running" \in DOMAIN port' /\ port'.running = FALSE
    BY <1>4 DEF TimeoutStopped, Stopped, FillInv
  <2>. QED  BY <2>1 DEF NobodyBegins, FillInv, FillingIn, AboutToFill
<1>5. ASSUME ResetDevice  PROVE FillInv'
  <2>1. /\ Aside /\ pc["dfc"] = "reset" /\ pc'["dfc"] = "idle" /\ UNCHANGED port
        /\ {"filling", "dfcRequest"} \subseteq DOMAIN ch'
        /\ ch'.filling = FALSE /\ ch'.dfcRequest = {}
    BY <1>5 DEF ResetDevice, FillInv
  <2>. QED  BY <2>1 DEF FillInv, FillingIn, AboutToFill
<1>6. ASSUME Acknowledged("dfc")  PROVE Plain
  BY <1>6 DEF Acknowledged, FillInv, FillingIn, AboutToFill
<1>7. ASSUME Drained("dfc")  PROVE Plain
  BY <1>7 DEF Drained, After, FillInv, FillingIn, AboutToFill, Enabled
<1>8. ASSUME Fill("dfc")  PROVE FillInv'
  <2>1. CASE ch.filling
    <3>1. Plain
      BY <1>8, <2>1 DEF Fill, FillBusy, FillInv, FillingIn, AboutToFill, Enabled
    <3>. QED  BY <3>1, <1>0, NobodyBegan
  <2>2. CASE ~ch.filling
    <3>1. ~FillingIn("client")
      BY <1>8, <2>2 DEF Fill, FillInv, AboutToFill
    <3>2. /\ Aside /\ pc'["dfc"] = "copy"
          /\ {"filling", "dfcRequest"} \subseteq DOMAIN ch' /\ ch'.filling = TRUE
          /\ ch'.dfcRequest = ch.dfcRequest
          /\ "running" \in DOMAIN port' /\ port'.running = port.running
      BY <1>8, <2>2 DEF Fill, FillBusy, FillInv, Enabled
    <3>3. ~FillingIn("client")'
      BY <3>1, <3>2 DEF FillingIn
    <3>. QED  BY <3>2, <3>3 DEF FillInv
  <2>. QED  BY <2>1, <2>2 DEF FillInv
<1>9. ASSUME Filled("dfc")  PROVE FillInv'
  <2>1. FillingIn("dfc") /\ ~FillingIn("client")
    BY <1>9 DEF Filled, FillInv, FillingIn
  <2>2. ~FillingIn("dfc")' /\ ~FillingIn("client")'
    BY <1>9, <2>1 DEF Filled, FillingIn
  <2>. QED  BY <1>9, <2>2 DEF Filled, FillInv
<1>. QED
  BY <1>0, <1>1, <1>2, <1>3, <1>4, <1>5, <1>6, <1>7, <1>8, <1>9, NobodyBegan, DrainFill,
     CopyFill DEF DfcNext

LEMMA FillInvInductive == Spec => [](AskInv /\ FillInv)
<1>1. Init => AskInv /\ FillInv
  BY DEF Init, AskInv, FillInv, Asking, ClientReturns, FillingIn, Threads
<1>2. DfcInv /\ AskInv /\ FillInv /\ [Next]_vars => (AskInv /\ FillInv)'
  <2>. SUFFICES ASSUME DfcInv, AskInv, FillInv, [Next]_vars  PROVE AskInv' /\ FillInv'
    OBVIOUS
  <2>1. CASE HostNext \/ UNCHANGED vars
    <3>1. UNCHANGED <<ch, port, pc, ret>>
      BY <2>1 DEF HostNext, CharArrives, HostWrites, LineChanges, vars
    <3>2. FillInv'
      BY <3>1 DEF FillInv, FillingIn, AboutToFill
    <3>. QED  BY <2>1, <3>2, OthersAsk, NothingWasAsked
  <2>. QED
    BY <2>1, ClientAsk, OthersAsk, NothingWasAsked, ClientFill, CommFill, DfcFill DEF Next
<1>. QED  BY <1>1, <1>2, DfcInvInductive, PTL DEF Spec

\* The client's thread and the DFC never both fill the transmit buffer: also
\* when the idle timer resets iFillingTxBuf under a client, for every client
\* and bound.
THEOREM OneAlwaysFills == Spec => []OneFillsAtATime
<1>1. FillInv => OneFillsAtATime
  BY DEF FillInv, OneFillsAtATime
<1>. QED  BY <1>1, FillInvInductive, PTL
-----------------------------------------------------------------------------
(* The critical section *)

\* A thread drains in the section; the comm thread is in it from where it enters
\* to where it leaves, the waits for itself included.
Draining(t) == pc[t] = "drained" \/ (pc[t] = "wait" /\ ret[t] = "drained")
CommInside  == pc["comm"] \notin {"idle", "enterSignal", "command", "enterWrite"}

SectionInv ==
  /\ Draining("client") => owner = "client"
  /\ Draining("dfc") => owner = "dfc"
  /\ CommInside => owner = "comm"
  /\ ret["comm"] \in {"idle", "put", "leave"}

\* A step in which nobody enters or leaves.
NobodyEnters ==
  /\ owner' = owner
  /\ Draining("client")' => Draining("client")
  /\ Draining("dfc")' => Draining("dfc")
  /\ CommInside' => CommInside
  /\ ret'["comm"] \in {"idle", "put", "leave"}

LEMMA NobodyEntered ==
  ASSUME SectionInv, NobodyEnters
  PROVE  SectionInv'
  BY DEF SectionInv, NobodyEnters

\* EnableTransmit out of the section in the client's thread and the DFC, in it
\* in the comm thread.
LEMMA TransmitSection ==
  ASSUME Shape, SectionInv, NEW t \in Threads, NEW c, NEW p, NEW next,
         t # "comm" => next \notin {"drained", "wait"},
         t = "comm" => CommInside /\ next \in {"put", "leave"},
         EnableTransmit(t, c, p, next), UNCHANGED owner
  PROVE  NobodyEnters
  BY DEF Shape, SectionInv, NobodyEnters, Draining, CommInside, EnableTransmit, RunCommThread,
         Goto, Threads

LEMMA DrainSection ==
  ASSUME Shape, SectionInv, NEW t \in {"client", "dfc"}, Drain(t)
  PROVE  SectionInv'
<1>. USE DEF Shape, Threads
<1>1. owner = "none" /\ ~Draining("client") /\ ~Draining("dfc") /\ ~CommInside
  BY DEF Drain, SectionInv
<1>2. CASE Goto(t, After(t)) /\ UNCHANGED <<ret, owner>>
  <2>1. ~Draining("client")' /\ ~Draining("dfc")' /\ ~CommInside'
    BY <1>1, <1>2 DEF Goto, After, Draining, CommInside
  <2>. QED  BY <1>2, <2>1 DEF SectionInv
<1>3. CASE owner' = t /\ \E c : EnableTransmit(t, c, port, "drained")
  <2>1. /\ \A u \in Threads \ {t} : pc'[u] = pc[u] /\ ret'[u] = ret[u]
    BY <1>3 DEF EnableTransmit, RunCommThread, Goto
  <2>. QED  BY <1>1, <1>3, <2>1 DEF SectionInv, Draining, CommInside
<1>. QED  BY <1>2, <1>3 DEF Drain

LEMMA DrainedSection ==
  ASSUME Shape, SectionInv, NEW t \in {"client", "dfc"}, Drained(t)
  PROVE  SectionInv'
<1>1. Draining(t)
  BY DEF Drained, Draining
<1>2. ~Draining("client")' /\ ~Draining("dfc")' /\ ~CommInside'
  BY <1>1 DEF Drained, Goto, After, Draining, CommInside, SectionInv, Shape, Threads
<1>. QED  BY <1>2 DEF SectionInv, Drained

\* StateIsr keeps the section as it is.
LEMMA StateIsrSection ==
  ASSUME Shape, SectionInv, NEW t \in {"client", "comm"}, NEW cts, NEW next,
         t = "client" => next = "idle", t = "comm" => CommInside /\ next = "leave",
         StateIsr(t, cts, next), UNCHANGED owner
  PROVE  NobodyEnters
<1>1. CASE \E c, p : EnableTransmit(t, c, p, next)
  BY <1>1, TransmitSection DEF Threads
<1>2. CASE Goto(t, next) /\ UNCHANGED ret
  BY <1>2 DEF Shape, SectionInv, NobodyEnters, Draining, CommInside, Goto, Threads
<1>. QED  BY <1>1, <1>2 DEF StateIsr

LEMMA ClientSection ==
  ASSUME DfcInv, AskInv, SectionInv, ClientNext
  PROVE  SectionInv'
<1>. USE DEF DfcInv, Shape, Threads
<1>. DEFINE Plain == /\ owner' = owner
                     /\ \A u \in {"dfc", "comm"} : pc'[u] = pc[u] /\ ret'[u] = ret[u]
                     /\ Draining("client")' => Draining("client")
<1>0. Plain => NobodyEnters
  BY DEF NobodyEnters, SectionInv, Draining, CommInside
<1>1. ASSUME NEW n, AskRead(n) \/ AskWrite(n)  PROVE Plain
  BY <1>1 DEF AskRead, AskWrite, Ask, Goto, Draining
<1>2. ASSUME NEW kind, SetConfig(kind)  PROVE Plain
  BY <1>2 DEF SetConfig, RunCommThread, Goto, Draining
<1>3. ASSUME Start \/ ConfigStart  PROVE Plain
  BY <1>3 DEF Start, ConfigStart, RunCommThread, Goto, Draining
<1>4. ASSUME NEW l, NEW next \in {"active", "configured"}, Started(l, next)  PROVE NobodyEnters
  <2>1. CASE ch.sendXoff /\ ch.inputHeld >= 0
    <3>1. EnableTransmit("client", ch, port, next) /\ UNCHANGED owner
      BY <1>4, <2>1 DEF Started
    <3>. QED  BY <3>1, TransmitSection
  <2>2. CASE ~(ch.sendXoff /\ ch.inputHeld >= 0)
    <3>1. Plain
      BY <1>4, <2>2 DEF Started, Goto, Draining
    <3>. QED  BY <3>1, <1>0
  <2>. QED  BY <2>1, <2>2
<1>5. ASSUME Activate  PROVE Plain
  <2>1. client.todo[1] \in {"Read", "Write"}
    BY <1>5 DEF Activate, Client, AskInv, Asking
  <2>. QED  BY <1>5, <2>1 DEF Activate, Goto, Draining
<1>6. ASSUME BeginRead \/ BeginWrite \/ CancelRead \/ CancelWrite  PROVE Plain
  BY <1>6 DEF BeginRead, BeginWrite, CancelRead, CancelWrite, Goto, Draining
<1>7. ASSUME SendXon  PROVE NobodyEnters
  BY <1>7, TransmitSection DEF SendXon
<1>8. ASSUME ConfigStopped  PROVE NobodyEnters
  <2>1. CASE client.todo[1] # "restart" /\ ch.sendXoff
    BY <1>8, <2>1, TransmitSection DEF ConfigStopped
  <2>2. CASE ~(client.todo[1] # "restart" /\ ch.sendXoff)
    <3>1. Plain
      BY <1>8, <2>2 DEF ConfigStopped, Goto, Draining
    <3>. QED  BY <3>1, <1>0
  <2>. QED  BY <2>1, <2>2
<1>9. ASSUME Configured \/ Written \/ ReadLines \/ Fill("client") \/ Filled("client")  PROVE Plain
  BY <1>9 DEF Configured, Written, ReadLines, Fill, Filled, Goto, Draining
<1>10. ASSUME Acknowledged("client")  PROVE Plain
  BY <1>10 DEF Acknowledged, Goto, Draining, AskInv, ClientReturns
<1>11. ASSUME ClientState  PROVE NobodyEnters
  BY <1>11, StateIsrSection DEF ClientState
<1>12. ASSUME Copy("client")  PROVE NobodyEnters
  <2>1. CASE CopiesNothing("client")
    BY <1>0, <1>12, <2>1 DEF Copy, CopiesNothing, Goto, Draining
  <2>2. CASE \E c : EnableTransmit("client", c, port, "filled")
    BY <1>12, <2>2, TransmitSection DEF Copy
  <2>. QED  BY <1>12, <2>1, <2>2, CopyChannel
<1>. QED
  BY <1>0, <1>1, <1>2, <1>3, <1>4, <1>5, <1>6, <1>7, <1>8, <1>9, <1>10, <1>11, <1>12,
     DrainSection, DrainedSection, NobodyEntered DEF ClientNext

LEMMA DfcSection ==
  ASSUME DfcInv, SectionInv, DfcNext
  PROVE  SectionInv'
<1>. USE DEF DfcInv, Shape, Threads, DfcPlaces
<1>. DEFINE Plain == /\ owner' = owner
                     /\ \A u \in {"client", "comm"} : pc'[u] = pc[u] /\ ret'[u] = ret[u]
                     /\ Draining("dfc")' => Draining("dfc")
<1>0. Plain => NobodyEnters
  BY DEF NobodyEnters, SectionInv, Draining, CommInside
<1>1. ASSUME StartDfc \/ TakeRequest \/ EndDfc \/ DfcCalls \/ CompleteWrite \/ TimeoutStopped
             \/ ResetDevice \/ Fill("dfc") \/ Filled("dfc")
      PROVE Plain
  BY <1>1 DEF StartDfc, TakeRequest, First, EndDfc, DfcCalls, CompleteWrite, TimeoutStopped,
              ResetDevice, Fill, Filled, Goto, Draining
<1>2. ASSUME Timeout  PROVE Plain
  BY <1>2 DEF Timeout, RunCommThread, Goto, Draining
<1>3. ASSUME Acknowledged("dfc")  PROVE Plain
  BY <1>3 DEF Acknowledged, Goto, Draining
<1>4. ASSUME Copy("dfc")  PROVE NobodyEnters
  <2>1. CASE CopiesNothing("dfc")
    BY <1>0, <1>4, <2>1 DEF Copy, CopiesNothing, Goto, Draining
  <2>2. CASE \E c : EnableTransmit("dfc", c, port, "filled")
    BY <1>4, <2>2, TransmitSection DEF Copy
  <2>. QED  BY <1>4, <2>1, <2>2, CopyChannel
<1>. QED
  BY <1>0, <1>1, <1>2, <1>3, <1>4, DrainSection, DrainedSection, NobodyEntered DEF DfcNext

LEMMA CommSection ==
  ASSUME DfcInv, SectionInv, CommNext
  PROVE  SectionInv'
<1>. USE DEF DfcInv, Shape, Threads
<1>. DEFINE Apart == \A u \in {"client", "dfc"} : pc'[u] = pc[u] /\ ret'[u] = ret[u]
            Plain == /\ owner' = owner /\ Apart /\ CommInside' => CommInside
                     /\ UNCHANGED ret
<1>0. owner' = owner /\ Apart /\ UNCHANGED ret /\ (CommInside' => CommInside) => NobodyEnters
  BY DEF NobodyEnters, SectionInv, Draining
<1>1. ASSUME WaitForEvent \/ PutChar \/ DriverCommand \/ Gather \/ Acknowledged("comm")
      PROVE NobodyEnters
  <2>1. owner' = owner /\ Apart /\ UNCHANGED ret
    BY <1>1 DEF WaitForEvent, PutChar, DriverCommand, Gather, Acknowledged, Goto
  <2>2. CommInside' => CommInside
    BY <1>1 DEF WaitForEvent, PutChar, DriverCommand, Gather, Acknowledged, Goto, Comm,
                CommInside
  <2>. QED  BY <1>0, <2>1, <2>2
<1>2. ASSUME EnterSignal \/ EnterWrite  PROVE SectionInv'
  <2>1. /\ ~Draining("client") /\ ~Draining("dfc") /\ ~CommInside /\ owner = "none"
    BY <1>2 DEF EnterSignal, EnterWrite, SectionInv
  <2>2. Apart /\ UNCHANGED ret /\ (owner' = "comm" \/ (owner' = owner /\ pc'["comm"] = "idle"))
    BY <1>2 DEF EnterSignal, EnterWrite, Goto
  <2>. QED  BY <2>1, <2>2 DEF SectionInv, Draining, CommInside
<1>3. ASSUME Leave \/ WriteOut  PROVE SectionInv'
  <2>1. CommInside
    BY <1>3 DEF Leave, WriteOut, Comm, CommInside
  <2>2. Apart /\ UNCHANGED ret /\ owner' = "none" /\ pc'["comm"] = "idle"
    BY <1>3 DEF Leave, WriteOut, Goto
  <2>. QED  BY <2>1, <2>2 DEF SectionInv, Draining, CommInside
<1>4. ASSUME Receive  PROVE NobodyEnters
  <2>1. CommInside /\ UNCHANGED owner
    BY <1>4 DEF Receive, Comm, CommInside
  <2>2. CASE Holding /\ ch.sendXoff
    BY <1>4, <2>1, <2>2, TransmitSection DEF Receive
  <2>3. CASE ~(Holding /\ ch.sendXoff)
    BY <1>4, <2>1, <2>3, <1>0 DEF Receive, Goto
  <2>. QED  BY <2>2, <2>3
<1>5. ASSUME LineState  PROVE NobodyEnters
  <2>1. CommInside /\ UNCHANGED owner
    BY <1>5 DEF LineState, Comm, CommInside
  <2>2. CASE "lines" \in host.status
    BY <1>5, <2>1, <2>2, StateIsrSection DEF LineState
  <2>3. CASE "lines" \notin host.status
    BY <1>5, <2>1, <2>3, <1>0 DEF LineState, Goto
  <2>. QED  BY <2>2, <2>3
<1>. QED
  BY <1>1, <1>2, <1>3, <1>4, <1>5, NobodyEntered DEF CommNext

LEMMA SectionInvInductive == Spec => []SectionInv
<1>1. Init => SectionInv
  BY DEF Init, SectionInv, Draining, CommInside, Threads
<1>2. DfcInv /\ AskInv /\ SectionInv /\ [Next]_vars => SectionInv'
  <2>. SUFFICES ASSUME DfcInv, AskInv, SectionInv, [Next]_vars  PROVE SectionInv'
    OBVIOUS
  <2>1. CASE HostNext \/ UNCHANGED vars
    BY <2>1 DEF HostNext, CharArrives, HostWrites, LineChanges, vars, SectionInv, Draining,
                CommInside
  <2>. QED  BY <2>1, ClientSection, DfcSection, CommSection DEF Next
<1>. QED  BY <1>1, <1>2, DfcInvInductive, FillInvInductive, PTL DEF Spec
-----------------------------------------------------------------------------
(* A completed write was sent *)

\* Between BeginWrite and Written the client's thread works at the write; the
\* write still goes out while it does or iIsWriting is set.
InWrite == FillingIn("client") \/ pc["client"] \in {"fill", "written"}
Alive   == ch.isWriting \/ InWrite

\* The DFC will complete a write, or has been asked to; it does not wait for the
\* comm thread before it has looked at that request.
CompletionDue == "CompleteWrite" \in ch.dfcRequest \/ pc["dfc"] = "CompleteWrite"
BeforeFills   == pc["dfc"] \in {"loop", "CompleteWrite", "Drain", "drain"} \/ Draining("dfc")

\* All writes up to w have completed; all but the outstanding one have.
Done(w) == \A v \in 1..w : client.result[v] = "KErrNone"
Clean   == /\ client.writes <= MaxWrites
           /\ \A v \in 1..client.writes : v # client.writing => client.result[v] = "KErrNone"

HeldValues == {KInputHeldFree, KInputHeld, XonChar, XoffChar}

WriteFields(c) ==
  /\ {"tx", "transmitLength", "isWriting", "isClientWriting", "writeZero", "inputHeld",
      "dfcRequest"} \subseteq DOMAIN c
  /\ c.inputHeld \in HeldValues

ClientFields(c) == {"writing", "writes", "sent", "length", "result"} \subseteq DOMAIN c

WriteTypes ==
  /\ WriteFields(ch) /\ ClientFields(client)
  /\ ch.tx \in Seq(Nat) /\ Len(ch.tx) <= TxSize /\ ch.transmitLength \in Nat
  /\ ch.isWriting \in BOOLEAN /\ ch.isClientWriting \in BOOLEAN /\ ch.writeZero \in BOOLEAN
  /\ client.writes \in Nat /\ client.writing \in {0, client.writes}
  /\ client.sent \in [Writes -> Nat] /\ client.length \in [Writes -> Nat]
  /\ DOMAIN client.result = Writes

\* What is in the buffer belongs to a write there was, and what is sent too.
BufferInv ==
  /\ \A i \in 1..Len(ch.tx) : ch.tx[i] \in 1..client.writes
  /\ client.writes = 0 => ch.transmitLength = 0
  /\ \A w \in Writes : w > client.writes => client.sent[w] = 0 /\ client.result[w] = "none"

\* The completed writes were sent, and nothing of them is left.
DoneInv ==
  \A w \in Writes : Done(w) =>
    /\ client.sent[w] = client.length[w]
    /\ \A i \in 1..Len(ch.tx) : ch.tx[i] # w
    /\ w = client.writes => ch.transmitLength = 0

\* The outstanding write, when all before it have completed: what was sent of
\* it, what is in the buffer and what is to come make its length, and the DFC is
\* asked to complete it when there is no more.  No request to complete an
\* earlier one is left over when it begins.
CleanInv ==
  /\ InWrite => client.writing # 0 /\ ~ch.isWriting
  /\ ch.isWriting \/ ch.isClientWriting => client.writing # 0
  /\ ch.writeZero => client.writing # 0 /\ client.length[client.writing] = 0
  /\ CompletionDue /\ client.writing = 0 => BeforeFills
  /\ Alive =>
       /\ client.sent[client.writing] + Len(ch.tx) + ch.transmitLength
            = client.length[client.writing]
       /\ \A i \in 1..Len(ch.tx) : ch.tx[i] = client.writing
       /\ CompletionDue => Len(ch.tx) = 0 /\ ch.transmitLength = 0

WriteInv == WriteTypes /\ BufferInv /\ DoneInv /\ (Clean => CleanInv)

\* A channel that says of the write what ch does, and the client's view of it.
SameWrite(c) ==
  /\ WriteFields(c)
  /\ c.tx = ch.tx /\ c.transmitLength = ch.transmitLength /\ c.isWriting = ch.isWriting
  /\ c.isClientWriting = ch.isClientWriting /\ c.writeZero = ch.writeZero

SameClient(c) ==
  /\ ClientFields(c)
  /\ c.writing = client.writing /\ c.writes = client.writes /\ c.sent = client.sent
  /\ c.length = client.length /\ c.result = client.result

\* A step that leaves the write alone: a completion is asked for only for a
\* zero-length write, and the DFC does not begin to fill before it has looked.
Carries ==
  /\ SameWrite(ch') /\ SameClient(client')
  /\ InWrite' => InWrite
  /\ CompletionDue' => CompletionDue \/ (ch.writeZero /\ ch.isClientWriting /\ Len(ch.tx) = 0)
  /\ CompletionDue' /\ BeforeFills => BeforeFills'

\* Some small facts.
LEMMA WriteConstants == MaxWrites \in Nat /\ TxSize \in Nat \ {0} /\ WriteLens \subseteq Nat
  BY Eka1Assumption

LEMMA CleanWrite ==
  ASSUME WriteInv, Clean, client.writing # 0
  PROVE  client.writing \in Writes /\ client.writing = client.writes
  BY WriteConstants DEF WriteInv, WriteTypes, Clean, Writes

LEMMA SameHolds ==
  ASSUME WriteInv, SameWrite(ch'), SameClient(client')
  PROVE  WriteTypes' /\ BufferInv' /\ DoneInv'
  BY DEF SameWrite, SameClient, WriteInv, WriteTypes, BufferInv, DoneInv, Done

LEMMA Carried ==
  ASSUME WriteInv, Carries
  PROVE  WriteInv'
<1>. USE DEF Carries, SameWrite, SameClient
<1>1. WriteTypes' /\ BufferInv' /\ DoneInv'
  BY SameHolds
<1>2. ASSUME Clean'  PROVE CleanInv'
  <2>1. Clean /\ CleanInv
    BY <1>2 DEF Clean, WriteInv
  <2>2. InWrite' \in BOOLEAN /\ InWrite \in BOOLEAN /\ CompletionDue \in BOOLEAN
        /\ CompletionDue' \in BOOLEAN /\ BeforeFills \in BOOLEAN /\ BeforeFills' \in BOOLEAN
    BY DEF InWrite, FillingIn, CompletionDue, BeforeFills, Draining
  <2>3. Alive' => Alive
    BY DEF Alive
  <2>4. ASSUME Alive, ch.writeZero, Len(ch.tx) = 0  PROVE ch.transmitLength = 0
    <3>1. client.writing \in Writes
      BY <2>1, <2>4, CleanWrite DEF CleanInv
    <3>2. client.sent[client.writing] \in Nat /\ ch.transmitLength \in Nat
      BY <3>1 DEF WriteInv, WriteTypes
    <3>. QED  BY <2>1, <2>4, <3>2 DEF CleanInv
  <2>5. CompletionDue' /\ client'.writing = 0 => BeforeFills'
    BY <2>1 DEF CleanInv
  <2>6. Alive' => /\ client'.sent[client'.writing] + Len(ch'.tx) + ch'.transmitLength
                       = client'.length[client'.writing]
                  /\ \A i \in 1..Len(ch'.tx) : ch'.tx[i] = client'.writing
                  /\ CompletionDue' => Len(ch'.tx) = 0 /\ ch'.transmitLength = 0
    BY <2>1, <2>3, <2>4 DEF CleanInv
  <2>. QED  BY <2>1, <2>2, <2>5, <2>6 DEF CleanInv
<1>. QED  BY <1>1, <1>2 DEF WriteInv

\* The buffer that a filling leaves.
LEMMA Appended ==
  ASSUME NEW s \in Seq(Nat), NEW n \in Nat, NEW v \in Nat
  PROVE  /\ s \o [i \in 1..n |-> v] \in Seq(Nat)
         /\ Len(s \o [i \in 1..n |-> v]) = Len(s) + n
         /\ \A j \in 1..Len(s) + n :
              (s \o [i \in 1..n |-> v])[j] = IF j <= Len(s) THEN s[j] ELSE v
<1>1. [i \in 1..n |-> v] \in Seq(Nat) /\ Len([i \in 1..n |-> v]) = n
  OBVIOUS
<1>. QED  BY <1>1
-----------------------------------------------------------------------------
\* EnableTransmit, StateIsr and a drain leave the write alone.
LEMMA TransmitCarries ==
  ASSUME Shape, WriteInv, NEW t \in Threads, NEW c, NEW p, NEW next,
         SameWrite(c), c.dfcRequest = ch.dfcRequest,
         next \notin {"copy", "fill", "written", "wait", "CompleteWrite"},
         t = "client" /\ next = "filled" => InWrite,
         t = "dfc" => next = "drained" \/ ~BeforeFills,
         EnableTransmit(t, c, p, next), SameClient(client')
  PROVE  Carries
<1>1. SameWrite(ch') /\ ch'.dfcRequest = ch.dfcRequest
  BY DEF EnableTransmit, SameWrite, WriteFields
<1>2. InWrite' => InWrite
  BY DEF Shape, EnableTransmit, RunCommThread, Goto, InWrite, FillingIn, Threads
<1>3. CompletionDue' => CompletionDue
  BY <1>1 DEF Shape, EnableTransmit, RunCommThread, Goto, CompletionDue, Threads
<1>4. BeforeFills => BeforeFills'
  BY DEF Shape, EnableTransmit, RunCommThread, Goto, BeforeFills, Draining, Threads
<1>. QED  BY <1>1, <1>2, <1>3, <1>4 DEF Carries

LEMMA StateIsrCarries ==
  ASSUME Shape, WriteInv, NEW t \in {"client", "comm"}, NEW cts,
         NEW next \in {"idle", "leave"}, StateIsr(t, cts, next), UNCHANGED client
  PROVE  Carries
<1>. DEFINE x == [ch EXCEPT !.outputHeld = FALSE]
            y == [ch EXCEPT !.outputHeld = ~cts]
<1>0. /\ SameWrite(x) /\ x.dfcRequest = ch.dfcRequest /\ SameWrite(y)
      /\ y.dfcRequest = ch.dfcRequest /\ SameWrite(ch) /\ SameClient(client')
  BY DEF WriteInv, WriteTypes, SameWrite, WriteFields, SameClient
<1>1. CASE ch.writeZero /\ cts /\ ch.isClientWriting /\ ch.tx = <<>>
  <2>1. QueueDfc(ch, {"CompleteWrite"}) /\ Goto(t, next) /\ UNCHANGED ret
    BY <1>1 DEF StateIsr
  <2>2. SameWrite(ch') /\ ch'.dfcRequest = ch.dfcRequest \cup {"CompleteWrite"}
    BY <2>1 DEF QueueDfc, Queued, WriteInv, WriteTypes, SameWrite, WriteFields
  <2>3. /\ InWrite' => InWrite
        /\ BeforeFills => BeforeFills'
    BY <2>1 DEF Shape, Goto, InWrite, FillingIn, BeforeFills, Draining, Threads
  <2>. QED  BY <1>0, <1>1, <2>2, <2>3 DEF Carries
<1>2. CASE /\ ~(ch.writeZero /\ cts /\ ch.isClientWriting /\ ch.tx = <<>>)
           /\ cts /\ ch.isWriting
  <2>1. EnableTransmit(t, x, Enabled(port), next)
    BY <1>2 DEF StateIsr
  <2>. HIDE DEF x
  <2>. QED  BY <1>0, <2>1, TransmitCarries DEF Threads
<1>3. CASE /\ ~(ch.writeZero /\ cts /\ ch.isClientWriting /\ ch.tx = <<>>)
           /\ ~(cts /\ ch.isWriting)
  <2>1. ch' = y /\ Goto(t, next) /\ UNCHANGED ret
    BY <1>3 DEF StateIsr
  <2>2. /\ InWrite' => InWrite
        /\ BeforeFills => BeforeFills'
        /\ pc'["dfc"] = pc["dfc"]
    BY <2>1 DEF Shape, Goto, InWrite, FillingIn, BeforeFills, Draining, Threads
  <2>. QED  BY <1>0, <2>1, <2>2 DEF Carries, CompletionDue
<1>. QED  BY <1>1, <1>2, <1>3

LEMMA DrainCarries ==
  ASSUME Shape, WriteInv, NEW t \in {"client", "dfc"}, Drain(t)
  PROVE  Carries
<1>. DEFINE copy == Lesser(ch.receiveLength, ch.rx)
            ends == ch.receiveError \/ copy = ch.receiveLength
            c    == [ch EXCEPT !.rx = @ - copy, !.receiveLength = @ - copy,
                               !.isReading = ~ends,
                               !.receiveError = IF ends THEN FALSE ELSE @]
            x    == [c EXCEPT !.inputHeld = XonChar, !.draining = TRUE]
            r    == [c EXCEPT !.rts = TRUE, !.inputHeld = KInputHeldFree]
<1>1. /\ SameWrite(c) /\ SameWrite(x) /\ SameWrite(r) /\ SameWrite(ch)
      /\ c.dfcRequest = ch.dfcRequest /\ x.dfcRequest = ch.dfcRequest
      /\ r.dfcRequest = ch.dfcRequest
  BY DEF WriteInv, WriteTypes, SameWrite, WriteFields, HeldValues
<1>2. SameClient(client')
  BY DEF Drain, ReadDone, WriteInv, WriteTypes, SameClient, ClientFields
<1>3. CASE EnableTransmit(t, x, port, "drained")
  <2>. HIDE DEF x
  <2>. QED  BY <1>1, <1>2, <1>3, TransmitCarries DEF Threads
<1>4. CASE ch' \in {ch, c, r} /\ Goto(t, After(t)) /\ UNCHANGED ret
  <2>1. SameWrite(ch') /\ ch'.dfcRequest = ch.dfcRequest
    BY <1>1, <1>4
  <2>2. /\ InWrite' => InWrite
        /\ BeforeFills => BeforeFills'
        /\ pc'["dfc"] = "CompleteWrite" => pc["dfc"] = "CompleteWrite"
    BY <1>4 DEF Shape, Drain, Goto, After, InWrite, FillingIn, BeforeFills, Draining, Threads
  <2>. QED  BY <1>2, <2>1, <2>2 DEF Carries, CompletionDue
<1>5. CASE ~ch.isReading \/ ch.draining \/ (ch.rx = 0 /\ ~ch.receiveError)
  BY <1>4, <1>5 DEF Drain
<1>6. CASE /\ ~(~ch.isReading \/ ch.draining \/ (ch.rx = 0 /\ ~ch.receiveError))
           /\ Resumes(c) /\ ch.sendXoff
  BY <1>3, <1>6 DEF Drain
<1>7. CASE /\ ~(~ch.isReading \/ ch.draining \/ (ch.rx = 0 /\ ~ch.receiveError))
           /\ ~(Resumes(c) /\ ch.sendXoff)
  <2>1. ch' = (IF Resumes(c) THEN r ELSE c) /\ Goto(t, After(t)) /\ UNCHANGED ret
    BY <1>7 DEF Drain
  <2>. QED  BY <1>4, <2>1
<1>. QED  BY <1>5, <1>6, <1>7
-----------------------------------------------------------------------------
(* The steps that change it *)

\* TransmitIsr, with the DFC and the client's thread where they are.
LEMMA IsrWrite ==
  ASSUME WriteInv, TransmitIsr, pc'["dfc"] = pc["dfc"], pc'["client"] = pc["client"],
         ret'["dfc"] = ret["dfc"], ret'["client"] = ret["client"]
  PROVE  WriteInv'
<1>. USE WriteConstants
<1>1. /\ WriteFields(ch')
      /\ ch'.tx = (IF Sending /\ ch.tx # <<>> THEN Tail(ch.tx) ELSE ch.tx)
      /\ ch'.transmitLength = ch.transmitLength /\ ch'.isWriting = ch.isWriting
      /\ ch'.isClientWriting = ch.isClientWriting /\ ch'.writeZero = ch.writeZero
      /\ ch'.dfcRequest = ch.dfcRequest \cup IsrRequests
  <2>1. /\ WriteFields(IsrChannel)
        /\ IsrChannel.tx = (IF Sending /\ ch.tx # <<>> THEN Tail(ch.tx) ELSE ch.tx)
        /\ IsrChannel.transmitLength = ch.transmitLength
        /\ IsrChannel.isWriting = ch.isWriting
        /\ IsrChannel.isClientWriting = ch.isClientWriting
        /\ IsrChannel.writeZero = ch.writeZero /\ IsrChannel.dfcRequest = ch.dfcRequest
    BY DEF IsrChannel, WriteInv, WriteTypes, WriteFields, HeldValues
  <2>. QED  BY <2>1 DEF TransmitIsr, QueueDfc, Queued, WriteFields
<1>2. "CompleteWrite" \in IsrRequests => ch.isWriting /\ ch.tx = <<>> /\ ch.transmitLength = 0
  BY DEF IsrRequests, Exhausted, Sending
<1>3. /\ InWrite' = InWrite /\ BeforeFills' = BeforeFills /\ Alive' = Alive
      /\ CompletionDue' => CompletionDue \/ "CompleteWrite" \in IsrRequests
  BY <1>1 DEF InWrite, FillingIn, BeforeFills, Draining, Alive, CompletionDue
<1>4. CASE Sending /\ ch.tx # <<>>
  <2>. DEFINE h == Head(ch.tx)
  <2>1. IsrChar = h
    BY <1>4 DEF IsrChar, Sending
  <2>2. /\ h \in Nat /\ Tail(ch.tx) \in Seq(Nat) /\ Len(ch.tx) > 0
        /\ h = ch.tx[1] /\ Len(Tail(ch.tx)) = Len(ch.tx) - 1
        /\ \A i \in 1..Len(Tail(ch.tx)) : Tail(ch.tx)[i] = ch.tx[i + 1] /\ i + 1 \in 1..Len(ch.tx)
    BY <1>4 DEF WriteInv, WriteTypes
  <2>3. h \in 1..client.writes
    BY <2>2 DEF WriteInv, BufferInv, WriteTypes
  <2>4. /\ ClientFields(client') /\ client'.writing = client.writing
        /\ client'.writes = client.writes /\ client'.length = client.length
        /\ client'.result = client.result
        /\ client'.sent = IF h \in Writes THEN [client.sent EXCEPT ![h] = @ + 1] ELSE client.sent
    BY <2>1 DEF TransmitIsr, SentOne, WriteInv, WriteTypes, ClientFields
  <2>5. /\ client'.sent \in [Writes -> Nat]
        /\ \A w \in Writes : client'.sent[w] = IF w = h THEN client.sent[w] + 1 ELSE client.sent[w]
    <3>1. client.sent \in [Writes -> Nat]
      BY DEF WriteInv, WriteTypes
    <3>2. CASE h \in Writes
      BY <2>4, <3>1, <3>2
    <3>3. CASE h \notin Writes
      BY <2>4, <3>1, <3>3
    <3>. QED  BY <3>2, <3>3
  <2>6. WriteTypes'
    <3>1. ch'.tx \in Seq(Nat) /\ Len(ch'.tx) <= TxSize /\ ch'.transmitLength \in Nat
      BY <1>1, <1>4, <2>2 DEF WriteInv, WriteTypes
    <3>2. /\ ch'.isWriting \in BOOLEAN /\ ch'.isClientWriting \in BOOLEAN
          /\ ch'.writeZero \in BOOLEAN
      BY <1>1 DEF WriteInv, WriteTypes
    <3>3. /\ client'.writes \in Nat /\ client'.writing \in {0, client'.writes}
          /\ client'.length \in [Writes -> Nat] /\ DOMAIN client'.result = Writes
      BY <2>4 DEF WriteInv, WriteTypes
    <3>. QED  BY <1>1, <2>4, <2>5, <3>1, <3>2, <3>3 DEF WriteTypes
  <2>7. BufferInv'
    <3>1. \A i \in 1..Len(ch'.tx) : ch'.tx[i] \in 1..client'.writes
      BY <1>1, <1>4, <2>2, <2>4 DEF WriteInv, BufferInv
    <3>2. \A w \in Writes : w > client'.writes =>
            client'.sent[w] = 0 /\ client'.result[w] = "none"
      BY <2>3, <2>4, <2>5 DEF WriteInv, BufferInv, WriteTypes
    <3>. QED  BY <1>1, <2>4, <3>1, <3>2 DEF WriteInv, BufferInv
  <2>8. DoneInv'
    <3>. SUFFICES ASSUME NEW w \in Writes, Done(w)'
                  PROVE  /\ client'.sent[w] = client'.length[w]
                         /\ \A i \in 1..Len(ch'.tx) : ch'.tx[i] # w
                         /\ w = client'.writes => ch'.transmitLength = 0
      BY DEF DoneInv
    <3>1. Done(w)
      BY <2>4 DEF Done
    <3>2. /\ client.sent[w] = client.length[w]
          /\ \A i \in 1..Len(ch.tx) : ch.tx[i] # w
          /\ w = client.writes => ch.transmitLength = 0
      BY <3>1 DEF WriteInv, DoneInv
    <3>3. h # w
      BY <2>2, <3>2
    <3>. QED  BY <1>1, <1>4, <2>2, <2>4, <2>5, <3>2, <3>3
  <2>9. ASSUME Clean'  PROVE CleanInv'
    <3>1. Clean /\ CleanInv
      BY <2>4, <2>9 DEF Clean, WriteInv
    <3>2. Alive /\ client.writing # 0
      BY <1>4, <3>1 DEF Sending, Alive, CleanInv
    <3>3. client.writing \in Writes
      BY <3>1, <3>2, CleanWrite
    <3>4. /\ \A i \in 1..Len(ch.tx) : ch.tx[i] = client.writing
          /\ client.sent[client.writing] + Len(ch.tx) + ch.transmitLength
               = client.length[client.writing]
          /\ ~CompletionDue
      BY <2>2, <3>1, <3>2 DEF CleanInv
    <3>5. h = client.writing
      BY <2>2, <3>4
    <3>6. ~CompletionDue'
      BY <1>2, <1>3, <1>4, <3>4
    <3>7. client'.sent[client'.writing] + Len(ch'.tx) + ch'.transmitLength
            = client'.length[client'.writing]
      <4>1. client.sent[client.writing] \in Nat /\ ch.transmitLength \in Nat
        BY <3>3 DEF WriteInv, WriteTypes
      <4>2. client'.sent[client.writing] = client.sent[client.writing] + 1
        BY <2>5, <3>3, <3>5
      <4>. QED  BY <1>1, <1>4, <2>2, <2>4, <3>4, <4>1, <4>2
    <3>8. \A i \in 1..Len(ch'.tx) : ch'.tx[i] = client'.writing
      BY <1>1, <1>4, <2>2, <2>4, <3>4
    <3>. QED  BY <1>1, <1>3, <2>4, <3>1, <3>6, <3>7, <3>8 DEF CleanInv
  <2>. QED  BY <2>6, <2>7, <2>8, <2>9 DEF WriteInv
<1>5. CASE ~(Sending /\ ch.tx # <<>>)
  <2>1. IsrChar \notin Writes
    BY <1>5 DEF IsrChar, Idle, KTransmitIrqEmpty, WriteInv, WriteTypes, WriteFields, HeldValues,
                KInputHeldFree, KInputHeld, XonChar, XoffChar, Writes
  <2>2. client' = client
    BY <2>1 DEF TransmitIsr, SentOne
  <2>3. WriteTypes' /\ BufferInv' /\ DoneInv'
    <3>1. SameWrite(ch') /\ SameClient(client')
      BY <1>1, <1>5, <2>2 DEF SameWrite, SameClient, WriteInv, WriteTypes
    <3>. QED  BY <3>1, SameHolds
  <2>4. ASSUME Clean'  PROVE CleanInv'
    <3>1. Clean /\ CleanInv
      BY <2>2, <2>4 DEF Clean, WriteInv
    <3>2. CompletionDue' /\ client'.writing = 0 => BeforeFills'
      BY <1>2, <1>3, <2>2, <3>1 DEF CleanInv
    <3>3. CompletionDue' /\ Alive => Len(ch.tx) = 0 /\ ch.transmitLength = 0
      BY <1>2, <1>3, <3>1 DEF CleanInv
    <3>. QED  BY <1>1, <1>3, <1>5, <2>2, <3>1, <3>2, <3>3 DEF CleanInv
  <2>. QED  BY <2>3, <2>4 DEF WriteInv
<1>. QED  BY <1>4, <1>5

\* A filling takes from what is to come what it puts in the buffer.
LEMMA CopyWrite ==
  ASSUME Shape, WriteInv, NEW t \in {"client", "dfc"}, Copy(t)
  PROVE  WriteInv'
<1>. DEFINE n == Lesser(ch.transmitLength, TxSize - Len(ch.tx))
            a == [i \in 1..n |-> client.writes]
            c == [ch EXCEPT !.transmitLength = @ - n, !.tx = @ \o a]
<1>. USE WriteConstants
<1>0. CASE CopiesNothing(t)
  <2>1. UNCHANGED <<ch, ret, client>> /\ pc[t] = "copy"
    BY <1>0 DEF Copy, CopiesNothing
  <2>2. SameWrite(ch') /\ SameClient(client')
    BY <2>1 DEF SameWrite, SameClient, WriteFields, ClientFields, WriteInv, WriteTypes
  <2>3. /\ InWrite' => InWrite
        /\ CompletionDue' => CompletionDue
        /\ BeforeFills => BeforeFills'
    BY <1>0, <2>1 DEF CopiesNothing, Shape, Goto, InWrite, FillingIn, CompletionDue,
       BeforeFills, Draining, Threads
  <2>. QED  BY <2>2, <2>3, Carried DEF Carries
<1>. SUFFICES ASSUME ~CopiesNothing(t)  PROVE WriteInv'
  BY <1>0
<1>1. EnableTransmit(t, c, port, "filled") /\ UNCHANGED client /\ pc[t] = "copy"
  BY DEF Copy, CopiesNothing
<1>2. n \in Nat /\ n <= ch.transmitLength /\ n <= TxSize - Len(ch.tx)
  BY DEF Lesser, WriteInv, WriteTypes
<1>3. /\ WriteFields(ch') /\ ch'.tx = ch.tx \o a /\ ch'.transmitLength = ch.transmitLength - n
      /\ ch'.isWriting = ch.isWriting /\ ch'.isClientWriting = ch.isClientWriting
      /\ ch'.writeZero = ch.writeZero /\ ch'.dfcRequest = ch.dfcRequest
  <2>. HIDE DEF n, a
  <2>1. /\ WriteFields(c) /\ c.tx = ch.tx \o a /\ c.transmitLength = ch.transmitLength - n
        /\ c.isWriting = ch.isWriting /\ c.isClientWriting = ch.isClientWriting
        /\ c.writeZero = ch.writeZero /\ c.dfcRequest = ch.dfcRequest
    BY DEF WriteInv, WriteTypes, WriteFields
  <2>. HIDE DEF c
  <2>. QED  BY <1>1, <2>1 DEF EnableTransmit, WriteFields
<1>4. /\ ch'.tx \in Seq(Nat) /\ Len(ch'.tx) = Len(ch.tx) + n
      /\ \A i \in 1..Len(ch'.tx) : ch'.tx[i] = IF i <= Len(ch.tx) THEN ch.tx[i] ELSE client.writes
  <2>. HIDE DEF n
  <2>1. ch.tx \in Seq(Nat) /\ client.writes \in Nat
    BY DEF WriteInv, WriteTypes
  <2>2. /\ ch.tx \o a \in Seq(Nat) /\ Len(ch.tx \o a) = Len(ch.tx) + n
        /\ \A j \in 1..Len(ch.tx) + n :
             (ch.tx \o a)[j] = IF j <= Len(ch.tx) THEN ch.tx[j] ELSE client.writes
    BY <1>2, <2>1, Appended
  <2>. QED  BY <1>3, <2>2
<1>5. /\ InWrite' => InWrite
      /\ CompletionDue' => CompletionDue
      /\ BeforeFills => BeforeFills'
  <2>. HIDE DEF c, n
  <2>1. /\ InWrite' => InWrite
        /\ pc'["dfc"] = "CompleteWrite" => pc["dfc"] = "CompleteWrite"
        /\ BeforeFills => BeforeFills'
    BY <1>1 DEF Shape, EnableTransmit, RunCommThread, Goto, InWrite, FillingIn, BeforeFills, Draining, Threads
  <2>. QED  BY <1>3, <2>1 DEF CompletionDue
<1>. HIDE DEF n, a, c
<1>6. WriteTypes'
  BY <1>1, <1>2, <1>3, <1>4 DEF WriteInv, WriteTypes
<1>7. BufferInv'
  <2>1. \A i \in 1..Len(ch'.tx) : ch'.tx[i] \in 1..client.writes
    <3>. SUFFICES ASSUME NEW i \in 1..Len(ch'.tx)  PROVE ch'.tx[i] \in 1..client.writes
      OBVIOUS
    <3>0. client.writes \in Nat /\ Len(ch.tx) \in Nat /\ ch.transmitLength \in Nat
      BY DEF WriteInv, WriteTypes
    <3>1. CASE i <= Len(ch.tx)
      BY <1>4, <3>0, <3>1 DEF WriteInv, BufferInv
    <3>2. CASE ~(i <= Len(ch.tx))
      <4>1. n # 0
        BY <1>4, <3>0, <3>2, <1>2
      <4>2. client.writes # 0
        BY <1>2, <3>0, <4>1 DEF WriteInv, BufferInv
      <4>. QED  BY <1>4, <3>0, <3>2, <4>2
    <3>. QED  BY <3>1, <3>2
  <2>2. client.writes = 0 => ch'.transmitLength = 0
    BY <1>2, <1>3 DEF WriteInv, WriteTypes, BufferInv
  <2>. QED  BY <1>1, <2>1, <2>2 DEF WriteInv, BufferInv
<1>8. DoneInv'
  <2>. SUFFICES ASSUME NEW w \in Writes, Done(w)'
                PROVE  /\ client'.sent[w] = client'.length[w]
                       /\ \A i \in 1..Len(ch'.tx) : ch'.tx[i] # w
                       /\ w = client'.writes => ch'.transmitLength = 0
    BY DEF DoneInv
  <2>1. /\ client.sent[w] = client.length[w]
        /\ \A i \in 1..Len(ch.tx) : ch.tx[i] # w
        /\ w = client.writes => ch.transmitLength = 0
    BY <1>1 DEF WriteInv, DoneInv, Done
  <2>2. w = client.writes => n = 0
    BY <1>2, <2>1
  <2>3. \A i \in 1..Len(ch'.tx) : ch'.tx[i] # w
    <3>. SUFFICES ASSUME NEW i \in 1..Len(ch'.tx)  PROVE ch'.tx[i] # w
      OBVIOUS
    <3>1. Len(ch.tx) \in Nat
      BY DEF WriteInv, WriteTypes
    <3>2. CASE i <= Len(ch.tx)
      BY <1>4, <2>1, <3>1, <3>2
    <3>3. CASE ~(i <= Len(ch.tx))
      <4>1. n # 0
        BY <1>2, <1>4, <3>1, <3>3
      <4>. QED  BY <1>4, <2>2, <3>3, <4>1
    <3>. QED  BY <3>2, <3>3
  <2>4. w = client.writes => ch'.transmitLength = 0
    BY <1>3, <2>1, <2>2
  <2>. QED  BY <1>1, <2>1, <2>3, <2>4
<1>9. ASSUME Clean'  PROVE CleanInv'
  <2>1. Clean /\ CleanInv
    BY <1>1, <1>9 DEF Clean, WriteInv
  <2>2. ASSUME Alive'  
        PROVE  /\ client.sent[client.writing] + Len(ch'.tx) + ch'.transmitLength
                    = client.length[client.writing]
               /\ \A i \in 1..Len(ch'.tx) : ch'.tx[i] = client.writing
               /\ CompletionDue' => Len(ch'.tx) = 0 /\ ch'.transmitLength = 0
    <3>1. Alive /\ client.writing # 0
      BY <1>3, <1>5, <2>1, <2>2 DEF Alive, CleanInv
    <3>2. client.writing \in Writes /\ client.writing = client.writes
      BY <2>1, <3>1, CleanWrite
    <3>3. client.sent[client.writing] \in Nat
      BY <3>2 DEF WriteInv, WriteTypes
    <3>4. client.sent[client.writing] + Len(ch'.tx) + ch'.transmitLength
            = client.length[client.writing]
      BY <1>2, <1>3, <1>4, <2>1, <3>1, <3>3 DEF CleanInv, WriteInv, WriteTypes
    <3>5. \A i \in 1..Len(ch'.tx) : ch'.tx[i] = client.writing
      BY <1>4, <2>1, <3>1, <3>2 DEF CleanInv, WriteInv, WriteTypes
    <3>6. CompletionDue' => Len(ch'.tx) = 0 /\ ch'.transmitLength = 0
      BY <1>2, <1>3, <1>4, <1>5, <2>1, <3>1 DEF CleanInv, WriteInv, WriteTypes
    <3>. QED  BY <3>4, <3>5, <3>6
  <2>3. /\ InWrite' => client'.writing # 0 /\ ~ch'.isWriting
        /\ ch'.isWriting \/ ch'.isClientWriting => client'.writing # 0
        /\ ch'.writeZero => client'.writing # 0 /\ client'.length[client'.writing] = 0
        /\ CompletionDue' /\ client'.writing = 0 => BeforeFills'
    BY <1>1, <1>3, <1>5, <2>1 DEF CleanInv
  <2>. QED  BY <1>1, <2>2, <2>3 DEF CleanInv
<1>. QED  BY <1>6, <1>7, <1>8, <1>9 DEF WriteInv

\* A step that keeps the buffer or empties it keeps the types, and one that
\* keeps it, and the client's view, what is said of the completed writes.
LEMMA TypesHold ==
  ASSUME WriteInv, WriteFields(ch'), ClientFields(client'),
         ch'.tx = ch.tx \/ ch'.tx = <<>>, ch'.transmitLength = ch.transmitLength,
         ch'.isWriting \in BOOLEAN, ch'.isClientWriting \in BOOLEAN, ch'.writeZero \in BOOLEAN,
         client'.writes = client.writes, client'.writing = client.writing \/ client'.writing = 0,
         client'.sent = client.sent, client'.length = client.length,
         DOMAIN client'.result = Writes
  PROVE  WriteTypes'
<1>1. ch'.tx \in Seq(Nat) /\ Len(ch'.tx) <= TxSize
  <2>1. CASE ch'.tx = ch.tx
    BY <2>1 DEF WriteInv, WriteTypes
  <2>2. CASE ch'.tx = <<>>
    BY <2>2, WriteConstants
  <2>. QED  BY <2>1, <2>2
<1>2. /\ client'.writes \in Nat /\ client'.writing \in {0, client'.writes}
      /\ client'.sent \in [Writes -> Nat] /\ client'.length \in [Writes -> Nat]
      /\ ch'.transmitLength \in Nat
  BY DEF WriteInv, WriteTypes
<1>. QED  BY <1>1, <1>2 DEF WriteTypes

LEMMA BufferHolds ==
  ASSUME WriteInv, SameClient(client'), ch'.tx = ch.tx, ch'.transmitLength = ch.transmitLength
  PROVE  BufferInv' /\ DoneInv'
<1>1. BufferInv'
  BY DEF SameClient, WriteInv, BufferInv
<1>2. DoneInv'
  BY DEF SameClient, WriteInv, DoneInv, Done
<1>. QED  BY <1>1, <1>2

\* Which result a WriteDone sets.
LEMMA ResultSet ==
  ASSUME WriteTypes, NEW reason, NEW r,
         r = (IF client.writing = 0 THEN client.result
              ELSE [client.result EXCEPT ![client.writing] = reason])
  PROVE  /\ DOMAIN r = Writes
         /\ \A w \in Writes : r[w] = IF w = client.writing THEN reason ELSE client.result[w]
<1>1. 0 \notin Writes
  BY DEF Writes
<1>2. DOMAIN client.result = Writes
  BY DEF WriteTypes
<1>3. CASE client.writing = 0
  BY <1>1, <1>2, <1>3
<1>4. CASE client.writing # 0
  <2>1. r = [client.result EXCEPT ![client.writing] = reason]
    BY <1>4
  <2>. QED  BY <1>2, <2>1
<1>. QED  BY <1>3, <1>4

\* The port is started or purged: the buffer is emptied, and nothing is sent of
\* an outstanding write any more.
LEMMA EmptiedWrite ==
  ASSUME WriteInv, SameClient(client'), WriteFields(ch'),
         ch'.tx = <<>>, ch'.isWriting = FALSE, ch'.transmitLength = ch.transmitLength,
         ch'.isClientWriting = ch.isClientWriting, ch'.writeZero = ch.writeZero,
         ~InWrite', CompletionDue' => CompletionDue, BeforeFills => BeforeFills'
  PROVE  WriteInv'
<1>1. WriteTypes'
  BY TypesHold DEF SameClient, WriteInv, WriteTypes
<1>2. BufferInv' /\ DoneInv'
  BY DEF SameClient, WriteInv, BufferInv, DoneInv, Done
<1>3. ASSUME Clean'  PROVE CleanInv'
  <2>1. Clean /\ CleanInv
    BY <1>3 DEF Clean, SameClient, WriteInv
  <2>2. ~Alive'
    BY DEF Alive
  <2>. QED  BY <2>1, <2>2 DEF CleanInv, SameClient
<1>. QED  BY <1>1, <1>2, <1>3 DEF WriteInv

\* A write is ended with an error, or there was none.
LEMMA AbortedWrite ==
  ASSUME WriteInv, NEW reason, reason # "KErrNone", WriteFields(ch'), ClientFields(client'),
         ch'.tx \in {ch.tx, <<>>}, ch'.transmitLength = ch.transmitLength,
         ch'.isWriting = FALSE, ch'.isClientWriting = FALSE,
         ch'.writeZero \in {ch.writeZero, FALSE},
         client'.writing = 0, client'.writes = client.writes, client'.sent = client.sent,
         client'.length = client.length,
         client'.result = (IF client.writing = 0 THEN client.result
                           ELSE [client.result EXCEPT ![client.writing] = reason]),
         InWrite' => InWrite, CompletionDue' => client.writing # 0
  PROVE  WriteInv'
<1>1. /\ DOMAIN client'.result = Writes
      /\ \A w \in Writes : client'.result[w] =
           IF w = client.writing THEN reason ELSE client.result[w]
  BY ResultSet DEF WriteInv
<1>2. WriteTypes'
  <2>1. ch'.writeZero \in BOOLEAN
    BY DEF WriteInv, WriteTypes
  <2>. QED  BY <1>1, <2>1, TypesHold
<1>3. client.writing \in Writes => client'.result[client.writing] = reason
  BY <1>1
<1>4. BufferInv'
  <2>1. \A w \in Writes : w > client.writes => w # client.writing
    BY WriteConstants DEF WriteInv, WriteTypes, Writes
  <2>2. \A i \in 1..Len(ch'.tx) : ch'.tx[i] \in 1..client'.writes
    BY DEF WriteInv, BufferInv
  <2>. QED  BY <1>1, <2>1, <2>2 DEF WriteInv, BufferInv
<1>5. DoneInv'
  <2>. SUFFICES ASSUME NEW w \in Writes, Done(w)'
                PROVE  /\ client'.sent[w] = client'.length[w]
                       /\ \A i \in 1..Len(ch'.tx) : ch'.tx[i] # w
                       /\ w = client'.writes => ch'.transmitLength = 0
    BY DEF DoneInv
  <2>1. \A v \in 1..w : v \in Writes
    BY WriteConstants DEF Writes
  <2>2. Done(w)
    BY <1>1, <2>1 DEF Done
  <2>. QED  BY <2>2 DEF WriteInv, DoneInv
<1>6. ASSUME Clean'  PROVE CleanInv'
  <2>1. client.writing = 0
    <3>. SUFFICES ASSUME client.writing # 0  PROVE FALSE
      OBVIOUS
    <3>1. client.writing \in 1..client.writes /\ client.writing \in Writes
      BY <1>6, WriteConstants DEF Clean, WriteInv, WriteTypes, Writes
    <3>. QED  BY <1>3, <1>6, <3>1 DEF Clean
  <2>2. Clean /\ CleanInv
    BY <1>6, <2>1 DEF Clean, WriteInv
  <2>3. ~InWrite /\ ~ch.writeZero
    BY <2>1, <2>2 DEF CleanInv
  <2>4. ~Alive' /\ ~InWrite' /\ ~ch'.writeZero /\ ~CompletionDue'
    BY <2>1, <2>3 DEF Alive
  <2>. QED  BY <2>4 DEF CleanInv
<1>. QED  BY <1>2, <1>4, <1>5, <1>6 DEF WriteInv

\* CompleteWrite completes a write that has nothing left.
LEMMA CompletedWrite ==
  ASSUME Shape, WriteInv, CompleteWrite
  PROVE  WriteInv'
<1>. USE DEF Shape, Threads
<1>1. /\ pc["dfc"] = "CompleteWrite" /\ pc'["dfc"] = "loop" /\ UNCHANGED ret
      /\ pc'["client"] = pc["client"]
  BY DEF CompleteWrite, Goto
<1>2. CompletionDue /\ BeforeFills /\ BeforeFills' /\ InWrite' = InWrite
  BY <1>1 DEF CompletionDue, BeforeFills, InWrite, FillingIn
<1>3. CASE ~ch.isWriting
  <2>1. UNCHANGED <<ch, client>>
    BY <1>3 DEF CompleteWrite
  <2>. QED
    BY <1>2, <2>1, Carried DEF Carries, SameWrite, SameClient, WriteInv, WriteTypes
<1>4. CASE ch.isWriting
  <2>1. /\ WriteFields(ch') /\ ch'.tx = ch.tx /\ ch'.transmitLength = ch.transmitLength
        /\ ch'.isWriting = FALSE /\ ch'.isClientWriting = FALSE /\ ch'.writeZero = FALSE
    BY <1>4 DEF CompleteWrite, WriteInv, WriteTypes, WriteFields
  <2>2. CASE ~ch.isClientWriting
    <3>1. SameClient(client')
      BY <1>4, <2>2 DEF CompleteWrite, SameClient, WriteInv, WriteTypes
    <3>2. WriteTypes' /\ BufferInv' /\ DoneInv'
      <4>1. WriteTypes'
        BY <2>1, <3>1, TypesHold DEF SameClient, WriteInv, WriteTypes
      <4>. QED  BY <2>1, <3>1, <4>1, BufferHolds
    <3>3. ASSUME Clean'  PROVE CleanInv'
      <4>1. Clean /\ CleanInv
        BY <3>1, <3>3 DEF Clean, SameClient, WriteInv
      <4>2. ~InWrite' /\ ~Alive'
        BY <1>2, <1>4, <2>1, <4>1 DEF CleanInv, Alive
      <4>. QED  BY <1>2, <2>1, <4>2 DEF CleanInv
    <3>. QED  BY <3>2, <3>3 DEF WriteInv
  <2>3. CASE ch.isClientWriting
    <3>1. /\ ClientFields(client') /\ client'.writing = 0 /\ client'.writes = client.writes
          /\ client'.sent = client.sent /\ client'.length = client.length
          /\ client'.result = (IF client.writing = 0 THEN client.result
                               ELSE [client.result EXCEPT ![client.writing] = "KErrNone"])
      BY <1>4, <2>3 DEF CompleteWrite, WriteDone, WriteInv, WriteTypes, ClientFields
    <3>2. /\ DOMAIN client'.result = Writes
          /\ \A w \in Writes : client'.result[w] =
               IF w = client.writing THEN "KErrNone" ELSE client.result[w]
      BY <3>1, ResultSet DEF WriteInv
    <3>3. WriteTypes'
      BY <2>1, <3>1, <3>2, TypesHold
    <3>4. BufferInv'
      <4>1. \A w \in Writes : w > client.writes => w # client.writing
        BY WriteConstants DEF WriteInv, WriteTypes, Writes
      <4>. QED  BY <2>1, <3>1, <3>2, <4>1 DEF WriteInv, BufferInv
    <3>5. ASSUME Clean  PROVE ch.isWriting /\ ~InWrite /\ CleanInv /\ Alive /\ client.writing # 0
      BY <1>4, <3>5 DEF WriteInv, CleanInv, Alive
    <3>6. DoneInv'
      <4>. SUFFICES ASSUME NEW w \in Writes, Done(w)'
                    PROVE  /\ client'.sent[w] = client'.length[w]
                           /\ \A i \in 1..Len(ch'.tx) : ch'.tx[i] # w
                           /\ w = client'.writes => ch'.transmitLength = 0
        BY DEF DoneInv
      <4>1. \A v \in 1..w : v \in Writes
        BY WriteConstants DEF Writes
      <4>2. CASE w # client.writing /\ w <= client.writes
        <5>1. \A v \in 1..w : v # client.writing
          BY <4>2, WriteConstants DEF WriteInv, WriteTypes, Writes
        <5>2. Done(w)
          BY <3>2, <4>1, <5>1 DEF Done
        <5>. QED  BY <2>1, <3>1, <5>2 DEF WriteInv, DoneInv
      <4>3. CASE w = client.writing
        <5>1. w = client.writes /\ client.writes <= MaxWrites
          BY <4>3, WriteConstants DEF WriteInv, WriteTypes, Writes
        <5>2. \A v \in 1..client.writes : v # client.writing => client.result[v] = "KErrNone"
          BY <3>2, <4>1, <5>1 DEF Done
        <5>3. Clean
          BY <5>1, <5>2 DEF Clean
        <5>4. /\ client.sent[w] + Len(ch.tx) + ch.transmitLength = client.length[w]
              /\ Len(ch.tx) = 0 /\ ch.transmitLength = 0
          BY <1>2, <3>5, <4>3, <5>3 DEF CleanInv
        <5>5. client.sent[w] \in Nat
          BY DEF WriteInv, WriteTypes
        <5>. QED  BY <2>1, <3>1, <5>4, <5>5
      <4>4. CASE w > client.writes
        <5>1. w # client.writing /\ w \in 1..w
          BY <4>4, WriteConstants DEF WriteInv, WriteTypes, Writes
        <5>2. client'.result[w] = "none"
          BY <3>2, <4>4, <5>1 DEF WriteInv, BufferInv
        <5>. QED  BY <5>1, <5>2 DEF Done
      <4>. QED  BY <4>2, <4>3, <4>4, WriteConstants DEF WriteInv, WriteTypes, Writes
    <3>7. ASSUME Clean'  PROVE CleanInv'
      <4>1. \A v \in 1..client.writes : v \in Writes
        BY <3>1, <3>7, WriteConstants DEF Clean, Writes, WriteInv, WriteTypes
      <4>2. Clean
        BY <3>1, <3>2, <3>7, <4>1 DEF Clean
      <4>3. ~InWrite' /\ ~Alive'
        BY <1>2, <2>1, <3>5, <4>2 DEF Alive
      <4>. QED  BY <1>2, <2>1, <4>3 DEF CleanInv
    <3>. QED  BY <3>3, <3>4, <3>6, <3>7 DEF WriteInv
  <2>. QED  BY <2>2, <2>3 DEF WriteInv, WriteTypes
<1>. QED  BY <1>3, <1>4 DEF WriteInv, WriteTypes

\* The write begins: nothing of an earlier one is left.
LEMMA BegunWrite ==
  ASSUME Shape, AskInv, SectionInv, WriteInv, BeginWrite
  PROVE  WriteInv'
<1>. DEFINE n == client.todo[2]
            w == client.writes + 1
            goes == ch.transmitting /\ ch.isWriting
<1>. USE WriteConstants DEF Shape, Threads
<1>1. pc["client"] = "Write" /\ owner = "none" /\ ClientRuns
  BY DEF BeginWrite, Client
<1>2. client.writing = 0 /\ n \in Nat
  BY <1>1 DEF AskInv
<1>3. /\ WriteFields(ch') /\ ch'.tx = ch.tx /\ ch'.transmitLength = n
      /\ ch'.isWriting = (n = 0 \/ goes) /\ ch'.isClientWriting = TRUE
      /\ ch'.writeZero = (n = 0 \/ ch.writeZero) /\ ch'.dfcRequest = ch.dfcRequest
  BY DEF BeginWrite, WriteInv, WriteTypes, WriteFields
<1>4. /\ ClientFields(client') /\ client'.writing = w /\ client'.writes = w
      /\ client'.sent = client.sent /\ client'.result = client.result
      /\ client'.length = [client.length EXCEPT ![w] = n]
  BY DEF BeginWrite, WriteInv, WriteTypes, ClientFields
<1>5. /\ pc'["client"] = (IF n = 0 \/ goes THEN "state" ELSE "fill") /\ UNCHANGED ret
      /\ pc'["dfc"] = pc["dfc"]
  BY DEF BeginWrite, Goto
<1>6. client'.length \in [Writes -> Nat]
      /\ \A v \in Writes : client'.length[v] = IF v = w THEN n ELSE client.length[v]
  BY <1>2, <1>4 DEF WriteInv, WriteTypes
<1>7. InWrite' => ~(n = 0 \/ goes)
  BY <1>5 DEF InWrite, FillingIn
<1>8. CompletionDue' = CompletionDue /\ BeforeFills' = BeforeFills
  BY <1>3, <1>5 DEF CompletionDue, BeforeFills, Draining
<1>. HIDE DEF n, goes
<1>9. WriteTypes'
  <2>1. ch'.isWriting \in BOOLEAN /\ ch'.isClientWriting \in BOOLEAN /\ ch'.writeZero \in BOOLEAN
    BY <1>3 DEF WriteInv, WriteTypes
  <2>. QED  BY <1>2, <1>3, <1>4, <1>6, <2>1 DEF WriteInv, WriteTypes
<1>10. BufferInv'
  <2>1. client.writes \in Nat
    BY DEF WriteInv, WriteTypes
  <2>2. \A i \in 1..Len(ch'.tx) : ch'.tx[i] \in 1..client'.writes
    BY <1>3, <1>4, <2>1 DEF WriteInv, BufferInv
  <2>3. \A v \in Writes : v > client'.writes => client'.sent[v] = 0 /\ client'.result[v] = "none"
    BY <1>4, <2>1 DEF WriteInv, BufferInv, Writes
  <2>. QED  BY <1>4, <2>1, <2>2, <2>3 DEF BufferInv
<1>11. DoneInv'
  <2>. SUFFICES ASSUME NEW v \in Writes, Done(v)'
                PROVE  /\ client'.sent[v] = client'.length[v]
                       /\ \A i \in 1..Len(ch'.tx) : ch'.tx[i] # v
                       /\ v = client'.writes => ch'.transmitLength = 0
    BY DEF DoneInv
  <2>1. Done(v) /\ v \in 1..v
    BY <1>4 DEF Done, Writes
  <2>2. v # w
    <3>. SUFFICES ASSUME v = w  PROVE FALSE
      OBVIOUS
    <3>1. client.result[v] = "none"
      BY DEF WriteInv, BufferInv, WriteTypes
    <3>. QED  BY <2>1, <3>1 DEF Done
  <2>. QED  BY <1>3, <1>4, <1>6, <2>1, <2>2 DEF WriteInv, DoneInv
<1>12. ASSUME Clean'  PROVE CleanInv'
  <2>0. client.writes \in Nat /\ w \in Writes /\ client.writes <= MaxWrites
    BY <1>4, <1>12 DEF Clean, WriteInv, WriteTypes, Writes
  <2>1. \A v \in 1..client.writes : client.result[v] = "KErrNone" /\ v \in Writes
    BY <1>4, <1>12, <2>0 DEF Clean, Writes
  <2>2. Clean /\ CleanInv
    BY <2>0, <2>1 DEF Clean, WriteInv
  <2>3. ~ch.isWriting /\ ~ch.writeZero /\ ~goes
    BY <1>2, <2>2 DEF CleanInv, goes
  <2>4. Len(ch.tx) = 0
    <3>. SUFFICES ASSUME Len(ch.tx) # 0  PROVE FALSE
      OBVIOUS
    <3>1. 1 \in 1..Len(ch.tx) /\ ch.tx[1] \in 1..client.writes
      BY DEF WriteInv, WriteTypes, BufferInv
    <3>2. Done(ch.tx[1]) /\ ch.tx[1] \in Writes
      BY <2>0, <2>1, <3>1 DEF Done
    <3>. QED  BY <3>1, <3>2 DEF WriteInv, DoneInv
  <2>5. client.sent[w] = 0
    BY <2>0 DEF WriteInv, BufferInv
  <2>6. ~CompletionDue
    <3>. SUFFICES ASSUME BeforeFills  PROVE FALSE
      BY <1>2, <2>2 DEF CleanInv
    <3>1. pc["dfc"] # "idle" /\ (pc["dfc"] = "wait" => owner = "dfc")
      BY DEF BeforeFills, Draining, SectionInv
    <3>. QED  BY <1>1, <3>1 DEF ClientRuns
  <2>7. client'.writing # 0 /\ client'.length[client'.writing] = n
    BY <1>4, <1>6, <2>0
  <2>8. /\ client'.sent[client'.writing] + Len(ch'.tx) + ch'.transmitLength
             = client'.length[client'.writing]
        /\ \A i \in 1..Len(ch'.tx) : ch'.tx[i] = client'.writing
    BY <1>2, <1>3, <1>4, <2>4, <2>5, <2>7
  <2>9. InWrite' => ~ch'.isWriting
    BY <1>3, <1>7
  <2>10. ch'.writeZero => n = 0
    BY <1>3, <2>3
  <2>. QED  BY <1>8, <2>6, <2>7, <2>8, <2>9, <2>10 DEF CleanInv
<1>. QED  BY <1>9, <1>10, <1>11, <1>12 DEF WriteInv

\* iIsWriting is set when the client's thread has done its part.
LEMMA WrittenWrite ==
  ASSUME Shape, WriteInv, Written
  PROVE  WriteInv'
<1>1. /\ WriteFields(ch') /\ ch'.tx = ch.tx /\ ch'.transmitLength = ch.transmitLength
      /\ ch'.isWriting = TRUE /\ ch'.isClientWriting = ch.isClientWriting
      /\ ch'.writeZero = ch.writeZero /\ ch'.dfcRequest = ch.dfcRequest /\ UNCHANGED client
  BY DEF Written, WriteInv, WriteTypes, WriteFields
<1>2. InWrite /\ ~InWrite' /\ CompletionDue' = CompletionDue /\ BeforeFills' = BeforeFills
  BY <1>1 DEF Shape, Threads, Written, Goto, InWrite, FillingIn, CompletionDue, BeforeFills,
              Draining
<1>3. WriteTypes' /\ BufferInv' /\ DoneInv'
  <2>1. SameClient(client')
    BY <1>1 DEF SameClient, WriteInv, WriteTypes
  <2>2. WriteTypes'
    BY <1>1, <2>1, TypesHold DEF SameClient, WriteInv, WriteTypes
  <2>. QED  BY <1>1, <2>1, <2>2, BufferHolds
<1>4. ASSUME Clean'  PROVE CleanInv'
  <2>1. Clean /\ CleanInv /\ Alive
    BY <1>1, <1>2, <1>4 DEF Clean, WriteInv, Alive
  <2>. QED  BY <1>1, <1>2, <2>1 DEF CleanInv
<1>. QED  BY <1>3, <1>4 DEF WriteInv
-----------------------------------------------------------------------------
LEMMA ClientWrite ==
  ASSUME DfcInv, AskInv, SectionInv, WriteInv, ClientNext
  PROVE  WriteInv'
<1>. USE DEF DfcInv, Shape, Threads
<1>. DEFINE Plain == /\ SameWrite(ch') /\ ch'.dfcRequest = ch.dfcRequest /\ SameClient(client')
                     /\ pc'["dfc"] = pc["dfc"] /\ ret'["dfc"] = ret["dfc"]
                     /\ InWrite' => InWrite
<1>0. Plain => Carries
  BY DEF Carries, CompletionDue, BeforeFills, Draining
<1>. DEFINE Held == SameWrite(ch') /\ ch'.dfcRequest = ch.dfcRequest
<1>h. /\ SameWrite(ch) /\ SameClient(client)
      /\ UNCHANGED ch => Held
      /\ UNCHANGED client => SameClient(client')
  BY DEF SameWrite, SameClient, WriteInv, WriteTypes
<1>1. ASSUME NEW n, AskRead(n) \/ AskWrite(n)  PROVE Plain
  <2>1. SameClient(client')
    BY <1>1 DEF AskRead, AskWrite, Ask, SameClient, ClientFields, WriteInv, WriteTypes
  <2>. QED  BY <1>1, <1>h, <2>1 DEF AskRead, AskWrite, Ask, Goto, InWrite, FillingIn
<1>2. ASSUME NEW kind, SetConfig(kind)  PROVE Plain
  <2>1. Held /\ SameClient(client')
    BY <1>2 DEF SetConfig, SameWrite, WriteFields, SameClient, ClientFields, WriteInv, WriteTypes
  <2>. QED  BY <1>2, <2>1 DEF SetConfig, RunCommThread, Goto, InWrite, FillingIn
<1>3. ASSUME Start  PROVE WriteInv'
  <2>1. /\ WriteFields(ch') /\ ch'.tx = <<>> /\ ch'.isWriting = FALSE
        /\ ch'.transmitLength = ch.transmitLength /\ ch'.isClientWriting = ch.isClientWriting
        /\ ch'.writeZero = ch.writeZero /\ ch'.dfcRequest = ch.dfcRequest
    BY <1>3 DEF Start, Emptied, WriteFields, WriteInv, WriteTypes
  <2>2. ~InWrite' /\ pc'["dfc"] = pc["dfc"] /\ ret'["dfc"] = ret["dfc"] /\ UNCHANGED client
    BY <1>3 DEF Start, RunCommThread, Goto, InWrite, FillingIn
  <2>. QED  BY <1>h, <2>1, <2>2, EmptiedWrite DEF CompletionDue, BeforeFills, Draining
<1>4. ASSUME NEW l, NEW next \in {"active", "configured"}, Started(l, next)  PROVE Carries
  <2>1. CASE ch.sendXoff /\ ch.inputHeld >= 0
    <3>1. EnableTransmit("client", ch, port, next) /\ UNCHANGED client
      BY <1>4, <2>1 DEF Started
    <3>. QED  BY <1>h, <3>1, TransmitCarries
  <2>2. CASE ~(ch.sendXoff /\ ch.inputHeld >= 0)
    <3>1. Plain
      BY <1>4, <1>h, <2>2 DEF Started, Goto, InWrite, FillingIn
    <3>. QED  BY <3>1, <1>0
  <2>. QED  BY <2>1, <2>2
<1>5. ASSUME Activate  PROVE Plain
  <2>1. client.todo[1] \in {"Read", "Write"}
    BY <1>5 DEF Activate, Client, AskInv, Asking
  <2>2. Held
    BY <1>5 DEF Activate, SameWrite, WriteFields, HeldValues, WriteInv, WriteTypes
  <2>. QED  BY <1>5, <1>h, <2>1, <2>2 DEF Activate, Goto, InWrite, FillingIn
<1>6. ASSUME BeginRead  PROVE Plain
  <2>1. Held /\ SameClient(client')
    BY <1>6 DEF BeginRead, SameWrite, WriteFields, SameClient, ClientFields, WriteInv, WriteTypes
  <2>. QED  BY <1>6, <2>1 DEF BeginRead, Goto, InWrite, FillingIn
<1>7. ASSUME SendXon  PROVE Carries
  <2>. DEFINE c == [ch EXCEPT !.inputHeld = XonChar]
  <2>1. SameWrite(c) /\ c.dfcRequest = ch.dfcRequest
    BY DEF SameWrite, WriteFields, HeldValues, WriteInv, WriteTypes
  <2>2. EnableTransmit("client", c, port, "drain") /\ UNCHANGED client
    BY <1>7 DEF SendXon
  <2>. HIDE DEF c
  <2>. QED  BY <1>h, <2>1, <2>2, TransmitCarries
<1>8. ASSUME CancelRead  PROVE Plain
  <2>1. Held /\ SameClient(client')
    BY <1>8 DEF CancelRead, ReadDone, SameWrite, WriteFields, SameClient, ClientFields, WriteInv,
                WriteTypes
  <2>. QED  BY <1>8, <2>1 DEF CancelRead, InWrite, FillingIn
<1>9. ASSUME CancelWrite  PROVE WriteInv'
  <2>1. /\ WriteFields(ch') /\ ch'.tx = <<>> /\ ch'.transmitLength = ch.transmitLength
        /\ ch'.isWriting = FALSE /\ ch'.isClientWriting = FALSE /\ ch'.writeZero = FALSE
    BY <1>9 DEF CancelWrite, WriteFields, WriteInv, WriteTypes
  <2>2. /\ ClientFields(client') /\ client'.writing = 0 /\ client'.writes = client.writes
        /\ client'.sent = client.sent /\ client'.length = client.length
        /\ client'.result = (IF client.writing = 0 THEN client.result
                             ELSE [client.result EXCEPT ![client.writing] = "KErrCancel"])
        /\ client.writing # 0
    BY <1>9 DEF CancelWrite, WriteDone, ClientFields, WriteInv, WriteTypes
  <2>3. InWrite' => InWrite
    BY <1>9 DEF CancelWrite, InWrite, FillingIn
  <2>. QED  BY <2>1, <2>2, <2>3, AbortedWrite
<1>10. ASSUME ConfigStopped  PROVE WriteInv'
  <2>. DEFINE c == [Emptied(ch) EXCEPT !.rts = TRUE]
              x == [c EXCEPT !.inputHeld = XonChar]
              f == [c EXCEPT !.inputHeld = KInputHeldFree]
              Purged(d) == /\ WriteFields(d) /\ d.tx = <<>> /\ d.isWriting = FALSE
                           /\ d.transmitLength = ch.transmitLength
                           /\ d.isClientWriting = ch.isClientWriting
                           /\ d.writeZero = ch.writeZero /\ d.dfcRequest = ch.dfcRequest
              Moved == /\ ~InWrite' /\ pc'["dfc"] = pc["dfc"] /\ ret'["dfc"] = ret["dfc"]
                       /\ UNCHANGED client
  <2>0. ASSUME Purged(ch'), Moved  PROVE WriteInv'
    BY <1>h, <2>0, EmptiedWrite DEF CompletionDue, BeforeFills, Draining
  <2>1. Purged(x) /\ Purged(f)
    BY DEF Emptied, WriteFields, HeldValues, WriteInv, WriteTypes
  <2>2. CASE client.todo[1] = "restart"
    <3>1. Plain
      BY <1>10, <1>h, <2>2 DEF ConfigStopped, Goto, InWrite, FillingIn
    <3>. QED  BY <3>1, <1>0, Carried
  <2>3. CASE client.todo[1] # "restart" /\ ch.sendXoff
    <3>1. EnableTransmit("client", x, Stopped(port), "cfgStart") /\ UNCHANGED client
      BY <1>10, <2>3 DEF ConfigStopped
    <3>. HIDE DEF x
    <3>2. Purged(ch') /\ Moved
      BY <2>1, <3>1 DEF EnableTransmit, RunCommThread, Goto, WriteFields, InWrite, FillingIn
    <3>. QED  BY <2>0, <3>2
  <2>4. CASE client.todo[1] # "restart" /\ ~ch.sendXoff
    <3>1. ch' = f /\ Goto("client", "cfgStart") /\ UNCHANGED <<ret, client>>
      BY <1>10, <2>4 DEF ConfigStopped
    <3>. HIDE DEF f
    <3>2. Purged(ch') /\ Moved
      BY <2>1, <3>1 DEF Goto, InWrite, FillingIn
    <3>. QED  BY <2>0, <3>2
  <2>. QED  BY <2>2, <2>3, <2>4
<1>11. ASSUME ConfigStart  PROVE Plain
  BY <1>11, <1>h DEF ConfigStart, RunCommThread, Goto, InWrite, FillingIn
<1>12. ASSUME Configured  PROVE Plain
  <2>1. Held
    BY <1>12 DEF Configured, SameWrite, WriteFields, HeldValues, WriteInv, WriteTypes
  <2>. QED  BY <1>12, <1>h, <2>1 DEF Configured, Goto, InWrite, FillingIn
<1>13. ASSUME ReadLines  PROVE Plain
  BY <1>13, <1>h DEF ReadLines, Goto, InWrite, FillingIn
<1>14. ASSUME Acknowledged("client")  PROVE Plain
  BY <1>14, <1>h DEF Acknowledged, Goto, InWrite, FillingIn, AskInv, ClientReturns
<1>15. ASSUME ClientState  PROVE Carries
  BY <1>15, StateIsrCarries DEF ClientState
<1>16. ASSUME Drained("client")  PROVE Plain
  <2>1. Held
    BY <1>16 DEF Drained, SameWrite, WriteFields, WriteInv, WriteTypes
  <2>. QED  BY <1>16, <1>h, <2>1 DEF Drained, Goto, After, InWrite, FillingIn
<1>17. ASSUME Fill("client") \/ Filled("client")  PROVE Plain
  <2>1. Held
    BY <1>17, <1>h DEF Fill, Filled, SameWrite, WriteFields, WriteInv, WriteTypes
  <2>. QED  BY <1>17, <1>h, <2>1 DEF Fill, Filled, Goto, InWrite, FillingIn
<1>. QED
  BY <1>0, <1>1, <1>2, <1>3, <1>4, <1>5, <1>6, <1>7, <1>8, <1>9, <1>10, <1>11, <1>12, <1>13,
     <1>14, <1>15, <1>16, <1>17, Carried, BegunWrite, WrittenWrite, CopyWrite, DrainCarries
     DEF ClientNext

LEMMA DfcWrite ==
  ASSUME DfcInv, FillInv, WriteInv, DfcNext
  PROVE  WriteInv'
<1>. USE DEF DfcInv, Shape, Threads, DfcPlaces
<1>. DEFINE Held == SameWrite(ch') /\ ch'.dfcRequest = ch.dfcRequest /\ SameClient(client')
            Plain == /\ Held /\ pc'["client"] = pc["client"] /\ ret'["client"] = ret["client"]
                     /\ pc'["dfc"] # "CompleteWrite"
                     /\ BeforeFills => BeforeFills'
<1>0. Plain => Carries
  BY DEF Carries, CompletionDue, InWrite, FillingIn
<1>h. /\ SameWrite(ch) /\ SameClient(client)
      /\ UNCHANGED <<ch, client>> => Held
      /\ UNCHANGED client => SameClient(client')
  BY DEF SameWrite, SameClient, WriteInv, WriteTypes
<1>1. ASSUME StartDfc \/ DfcCalls  PROVE Plain
  BY <1>1, <1>h DEF StartDfc, DfcCalls, Goto, BeforeFills, Draining
<1>2. ASSUME TakeRequest  PROVE Carries
  <2>1. First \in ch.dfcRequest /\ First \in Requests
        /\ (First = "Fill" => "CompleteWrite" \notin ch.dfcRequest)
    BY <1>2 DEF TakeRequest, First, FillInv, Requests
  <2>2. SameWrite(ch') /\ SameClient(client') /\ ch'.dfcRequest = ch.dfcRequest \ {First}
    BY <1>2, <1>h DEF TakeRequest, SameWrite, WriteFields, WriteInv, WriteTypes
  <2>3. /\ pc'["dfc"] = First /\ pc'["client"] = pc["client"] /\ UNCHANGED ret
    BY <1>2 DEF TakeRequest, Goto
  <2>4. /\ CompletionDue' => CompletionDue
        /\ CompletionDue' => BeforeFills'
    BY <2>1, <2>2, <2>3 DEF CompletionDue, BeforeFills, Requests
  <2>. QED  BY <2>2, <2>3, <2>4 DEF Carries, InWrite, FillingIn
<1>3. ASSUME EndDfc  PROVE Carries
  <2>1. SameWrite(ch') /\ SameClient(client') /\ ch'.dfcRequest = {}
    BY <1>3, <1>h DEF EndDfc, SameWrite, WriteFields, WriteInv, WriteTypes
  <2>2. pc'["dfc"] = "idle" /\ pc'["client"] = pc["client"] /\ UNCHANGED ret
    BY <1>3 DEF EndDfc, Goto
  <2>. QED  BY <2>1, <2>2 DEF Carries, InWrite, FillingIn, CompletionDue
<1>4. ASSUME Timeout \/ TimeoutStopped  PROVE Plain
  BY <1>4, <1>h DEF Timeout, TimeoutStopped, RunCommThread, Goto, BeforeFills, Draining
<1>5. ASSUME ResetDevice  PROVE WriteInv'
  <2>1. /\ WriteFields(ch') /\ ch'.tx = ch.tx /\ ch'.transmitLength = ch.transmitLength
        /\ ch'.isWriting = FALSE /\ ch'.isClientWriting = FALSE /\ ch'.writeZero = ch.writeZero
        /\ ch'.dfcRequest = {}
    BY <1>5 DEF ResetDevice, WriteFields, WriteInv, WriteTypes
  <2>2. /\ ClientFields(client') /\ client'.writing = 0 /\ client'.writes = client.writes
        /\ client'.sent = client.sent /\ client'.length = client.length
        /\ client'.result = (IF client.writing = 0 THEN client.result
                             ELSE [client.result EXCEPT ![client.writing] = "KErrAbort"])
    BY <1>5 DEF ResetDevice, WriteDone, ClientFields, WriteInv, WriteTypes
  <2>3. pc'["dfc"] = "idle" /\ pc'["client"] = pc["client"] /\ UNCHANGED ret
    BY <1>5 DEF ResetDevice, Goto
  <2>4. ~CompletionDue' /\ (InWrite' => InWrite)
    BY <2>1, <2>3 DEF CompletionDue, InWrite, FillingIn
  <2>. QED  BY <2>1, <2>2, <2>4, AbortedWrite
<1>6. ASSUME Acknowledged("dfc")  PROVE Plain
  BY <1>6, <1>h DEF Acknowledged, Goto, BeforeFills, Draining
<1>7. ASSUME Drained("dfc") \/ Fill("dfc") \/ Filled("dfc")  PROVE Plain
  <2>1. Held
    BY <1>7, <1>h DEF Drained, Fill, Filled, SameWrite, WriteFields, WriteInv, WriteTypes
  <2>. QED  BY <1>7, <2>1 DEF Drained, Fill, Filled, After, Goto, BeforeFills, Draining
<1>. QED
  BY <1>0, <1>1, <1>2, <1>3, <1>4, <1>5, <1>6, <1>7, Carried, CompletedWrite, CopyWrite,
     DrainCarries DEF DfcNext

LEMMA CommWrite ==
  ASSUME DfcInv, WriteInv, CommNext
  PROVE  WriteInv'
<1>. USE DEF DfcInv, Shape, Threads
<1>. DEFINE Apart == \A u \in {"client", "dfc"} : pc'[u] = pc[u] /\ ret'[u] = ret[u]
            Plain == /\ SameWrite(ch') /\ SameClient(client') /\ Apart
                     /\ ch'.dfcRequest \subseteq ch.dfcRequest \cup {"Drain"}
<1>0. Plain => Carries
  BY DEF Carries, CompletionDue, InWrite, FillingIn, BeforeFills, Draining
<1>h. /\ SameWrite(ch) /\ SameClient(client)
      /\ UNCHANGED ch => SameWrite(ch') /\ ch'.dfcRequest = ch.dfcRequest
      /\ UNCHANGED client => SameClient(client')
  BY DEF SameWrite, SameClient, WriteInv, WriteTypes
<1>1. ASSUME WaitForEvent \/ EnterSignal \/ Leave \/ EnterWrite \/ WriteOut \/ Acknowledged("comm")
      PROVE Plain
  BY <1>1, <1>h DEF WaitForEvent, EnterSignal, Leave, EnterWrite, WriteOut, Acknowledged, Goto
<1>2. ASSUME Receive  PROVE Carries
  <2>. DEFINE x == [ch EXCEPT !.inputHeld = XoffChar]
              y == [ch EXCEPT !.rts = FALSE, !.inputHeld = KInputHeld]
  <2>1. /\ SameWrite(x) /\ x.dfcRequest = ch.dfcRequest
        /\ SameWrite(y) /\ y.dfcRequest = ch.dfcRequest
    BY DEF SameWrite, WriteFields, HeldValues, WriteInv, WriteTypes
  <2>2. CASE Holding /\ ch.sendXoff
    <3>1. EnableTransmit("comm", x, port, "put") /\ UNCHANGED client
      BY <1>2, <2>2 DEF Receive
    <3>. HIDE DEF x
    <3>. QED  BY <1>h, <2>1, <3>1, TransmitCarries
  <2>3. CASE ~(Holding /\ ch.sendXoff)
    <3>1. (ch' = ch \/ ch' = y) /\ Goto("comm", "put") /\ UNCHANGED <<ret, client>>
      BY <1>2, <2>3 DEF Receive
    <3>. HIDE DEF y
    <3>2. Plain
      BY <1>h, <2>1, <3>1 DEF Goto
    <3>. QED  BY <3>2, <1>0
  <2>. QED  BY <2>2, <2>3
<1>3. ASSUME PutChar  PROVE Plain
  <2>. DEFINE c == IF Full THEN [ch EXCEPT !.receiveError = TRUE]
                   ELSE [ch EXCEPT !.rx = @ + 1]
              drain == Holding \/ Full \/ DrainDue(c)
              R == IF drain THEN {"Drain"} ELSE {}
  <2>1. SameWrite(c) /\ c.dfcRequest = ch.dfcRequest /\ R \subseteq {"Drain"}
    BY DEF SameWrite, WriteFields, WriteInv, WriteTypes
  <2>2. QueueDfc(c, R) /\ Apart /\ UNCHANGED client
    BY <1>3 DEF PutChar, Goto
  <2>. HIDE DEF c, R
  <2>3. SameWrite(ch') /\ ch'.dfcRequest \subseteq ch.dfcRequest \cup {"Drain"}
    BY <2>1, <2>2 DEF QueueDfc, Queued, SameWrite, WriteFields
  <2>. QED  BY <1>h, <2>2, <2>3
<1>4. ASSUME LineState  PROVE Carries
  <2>1. CASE "lines" \in host.status
    BY <1>4, <2>1, StateIsrCarries DEF LineState
  <2>2. CASE "lines" \notin host.status
    <3>1. Plain
      BY <1>4, <1>h, <2>2 DEF LineState, Goto
    <3>. QED  BY <3>1, <1>0
  <2>. QED  BY <2>1, <2>2
<1>5. ASSUME DriverCommand \/ Gather  PROVE WriteInv'
  <2>1. Apart
    BY <1>5 DEF DriverCommand, Gather, Goto
  <2>2. CASE TransmitIsr
    BY <2>1, <2>2, IsrWrite
  <2>3. CASE UNCHANGED <<ch, client>>
    BY <1>0, <1>h, <2>1, <2>3, Carried
  <2>. QED
    BY <1>5, <2>2, <2>3 DEF DriverCommand, Transmit, StopPort, StartPort, NoCommand, Gather
<1>. QED
  BY <1>0, <1>1, <1>2, <1>3, <1>4, <1>5, Carried DEF CommNext

LEMMA WriteInvInductive == Spec => []WriteInv
<1>1. Init => WriteInv
  <2>. SUFFICES ASSUME Init  PROVE WriteInv
    OBVIOUS
  <2>. USE WriteConstants
  <2>1. /\ WriteFields(ch) /\ ch.tx = <<>> /\ ch.transmitLength = 0 /\ ch.isWriting = FALSE
        /\ ch.isClientWriting = FALSE /\ ch.writeZero = FALSE /\ ch.dfcRequest = {}
    BY DEF Init, WriteFields, HeldValues
  <2>2. /\ ClientFields(client) /\ client.writes = 0 /\ client.writing = 0
        /\ client.sent = [w \in Writes |-> 0] /\ client.length = [w \in Writes |-> 0]
        /\ client.result = [w \in Writes |-> "none"]
    BY DEF Init, ClientFields
  <2>3. pc["dfc"] = "idle" /\ pc["client"] = "idle"
    BY DEF Init, Threads
  <2>4. WriteTypes /\ BufferInv
    <3>1. client.sent \in [Writes -> Nat] /\ client.length \in [Writes -> Nat]
      BY <2>2
    <3>2. WriteTypes
      <4>1. ch.tx \in Seq(Nat) /\ Len(ch.tx) <= TxSize /\ ch.transmitLength \in Nat
        BY <2>1
      <4>2. /\ ch.isWriting \in BOOLEAN /\ ch.isClientWriting \in BOOLEAN
            /\ ch.writeZero \in BOOLEAN
        BY <2>1
      <4>3. DOMAIN client.result = Writes /\ client.writes \in Nat
            /\ client.writing \in {0, client.writes}
        BY <2>2
      <4>. QED  BY <2>1, <2>2, <3>1, <4>1, <4>2, <4>3 DEF WriteTypes
    <3>3. BufferInv
      BY <2>1, <2>2 DEF BufferInv
    <3>. QED  BY <3>2, <3>3
  <2>5. DoneInv
    <3>1. ASSUME NEW w \in Writes  PROVE ~Done(w)
      <4>1. w \in 1..w
        BY DEF Writes
      <4>. QED  BY <2>2, <4>1 DEF Done
    <3>. QED  BY <3>1 DEF DoneInv
  <2>6. CleanInv
    BY <2>1, <2>2, <2>3 DEF CleanInv, InWrite, FillingIn, Alive, CompletionDue
  <2>. QED  BY <2>4, <2>5, <2>6 DEF WriteInv
<1>2. DfcInv /\ AskInv /\ FillInv /\ SectionInv /\ WriteInv /\ [Next]_vars => WriteInv'
  <2>. SUFFICES ASSUME DfcInv, AskInv, FillInv, SectionInv, WriteInv, [Next]_vars
                PROVE  WriteInv'
    OBVIOUS
  <2>1. CASE HostNext \/ UNCHANGED vars
    <3>1. UNCHANGED <<ch, pc, ret, client>>
      BY <2>1 DEF HostNext, CharArrives, HostWrites, LineChanges, vars
    <3>2. Carries
      BY <3>1 DEF Carries, SameWrite, SameClient, InWrite, FillingIn, CompletionDue,
                  BeforeFills, Draining, WriteInv, WriteTypes
    <3>. QED  BY <3>2, Carried
  <2>. QED  BY <2>1, ClientWrite, DfcWrite, CommWrite DEF Next
<1>. QED  BY <1>1, <1>2, DfcInvInductive, FillInvInductive, SectionInvInductive, PTL DEF Spec

\* A write completed without an error, after writes completed without one, had
\* all its characters taken for sending exactly once, for every buffer, length,
\* client and bound; and whatever the idle timer, CTS and XON/XOFF do.
THEOREM WritesAlwaysMeanSent == Spec => []WriteMeansSent
<1>1. ASSUME WriteInv  PROVE WriteMeansSent
  <2>. SUFFICES ASSUME NEW w \in Writes, client.result[w] = "KErrNone",
                       \A v \in 1..w - 1 : client.result[v] = "KErrNone"
                PROVE  client.sent[w] = client.length[w]
    BY DEF WriteMeansSent
  <2>1. Done(w)
    <3>1. \A v \in 1..w : v = w \/ v \in 1..w - 1
      BY WriteConstants DEF Writes
    <3>. QED  BY <3>1 DEF Done
  <2>. QED  BY <1>1, <2>1 DEF WriteInv, DoneInv
<1>2. WriteInv => WriteMeansSent
  BY <1>1
<1>. QED  BY <1>2, WriteInvInductive, PTL
-----------------------------------------------------------------------------
(* A reader is served *)

\* The client's thread changes the configuration; the channel was never started,
\* or was stopped, and nobody reads; the buffer will be drained; ReceiveIsr has
\* held the other side off and not yet put the character.
ConfigReturns == {"cfgStopped", "cfgStart", "cfgStarted", "configured"}
Configuring   == pc["client"] \in ConfigReturns
                 \/ (pc["client"] = "wait" /\ ret["client"] \in ConfigReturns)
Unused        == pc["client"] = "idle" /\ ~ch.active /\ ~ch.isReading
DrainPending  == \/ "Drain" \in ch.dfcRequest \/ pc["dfc"] \in {"Drain", "drain"}
                 \/ pc["client"] = "drain"
HoldingOff    == pc["comm"] = "put" /\ Holding

ReadFields(c) ==
  /\ {"rx", "receiveLength", "receiveError", "isReading", "draining", "rts", "active",
      "sendXoff", "inputHeld", "dfcRequest"} \subseteq DOMAIN c
  /\ c.rx \in Nat /\ c.receiveLength \in Nat
  /\ c.receiveError \in BOOLEAN /\ c.isReading \in BOOLEAN /\ c.rts \in BOOLEAN
  /\ c.active \in BOOLEAN /\ c.sendXoff \in BOOLEAN

\* A read that is outstanding and not about to be looked at has less than it
\* asked for, and RTS invites the rest, but while the port is started for it.
ReadWaits ==
  /\ ch.receiveLength > 0 \/ (ch.receiveError /\ pc["client"] = "drain")
  /\ ~Configuring
  /\ ~DrainPending => ~ch.receiveError /\ ch.rx < ch.receiveLength
  /\ ~DrainPending /\ ~ch.rts /\ ~Asking => HoldingOff

\* Without XON/XOFF: RTS is down only with more than the low mark in the
\* buffer and the input marked held, so that a drain puts it up again.
RtsInv ==
  /\ ch.inputHeld \in {KInputHeld, KInputHeldFree}
  /\ ~ch.draining /\ pc["client"] # "xon"
  /\ ch.isReading => ReadWaits
  /\ ~ch.rts /\ ~Asking /\ ~Configuring /\ ~Unused
       => ch.inputHeld = KInputHeld /\ ch.rx > Low

ReadInv ==
  /\ ReadFields(ch) /\ "reading" \in DOMAIN client
  /\ client.reading = ch.isReading
  /\ ~ch.sendXoff => RtsInv

\* A channel that says of the read what ch does.
SameRead(c) ==
  /\ ReadFields(c)
  /\ c.rx = ch.rx /\ c.receiveLength = ch.receiveLength /\ c.receiveError = ch.receiveError
  /\ c.isReading = ch.isReading /\ c.rts = ch.rts /\ c.active = ch.active
  /\ c.sendXoff = ch.sendXoff

\* What the other parts of a step leave alone: the requests of the DFC that
\* matter, and where the client's thread and the comm thread are.
ReadMoves ==
  /\ DrainPending => DrainPending'
  /\ pc["comm"] = "put" => pc'["comm"] = "put"
  /\ Configuring' = Configuring /\ (Asking => Asking')
  /\ Unused => Unused' \/ Asking'
  /\ pc["client"] = "drain" => pc'["client"] = "drain"
  /\ pc'["client"] = "xon" => pc["client"] = "xon"

LEMMA ReadConstants ==
  /\ Low \in Nat /\ High \in Nat /\ Low < High /\ Length \in Nat /\ ReadLens \subseteq Int \ {0}
  BY Eka1Assumption

LEMMA ReadCarried ==
  ASSUME ReadInv, SameRead(ch'), "reading" \in DOMAIN client',
         client'.reading = client.reading,
         ~ch.sendXoff => ReadMoves /\ ch'.inputHeld = ch.inputHeld /\ ~ch'.draining
  PROVE  ReadInv'
<1>1. ReadFields(ch') /\ client'.reading = ch'.isReading /\ ch'.sendXoff = ch.sendXoff
  BY DEF ReadInv, SameRead
<1>2. ASSUME ~ch.sendXoff  PROVE RtsInv'
  <2>0. /\ DrainPending \in BOOLEAN /\ DrainPending' \in BOOLEAN /\ Asking' \in BOOLEAN
        /\ Asking \in BOOLEAN /\ Configuring \in BOOLEAN /\ Configuring' \in BOOLEAN
        /\ Unused \in BOOLEAN /\ Unused' \in BOOLEAN
    BY <1>1 DEF DrainPending, Asking, Configuring, Unused, ReadInv, ReadFields
  <2>1. RtsInv /\ ReadMoves
    BY <1>2 DEF ReadInv
  <2>2. HoldingOff => HoldingOff'
    BY <2>1 DEF SameRead, ReadMoves, HoldingOff, Holding
  <2>3. ch'.isReading => ReadWaits'
    BY <2>0, <2>1, <2>2 DEF RtsInv, ReadWaits, ReadMoves, SameRead
  <2>. QED  BY <1>2, <2>0, <2>1, <2>3 DEF RtsInv, ReadMoves, SameRead
<1>. QED  BY <1>1, <1>2 DEF ReadInv

\* EnableTransmit, with XON/XOFF: then nothing is said of the buffer.
LEMMA TransmitRead ==
  ASSUME ReadInv, ch.sendXoff, NEW t, NEW c, NEW p, NEW next, EnableTransmit(t, c, p, next),
         SameRead(c), "reading" \in DOMAIN client', client'.reading = client.reading
  PROVE  ReadInv'
<1>1. SameRead(ch')
  BY DEF EnableTransmit, SameRead, ReadFields
<1>. QED  BY <1>1, ReadCarried DEF SameRead

\* EnableTransmit without: the client's thread and the DFC wait, the comm thread
\* is not where ReceiveIsr puts the character.
LEMMA TransmitReadMoves ==
  ASSUME Shape, NEW t \in Threads, NEW c, NEW p, NEW next, EnableTransmit(t, c, p, next),
         ch'.dfcRequest = ch.dfcRequest, ch'.active = ch.active, ch'.isReading = ch.isReading,
         t = "client" => /\ pc["client"] \notin {"idle", "drain", "wait", "start", "started", "active"}
                         /\ pc["client"] \notin ConfigReturns
                         /\ next \in {"idle", "filled"},
         t = "dfc" => pc["dfc"] \notin {"Drain", "drain"},
         t = "comm" => pc["comm"] # "put"
  PROVE  ReadMoves
<1>1. DrainPending => DrainPending'
  BY DEF Shape, Threads, EnableTransmit, RunCommThread, Goto, DrainPending
<1>2. /\ pc["comm"] = "put" => pc'["comm"] = "put"
      /\ pc["client"] = "drain" => pc'["client"] = "drain"
      /\ pc'["client"] = "xon" => pc["client"] = "xon"
  BY DEF Shape, Threads, EnableTransmit, RunCommThread, Goto
<1>3. Asking' = Asking /\ Configuring' = Configuring
  BY DEF Shape, Threads, EnableTransmit, RunCommThread, Goto, Asking, Configuring, ConfigReturns
<1>4. Unused => Unused'
  BY DEF Shape, Threads, EnableTransmit, RunCommThread, Goto, Unused
<1>. QED  BY <1>1, <1>2, <1>3, <1>4 DEF ReadMoves

LEMMA StateIsrRead ==
  ASSUME Shape, ReadInv, NEW t \in {"client", "comm"}, NEW cts,
         NEW next \in {"idle", "leave"}, StateIsr(t, cts, next), UNCHANGED client,
         t = "client" => next = "idle" /\ pc["client"] \in {"stateOn", "stateOff"},
         t = "comm" => pc["comm"] # "put"
  PROVE  ReadInv'
<1>. DEFINE x == [ch EXCEPT !.outputHeld = FALSE]
            y == [ch EXCEPT !.outputHeld = ~cts]
<1>0. /\ SameRead(x) /\ x.dfcRequest = ch.dfcRequest /\ x.inputHeld = ch.inputHeld
      /\ x.draining = ch.draining
      /\ SameRead(y) /\ y.dfcRequest = ch.dfcRequest /\ y.inputHeld = ch.inputHeld
      /\ y.draining = ch.draining
  BY DEF ReadInv, SameRead, ReadFields
<1>1. ~ch.sendXoff => ~ch.draining
  BY DEF ReadInv, RtsInv
<1>2. "reading" \in DOMAIN client' /\ client'.reading = client.reading
  BY DEF ReadInv
<1>3. CASE ch.writeZero /\ cts /\ ch.isClientWriting /\ ch.tx = <<>>
  <2>1. QueueDfc(ch, {"CompleteWrite"}) /\ Goto(t, next) /\ UNCHANGED ret
    BY <1>3 DEF StateIsr
  <2>2. /\ SameRead(ch') /\ ch'.inputHeld = ch.inputHeld /\ ch'.draining = ch.draining
        /\ ch.dfcRequest \subseteq ch'.dfcRequest
    BY <2>1 DEF QueueDfc, Queued, ReadInv, SameRead, ReadFields
  <2>3. ReadMoves
    BY <2>1, <2>2 DEF Shape, Threads, Goto, ReadMoves, DrainPending, Asking, Configuring,
                      ConfigReturns, Unused, SameRead
  <2>. QED  BY <1>1, <1>2, <2>2, <2>3, ReadCarried
<1>4. CASE /\ ~(ch.writeZero /\ cts /\ ch.isClientWriting /\ ch.tx = <<>>)
           /\ cts /\ ch.isWriting
  <2>1. EnableTransmit(t, x, Enabled(port), next)
    BY <1>4 DEF StateIsr
  <2>. HIDE DEF x
  <2>2. /\ SameRead(ch') /\ ch'.inputHeld = ch.inputHeld /\ ch'.draining = ch.draining
        /\ ch'.dfcRequest = ch.dfcRequest
    BY <1>0, <2>1 DEF EnableTransmit, SameRead, ReadFields
  <2>3. ReadMoves
    BY <2>1, <2>2, TransmitReadMoves DEF SameRead, Threads, ConfigReturns
  <2>. QED  BY <1>1, <1>2, <2>2, <2>3, ReadCarried
<1>5. CASE /\ ~(ch.writeZero /\ cts /\ ch.isClientWriting /\ ch.tx = <<>>)
           /\ ~(cts /\ ch.isWriting)
  <2>1. ch' = y /\ Goto(t, next) /\ UNCHANGED ret
    BY <1>5 DEF StateIsr
  <2>. HIDE DEF y
  <2>2. ReadMoves
    BY <1>0, <2>1 DEF Shape, Threads, Goto, ReadMoves, DrainPending, Asking, Configuring,
                      ConfigReturns, Unused, SameRead
  <2>. QED  BY <1>0, <1>1, <1>2, <2>1, <2>2, ReadCarried
<1>. QED  BY <1>3, <1>4, <1>5

LEMMA CopyRead ==
  ASSUME Shape, ReadInv, NEW t \in {"client", "dfc"}, Copy(t)
  PROVE  ReadInv'
<1>. DEFINE n == Lesser(ch.transmitLength, TxSize - Len(ch.tx))
            c == [ch EXCEPT !.transmitLength = @ - n,
                            !.tx = @ \o [i \in 1..n |-> client.writes]]
<1>0. CASE CopiesNothing(t)
  <2>1. UNCHANGED <<ch, client, ret>> /\ Goto(t, "filled") /\ pc[t] = "copy"
    BY <1>0 DEF Copy, CopiesNothing
  <2>2. SameRead(ch')
    BY <2>1 DEF ReadInv, SameRead, ReadFields
  <2>3. ReadMoves
    BY <2>1 DEF Shape, Threads, Goto, ReadMoves, DrainPending, Asking, Configuring,
                ConfigReturns, Unused, SameRead
  <2>. QED  BY <2>1, <2>2, <2>3, ReadCarried DEF ReadInv, RtsInv
<1>. SUFFICES ASSUME ~CopiesNothing(t)  PROVE ReadInv'
  BY <1>0
<1>1. EnableTransmit(t, c, port, "filled") /\ UNCHANGED client /\ pc[t] = "copy"
  BY DEF Copy, CopiesNothing
<1>2. /\ SameRead(c) /\ c.dfcRequest = ch.dfcRequest /\ c.inputHeld = ch.inputHeld
      /\ c.draining = ch.draining
  BY DEF ReadInv, SameRead, ReadFields
<1>. HIDE DEF c
<1>3. /\ SameRead(ch') /\ ch'.inputHeld = ch.inputHeld /\ ch'.draining = ch.draining
      /\ ch'.dfcRequest = ch.dfcRequest
  BY <1>1, <1>2 DEF EnableTransmit, SameRead, ReadFields
<1>4. ReadMoves
  BY <1>1, <1>3, TransmitReadMoves DEF SameRead, Threads, ConfigReturns
<1>. QED  BY <1>1, <1>3, <1>4, ReadCarried DEF ReadInv, RtsInv

\* A drain leaves a reader less than it asked for, or ends its read; and at the
\* low mark it invites the other side again.
LEMMA DrainRead ==
  ASSUME Shape, ReadInv, NEW t \in {"client", "dfc"}, Drain(t)
  PROVE  ReadInv'
<1>. DEFINE copy == Lesser(ch.receiveLength, ch.rx)
            ends == ch.receiveError \/ copy = ch.receiveLength
            c    == [ch EXCEPT !.rx = @ - copy, !.receiveLength = @ - copy,
                               !.isReading = ~ends,
                               !.receiveError = IF ends THEN FALSE ELSE @]
            x    == [c EXCEPT !.inputHeld = XonChar, !.draining = TRUE]
            r    == [c EXCEPT !.rts = TRUE, !.inputHeld = KInputHeldFree]
            skip == ~ch.isReading \/ ch.draining \/ (ch.rx = 0 /\ ~ch.receiveError)
<1>. USE ReadConstants
<1>1. /\ copy \in Nat /\ copy <= ch.rx /\ copy <= ch.receiveLength
      /\ ch.rx \in Nat /\ ch.receiveLength \in Nat
      /\ copy = ch.rx \/ copy = ch.receiveLength
  BY DEF Lesser, ReadInv, ReadFields
<1>2. /\ ReadFields(c) /\ c.rx = ch.rx - copy /\ c.receiveLength = ch.receiveLength - copy
      /\ c.isReading = ~ends /\ (ends \/ c.receiveError = FALSE) /\ c.rts = ch.rts
      /\ c.active = ch.active /\ c.sendXoff = ch.sendXoff /\ c.inputHeld = ch.inputHeld
      /\ c.draining = ch.draining /\ c.dfcRequest = ch.dfcRequest
  <2>1. ReadFields(ch) /\ DOMAIN c = DOMAIN ch
    BY DEF ReadInv
  <2>2. /\ c.rx = ch.rx - copy /\ c.receiveLength = ch.receiveLength - copy
        /\ c.isReading = ~ends /\ c.receiveError = (IF ends THEN FALSE ELSE ch.receiveError)
        /\ c.rts = ch.rts /\ c.active = ch.active /\ c.sendXoff = ch.sendXoff
        /\ c.inputHeld = ch.inputHeld /\ c.draining = ch.draining
        /\ c.dfcRequest = ch.dfcRequest
    <3>. HIDE DEF copy, ends
    <3>. QED  BY <2>1 DEF ReadFields
  <2>3. ends \in BOOLEAN /\ (~ends => ~ch.receiveError)
    BY <2>1 DEF ReadFields
  <2>. HIDE DEF copy, ends, c
  <2>4. ReadFields(c)
    <3>1. c.rx \in Nat /\ c.receiveLength \in Nat
      BY <1>1, <2>2
    <3>2. c.isReading \in BOOLEAN /\ c.receiveError \in BOOLEAN
      BY <2>1, <2>2 DEF ReadFields
    <3>. QED  BY <2>1, <2>2, <3>1, <3>2 DEF ReadFields
  <2>. QED  BY <2>1, <2>2, <2>3, <2>4 DEF ReadFields
<1>. HIDE DEF copy, c
<1>3. /\ ReadFields(x) /\ x.isReading = ~ends /\ x.sendXoff = ch.sendXoff
      /\ ReadFields(r) /\ r.rx = c.rx /\ r.receiveLength = c.receiveLength
      /\ r.isReading = ~ends /\ r.receiveError = c.receiveError /\ r.rts = TRUE
      /\ r.active = ch.active /\ r.sendXoff = ch.sendXoff /\ r.inputHeld = KInputHeldFree
      /\ r.draining = ch.draining /\ r.dfcRequest = ch.dfcRequest
  BY <1>2 DEF ReadFields
<1>. HIDE DEF x, r, ends
<1>4. CASE skip
  <2>1. /\ UNCHANGED <<ch, client, ret>> /\ Goto(t, After(t))
    BY <1>4 DEF Drain
  <2>2. ASSUME ~ch.sendXoff  PROVE RtsInv'
    <3>1. RtsInv
      BY <2>2 DEF ReadInv
    <3>2. /\ Asking' = Asking /\ Configuring' = Configuring /\ pc'["client"] # "xon"
          /\ Unused => Unused'
      BY <2>1, <3>1 DEF Drain, Shape, Threads, Goto, After, Asking, Configuring, ConfigReturns,
                        Unused, RtsInv
    <3>3. ASSUME ch.isReading
          PROVE  ch.receiveLength > 0 /\ ~Configuring /\ ~ch.receiveError
                 /\ ch.rx < ch.receiveLength /\ (ch.rts \/ Asking)
      <4>1. ch.rx = 0 /\ ~ch.receiveError
        BY <1>4, <3>1, <3>3 DEF RtsInv
      <4>. QED  BY <1>1, <3>1, <3>3, <4>1 DEF RtsInv, ReadWaits, Unused
    <3>4. ch'.isReading => ReadWaits'
      BY <2>1, <3>2, <3>3 DEF ReadWaits
    <3>. QED  BY <2>1, <3>1, <3>2, <3>4 DEF RtsInv
  <2>. QED  BY <2>1, <2>2 DEF ReadInv
<1>5. CASE ~skip
  <2>1. client' = (IF ends THEN ReadDone ELSE client)
    BY <1>5 DEF Drain, ends, copy
  <2>2. ch.isReading /\ client.reading
    BY <1>5 DEF ReadInv
  <2>3. "reading" \in DOMAIN client' /\ client'.reading = ~ends
    BY <2>1, <2>2 DEF ReadDone, ReadInv, ends
  <2>4. CASE Resumes(c) /\ ch.sendXoff
    <3>1. EnableTransmit(t, x, port, "drained")
      BY <1>5, <2>4 DEF Drain, x, c, ends, copy
    <3>2. ReadFields(ch') /\ ch'.isReading = ~ends /\ ch'.sendXoff = ch.sendXoff
      BY <1>3, <3>1 DEF EnableTransmit, ReadFields
    <3>. QED  BY <2>3, <2>4, <3>2 DEF ReadInv
  <2>5. CASE ~(Resumes(c) /\ ch.sendXoff)
    <3>1. ch' = (IF Resumes(c) THEN r ELSE c) /\ Goto(t, After(t)) /\ UNCHANGED ret
      BY <1>5, <2>5 DEF Drain, r, c, ends, copy
    <3>2. ReadFields(ch') /\ ch'.isReading = ~ends /\ ch'.sendXoff = ch.sendXoff
      BY <1>2, <1>3, <3>1
    <3>3. ASSUME ~ch.sendXoff  PROVE RtsInv'
      <4>1. RtsInv /\ ReadWaits /\ ~Unused
        BY <2>2, <3>3 DEF ReadInv, RtsInv, Unused
      <4>2. /\ Asking' = Asking /\ Configuring' = Configuring /\ pc'["client"] # "xon"
        BY <3>1, <4>1 DEF Drain, Shape, Threads, Goto, After, Asking, Configuring,
                          ConfigReturns, RtsInv
      <4>3. ~Asking => ch.rts \/ (ch.inputHeld = KInputHeld /\ ch.rx > Low)
        BY <4>1 DEF RtsInv, ReadWaits
      <4>4. /\ ch'.inputHeld \in {KInputHeld, KInputHeldFree} /\ ~ch'.draining
            /\ ch'.rx = ch.rx - copy /\ ch'.receiveLength = ch.receiveLength - copy
            /\ ends \/ ch'.receiveError = FALSE
        BY <1>2, <1>3, <3>1, <4>1 DEF RtsInv
      <4>5. ~Asking /\ ~ch'.rts => ch'.inputHeld = KInputHeld /\ ch'.rx > Low
        <5>. SUFFICES ASSUME ~Asking, ~ch'.rts
                      PROVE  ch'.inputHeld = KInputHeld /\ ch'.rx > Low
          OBVIOUS
        <5>1. ~Resumes(c) /\ ch' = c /\ ~ch.rts
          BY <1>2, <1>3, <3>1
        <5>2. c.inputHeld = KInputHeld /\ ~(c.rx <= Low)
          BY <1>2, <4>3, <5>1 DEF Resumes
        <5>. QED  BY <1>1, <1>2, <5>1, <5>2
      <4>6. ASSUME ~ends  PROVE ReadWaits'
        <5>1. copy = ch.rx /\ copy < ch.receiveLength
          BY <1>1, <4>6 DEF ends
        <5>2. ch'.rx = 0 /\ ch'.receiveLength > 0 /\ ch'.receiveError = FALSE
          BY <1>1, <4>4, <4>6, <5>1
        <5>3. ch'.rts \/ Asking
          BY <4>5, <5>2
        <5>. QED  BY <4>1, <4>2, <5>2, <5>3 DEF ReadWaits
      <4>. QED  BY <3>2, <4>2, <4>4, <4>5, <4>6 DEF RtsInv
    <3>. QED  BY <2>3, <3>2, <3>3 DEF ReadInv
  <2>. QED  BY <2>4, <2>5
<1>. QED  BY <1>4, <1>5

\* A read begins, and is looked at before anything else.
LEMMA BeginsRead ==
  ASSUME Shape, AskInv, ReadInv, BeginRead
  PROVE  ReadInv'
<1>. USE ReadConstants
<1>0. client.todo[2] \in Int \ {0} /\ pc["client"] = "Read"
  BY DEF BeginRead, Client, AskInv
<1>1. ReadLength(client.todo[2]) \in Nat
      /\ (ReadLength(client.todo[2]) > 0 \/ ch.receiveError)
  BY <1>0 DEF ReadLength, Greater, Lesser, ReadInv, ReadFields
<1>2. /\ ReadFields(ch') /\ ch'.rx = ch.rx /\ ch'.receiveError = ch.receiveError
      /\ ch'.receiveLength = ReadLength(client.todo[2]) /\ ch'.isReading = TRUE
      /\ ch'.rts = ch.rts /\ ch'.active = ch.active /\ ch'.sendXoff = ch.sendXoff
      /\ ch'.inputHeld = ch.inputHeld /\ ch'.draining = ch.draining
  BY <1>1 DEF BeginRead, ReadInv, ReadFields
<1>3. "reading" \in DOMAIN client' /\ client'.reading = TRUE
  BY DEF BeginRead, ReadInv
<1>4. ASSUME ~ch.sendXoff  PROVE RtsInv'
  <2>1. RtsInv
    BY <1>4 DEF ReadInv
  <2>2. pc'["client"] = "drain" /\ UNCHANGED ret
    BY <1>4 DEF BeginRead, Goto, Shape, Threads
  <2>3. ~Asking /\ ~Configuring /\ ~Unused /\ ~Asking' /\ ~Configuring' /\ ~Unused' /\ DrainPending'
    BY <1>0, <2>2 DEF Asking, Configuring, ConfigReturns, Unused, DrainPending
  <2>4. ReadWaits'
    BY <1>1, <1>2, <2>2, <2>3 DEF ReadWaits
  <2>. QED  BY <1>2, <2>1, <2>2, <2>3, <2>4 DEF RtsInv
<1>. QED  BY <1>2, <1>3, <1>4 DEF ReadInv

\* The buffer is emptied, when the port is started and when it is purged.
LEMMA EmptiedRead ==
  ASSUME ReadInv
  PROVE  LET e == Emptied(ch)
         IN  /\ ReadFields(e) /\ e.rx = 0 /\ e.receiveError = FALSE
             /\ e.receiveLength = ch.receiveLength /\ e.isReading = ch.isReading
             /\ e.rts = ch.rts /\ e.active = ch.active /\ e.sendXoff = ch.sendXoff
             /\ e.inputHeld = ch.inputHeld /\ e.draining = ch.draining
  BY DEF Emptied, ReadInv, ReadFields

LEMMA StartRead ==
  ASSUME Shape, ReadInv, Start
  PROVE  ReadInv'
<1>1. /\ ReadFields(ch') /\ ch'.rx = 0 /\ ch'.receiveError = FALSE
      /\ ch'.receiveLength = ch.receiveLength /\ ch'.isReading = ch.isReading
      /\ ch'.rts = ch.rts /\ ch'.sendXoff = ch.sendXoff
      /\ ch'.inputHeld = ch.inputHeld /\ ch'.draining = ch.draining
  BY EmptiedRead DEF Start
<1>2. /\ pc["client"] = "start" /\ pc'["client"] = "wait" /\ ret'["client"] = "started"
      /\ UNCHANGED client
  BY DEF Start, Client, RunCommThread, Goto, Shape, Threads
<1>3. ASSUME ~ch.sendXoff  PROVE RtsInv'
  <2>1. RtsInv
    BY <1>3 DEF ReadInv
  <2>2. Asking' /\ ~Configuring'
    BY <1>2 DEF Asking, Configuring, ConfigReturns
  <2>3. ch'.isReading => ReadWaits'
    BY <1>1, <1>2, <2>1, <2>2 DEF RtsInv, ReadWaits, ReadFields
  <2>. QED  BY <1>1, <1>2, <2>1, <2>2, <2>3 DEF RtsInv
<1>. QED  BY <1>1, <1>2, <1>3 DEF ReadInv

LEMMA ActivateRead ==
  ASSUME Shape, AskInv, ReadInv, Activate
  PROVE  ReadInv'
<1>1. pc["client"] = "active" /\ client.todo[1] \in {"Read", "Write"}
  BY DEF Activate, Client, AskInv, Asking
<1>2. /\ ReadFields(ch') /\ ch'.rx = ch.rx /\ ch'.receiveError = ch.receiveError
      /\ ch'.receiveLength = ch.receiveLength /\ ch'.isReading = ch.isReading
      /\ ch'.rts = TRUE /\ ch'.sendXoff = ch.sendXoff /\ ch'.dfcRequest = ch.dfcRequest
      /\ ch'.inputHeld = (IF ch.sendXoff THEN XonChar ELSE KInputHeldFree)
      /\ ch'.draining = ch.draining
  BY DEF Activate, ReadInv, ReadFields
<1>3. /\ pc'["client"] \in {"Read", "Write"} /\ pc'["dfc"] = pc["dfc"]
      /\ UNCHANGED <<ret, client>>
  BY <1>1 DEF Activate, Goto, Shape, Threads
<1>4. ASSUME ~ch.sendXoff  PROVE RtsInv'
  <2>1. RtsInv
    BY <1>4 DEF ReadInv
  <2>2. ~Configuring' /\ (DrainPending => DrainPending')
    BY <1>1, <1>2, <1>3 DEF Configuring, ConfigReturns, DrainPending
  <2>3. ch'.isReading => ReadWaits'
    BY <1>1, <1>2, <2>1, <2>2 DEF RtsInv, ReadWaits
  <2>. QED  BY <1>2, <1>3, <1>4, <2>1, <2>2, <2>3 DEF RtsInv
<1>. QED  BY <1>2, <1>3, <1>4 DEF ReadInv

LEMMA SetConfigRead ==
  ASSUME Shape, ReadInv, NEW kind, SetConfig(kind)
  PROVE  ReadInv'
<1>1. /\ ReadFields(ch') /\ ch'.isReading = FALSE /\ ch.isReading = FALSE
      /\ ch'.sendXoff = ch.sendXoff /\ ch'.inputHeld = ch.inputHeld /\ ch'.draining = ch.draining
      /\ "reading" \in DOMAIN client' /\ client'.reading = client.reading
  BY DEF SetConfig, ReadInv, ReadFields
<1>2. pc'["client"] = "wait" /\ Configuring'
  BY DEF SetConfig, RunCommThread, Goto, Shape, Threads, Configuring, ConfigReturns
<1>. QED  BY <1>1, <1>2 DEF ReadInv, RtsInv

\* A purge empties the buffer and puts RTS up; nobody reads meanwhile.
LEMMA ConfigStoppedRead ==
  ASSUME Shape, ReadInv, ConfigStopped
  PROVE  ReadInv'
<1>. DEFINE c == [Emptied(ch) EXCEPT !.rts = TRUE]
            x == [c EXCEPT !.inputHeld = XonChar]
            f == [c EXCEPT !.inputHeld = KInputHeldFree]
<1>0. /\ ReadFields(x) /\ x.isReading = ch.isReading /\ x.sendXoff = ch.sendXoff
      /\ ReadFields(f) /\ f.isReading = ch.isReading /\ f.sendXoff = ch.sendXoff
      /\ f.rts = TRUE /\ f.inputHeld = KInputHeldFree /\ f.draining = ch.draining
  <2>. DEFINE e == Emptied(ch)
  <2>1. /\ ReadFields(e) /\ e.isReading = ch.isReading /\ e.sendXoff = ch.sendXoff
        /\ e.draining = ch.draining
    BY EmptiedRead
  <2>. HIDE DEF e
  <2>2. /\ ReadFields(c) /\ c.isReading = ch.isReading /\ c.sendXoff = ch.sendXoff
        /\ c.rts = TRUE /\ c.draining = ch.draining
    <3>1. c = [e EXCEPT !.rts = TRUE]
      BY DEF e
    <3>. HIDE DEF c
    <3>. QED  BY <2>1, <3>1 DEF ReadFields
  <2>. HIDE DEF c
  <2>. QED  BY <2>2 DEF ReadFields
<1>1. /\ pc["client"] = "cfgStopped" /\ UNCHANGED client /\ Configuring
      /\ "reading" \in DOMAIN client' /\ client'.reading = ch.isReading
  BY DEF ConfigStopped, Client, Configuring, ConfigReturns, ReadInv
<1>2. CASE client.todo[1] = "restart"
  <2>1. UNCHANGED ch /\ Goto("client", "cfgStart") /\ UNCHANGED ret
    BY <1>2 DEF ConfigStopped
  <2>2. ReadMoves
    BY <1>1, <2>1 DEF Shape, Threads, Goto, ReadMoves, DrainPending, Asking, Configuring,
                      ConfigReturns, Unused
  <2>. QED  BY <1>1, <2>1, <2>2, ReadCarried DEF ReadInv, SameRead, RtsInv
<1>3. CASE client.todo[1] # "restart" /\ ch.sendXoff
  <2>1. EnableTransmit("client", x, Stopped(port), "cfgStart")
    BY <1>3 DEF ConfigStopped
  <2>. HIDE DEF x
  <2>2. ReadFields(ch') /\ ch'.isReading = ch.isReading /\ ch'.sendXoff = ch.sendXoff
    BY <1>0, <2>1 DEF EnableTransmit, ReadFields
  <2>. QED  BY <1>1, <1>3, <2>2 DEF ReadInv
<1>4. CASE client.todo[1] # "restart" /\ ~ch.sendXoff
  <2>1. ch' = f /\ Goto("client", "cfgStart")
    BY <1>4 DEF ConfigStopped
  <2>. HIDE DEF f
  <2>2. RtsInv /\ ~ch.isReading
    BY <1>1, <1>4 DEF ReadInv, RtsInv, ReadWaits
  <2>3. pc'["client"] = "cfgStart"
    BY <2>1 DEF Goto, Shape, Threads
  <2>4. RtsInv'
    BY <1>0, <2>1, <2>2, <2>3 DEF RtsInv
  <2>. QED  BY <1>0, <1>1, <2>1, <2>4 DEF ReadInv
<1>. QED  BY <1>2, <1>3, <1>4

LEMMA ConfiguredRead ==
  ASSUME Shape, ReadInv, Configured
  PROVE  ReadInv'
<1>1. /\ ReadFields(ch') /\ ch'.isReading = ch.isReading /\ ch'.sendXoff = ch.sendXoff
      /\ ch'.rts = TRUE /\ ch'.inputHeld = KInputHeld /\ ch'.draining = ch.draining
      /\ "reading" \in DOMAIN client' /\ client'.reading = client.reading
  BY DEF Configured, ReadInv, ReadFields
<1>2. Configuring /\ pc'["client"] = "idle"
  BY DEF Configured, Client, Goto, Shape, Threads, Configuring, ConfigReturns
<1>. QED  BY <1>1, <1>2 DEF ReadInv, RtsInv, ReadWaits

LEMMA CancelReadRead ==
  ASSUME ReadInv, CancelRead
  PROVE  ReadInv'
<1>1. /\ ReadFields(ch') /\ ch'.isReading = FALSE /\ ch.isReading = TRUE
      /\ ch'.sendXoff = ch.sendXoff /\ ch'.rts = ch.rts /\ ch'.inputHeld = ch.inputHeld
      /\ ch'.rx = ch.rx /\ ch'.draining = ch.draining
      /\ "reading" \in DOMAIN client' /\ client'.reading = FALSE
      /\ UNCHANGED <<pc, ret>>
  BY DEF CancelRead, ReadDone, ReadInv, ReadFields
<1>2. Asking' = Asking /\ Configuring' = Configuring /\ ~Unused
  BY <1>1 DEF Asking, Configuring, Unused
<1>. QED  BY <1>1, <1>2 DEF ReadInv, RtsInv

LEMMA ClientRead ==
  ASSUME DfcInv, AskInv, ReadInv, ClientNext
  PROVE  ReadInv'
<1>. USE DEF DfcInv
<1>. DEFINE Held == /\ SameRead(ch') /\ ch'.dfcRequest = ch.dfcRequest
                    /\ ch'.inputHeld = ch.inputHeld
                    /\ ~ch.sendXoff => ~ch'.draining
            Reader == "reading" \in DOMAIN client' /\ client'.reading = client.reading
            Plain == Held /\ Reader /\ ReadMoves
<1>0. Plain => ReadInv'
  BY ReadCarried
<1>h. /\ SameRead(ch)
      /\ UNCHANGED ch => Held
      /\ UNCHANGED client => Reader
  BY DEF SameRead, ReadInv, RtsInv
<1>m. ASSUME Held, NEW next, Goto("client", next), UNCHANGED ret,
             pc["client"] \notin {"drain", "wait"}, next \notin {"wait", "xon"},
             pc["client"] \in ConfigReturns <=> next \in ConfigReturns,
             pc["client"] \in {"start", "started", "active"} => next \in {"start", "started", "active"},
             pc["client"] = "idle" /\ ~ch.active => next = "start"
      PROVE  ReadMoves
  BY <1>m DEF Shape, Threads, Goto, ReadMoves, DrainPending, Asking, Configuring, Unused
<1>1. ASSUME NEW n, AskRead(n) \/ AskWrite(n)  PROVE Plain
  <2>1. PICK op \in {"Read", "Write"} : Ask(op, n)
    BY <1>1 DEF AskRead, AskWrite
  <2>2. Held /\ Reader /\ UNCHANGED ret /\ pc["client"] = "idle"
    BY <2>1, <1>h DEF Ask, Client, ReadInv
  <2>3. CASE ch.active
    BY <2>1, <2>2, <2>3, <1>m DEF Ask, ConfigReturns
  <2>4. CASE ~ch.active
    BY <2>1, <2>2, <2>4, <1>m DEF Ask, ConfigReturns
  <2>. QED  BY <2>3, <2>4
<1>2. ASSUME NEW l, NEW next, Started(l, next),
             \/ l = "started" /\ next = "active"
             \/ l = "cfgStarted" /\ next = "configured"
      PROVE ReadInv'
  <2>1. CASE ch.sendXoff /\ ch.inputHeld >= 0
    <3>1. EnableTransmit("client", ch, port, next) /\ UNCHANGED client
      BY <1>2, <2>1 DEF Started
    <3>. QED  BY <1>h, <2>1, <3>1, TransmitRead
  <2>2. CASE ~(ch.sendXoff /\ ch.inputHeld >= 0)
    <3>1. /\ pc["client"] = l /\ Goto("client", next)
          /\ UNCHANGED <<ret, ch, client>>
      BY <1>2, <2>2 DEF Started, Client
    <3>2. ReadMoves
      BY <1>2, <1>h, <1>m, <3>1 DEF ConfigReturns
    <3>. QED  BY <1>0, <1>h, <3>1, <3>2
  <2>. QED  BY <2>1, <2>2
<1>3. ASSUME SendXon  PROVE ReadInv'
  <2>. DEFINE c == [ch EXCEPT !.inputHeld = XonChar]
  <2>1. SameRead(c) /\ ch.sendXoff
    BY <1>3 DEF SendXon, Client, SameRead, ReadFields, ReadInv, RtsInv
  <2>2. EnableTransmit("client", c, port, "drain") /\ UNCHANGED client
    BY <1>3 DEF SendXon
  <2>. HIDE DEF c
  <2>. QED  BY <1>h, <2>1, <2>2, TransmitRead
<1>4. ASSUME CancelWrite  PROVE Plain
  <2>1. Held /\ Reader
    BY <1>4 DEF CancelWrite, WriteDone, SameRead, ReadFields, ReadInv, RtsInv
  <2>2. ReadMoves
    BY <1>4, <2>1 DEF CancelWrite, ReadMoves, DrainPending, Asking, Configuring, Unused, SameRead
  <2>. QED  BY <2>1, <2>2
<1>5. ASSUME ConfigStart  PROVE Plain
  <2>1. ReadMoves
    BY <1>5 DEF ConfigStart, Client, RunCommThread, Goto, Shape, Threads, ReadMoves, DrainPending,
                Asking, Configuring, ConfigReturns, Unused
  <2>. QED  BY <1>5, <1>h, <2>1 DEF ConfigStart
<1>6. ASSUME BeginWrite  PROVE Plain
  <2>1. Held /\ Reader
    BY <1>6 DEF BeginWrite, SameRead, ReadFields, ReadInv, RtsInv
  <2>2. PICK next \in {"state", "fill"} : Goto("client", next)
    BY <1>6 DEF BeginWrite
  <2>3. pc["client"] = "Write" /\ UNCHANGED ret
    BY <1>6 DEF BeginWrite, Client
  <2>4. ReadMoves
    BY <1>m, <2>1, <2>2, <2>3 DEF ConfigReturns
  <2>. QED  BY <2>1, <2>4
<1>7. ASSUME Written \/ ReadLines \/ Drained("client") \/ Fill("client") \/ Filled("client")
      PROVE Plain
  <2>1. Held /\ Reader
    BY <1>7 DEF Written, ReadLines, Drained, Fill, Filled, SameRead, ReadFields, ReadInv, RtsInv
  <2>2. PICK next \in {"state", "stateOn", "stateOff", "idle", "written", "copy"} :
          Goto("client", next)
    BY <1>7 DEF Written, ReadLines, Drained, After, Fill, Filled
  <2>3. pc["client"] \in {"written", "state", "drained", "fill", "filled"} /\ UNCHANGED ret
    BY <1>7 DEF Written, ReadLines, Drained, Fill, Filled
  <2>4. ReadMoves
    BY <1>m, <2>1, <2>2, <2>3 DEF ConfigReturns
  <2>. QED  BY <2>1, <2>4
<1>8. ASSUME Acknowledged("client")  PROVE Plain
  <2>1. Held /\ Reader
    BY <1>8, <1>h DEF Acknowledged
  <2>2. ReadMoves
    BY <1>8, <2>1 DEF Acknowledged, Goto, Shape, Threads, AskInv, ClientReturns, ReadMoves,
                      DrainPending, Asking, Configuring, ConfigReturns, Unused
  <2>. QED  BY <2>1, <2>2
<1>9. ASSUME ClientState  PROVE ReadInv'
  BY <1>9, StateIsrRead DEF ClientState
<1>. QED
  BY <1>0, <1>1, <1>2, <1>3, <1>4, <1>5, <1>6, <1>7, <1>8, <1>9, SetConfigRead, StartRead,
     ActivateRead, BeginsRead, CancelReadRead, ConfigStoppedRead, ConfiguredRead, DrainRead,
     CopyRead DEF ClientNext

LEMMA DfcRead ==
  ASSUME DfcInv, ReadInv, DfcNext
  PROVE  ReadInv'
<1>. USE DEF DfcInv, Shape, Threads
<1>. DEFINE Held == /\ SameRead(ch') /\ ch'.inputHeld = ch.inputHeld
                    /\ ~ch.sendXoff => ~ch'.draining
            Reader == "reading" \in DOMAIN client' /\ client'.reading = client.reading
            Apart == \A u \in {"client", "comm"} : pc'[u] = pc[u] /\ ret'[u] = ret[u]
            Plain == Held /\ Reader /\ Apart /\ (~ch.sendXoff /\ DrainPending => DrainPending')
<1>0. Plain => ReadInv'
  <2>. SUFFICES ASSUME Plain  PROVE ReadInv'
    OBVIOUS
  <2>1. ASSUME ~ch.sendXoff  PROVE ReadMoves
    BY <2>1 DEF ReadMoves, Asking, Configuring, Unused, SameRead
  <2>. QED  BY <2>1, ReadCarried
<1>h. /\ UNCHANGED ch => Held
      /\ UNCHANGED client => Reader
  BY DEF SameRead, ReadInv, RtsInv
<1>1. ASSUME StartDfc \/ DfcCalls \/ Timeout \/ TimeoutStopped \/ Acknowledged("dfc")
      PROVE Plain
  <2>1. Held /\ Reader /\ Apart
    BY <1>1, <1>h DEF StartDfc, DfcCalls, Timeout, TimeoutStopped, Acknowledged, RunCommThread, Goto
  <2>2. ~ch.sendXoff /\ DrainPending => DrainPending'
    BY <1>1, <2>1 DEF StartDfc, DfcCalls, Timeout, TimeoutStopped, Acknowledged, RunCommThread,
                      Goto, DrainPending, ReadInv, RtsInv
  <2>. QED  BY <2>1, <2>2
<1>2. ASSUME TakeRequest  PROVE Plain
  <2>1. Held /\ ch'.dfcRequest = ch.dfcRequest \ {First}
    BY <1>2 DEF TakeRequest, SameRead, ReadFields, ReadInv, RtsInv
  <2>2. /\ Reader /\ Apart /\ pc["dfc"] = "loop" /\ pc'["dfc"] = First
        /\ pc'["client"] = pc["client"]
    BY <1>2 DEF TakeRequest, Goto, ReadInv
  <2>3. DrainPending => DrainPending'
    BY <2>1, <2>2 DEF DrainPending, First
  <2>. QED  BY <2>1, <2>2, <2>3
<1>3. ASSUME EndDfc  PROVE Plain
  <2>1. Held /\ ch'.dfcRequest = ch.dfcRequest
    BY <1>3 DEF EndDfc, SameRead, ReadFields, ReadInv, RtsInv
  <2>. QED  BY <1>3, <2>1 DEF EndDfc, Goto, DrainPending, ReadInv
<1>4. ASSUME CompleteWrite  PROVE Plain
  <2>1. Held /\ ch'.dfcRequest = ch.dfcRequest
    BY <1>4 DEF CompleteWrite, SameRead, ReadFields, ReadInv, RtsInv
  <2>2. Reader
    BY <1>4 DEF CompleteWrite, WriteDone, ReadInv
  <2>. QED  BY <1>4, <2>1, <2>2 DEF CompleteWrite, Goto, DrainPending
<1>5. ASSUME Drained("dfc") \/ Fill("dfc") \/ Filled("dfc")  PROVE Plain
  <2>1. Held /\ ch'.dfcRequest = ch.dfcRequest
    BY <1>5 DEF Drained, Fill, Filled, SameRead, ReadFields, ReadInv, RtsInv
  <2>. QED  BY <1>5, <2>1 DEF Drained, Fill, Filled, Goto, DrainPending, ReadInv
<1>6. ASSUME ResetDevice  PROVE ReadInv'
  <2>1. /\ ReadFields(ch') /\ ch'.isReading = FALSE /\ ch'.active = FALSE /\ ch'.draining = FALSE
        /\ ch'.rx = ch.rx /\ ch'.rts = ch.rts /\ ch'.sendXoff = ch.sendXoff
        /\ ch'.inputHeld = ch.inputHeld
    BY <1>6 DEF ResetDevice, ReadFields, ReadInv
  <2>2. "reading" \in DOMAIN client' /\ client'.reading = FALSE
    BY <1>6 DEF ResetDevice, WriteDone, ReadInv
  <2>3. Apart
    BY <1>6 DEF ResetDevice, Goto
  <2>4. /\ Asking' = Asking /\ Configuring' = Configuring
        /\ Unused => Unused'
    BY <2>1, <2>3 DEF Asking, Configuring, Unused
  <2>5. ASSUME ~ch.sendXoff  PROVE RtsInv'
    BY <2>1, <2>3, <2>4, <2>5 DEF ReadInv, RtsInv
  <2>. QED  BY <2>1, <2>2, <2>5 DEF ReadInv
<1>. QED
  BY <1>0, <1>1, <1>2, <1>3, <1>4, <1>5, <1>6, DrainRead, CopyRead DEF DfcNext

\* ReceiveIsr holds the other side off above the high mark only.
LEMMA ReceiveRead ==
  ASSUME Shape, ReadInv, Receive
  PROVE  ReadInv'
<1>. USE ReadConstants
<1>. DEFINE x == [ch EXCEPT !.inputHeld = XoffChar]
            y == [ch EXCEPT !.rts = FALSE, !.inputHeld = KInputHeld]
<1>0. /\ SameRead(x)
      /\ ReadFields(y) /\ y.rx = ch.rx /\ y.receiveLength = ch.receiveLength
      /\ y.receiveError = ch.receiveError /\ y.isReading = ch.isReading
      /\ y.sendXoff = ch.sendXoff /\ y.inputHeld = KInputHeld /\ y.draining = ch.draining
      /\ y.active = ch.active /\ y.dfcRequest = ch.dfcRequest
  BY DEF SameRead, ReadFields, ReadInv
<1>1. /\ pc["comm"] = "recv" /\ UNCHANGED client
      /\ "reading" \in DOMAIN client' /\ client'.reading = client.reading
  BY DEF Receive, Comm, ReadInv
<1>2. CASE Holding /\ ch.sendXoff
  <2>1. EnableTransmit("comm", x, port, "put")
    BY <1>2 DEF Receive
  <2>. HIDE DEF x
  <2>. QED  BY <1>0, <1>1, <1>2, <2>1, TransmitRead
<1>3. CASE Holding /\ ~ch.sendXoff
  <2>1. ch' = y /\ Goto("comm", "put") /\ UNCHANGED ret
    BY <1>3 DEF Receive
  <2>. HIDE DEF y
  <2>2. /\ pc'["comm"] = "put" /\ pc'["client"] = pc["client"] /\ pc'["dfc"] = pc["dfc"]
    BY <2>1 DEF Goto, Shape, Threads
  <2>3. /\ Asking' = Asking /\ Configuring' = Configuring /\ Unused' = Unused
        /\ DrainPending' = DrainPending
    BY <1>0, <2>1, <2>2 DEF Asking, Configuring, Unused, DrainPending
  <2>4. HoldingOff' /\ ch'.rx > Low
    BY <1>0, <1>3, <2>1, <2>2 DEF HoldingOff, Holding, ReadInv, ReadFields
  <2>5. RtsInv
    BY <1>3 DEF ReadInv
  <2>6. ch'.isReading => ReadWaits'
    BY <1>0, <2>1, <2>2, <2>3, <2>4, <2>5 DEF RtsInv, ReadWaits
  <2>7. RtsInv'
    BY <1>0, <2>1, <2>2, <2>4, <2>5, <2>6 DEF RtsInv
  <2>. QED  BY <1>0, <1>1, <2>1, <2>7 DEF ReadInv
<1>4. CASE ~Holding
  <2>1. UNCHANGED ch /\ Goto("comm", "put") /\ UNCHANGED ret
    BY <1>4 DEF Receive
  <2>2. ReadMoves
    BY <1>1, <2>1 DEF Goto, Shape, Threads, ReadMoves, DrainPending, Asking, Configuring, Unused
  <2>. QED  BY <1>1, <2>1, <2>2, ReadCarried DEF ReadInv, SameRead, RtsInv
<1>. QED  BY <1>2, <1>3, <1>4

\* A character that leaves the buffer held off, full, or with what the reader
\* asked for asks for a drain.
LEMMA PutCharRead ==
  ASSUME Shape, ReadInv, PutChar
  PROVE  ReadInv'
<1>. DEFINE c == IF Full THEN [ch EXCEPT !.receiveError = TRUE]
                 ELSE [ch EXCEPT !.rx = @ + 1]
            drain == Holding \/ Full \/ DrainDue(c)
            R == IF drain THEN {"Drain"} ELSE {}
<1>1. /\ ReadFields(c) /\ c.rx = (IF Full THEN ch.rx ELSE ch.rx + 1)
      /\ c.receiveError = (IF Full THEN TRUE ELSE ch.receiveError)
      /\ c.receiveLength = ch.receiveLength /\ c.isReading = ch.isReading /\ c.rts = ch.rts
      /\ c.active = ch.active /\ c.sendXoff = ch.sendXoff /\ c.inputHeld = ch.inputHeld
      /\ c.draining = ch.draining /\ c.dfcRequest = ch.dfcRequest
  <2>1. CASE Full
    BY <2>1 DEF ReadInv, ReadFields
  <2>2. CASE ~Full
    BY <2>2 DEF ReadInv, ReadFields
  <2>. QED  BY <2>1, <2>2
<1>2. QueueDfc(c, R) /\ UNCHANGED <<client, ret>>
  BY DEF PutChar
<1>. HIDE DEF c
<1>3. /\ ReadFields(ch') /\ ch'.rx = c.rx /\ ch'.receiveError = c.receiveError
      /\ ch'.receiveLength = ch.receiveLength /\ ch'.isReading = ch.isReading
      /\ ch'.rts = ch.rts /\ ch'.active = ch.active /\ ch'.sendXoff = ch.sendXoff
      /\ ch'.inputHeld = ch.inputHeld /\ ch'.draining = ch.draining
      /\ ch.dfcRequest \subseteq ch'.dfcRequest /\ (drain => "Drain" \in ch'.dfcRequest)
  <2>. HIDE DEF drain
  <2>. QED  BY <1>1, <1>2 DEF QueueDfc, Queued, ReadFields
<1>4. /\ pc["comm"] = "put" /\ pc'["client"] = pc["client"] /\ pc'["dfc"] = pc["dfc"]
      /\ "reading" \in DOMAIN client' /\ client'.reading = client.reading
  BY <1>2 DEF PutChar, Comm, Goto, Shape, Threads, ReadInv
<1>5. /\ Asking' = Asking /\ Configuring' = Configuring /\ Unused' = Unused
      /\ DrainPending => DrainPending'
      /\ drain => DrainPending'
  BY <1>2, <1>3, <1>4 DEF Asking, Configuring, Unused, DrainPending
<1>6. ch'.rx \in Nat /\ ch.rx \in Nat /\ ch'.rx >= ch.rx /\ ch.receiveLength \in Nat
  BY <1>1, <1>3 DEF ReadInv, ReadFields
<1>7. ASSUME ~ch.sendXoff  PROVE RtsInv'
  <2>1. RtsInv
    BY <1>7 DEF ReadInv
  <2>2. ASSUME ch.isReading  PROVE ReadWaits'
    <3>1. ReadWaits
      BY <2>1, <2>2 DEF RtsInv
    <3>2. ASSUME ~DrainPending'
          PROVE  ~ch'.receiveError /\ ch'.rx < ch'.receiveLength /\ (ch.rts \/ Asking)
      <4>1. ~drain /\ ~DrainPending /\ ~ch.receiveError /\ ch.receiveLength > 0
            /\ (ch.rts \/ Asking \/ HoldingOff)
        BY <1>5, <3>1, <3>2 DEF ReadWaits
      <4>2. ~Full /\ ~HoldingOff /\ ~(ch.receiveLength <= c.rx)
        BY <1>1, <2>2, <4>1 DEF DrainDue, HoldingOff
      <4>. QED  BY <1>1, <1>3, <1>6, <4>1, <4>2
    <3>3. ch'.receiveError \/ ~ch.receiveError
      BY <1>1, <1>3
    <3>. QED  BY <1>3, <1>4, <1>5, <3>1, <3>2, <3>3 DEF ReadWaits
  <2>3. ch.rx > Low => ch'.rx > Low
    BY <1>6, ReadConstants
  <2>. QED  BY <1>3, <1>4, <1>5, <2>1, <2>2, <2>3 DEF RtsInv
<1>. QED  BY <1>3, <1>4, <1>7 DEF ReadInv

LEMMA CommRead ==
  ASSUME DfcInv, ReadInv, CommNext
  PROVE  ReadInv'
<1>. USE DEF DfcInv, Shape, Threads
<1>. DEFINE Held == /\ SameRead(ch') /\ ch.dfcRequest \subseteq ch'.dfcRequest
                    /\ ~ch.sendXoff => ch'.inputHeld = ch.inputHeld /\ ~ch'.draining
            Reader == "reading" \in DOMAIN client' /\ client'.reading = client.reading
            Apart == \A u \in {"client", "dfc"} : pc'[u] = pc[u] /\ ret'[u] = ret[u]
            Plain == Held /\ Reader /\ Apart /\ pc["comm"] # "put"
<1>0. Plain => ReadInv'
  <2>. SUFFICES ASSUME Plain  PROVE ReadInv'
    OBVIOUS
  <2>1. ReadMoves
    BY DEF ReadMoves, DrainPending, Asking, Configuring, Unused, SameRead
  <2>. QED  BY <2>1, ReadCarried
<1>h. /\ UNCHANGED ch => Held
      /\ UNCHANGED client => Reader
  BY DEF SameRead, ReadInv, RtsInv
<1>1. ASSUME WaitForEvent \/ EnterSignal \/ Leave \/ EnterWrite \/ WriteOut \/ Acknowledged("comm")
      PROVE Plain
  BY <1>1, <1>h DEF WaitForEvent, EnterSignal, Leave, EnterWrite, WriteOut, Acknowledged, Comm, Goto
<1>2. ASSUME LineState  PROVE ReadInv'
  <2>1. CASE "lines" \in host.status
    BY <1>2, <2>1, StateIsrRead DEF LineState, Comm
  <2>2. CASE "lines" \notin host.status
    <3>1. Plain
      BY <1>2, <1>h, <2>2 DEF LineState, Comm, Goto
    <3>. QED  BY <3>1, <1>0
  <2>. QED  BY <2>1, <2>2
<1>3. ASSUME DriverCommand \/ Gather  PROVE Plain
  <2>1. Apart /\ pc["comm"] # "put"
    BY <1>3 DEF DriverCommand, Gather, Comm, Goto
  <2>2. CASE TransmitIsr
    <3>1. QueueDfc(IsrChannel, IsrRequests)
      BY <2>2 DEF TransmitIsr
    <3>2. /\ SameRead(IsrChannel) /\ IsrChannel.dfcRequest = ch.dfcRequest
          /\ IsrChannel.draining = ch.draining
      BY DEF IsrChannel, SameRead, ReadFields, ReadInv
    <3>3. ~ch.sendXoff => IsrChannel.inputHeld = ch.inputHeld /\ ~ch.draining
      BY DEF IsrChannel, Idle, KInputHeld, KInputHeldFree, ReadInv, ReadFields, RtsInv
    <3>4. Held
      <4>. DEFINE c == IsrChannel
                  R == IsrRequests
      <4>. HIDE DEF c, R
      <4>1. QueueDfc(c, R)
        BY <3>1 DEF c, R
      <4>2. /\ SameRead(c) /\ c.dfcRequest = ch.dfcRequest /\ c.draining = ch.draining
            /\ ~ch.sendXoff => c.inputHeld = ch.inputHeld /\ ~ch.draining
        BY <3>2, <3>3 DEF c
      <4>. QED  BY <4>1, <4>2 DEF QueueDfc, Queued, SameRead, ReadFields
    <3>5. Reader
      BY <2>2 DEF TransmitIsr, SentOne, ReadInv
    <3>. QED  BY <2>1, <3>4, <3>5
  <2>3. CASE UNCHANGED <<ch, client>>
    BY <1>h, <2>1, <2>3
  <2>. QED
    BY <1>3, <2>2, <2>3 DEF DriverCommand, Transmit, StopPort, StartPort, NoCommand, Gather
<1>. QED
  BY <1>0, <1>1, <1>2, <1>3, ReceiveRead, PutCharRead DEF CommNext

LEMMA ReadInvInductive == Spec => []ReadInv
<1>1. Init => ReadInv
  <2>. SUFFICES ASSUME Init  PROVE ReadInv
    OBVIOUS
  <2>1. left.sendXoff \in BOOLEAN
    BY Eka1Assumption DEF Init, BudgetType
  <2>2. /\ ReadFields(ch) /\ ch.inputHeld = KInputHeldFree /\ ch.draining = FALSE
        /\ ch.isReading = FALSE /\ ch.active = FALSE
    BY <2>1 DEF Init, ReadFields
  <2>3. "reading" \in DOMAIN client /\ client.reading = FALSE /\ pc["client"] = "idle"
    BY DEF Init, Threads
  <2>. QED  BY <2>2, <2>3 DEF ReadInv, RtsInv, Unused
<1>2. DfcInv /\ AskInv /\ ReadInv /\ [Next]_vars => ReadInv'
  <2>. SUFFICES ASSUME DfcInv, AskInv, ReadInv, [Next]_vars
                PROVE  ReadInv'
    OBVIOUS
  <2>1. CASE HostNext \/ UNCHANGED vars
    <3>1. UNCHANGED <<ch, pc, ret, client>>
      BY <2>1 DEF HostNext, CharArrives, HostWrites, LineChanges, vars
    <3>2. ReadMoves
      BY <3>1 DEF ReadMoves, DrainPending, Asking, Configuring, Unused
    <3>. QED  BY <3>1, <3>2, ReadCarried DEF SameRead, ReadInv, RtsInv
  <2>. QED  BY <2>1, ClientRead, DfcRead, CommRead DEF Next
<1>. QED  BY <1>1, <1>2, DfcInvInductive, FillInvInductive, PTL DEF Spec

\* A reader without XON/XOFF is never left waiting on what is already in the
\* buffer, nor with RTS down, for every buffer, mark, length, client and bound.
THEOREM ReadersAlwaysServed == Spec => []ReaderServed
<1>1. ASSUME DfcInv, ReadInv  PROVE ReaderServed
  <2>. SUFFICES ASSUME Quiet, client.reading, ~ch.sendXoff
                PROVE  ch.rx < ch.receiveLength /\ ch.rts
    BY DEF ReaderServed
  <2>1. pc["client"] = "idle" /\ pc["dfc"] = "idle" /\ pc["comm"] = "idle" /\ ~dfcQueued
    BY DEF Quiet, Threads
  <2>2. ch.dfcRequest = {}
    BY <1>1, <2>1 DEF DfcInv, DfcRequestsServed, InDfcHandler
  <2>3. ReadWaits
    BY <1>1 DEF ReadInv, RtsInv
  <2>. QED  BY <2>1, <2>2, <2>3 DEF ReadWaits, DrainPending, Asking, HoldingOff
<1>2. DfcInv /\ ReadInv => ReaderServed
  BY <1>1
<1>. QED  BY <1>2, DfcInvInductive, ReadInvInductive, PTL
-----------------------------------------------------------------------------
(* Types *)

PortFields(p) ==
  /\ {"command", "commSem", "drvSem"} \subseteq DOMAIN p
  /\ p.command \in Commands /\ p.commSem \in Nat /\ p.drvSem \in Nat

TypeInv == TypeOK /\ PortFields(port)

LEMMA CommandTypes ==
  ASSUME doing \in Commands, NEW p, PortFields(p), NEW t, NEW command \in Commands, NEW next,
         RunCommThread(t, p, command, next)
  PROVE  PortFields(port') /\ doing' \in Commands
<1>1. CASE t = "comm"
  BY <1>1 DEF RunCommThread, PortFields
<1>2. CASE t # "comm"
  <2>1. port' = [p EXCEPT !.command = command, !.commSem = @ + 1] /\ UNCHANGED doing
    BY <1>2 DEF RunCommThread
  <2>2. PortFields(port')
    BY <2>1 DEF PortFields
  <2>. QED  BY <2>1, <2>2
<1>. QED  BY <1>1, <1>2

LEMMA TransmitTypes ==
  ASSUME TypeInv, NEW t, NEW c \in Channel, NEW p, PortFields(p), NEW next,
         EnableTransmit(t, c, p, next), UNCHANGED owner
  PROVE  TypeInv'
<1>1. ch' \in Channel
  <2>1. [c EXCEPT !.transmitting = TRUE] \in Channel
    BY DEF Channel
  <2>. QED  BY <2>1 DEF EnableTransmit
<1>2. PortFields(port') /\ doing' \in Commands
  <2>1. "ETransmit" \in Commands /\ doing \in Commands
    BY DEF Commands, TypeInv, TypeOK
  <2>. QED  BY <2>1, CommandTypes DEF EnableTransmit
<1>. QED  BY <1>1, <1>2 DEF TypeInv, TypeOK, PortFields

LEMMA DrainTypes ==
  ASSUME TypeInv, NEW t \in {"client", "dfc"}, Drain(t)
  PROVE  TypeInv'
<1>. DEFINE copy == Lesser(ch.receiveLength, ch.rx)
            ends == ch.receiveError \/ copy = ch.receiveLength
            c    == [ch EXCEPT !.rx = @ - copy, !.receiveLength = @ - copy,
                               !.isReading = ~ends,
                               !.receiveError = IF ends THEN FALSE ELSE @]
            x    == [c EXCEPT !.inputHeld = XonChar, !.draining = TRUE]
            r    == [c EXCEPT !.rts = TRUE, !.inputHeld = KInputHeldFree]
<1>1. c \in Channel
  <2>1. /\ ch.rx - copy \in 0..Length /\ ch.receiveLength - copy \in Nat
        /\ ends \in BOOLEAN /\ ch.receiveError \in BOOLEAN /\ ch \in Channel
    BY Eka1Assumption DEF Lesser, TypeInv, TypeOK, Channel
  <2>. HIDE DEF copy, ends
  <2>. QED  BY <2>1 DEF Channel
<1>. HIDE DEF c
<1>2. x \in Channel /\ r \in Channel
  BY <1>1 DEF Channel
<1>. HIDE DEF x, r
<1>3. ch \in Channel /\ PortFields(port) /\ PortFields(Enabled(port)) /\ doing \in Commands
      /\ owner \in Threads \cup {"none"} /\ t \in Threads
  BY DEF TypeInv, TypeOK, PortFields, Enabled, Threads
<1>4. CASE ~ch.isReading \/ ch.draining \/ (ch.rx = 0 /\ ~ch.receiveError)
  BY <1>3, <1>4 DEF Drain, TypeInv, TypeOK, PortFields
<1>5. CASE /\ ~(~ch.isReading \/ ch.draining \/ (ch.rx = 0 /\ ~ch.receiveError))
           /\ ~(Resumes(c) /\ ch.sendXoff)
  <2>1. ch' \in {c, r} /\ port' = Enabled(port) /\ UNCHANGED <<doing, owner>>
    BY <1>5 DEF Drain, c, r
  <2>. QED  BY <1>1, <1>2, <1>3, <2>1 DEF TypeInv, TypeOK, PortFields
<1>6. CASE /\ ~(~ch.isReading \/ ch.draining \/ (ch.rx = 0 /\ ~ch.receiveError))
           /\ Resumes(c) /\ ch.sendXoff
  <2>1. owner' = t /\ EnableTransmit(t, x, port, "drained")
    BY <1>6 DEF Drain, c, x
  <2>2. ch' \in Channel /\ PortFields(port') /\ doing' \in Commands
    <3>1. [x EXCEPT !.transmitting = TRUE] \in Channel
      BY <1>2 DEF Channel
    <3>2. "ETransmit" \in Commands
      BY DEF Commands
    <3>. QED  BY <1>2, <1>3, <2>1, <3>1, <3>2, CommandTypes DEF EnableTransmit
  <2>. QED  BY <1>3, <2>1, <2>2 DEF TypeInv, TypeOK, PortFields
<1>. QED  BY <1>4, <1>5, <1>6

\* The writes that began, the one that is asked for and those left in the budget
\* are never more than MaxWrites.
WriteAsked == pc["client"] = "Write" \/ (Asking /\ client.todo[1] = "Write")

BudgetInv ==
  /\ "writes" \in DOMAIN left /\ left.writes \in Nat
  /\ client.writes + left.writes + (IF WriteAsked THEN 1 ELSE 0) <= MaxWrites

LEMMA ClientSpends ==
  ASSUME BudgetInv, WriteInv, ClientNext
  PROVE  /\ client'.writes = client.writes \/ BeginWrite
         /\ left'.writes = left.writes \/ \E n \in WriteLens : AskWrite(n)
         /\ "writes" \in DOMAIN left'
<1>1. ClientFields(client) /\ "writes" \in DOMAIN left
  BY DEF BudgetInv, WriteInv, WriteTypes
<1>2. ASSUME ~\E n \in WriteLens : AskWrite(n)
      PROVE  left'.writes = left.writes /\ "writes" \in DOMAIN left'
  BY <1>1, <1>2 DEF ClientNext, AskRead, Spend, SetConfig, Start, Started, Activate, BeginRead,
     SendXon, BeginWrite, CancelRead, CancelWrite, ConfigStopped, ConfigStart, Configured,
     Written, ReadLines, ClientState, Acknowledged, Drain, Drained, Fill, Copy, Filled
<1>3. ASSUME NEW n, AskWrite(n)  PROVE "writes" \in DOMAIN left'
  BY <1>1, <1>3 DEF AskWrite, Spend
<1>4. ASSUME ~BeginWrite  PROVE client'.writes = client.writes
  BY <1>1, <1>4 DEF ClientFields, ClientNext, AskRead, AskWrite, Ask, SetConfig, Start, Started,
     Activate, BeginRead, SendXon, CancelRead, CancelWrite, ReadDone, WriteDone, ConfigStopped,
     ConfigStart, Configured, Written, ReadLines, ClientState, Acknowledged, Drain, Drained,
     Fill, Copy, Filled
<1>. QED  BY <1>2, <1>3, <1>4

LEMMA OthersSpend ==
  ASSUME BudgetInv, WriteInv, DfcNext \/ CommNext \/ HostNext \/ UNCHANGED vars
  PROVE  client'.writes = client.writes /\ left'.writes = left.writes /\ "writes" \in DOMAIN left'
<1>1. ClientFields(client) /\ "writes" \in DOMAIN left
  BY DEF BudgetInv, WriteInv, WriteTypes
<1>2. ASSUME TransmitIsr \/ UNCHANGED client  PROVE client'.writes = client.writes
  BY <1>1, <1>2 DEF ClientFields, TransmitIsr, SentOne
<1>3. CASE DfcNext
  BY <1>1, <1>3 DEF ClientFields, DfcNext, StartDfc, TakeRequest, EndDfc, DfcCalls,
     CompleteWrite, Timeout, TimeoutStopped, ResetDevice, Acknowledged, Drain, Drained, Fill,
     Filled, Copy, ReadDone, WriteDone
<1>4. CASE CommNext
  <2>1. (TransmitIsr \/ UNCHANGED client) /\ UNCHANGED left
    BY <1>4 DEF CommNext, WaitForEvent, EnterSignal, Receive, PutChar, LineState, Leave,
       DriverCommand, Transmit, StopPort, StartPort, NoCommand, EnterWrite, Gather,
       WriteOut, Acknowledged
  <2>. QED  BY <1>1, <1>2, <2>1
<1>5. CASE HostNext \/ UNCHANGED vars
  BY <1>1, <1>5 DEF HostNext, CharArrives, HostWrites, LineChanges, Spend, vars
<1>. QED  BY <1>3, <1>4, <1>5

LEMMA BudgetHolds ==
  ASSUME DfcInv, AskInv, WriteInv, BudgetInv, [Next]_vars
  PROVE  BudgetInv'
<1>. DEFINE Numbers == /\ client.writes \in Nat /\ left.writes \in Nat /\ MaxWrites \in Nat
                       /\ client.writes + left.writes + (IF WriteAsked THEN 1 ELSE 0) <= MaxWrites
<1>0. Numbers
  BY WriteConstants DEF BudgetInv, WriteInv, WriteTypes
<1>1. ASSUME client'.writes = client.writes, left'.writes = left.writes,
             "writes" \in DOMAIN left', WriteAsked' => WriteAsked
      PROVE  BudgetInv'
  BY <1>0, <1>1 DEF BudgetInv
<1>2. ASSUME NothingAsked  PROVE WriteAsked' => WriteAsked
  BY <1>2 DEF NothingAsked, WriteAsked
<1>3. CASE ClientNext
  <2>. USE DEF DfcInv, Shape, Threads
  <2>1. CASE BeginWrite
    <3>1. WriteAsked /\ ~WriteAsked' /\ client'.writes = client.writes + 1 /\ UNCHANGED left
      <4>1. client'.writes = client.writes + 1 /\ UNCHANGED left /\ pc["client"] = "Write"
        BY <2>1 DEF BeginWrite, Client, WriteInv, WriteTypes, ClientFields
      <4>2. pc'["client"] \in {"state", "fill"}
        BY <2>1 DEF BeginWrite, Goto
      <4>. QED  BY <4>1, <4>2 DEF WriteAsked, Asking
    <3>. QED  BY <1>0, <3>1 DEF BudgetInv
  <2>2. CASE \E n \in WriteLens : AskWrite(n)
    <3>1. PICK n \in WriteLens : AskWrite(n)
      BY <2>2
    <3>2. ~WriteAsked /\ left.writes > 0 /\ left'.writes = left.writes - 1
          /\ "writes" \in DOMAIN left'
      BY <3>1 DEF AskWrite, Ask, Client, Spend, WriteAsked, Asking, BudgetInv
    <3>3. client'.writes = client.writes
      BY <3>1 DEF AskWrite, Ask, WriteInv, WriteTypes, ClientFields
    <3>. QED  BY <1>0, <3>2, <3>3 DEF BudgetInv
  <2>3. CASE ~BeginWrite /\ ~\E n \in WriteLens : AskWrite(n)
    <3>1. /\ client'.writes = client.writes /\ left'.writes = left.writes
          /\ "writes" \in DOMAIN left'
      BY <1>3, <2>3, ClientSpends
    <3>2. ASSUME NEW n, AskRead(n)  PROVE ~WriteAsked'
      BY <3>2 DEF AskRead, Ask, Client, Goto, WriteAsked, Asking, AskInv
    <3>3. ASSUME NEW kind, SetConfig(kind)  PROVE ~WriteAsked'
      BY <3>3 DEF SetConfig, RunCommThread, Goto, WriteAsked, Asking
    <3>4. ASSUME Activate  PROVE WriteAsked' => WriteAsked
      BY <3>4 DEF Activate, Client, Goto, WriteAsked, Asking, AskInv
    <3>. QED  BY <1>1, <1>2, <1>3, <2>3, <3>1, <3>2, <3>3, <3>4, ClientGoesOn
  <2>. QED  BY <2>1, <2>2, <2>3
<1>4. CASE DfcNext \/ CommNext \/ HostNext \/ UNCHANGED vars
  BY <1>1, <1>2, <1>4, OthersAsk, OthersSpend
<1>. QED  BY <1>3, <1>4 DEF Next

LEMMA TypeConstants ==
  Length \in Nat /\ TxSize \in Nat \ {0} /\ ReadLens \subseteq Int \ {0} /\ WriteLens \subseteq Nat
  BY Eka1Assumption

\* The buffer has characters of writes there were only, as WriteInv has it.
LEMMA BufferOfWrites ==
  ASSUME NEW s \in Seq(Nat), NEW w \in Nat, w <= MaxWrites,
         \A i \in 1..Len(s) : s[i] \in 1..w
  PROVE  s \in Seq(Writes)
<1>1. \A i \in 1..Len(s) : s[i] \in Writes
  BY WriteConstants DEF Writes
<1>. QED  BY <1>1, ElementOfSeq, LenProperties, SeqDef

LEMMA TypesKept ==
  ASSUME TypeInv, ch' \in Channel, PortFields(port'), doing' = doing, owner' \in Threads \cup {"none"}
  PROVE  TypeInv'
  BY DEF TypeInv, TypeOK, PortFields

LEMMA QueuedTypes ==
  ASSUME NEW c \in Channel, NEW R \in SUBSET Requests
  PROVE  Queued(c, R) \in Channel
<1>. DEFINE d == c.dfcRequest \cup R
<1>1. d \in SUBSET Requests
  BY DEF Channel
<1>2. Queued(c, R) = (IF R = {} THEN c ELSE [c EXCEPT !.dfcRequest = d, !.runningDfc = TRUE])
  BY DEF Queued
<1>. HIDE DEF d
<1>. QED  BY <1>1, <1>2 DEF Channel

LEMMA StateIsrTypes ==
  ASSUME TypeInv, NEW t, NEW cts \in BOOLEAN, NEW next, StateIsr(t, cts, next), UNCHANGED owner
  PROVE  TypeInv'
<1>. DEFINE x == [ch EXCEPT !.outputHeld = FALSE]
            y == [ch EXCEPT !.outputHeld = ~cts]
            z == Queued(ch, {"CompleteWrite"})
<1>1. ch \in Channel /\ PortFields(port) /\ owner \in Threads \cup {"none"}
  BY DEF TypeInv, TypeOK
<1>2. x \in Channel /\ y \in Channel
  BY <1>1 DEF Channel
<1>3. z \in Channel
  BY <1>1, QueuedTypes DEF Requests
<1>4. PortFields(Enabled(port))
  BY <1>1 DEF PortFields, Enabled
<1>. HIDE DEF x, y, z
<1>5. CASE EnableTransmit(t, x, Enabled(port), next)
  BY <1>2, <1>4, <1>5, TransmitTypes
<1>6. CASE ch' \in {y, z} /\ port' = Enabled(port) /\ UNCHANGED doing
  BY <1>1, <1>2, <1>3, <1>4, <1>6, TypesKept
<1>. QED  BY <1>5, <1>6 DEF StateIsr, QueueDfc, x, y, z

LEMMA CopyTypes ==
  ASSUME TypeInv, WriteInv, WriteInv', BudgetInv', NEW t \in {"client", "dfc"}, Copy(t)
  PROVE  TypeInv'
<1>. DEFINE n == Lesser(ch.transmitLength, TxSize - Len(ch.tx))
            s == ch.tx \o [i \in 1..n |-> client.writes]
            c == [ch EXCEPT !.transmitLength = @ - n, !.tx = @ \o [i \in 1..n |-> client.writes]]
<1>0. CASE CopiesNothing(t)
  <2>1. UNCHANGED <<ch, port, doing, owner>>
    BY <1>0 DEF Copy, CopiesNothing
  <2>. QED  BY <2>1, TypesKept DEF TypeInv, TypeOK
<1>. SUFFICES ASSUME ~CopiesNothing(t)  PROVE TypeInv'
  BY <1>0
<1>1. EnableTransmit(t, c, port, "filled") /\ UNCHANGED owner
  BY DEF Copy, CopiesNothing
<1>2. ch.transmitLength - n \in Nat /\ ch \in Channel /\ PortFields(port)
  BY WriteConstants DEF Lesser, WriteInv, WriteTypes, TypeInv, TypeOK
<1>3. ch'.tx = s
  <2>1. "tx" \in DOMAIN ch
    BY <1>2 DEF Channel
  <2>2. c.tx = s /\ "tx" \in DOMAIN c
    BY <2>1
  <2>. HIDE DEF c, s
  <2>. QED  BY <1>1, <2>2 DEF EnableTransmit
<1>4. s \in Seq(Writes)
  <2>1. /\ ch'.tx \in Seq(Nat) /\ client'.writes \in Nat /\ client'.writes <= MaxWrites
        /\ \A i \in 1..Len(ch'.tx) : ch'.tx[i] \in 1..client'.writes
    BY WriteConstants DEF WriteInv, WriteTypes, BufferInv, BudgetInv
  <2>2. ch'.tx \in Seq(Writes)
    BY <2>1, BufferOfWrites
  <2>. QED  BY <1>3, <2>2
<1>5. c \in Channel
  <2>1. c = [ch EXCEPT !.transmitLength = @ - n, !.tx = s]
    OBVIOUS
  <2>. HIDE DEF c, n, s
  <2>. QED  BY <1>2, <1>4, <2>1 DEF Channel
<1>. HIDE DEF c
<1>. QED  BY <1>1, <1>2, <1>5, TransmitTypes

LEMMA ClientTypes ==
  ASSUME AskInv, WriteInv, WriteInv', BudgetInv', TypeInv, ClientNext
  PROVE  TypeInv'
<1>. DEFINE Idles == ch' \in Channel /\ PortFields(port') /\ doing' = doing /\ owner' \in Threads \cup {"none"}
<1>0. Idles => TypeInv'
  BY TypesKept
<1>1. /\ ch \in Channel /\ owner \in Threads \cup {"none"} /\ doing \in Commands
      /\ PortFields(port) /\ PortFields(Enabled(port)) /\ PortFields(Stopped(port))
      /\ PortFields([port EXCEPT !.running = TRUE])
      /\ {"ETransmit", "EStart", "EStop"} \subseteq Commands
  BY DEF TypeInv, TypeOK, PortFields, Enabled, Stopped, Commands
<1>2. ASSUME ch' \in Channel, UNCHANGED owner, NEW p, PortFields(p), NEW command \in Commands, NEW next,
             RunCommThread("client", p, command, next)
      PROVE  TypeInv'
  <2>1. PortFields(port') /\ doing' \in Commands
    BY <1>1, <1>2, CommandTypes
  <2>. QED  BY <1>1, <1>2, <2>1 DEF TypeInv, TypeOK, PortFields
<1>3. ASSUME NEW n, AskRead(n) \/ AskWrite(n)  PROVE Idles
  BY <1>1, <1>3 DEF AskRead, AskWrite, Ask
<1>4. ASSUME NEW kind, SetConfig(kind)  PROVE TypeInv'
  <2>1. ch' \in Channel
    BY <1>1, <1>4 DEF SetConfig, Channel
  <2>. QED  BY <1>1, <1>2, <1>4, <2>1 DEF SetConfig
<1>e. Emptied(ch) \in Channel
  <2>1. <<>> \in Seq(Writes) /\ 0 \in 0..Length
    BY TypeConstants
  <2>. QED  BY <1>1, <2>1 DEF Emptied, Channel
<1>5. ASSUME Start  PROVE TypeInv'
  BY <1>1, <1>2, <1>5, <1>e DEF Start
<1>6. ASSUME ConfigStart  PROVE TypeInv'
  BY <1>1, <1>2, <1>6 DEF ConfigStart
<1>7. ASSUME NEW l, NEW next, Started(l, next)  PROVE TypeInv'
  <2>1. CASE ch.sendXoff /\ ch.inputHeld >= 0
    BY <1>1, <1>7, <2>1, TransmitTypes DEF Started
  <2>2. CASE ~(ch.sendXoff /\ ch.inputHeld >= 0)
    BY <1>0, <1>1, <1>7, <2>2 DEF Started
  <2>. QED  BY <2>1, <2>2
<1>8. ASSUME Activate \/ Configured \/ CancelRead \/ CancelWrite \/ Written \/ ReadLines
      PROVE  Idles
  <2>1. <<>> \in Seq(Writes)
    OBVIOUS
  <2>2. ch' \in Channel
    <3>1. CASE Activate
      BY <1>1, <2>1, <3>1 DEF Activate, Channel
    <3>2. CASE Configured
      BY <1>1, <2>1, <3>2 DEF Configured, Channel
    <3>3. CASE CancelRead
      BY <1>1, <2>1, <3>3 DEF CancelRead, Channel
    <3>4. CASE CancelWrite
      BY <1>1, <2>1, <3>4 DEF CancelWrite, Channel
    <3>5. CASE Written
      BY <1>1, <2>1, <3>5 DEF Written, Channel
    <3>6. CASE ReadLines
      BY <1>1, <2>1, <3>6 DEF ReadLines, Channel
    <3>. QED  BY <1>8, <3>1, <3>2, <3>3, <3>4, <3>5, <3>6
  <2>. QED
    BY <1>1, <1>8, <2>2 DEF Activate, Configured, CancelRead, CancelWrite, Written, ReadLines
<1>9. ASSUME BeginRead  PROVE Idles
  <2>1. ReadLength(client.todo[2]) \in Nat
    <3>1. client.todo[2] \in Int \ {0} /\ ch.rx \in Nat /\ ch.receiveError \in BOOLEAN
      BY <1>1, <1>9, TypeConstants DEF BeginRead, Client, AskInv, Channel
    <3>. QED  BY <3>1 DEF ReadLength, Greater, Lesser
  <2>2. ch' \in Channel
    BY <1>1, <1>9, <2>1 DEF BeginRead, Channel
  <2>. QED  BY <1>1, <1>9, <2>2 DEF BeginRead
<1>10. ASSUME BeginWrite  PROVE Idles
  <2>. DEFINE n == client.todo[2]
              goes == ch.transmitting /\ ch.isWriting
  <2>1. n \in Nat
    BY <1>10, TypeConstants DEF BeginWrite, Client, AskInv
  <2>. DEFINE zero == n = 0 \/ ch.writeZero
              writing == n = 0 \/ goes
  <2>2. zero \in BOOLEAN /\ writing \in BOOLEAN
    BY <1>1 DEF Channel
  <2>3. ch' = [ch EXCEPT !.transmitLength = n, !.isClientWriting = TRUE,
                         !.writeZero = zero, !.isWriting = writing]
    BY <1>10 DEF BeginWrite
  <2>4. ch' \in Channel
    <3>. HIDE DEF n, zero, writing
    <3>. QED  BY <1>1, <2>1, <2>2, <2>3 DEF Channel
  <2>. QED  BY <1>1, <1>10, <2>4 DEF BeginWrite
<1>11. ASSUME SendXon  PROVE TypeInv'
  <2>. DEFINE c == [ch EXCEPT !.inputHeld = XonChar]
  <2>1. c \in Channel
    BY <1>1 DEF Channel
  <2>. HIDE DEF c
  <2>. QED  BY <1>1, <1>11, <2>1, TransmitTypes DEF SendXon, c
<1>12. ASSUME ConfigStopped  PROVE TypeInv'
  <2>. DEFINE e == Emptied(ch)
              c == [e EXCEPT !.rts = TRUE]
              x == [c EXCEPT !.inputHeld = XonChar]
              f == [c EXCEPT !.inputHeld = KInputHeldFree]
  <2>1. c \in Channel
    <3>. HIDE DEF e
    <3>. QED  BY <1>e DEF e, Channel
  <2>2. x \in Channel /\ f \in Channel
    <3>. HIDE DEF c
    <3>. QED  BY <2>1 DEF Channel
  <2>. HIDE DEF x, f
  <2>3. CASE client.todo[1] # "restart" /\ ch.sendXoff
    <3>1. EnableTransmit("client", x, Stopped(port), "cfgStart") /\ UNCHANGED owner
      BY <1>12, <2>3 DEF ConfigStopped, x
    <3>. QED  BY <1>1, <2>2, <3>1, TransmitTypes
  <2>4. CASE ~(client.todo[1] # "restart" /\ ch.sendXoff)
    <3>1. ch' \in {ch, f} /\ port' = Stopped(port) /\ UNCHANGED <<doing, owner>>
      BY <1>12, <2>4 DEF ConfigStopped, f
    <3>. QED  BY <1>0, <1>1, <2>2, <3>1
  <2>. QED  BY <2>3, <2>4
<1>13. ASSUME Acknowledged("client")  PROVE Idles
  BY <1>1, <1>13 DEF Acknowledged, PortFields
<1>14. ASSUME ClientState  PROVE TypeInv'
  BY <1>14, StateIsrTypes DEF ClientState
<1>15. ASSUME Drained("client") \/ Fill("client") \/ Filled("client")  PROVE Idles
  <2>1. ch' \in Channel
    <3>1. CASE Drained("client")
      BY <1>1, <3>1 DEF Drained, Channel
    <3>2. CASE Fill("client")
      BY <1>1, <3>2 DEF Fill, Channel
    <3>3. CASE Filled("client")
      BY <1>1, <3>3 DEF Filled, Channel
    <3>. QED  BY <1>15, <3>1, <3>2, <3>3
  <2>. QED  BY <1>1, <1>15, <2>1 DEF Drained, Fill, Filled
<1>. QED
  BY <1>0, <1>3, <1>4, <1>5, <1>6, <1>7, <1>8, <1>9, <1>10, <1>11, <1>12, <1>13, <1>14, <1>15,
     DrainTypes, CopyTypes DEF ClientNext

LEMMA DfcTypes ==
  ASSUME WriteInv, WriteInv', BudgetInv', TypeInv, DfcNext
  PROVE  TypeInv'
<1>. DEFINE Idles == ch' \in Channel /\ PortFields(port') /\ doing' = doing /\ owner' \in Threads \cup {"none"}
<1>0. Idles => TypeInv'
  BY TypesKept
<1>1. /\ ch \in Channel /\ owner \in Threads \cup {"none"} /\ doing \in Commands
      /\ PortFields(port) /\ PortFields(Enabled(port)) /\ PortFields(Stopped(port))
      /\ "EStop" \in Commands
  BY DEF TypeInv, TypeOK, PortFields, Enabled, Stopped, Commands
<1>2. ASSUME StartDfc \/ DfcCalls \/ TimeoutStopped  PROVE Idles
  BY <1>1, <1>2 DEF StartDfc, DfcCalls, TimeoutStopped
<1>3. ASSUME TakeRequest  PROVE Idles
  <2>1. ch.dfcRequest \ {First} \in SUBSET Requests
    BY <1>1 DEF Channel
  <2>2. ch' \in Channel
    BY <1>1, <1>3, <2>1 DEF TakeRequest, Channel
  <2>. QED  BY <1>1, <1>3, <2>2 DEF TakeRequest
<1>4. ASSUME EndDfc \/ CompleteWrite \/ ResetDevice \/ Drained("dfc") \/ Fill("dfc") \/ Filled("dfc")
      PROVE  Idles
  <2>1. ch' \in Channel
    <3>1. CASE EndDfc
      BY <1>1, <3>1 DEF EndDfc, Channel
    <3>2. CASE CompleteWrite
      <4>. DEFINE d == [ch EXCEPT !.isWriting = FALSE, !.writeZero = FALSE,
                                  !.isClientWriting = FALSE]
      <4>1. d \in Channel
        BY <1>1 DEF Channel
      <4>2. ch' \in {ch, d}
        BY <3>2 DEF CompleteWrite
      <4>. QED  BY <1>1, <4>1, <4>2
    <3>3. CASE ResetDevice
      BY <1>1, <3>3 DEF ResetDevice, Channel
    <3>4. CASE Drained("dfc")
      BY <1>1, <3>4 DEF Drained, Channel
    <3>5. CASE Fill("dfc")
      BY <1>1, <3>5 DEF Fill, Channel
    <3>6. CASE Filled("dfc")
      BY <1>1, <3>6 DEF Filled, Channel
    <3>. QED  BY <1>4, <3>1, <3>2, <3>3, <3>4, <3>5, <3>6
  <2>. QED  BY <1>1, <1>4, <2>1 DEF EndDfc, CompleteWrite, ResetDevice, Drained, Fill, Filled
<1>5. ASSUME Timeout  PROVE TypeInv'
  <2>1. CASE ch.active
    <3>1. PortFields(port') /\ doing' \in Commands
      BY <1>1, <1>5, <2>1, CommandTypes DEF Timeout
    <3>. QED  BY <1>1, <1>5, <3>1 DEF Timeout, TypeInv, TypeOK, PortFields
  <2>2. CASE ~ch.active
    BY <1>0, <1>1, <1>5, <2>2 DEF Timeout
  <2>. QED  BY <2>1, <2>2
<1>6. ASSUME Acknowledged("dfc")  PROVE Idles
  BY <1>1, <1>6 DEF Acknowledged, PortFields
<1>. QED
  BY <1>0, <1>2, <1>3, <1>4, <1>5, <1>6, DrainTypes, CopyTypes DEF DfcNext

LEMMA CommTypes ==
  ASSUME TypeInv, CommNext, host.cts \in BOOLEAN
  PROVE  TypeInv'
<1>. DEFINE Idles == ch' \in Channel /\ PortFields(port') /\ doing' = doing /\ owner' \in Threads \cup {"none"}
<1>0. Idles => TypeInv'
  BY TypesKept
<1>1. /\ ch \in Channel /\ owner \in Threads \cup {"none"} /\ doing \in Commands
      /\ PortFields(port) /\ PortFields(Enabled(port)) /\ "comm" \in Threads
  BY DEF TypeInv, TypeOK, PortFields, Enabled, Threads
<1>2. ASSUME WaitForEvent  PROVE TypeInv'
  <2>1. ch' \in Channel /\ owner' \in Threads \cup {"none"} /\ doing' \in Commands
    BY <1>1, <1>2 DEF WaitForEvent, PortFields
  <2>2. PortFields(port')
    BY <1>1, <1>2 DEF WaitForEvent, PortFields
  <2>. QED  BY <2>1, <2>2 DEF TypeInv, TypeOK, PortFields
<1>3. ASSUME EnterSignal \/ Leave \/ EnterWrite \/ WriteOut  PROVE Idles
  <2>1. PortFields(port')
    BY <1>1, <1>3 DEF EnterSignal, Leave, EnterWrite, WriteOut, PortFields
  <2>. QED  BY <1>1, <1>3, <2>1 DEF EnterSignal, Leave, EnterWrite, WriteOut
<1>4. ASSUME Acknowledged("comm")  PROVE Idles
  BY <1>1, <1>4 DEF Acknowledged, PortFields
<1>5. ASSUME Receive  PROVE TypeInv'
  <2>. DEFINE x == [ch EXCEPT !.inputHeld = XoffChar]
              y == [ch EXCEPT !.rts = FALSE, !.inputHeld = KInputHeld]
  <2>1. x \in Channel /\ y \in Channel
    BY <1>1 DEF Channel
  <2>. HIDE DEF x, y
  <2>2. CASE Holding /\ ch.sendXoff
    BY <1>1, <1>5, <2>1, <2>2, TransmitTypes DEF Receive, x
  <2>3. CASE ~(Holding /\ ch.sendXoff)
    <3>1. ch' \in {ch, y} /\ UNCHANGED <<port, doing, owner>>
      BY <1>5, <2>3 DEF Receive, y
    <3>. QED  BY <1>0, <1>1, <2>1, <3>1
  <2>. QED  BY <2>2, <2>3
<1>6. ASSUME PutChar  PROVE Idles
  <2>. DEFINE c == IF Full THEN [ch EXCEPT !.receiveError = TRUE]
                   ELSE [ch EXCEPT !.rx = @ + 1]
              drain == Holding \/ Full \/ DrainDue(c)
              R == IF drain THEN {"Drain"} ELSE {}
  <2>1. c \in Channel
    <3>1. CASE Full
      BY <1>1, <3>1 DEF Channel
    <3>2. CASE ~Full
      <4>1. ch.rx + 1 \in 0..Length
        BY <1>1, <3>2, TypeConstants DEF Full, Channel
      <4>. QED  BY <1>1, <3>2, <4>1 DEF Channel
    <3>. QED  BY <3>1, <3>2
  <2>2. /\ ch' = Queued(c, R) /\ port' \in {port, Enabled(port)} /\ UNCHANGED <<doing, owner>>
        /\ R \in SUBSET Requests
    BY <1>6 DEF PutChar, QueueDfc, Requests
  <2>. HIDE DEF c, R
  <2>. QED  BY <1>1, <2>1, <2>2, QueuedTypes
<1>7. ASSUME LineState  PROVE TypeInv'
  <2>1. CASE "lines" \in host.status
    BY <1>7, <2>1, StateIsrTypes DEF LineState
  <2>2. CASE "lines" \notin host.status
    BY <1>0, <1>1, <1>7, <2>2 DEF LineState
  <2>. QED  BY <2>1, <2>2
<1>8. TransmitIsr => ch' \in Channel
  <2>1. IsrChannel \in Channel
    <3>. DEFINE held == IF Idle THEN ch.inputHeld
                        ELSE IF ch.inputHeld = XonChar THEN KInputHeldFree ELSE KInputHeld
                rest == IF Sending /\ ch.tx # <<>> THEN Tail(ch.tx) ELSE ch.tx
                busy == IsrChar # KTransmitIrqEmpty
    <3>1. held \in {KInputHeldFree, KInputHeld, XonChar, XoffChar} /\ busy \in BOOLEAN
      BY <1>1 DEF Channel
    <3>2. rest \in Seq(Writes)
      <4>1. ch.tx \in Seq(Writes)
        BY <1>1 DEF Channel
      <4>. QED  BY <4>1
    <3>3. IsrChannel = [ch EXCEPT !.inputHeld = held, !.tx = rest, !.transmitting = busy]
      BY DEF IsrChannel
    <3>. HIDE DEF held, rest, busy
    <3>. QED  BY <1>1, <3>1, <3>2, <3>3 DEF Channel
  <2>2. IsrRequests \in SUBSET Requests
    BY DEF IsrRequests, Requests
  <2>. QED  BY <2>1, <2>2, QueuedTypes DEF TransmitIsr, QueueDfc
<1>9. PortFields(WithChar(port)) /\ PortFields(WithChar(Enabled(port)))
  BY <1>1 DEF PortFields, WithChar
<1>10. ASSUME Gather  PROVE Idles
  <2>1. PortFields(port')
    BY <1>1, <1>9, <1>10 DEF Gather, PortFields
  <2>. QED  BY <1>1, <1>8, <1>10, <2>1 DEF Gather
<1>11. ASSUME NEW p, PortFields(p)
       PROVE  PortFields(Signalled(p)) /\ \A b : PortFields([p EXCEPT !.writePending = b])
  BY <1>11 DEF Signalled, PortFields, Commands
<1>12. ASSUME DriverCommand  PROVE Idles
  <2>1. UNCHANGED <<doing, owner>> /\ (Transmit \/ StopPort \/ StartPort \/ NoCommand)
    BY <1>12 DEF DriverCommand
  <2>2. PortFields(port')
    <3>1. Transmit => PortFields(port')
      BY <1>1, <1>9, <1>11 DEF Transmit
    <3>2. StopPort \/ StartPort \/ NoCommand => PortFields(port')
      BY <1>1, <1>11 DEF StopPort, StartPort, NoCommand
    <3>. QED  BY <2>1, <3>1, <3>2
  <2>3. ch' \in Channel
    BY <1>1, <1>8, <2>1 DEF Transmit, StopPort, StartPort, NoCommand
  <2>. QED  BY <1>1, <2>1, <2>2, <2>3
<1>. QED
  BY <1>0, <1>2, <1>3, <1>4, <1>5, <1>6, <1>7, <1>10, <1>12 DEF CommNext

\* CTS is up or down.
LineInv == "cts" \in DOMAIN host /\ host.cts \in BOOLEAN

LEMMA LineHolds ==
  ASSUME LineInv, [Next]_vars
  PROVE  LineInv'
<1>1. CASE CommNext
  <2>1. \/ UNCHANGED host
        \/ DOMAIN host' = DOMAIN host /\ host'.cts = host.cts
    BY <1>1 DEF LineInv, CommNext, WaitForEvent, EnterSignal, Receive, PutChar, LineState, Leave,
       DriverCommand, Transmit, StopPort, StartPort, NoCommand, EnterWrite, Gather, WriteOut,
       Acknowledged
  <2>. QED  BY <2>1 DEF LineInv
<1>2. CASE HostNext \/ UNCHANGED vars
  BY <1>2 DEF LineInv, HostNext, CharArrives, HostWrites, LineChanges, vars
<1>3. CASE ClientNext
  <2>1. UNCHANGED host
    BY <1>3 DEF ClientNext, AskRead, AskWrite, Ask, SetConfig, Start, Started, Activate,
       BeginRead, SendXon, BeginWrite, CancelRead, CancelWrite, ConfigStopped, ConfigStart,
       Configured, Written, ReadLines, ClientState, Acknowledged, Drain, Drained, Fill, Copy,
       Filled
  <2>. QED  BY <2>1 DEF LineInv
<1>4. CASE DfcNext
  <2>1. UNCHANGED host
    BY <1>4 DEF DfcNext, StartDfc, TakeRequest, EndDfc, DfcCalls, CompleteWrite, Timeout,
       TimeoutStopped, ResetDevice, Acknowledged, Drain, Drained, Fill, Filled, Copy
  <2>. QED  BY <2>1 DEF LineInv
<1>. QED  BY <1>1, <1>2, <1>3, <1>4 DEF Next

\* Every field of the channel keeps its type, for every client and bound: the
\* receive buffer, which the comm thread fills and the DFC and the client drain,
\* never holds more than its length, and the transmit buffer only characters of
\* writes that were made.
THEOREM TypeCorrect == Spec => []TypeOK
<1>1. Init => BudgetInv /\ TypeInv /\ LineInv
  <2>. SUFFICES ASSUME Init  PROVE BudgetInv /\ TypeInv /\ LineInv
    OBVIOUS
  <2>1. left \in BudgetType
    BY Eka1Assumption DEF Init
  <2>2. BudgetInv
    BY <2>1, WriteConstants DEF Init, BudgetType, BudgetInv, WriteAsked, Asking, Threads
  <2>3. ch \in Channel
    <3>1. <<>> \in Seq(Writes) /\ 0 \in 0..Length /\ left.sendXoff \in BOOLEAN
      BY <2>1, TypeConstants DEF BudgetType
    <3>. QED  BY <3>1 DEF Init, Channel
  <2>4. PortFields(port) /\ doing \in Commands /\ owner = "none"
    BY DEF Init, PortFields, Commands
  <2>. QED  BY <2>2, <2>3, <2>4 DEF Init, TypeInv, TypeOK, PortFields, LineInv
<1>2. /\ DfcInv /\ AskInv /\ WriteInv /\ WriteInv' /\ BudgetInv /\ TypeInv /\ LineInv
      /\ [Next]_vars
      => BudgetInv' /\ TypeInv' /\ LineInv'
  <2>. SUFFICES ASSUME DfcInv, AskInv, WriteInv, WriteInv', BudgetInv, TypeInv, LineInv,
                       [Next]_vars
                PROVE  BudgetInv' /\ TypeInv' /\ LineInv'
    OBVIOUS
  <2>1. BudgetInv' /\ LineInv'
    BY BudgetHolds, LineHolds
  <2>2. CASE HostNext \/ UNCHANGED vars
    <3>1. UNCHANGED <<ch, port, doing, owner>>
      BY <2>2 DEF HostNext, CharArrives, HostWrites, LineChanges, vars
    <3>. QED  BY <2>1, <3>1 DEF TypeInv, TypeOK, PortFields
  <2>. QED
    BY <2>1, <2>2, ClientTypes, DfcTypes, CommTypes DEF Next, LineInv
<1>3. TypeInv => TypeOK
  BY DEF TypeInv
<1>. QED
  BY <1>1, <1>2, <1>3, DfcInvInductive, FillInvInductive, WriteInvInductive, PTL DEF Spec
=============================================================================
