\* One client of the channel, an arbitrary physical driver.
SPECIFICATION Spec
CONSTANTS
  Ops = {"Read", "Write", "SetMinTurnaroundTime", "Cancel", "Break", "SetConfig", "ResetBuffers", "SetReceiveBufferLength", "Close", "Delete"}
  MaxReq <- MCMaxReq
  MaxCtl = 2
  ReadLens = {1, 2}
  WriteLens = {1}
  DesMax = 1
  TurnaroundUs <- MCTurnaroundUs
  BreakMask = {"ETx"}
  PddReasons = {"LastError"}
INVARIANTS DelayedWriteScheduled TimerInStep ClosedIsQuiet
PROPERTIES NewTurnaroundReleases
\* the client stops when it has used up its bounds
CHECK_DEADLOCK FALSE
