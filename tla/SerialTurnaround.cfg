SPECIFICATION FairHostSpec
CONSTANTS
  Ops = {"Read","Write","SetMinTurnaroundTime","SetConfig","ResetBuffers","Close","Delete"}
  MaxReq <- ReadWrite
  MaxCtl = 1
  ReadLens <- Lens
  WriteLens = {1}
  DesMax = 2
  TurnaroundUs = {1000}
  BreakMask = {"ETx"}
  PddReasons = {"LastError", "KErrCommsLineFail", "KErrCancel"}
  UseSocket = FALSE
  TerminatedRead = TRUE
  Terminators = {2}
  FailSignals = {}
  ObeyCTS = TRUE
  IoErrors = {"LastError"}
  MaxData = 3
  MaxToggle = 0
INVARIANTS TerminatedReadsEnd WriteMeansSent ReadsInOrder NoPanic DeletedMeansLeft DelayedWriteHasRequest
PROPERTIES WritesComplete CopyOnlyWhilePending
CHECK_DEADLOCK FALSE
