SPECIFICATION FairSpec
CONSTANTS
  Ops = {"Read","Write","SetMinTurnaroundTime","Cancel","Break","Close"}
  MaxReq <- One
  MaxCtl = 2
  ReadLens = {1}
  WriteLens = {1}
  DesMax = 2
  TurnaroundUs = {1000}
  BreakMask = {"ETx"}
  PddReasons = {"LastError", "KErrCommsLineFail", "KErrCancel"}
  UseSocket = TRUE
  TerminatedRead = FALSE
  Terminators = {}
  FailSignals = {}
  ObeyCTS = TRUE
  IoErrors = {}
  MaxData = 1
  MaxToggle = 0
INVARIANTS TokenBalance
PROPERTIES ImplementsLdd CancelledWritesComplete CloseCompletes
CHECK_DEADLOCK FALSE
