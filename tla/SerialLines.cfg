SPECIFICATION PddSpec
CONSTANTS
  Ops = {"Read","Write","NotifySignalChange","NotifyDataAvailable","Close"}
  MaxReq <- One
  MaxCtl = 0
  ReadLens = {1}
  WriteLens = {0,1}
  DesMax = 2
  TurnaroundUs = {1000}
  BreakMask = {"ETx"}
  PddReasons = {"LastError", "KErrCommsLineFail", "KErrCancel"}
  UseSocket = FALSE
  TerminatedRead = FALSE
  Terminators = {}
  FailSignals = {"CTS"}
  ObeyCTS = TRUE
  IoErrors = {"LastError"}
  MaxData = 1
  MaxToggle = 2
INVARIANTS CommandIntact
PROPERTIES ImplementsLdd
CHECK_DEADLOCK FALSE
