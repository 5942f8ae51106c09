SPECIFICATION Spec
CONSTANTS
  Length = 2
  Low = 0
  Half = 1
  High = 1
  TxSize = 2
  OutSize = 2
  ReadLens <- Lens
  WriteLens = {0, 3}
  MaxWrites = 2
  Budgets <- Clients
INVARIANTS DfcRequestsServed OneFillsAtATime ReaderServed WriteMeansSent
CHECK_DEADLOCK FALSE
