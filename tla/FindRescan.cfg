SPECIFICATION Spec
CONSTANTS
  Chars = {"a", "t"}
  BadChars = {"a"}
  Length = 4
  LongMark = 3
  WordSize = 1
  SeqHalf = 6
  TermSets = {{}, {"t"}}
  MaxRead = 4
  RescanAfterLong = TRUE
INVARIANTS
  RescanReturns
