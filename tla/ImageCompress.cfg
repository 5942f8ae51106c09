SPECIFICATION Spec
CONSTANTS
  Bytes = {0, 1, 2, 3, 4, 5, 6}
  TokenCost = 1
  MaskSize = 2
  StackSize = 7
  PageSize = 16
  iFastCompress = FALSE
  Images <- TestImages
INVARIANTS RoundTrip CountsAgree
PROPERTIES FindsAllCounted
