SPECIFICATION Spec
CONSTANTS
  KMaxCodeLength = 3
  Literals = 4
  MaxDistance = 4
  MinLength = 3
  MaxLength = 6
  Mantissa = 1
  Hash <- CoarseHash
  Inputs <- TestInputs
INVARIANTS CodesCover RoundTrip TreesAgree
