SPECIFICATION Spec
CONSTANTS
  ethernet = ethernet
  ipv4 = ipv4
  Headers = {ethernet, ipv4}
  Bytes <- TwoSizes
  Rests = {0, 2}
  MAX_PKT_SIZE = 4
  Width = 2
  LengthModulus = 16
  Values = {0, 3}
  Shift = 1
  ArraySize = 1
  MaxCount = 1
  MaxSteps = 3
INVARIANTS
  TypeOK
  LengthTold
  OwnVerdict
CHECK_DEADLOCK FALSE
