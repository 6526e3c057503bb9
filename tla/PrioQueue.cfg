SPECIFICATION Spec
CONSTANTS
  p1 = p1
  p2 = p2
  p3 = p3
  p4 = p4
  p5 = p5
  Packets = {p1, p2, p3, p4, p5}
  Priorities = {0, 1, 2}
  Bytes <- OneOrTwo
  InBytes = TRUE
  Limit = 6
INVARIANTS
  TypeOK
  HeapOrdered
PROPERTIES
  ImplementsPifo
CHECK_DEADLOCK FALSE
