SPECIFICATION Spec
CONSTANTS
  None = None
  p1 = p1
  p2 = p2
  p3 = p3
  Packets = {p1, p2, p3}
  PriorityOf <- ThreePriorities
  Limits = {0, 1, 2}
INVARIANTS
  TypeOK
  LayersAgree
  InternalQueuesSuffice
PROPERTIES
  UrgentFirst
CHECK_DEADLOCK FALSE
