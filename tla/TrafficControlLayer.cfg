SPECIFICATION FairSpec
CONSTANTS
  single = single
  multi = multi
  c0 = c0
  c1 = c1
  p1 = p1
  p2 = p2
  p3 = p3
  p4 = p4
  NoDisc = NoDisc
  Discs = {single, multi, c0, c1}
  Roots = {single, multi}
  WakeChild = {multi}
  ChildOf <- ChildOfMulti
  NTxQueues = 2
  SelectQueue = TRUE
  Packets = {p1, p2, p3, p4}
INVARIANTS
  TypeOK
  SendHasDisc
  WokenIsServed
  BacklogWaits
  OrderPerQueue
PROPERTIES
  BacklogLeaves
CHECK_DEADLOCK FALSE
