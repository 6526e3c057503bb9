SPECIFICATION Spec
CONSTANTS
  p1 = p1
  p2 = p2
  p3 = p3
  p4 = p4
  t1 = t1
  t2 = t2
  None = None
  Packets = {p1, p2}
  TxQueues = {t1}
  TxQueueOf <- OneQueue
  Quota = 2
  UintMod = 16
  MayPeek = TRUE
INVARIANTS
  SentWithHeader
