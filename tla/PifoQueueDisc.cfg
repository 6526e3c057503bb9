SPECIFICATION PifoSpec
CONSTANTS
  p1 = p1
  p2 = p2
  p3 = p3
  p4 = p4
  Packets = {p1, p2, p3, p4}
  Priorities <- EightPriorities
  Bytes <- OneByte
  InBytes = FALSE
  Limit = 3
  Results <- SignedRanks
  Modulus = 8
  NoPacket = NoPacket
INVARIANTS
  RankedIsEnqueued
  PassedInOrder
PROPERTIES
  LowestRankFirst
CHECK_DEADLOCK FALSE
