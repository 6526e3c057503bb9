SPECIFICATION ProgramSpec
CONSTANTS
  p1 = p1
  p2 = p2
  p3 = p3
  p4 = p4
  Packets = {p1, p2}
  SizeOf <- SmallAndLarge
  FlowOf <- ThreeFlows
  MaxSize = 5
  QSizeBits = 4
  TimeReference = 2
  DropEvents = TRUE
  EnqEvents = TRUE
  DeqEvents = TRUE
  DqThreshold = 2
  Ptc = 1
  QwInverse = 2
  Scale = 4
  MaxTime = 4
  QTHRESH = 1
  DepthMod = 16
  FILL_RATE = 3
  MAX_TOKENS = 4
  FairShare = 3
  FlowMask = 2
  CountMod = 16
  PIE <- SmallPie
  RED <- SmallRed
  Word = 256
  Pipeline <- ProgramPipeline
  InitRegisters <- OnlyAny
INVARIANTS
  EmptyIsIdle
CHECK_DEADLOCK FALSE
