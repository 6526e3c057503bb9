SPECIFICATION Spec
CONSTANTS
  Configs <- Adaptive
  Thresholds <- OnePair
  AutoThresholds <- Computed
  MaxSize = 5
  PacketSizes = {1, 2}
  MeanPktSize = 2
  AvgOne = 2
  One = 64
  QW = 32
  Ptc = 1
  InitialMaxP = 32
  Top = 48
  Bottom = 16
  Alpha = 8
  Beta = 58
  FengA = 2
  FengB = 2
  Interval = 1
  MaxIdle = 2
  MaxCount = 6
  MaxMaxP = 64
INVARIANT
  GentleFromMaxP
CHECK_DEADLOCK FALSE
