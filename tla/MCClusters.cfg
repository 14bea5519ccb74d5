SPECIFICATION Spec
CONSTANTS
  AverageAckRateWindowSize = 3
  MaxSeq = 9
INVARIANT PointersLive
INVARIANT SamplesExact
CHECK_DEADLOCK FALSE
