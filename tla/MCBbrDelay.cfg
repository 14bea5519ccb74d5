SPECIFICATION Spec
CONSTANTS
  kGainCycleLength = 3
  kPacingGain <- MCPacingGain
  kMinRttExpiry = 7
  kRoundTripsWithoutGrowth = 1
  InitialCongestionWindow = 2
  DefaultMinRtt = 2
  MinBw = 100
  TicksPerSecond = 12
  TicksPerMs = 1
  InfiniteDelta = 1000
  WindowLength = 2
  MaxPacketSize = 1
  MinDelay = 1
  MaxStep = 1
  MaxOutstanding = 3
  MaxPacket = 7
  MaxTime = 6
INVARIANTS
  TypeOK
  FilterBehindRound
  NeverStuck
  ModeConsistent
  PacingRateSound
PROPERTIES
  GainCycleOrder
  ModeTransitions
CHECK_DEADLOCK FALSE
