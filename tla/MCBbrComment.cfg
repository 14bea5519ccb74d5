SPECIFICATION Spec
CONSTANTS
  kGainCycleLength = 3
  kPacingGain <- MCPacingGain
  kMinRttExpiry = 1
  kRoundTripsWithoutGrowth = 1
  InitialCongestionWindow = 1
  DefaultMinRtt = 2
  MinBw = 40
  TicksPerSecond = 12
  TicksPerMs = 1
  InfiniteDelta = 1000
  WindowLength = 2
  MaxPacketSize = 1
  MinDelay = 1
  MaxStep = 1
  MaxOutstanding = 4
  MaxPacket = 5
  MaxTime = 5
PROPERTIES
  BackoffFromIncrease
CHECK_DEADLOCK FALSE
