SPECIFICATION Spec
CONSTANTS
  kGainCycleLength = 3
  kPacingGain <- MCPacingGain
  kMinRttExpiry = 7
  kRoundTripsWithoutGrowth = 1
  InitialCongestionWindow = 2
  DefaultMinRtt = 2
  MinBw = 40
  TicksPerSecond = 12
  TicksPerMs = 1
  InfiniteDelta = 1000
  WindowLength = 2
  MaxPacketSize = 2
  MinDelay = 1
  MaxStep = 2
  MaxOutstanding = 3
  MaxPacket = 5
  MaxTime = 4
INVARIANTS
  InflightExact
  MapsAgree
  SnapshotsSound
CHECK_DEADLOCK FALSE
