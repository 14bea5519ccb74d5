SPECIFICATION Spec
CONSTANTS
  MinReceivedBeforeAckDecimation = 3
  MaxRetransmittablePacketsBeforeAck = 2
  AckDelay = 1
  NacksBeforeRetransmission = 2
  StopWaitingAfter = 0
  Windows = {3}
  MaxSeq = 5
  MaxLosses = 1
INVARIANT TypeOK
INVARIANT PendingHasData
INVARIANT ChainsShort
INVARIANT AckedOnce
INVARIANT SkipIsSound
INVARIANT AcksAreTrue
INVARIANT ForgetsOnlySettled
PROPERTY ImplementsDelivery
PROPERTY EventuallySettled
CHECK_DEADLOCK FALSE
