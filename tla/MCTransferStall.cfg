SPECIFICATION Spec
CONSTANTS
  MinReceivedBeforeAckDecimation = 2
  MaxRetransmittablePacketsBeforeAck = 2
  AckDelay = 1
  NacksBeforeRetransmission = 2
  StopWaitingAfter = 0
  Windows = {2}
  MaxSeq = 3
  MaxLosses = 2
PROPERTY WindowReopens
CHECK_DEADLOCK FALSE
