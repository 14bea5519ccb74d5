SPECIFICATION SafeSpec
CONSTANTS
  MinReceivedBeforeAckDecimation = 2
  MaxRetransmittablePacketsBeforeAck = 2
  AckDelay = 1
  NacksBeforeRetransmission = 1
  StopWaitingAfter = 0
  Windows = {2}
  MaxSeq = 4
  MaxLosses = 0
PROPERTY AckSettles
CHECK_DEADLOCK FALSE
