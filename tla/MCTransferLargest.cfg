SPECIFICATION SafeSpec
CONSTANTS
  MinReceivedBeforeAckDecimation = 2
  MaxRetransmittablePacketsBeforeAck = 2
  AckDelay = 1
  NacksBeforeRetransmission = 2
  StopWaitingAfter = 0
  Windows = {2}
  MaxSeq = 5
  MaxLosses = 0
INVARIANT LargestIsLast
CHECK_DEADLOCK FALSE
