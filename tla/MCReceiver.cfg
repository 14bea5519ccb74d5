SPECIFICATION Spec
CONSTANTS
  MinReceivedBeforeAckDecimation = 2
  MaxRetransmittablePacketsBeforeAck = 3
  AckDelay = 2
  MaxSeq = 5
INVARIANT TypeOK
INVARIANT WaitingHasAlarm
INVARIANT LossesExact
PROPERTY NoLossAfterReceipt
PROPERTY EventuallyReported
CHECK_DEADLOCK FALSE
