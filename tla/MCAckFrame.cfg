SPECIFICATION Spec
CONSTANTS
  MaxGap = 2
  MaxBlocks = 1
  MaxSeq = 5
  MaxFrames = 2
INVARIANT QueueExact
INVARIANT FrameExact
INVARIANT WalkExact
