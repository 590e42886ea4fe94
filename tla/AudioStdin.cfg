CONSTANTS
  Buffers = {b1, b2, b3}
  None = None
  BlockFrames = 2
  Intervals <- MCIntervals
  MaxSamples = 7
  PipeBlocks = 1
  NamedPipe = FALSE
  EncoderMayDie = TRUE
SPECIFICATION FairSpec
INVARIANTS OneOwner SuccessIsComplete
PROPERTIES FeedSpec EncoderFailureSurfaces
