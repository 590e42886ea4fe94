CONSTANTS
  PBOs = {b1, b2, b3}
  None = None
  MaxFrames = 4
  NamedPipe = FALSE
  OffContext <- MCOffContext
  EncoderMayDie = TRUE
SPECIFICATION FairSpec
INVARIANTS OneOwner
PROPERTIES NoOverwriteWhileWriting FeedSpec StopReturns EncoderFailureSurfaces
