CONSTANTS
  PBOs = {b1, b2}
  None = None
  MaxFrames = 4
  NamedPipe = TRUE
  OffContext <- MCOffContext
  EncoderMayDie = TRUE
SPECIFICATION FairSpec
PROPERTIES EncoderFailureSurfaces
CHECK_DEADLOCK FALSE
