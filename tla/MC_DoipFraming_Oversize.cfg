CONSTANTS
  Word = 32
  BufSize = 12
  Frames <- MCOversizeFrames
  MaxWritten = 3
  MaxCalls = 4
SPECIFICATION Spec
PROPERTY ImplementsFrameChannel
CHECK_DEADLOCK FALSE
