CONSTANTS
  Word = 32
  BufSize = 12
  Frames <- MCValidFrames
  MaxWritten = 3
  MaxCalls = 4
SPECIFICATION Spec
INVARIANT TypeOK
PROPERTY ImplementsFrameChannel
PROPERTY LoopTerminates
