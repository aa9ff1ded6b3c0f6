CONSTANTS
  Word = 32
  BufSize = 12
  Frames <- MCWrapFrames
  MaxWritten = 3
  MaxCalls = 4
SPECIFICATION Spec
PROPERTY LoopTerminates
