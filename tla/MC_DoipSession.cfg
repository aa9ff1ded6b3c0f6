CONSTANTS
  MaxConnections = 2
  TC = TC
  c2 = c2
  Conns <- MC_Conns
  TConn = TC
  NoSocket = NoSocket
  LogicalAddress = 4096
  TesterAddrMin = 3584
  TesterAddrMax = 4095
  InitialInactivityTime = 20
  GeneralInactivityTime = 20
  CycleTime = 10
  TcpFrames <- MC_TcpFrames
  MaxFrames = 2
  ResponseTimeout = 20
  TesterElapsed = 10
  MaxStarts = 0
  MaxInFlight = 0
  TesterAddresses = {3584, 1}
  ActivationType = 0
  TargetAddresses = {4096}
  UdsRequest <- MC_UdsRequest
  MaxCalls = 2
  RawFrames <- MC_RawFrames
SPECIFICATION Spec
INVARIANT TesterReadyMeansActivated
PROPERTIES ActivationEnds AcceptedEventuallyResolved ResetEventuallyClosed
