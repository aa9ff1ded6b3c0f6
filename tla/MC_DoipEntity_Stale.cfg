CONSTANTS
  MaxConnections = 2
  c1 = c1
  c2 = c2
  c3 = c3
  Conns <- MCConnsLive
  NoSocket = NoSocket
  LogicalAddress <- Entity
  TesterAddrMin = 3584
  TesterAddrMax = 4095
  InitialInactivityTime = 20
  GeneralInactivityTime = 20
  CycleTime = 10
  TcpFrames <- MCFramesTwoTesters
  MaxFrames = 0
SPECIFICATION Spec
INVARIANT NoStaleEntitySlot
