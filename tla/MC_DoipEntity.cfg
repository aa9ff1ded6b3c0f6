CONSTANTS
  MaxConnections = 2
  c1 = c1
  c2 = c2
  c3 = c3
  Conns <- MCConns
  NoSocket = NoSocket
  LogicalAddress <- Entity
  TesterAddrMin = 3584
  TesterAddrMax = 4095
  InitialInactivityTime = 20
  GeneralInactivityTime = 20
  CycleTime = 10
  TcpFrames <- MCFrames
  MaxFrames = 2
SPECIFICATION Spec
INVARIANT TypeOK
SYMMETRY MCSymmetry
PROPERTY TimersFireOnSchedule
PROPERTY ImplementsConnections
