CONSTANTS
  Vin <- MC_Vin
  Eid <- MC_Eid
  Gid <- MC_Gid
  LogicalAddress = 4096
  CycleTime = 10
  AnnouncementInterval = 20
  UdpView = 25
  ResponseTimeout = 30
  TesterElapsed = 10
  MaxStarts = 2
  MaxInFlight = 2
  Probes <- MC_Probes
  MaxProbes = 1
  TesterAddresses = {3584}
  ActivationType = 0
  TargetAddresses = {4096}
  UdsRequest <- MC_UdsRequest
  MaxCalls = 0
SPECIFICATION Spec
INVARIANTS TypeOK DiscoveredIsEntity
PROPERTIES DiscoveryEnds
