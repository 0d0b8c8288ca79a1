SPECIFICATION FairSpec
CONSTANTS
  Hellos = {"mb", "tool"}
  RoleOf <- MCRoleOf
  ControlHellos <- MCControlHellos
  TransportOf <- MCTransportOf
  PeerOf <- MCPeerOf
  RecoveryPeer = "jetson"
  OperatorDebug = TRUE
  ServiceMode = TRUE
  Heartbeats = FALSE
  Timeouts = TRUE
  DiagnosticSlots = 1
  MaxSessions = 2
  MaxLeases = 2
INVARIANTS ServiceExcludesControl
PROPERTIES LapsedLeaseEnds
