SPECIFICATION Spec
CONSTANTS
  Hellos = {"mb", "fb"}
  RoleOf <- MCRoleOf
  ControlHellos <- MCControlHellos
  TransportOf <- MCTransportOf
  PeerOf <- MCPeerOf
  RecoveryPeer = "jetson"
  OperatorDebug = TRUE
  ServiceMode = TRUE
  Heartbeats = TRUE
  Timeouts = FALSE
  DiagnosticSlots = 1
  MaxSessions = 2
  MaxLeases = 2
INVARIANTS MovesForOwner LapsedNeverAdmitted
PROPERTIES HandsOverStopped
