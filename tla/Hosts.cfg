\* One behaviour per part; the ring comes to rest when its events are recorded
\* and read, and a dropped possession makes no more calls.
SPECIFICATION HostsSpec
CONSTANTS
  Freshness = 2
  PeerFreshness = 3
  Grace = 4
  Search = 2
  Backoff = 1
  Hysteresis = 2
  Lease = 2
  Horizon = 4
  Links = {"ethernet", "ordinary", "mother_wifi", "fore_wifi"}
  Fragile = {"ethernet", "ordinary", "mother_wifi"}
  MaxFaults = 1
  Capacity = 2
  Batch = 1
  MaxEvents = 3
  MaxLost = 1
  BusyAttempts = 4
  Episodes = {"e"}
  Failures = {"f"}
  Relations = {}
  Offers = {{"e"}, {"e", "f"}}
  Standing = {"e"}
  RecordSize = 4
INVARIANTS
  HostsTypeOK ControlsByGrant
  DeliversExact
  AppliedOnce
  WorkRecorded
PROPERTIES
  ContinuesOnLease AsksForFreeBody BodyIsServed
  OnceInOrder CatchesUp
  DrivesAfterRecovery
  SettlesAwake
CHECK_DEADLOCK FALSE
