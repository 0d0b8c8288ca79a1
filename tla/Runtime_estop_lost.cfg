SPECIFICATION FairSpec
CONSTANTS
  Sensors = {"cliff"}
  Offered = {"forward", "estop"}
  Ids = {1}
  QueueCap = 2
  UartFaults = FALSE
  BootWheels = {"still"}
PROPERTIES EStopKept
