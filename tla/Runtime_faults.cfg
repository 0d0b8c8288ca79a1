\* Careful mode, heartbeats and E-stops on a UART on which any write may fail.
SPECIFICATION Spec
CONSTANTS
  Sensors = {"bump", "tilt", "charging", "home", "link_lost"}
  Offered = {"forward", "escape_bump", "careful", "heartbeat", "estop", "disarm"}
  Ids = {1}
  QueueCap = 2
  UartFaults = TRUE
  BootWheels = {"still"}
INVARIANTS DriveGated CarefulExcluded
PROPERTIES RunningClosed
