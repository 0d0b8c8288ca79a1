\* A body that meets every hazard, and a host that drives, escapes and stops.
SPECIFICATION Spec
CONSTANTS
  Sensors = {"bump", "cliff", "wheel_drop", "charging", "home"}
  Offered = {"forward", "zero", "drive", "escape_bump", "escape_cliff", "stop", "estop", "clear_estop", "clear_latch", "restart"}
  Ids = {1}
  QueueCap = 2
  UartFaults = FALSE
  BootWheels = {"still"}
INVARIANTS TypeOK WithdrawalCarriedOut ReflexOnly
PROPERTIES StopHonoured
