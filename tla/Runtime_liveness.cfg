SPECIFICATION FairSpec
CONSTANTS
  Sensors = {"bump", "home"}
  Offered = {"forward", "zero", "other", "clear_queue", "settle", "stop"}
  Ids = {1}
  QueueCap = 2
  UartFaults = TRUE
  BootWheels = {"still", "forward"}
PROPERTIES ManoeuvresEnd UnownedMotionEnds
