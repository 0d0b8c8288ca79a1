\* Every kind of command.
SPECIFICATION Spec
CONSTANTS
  Ids = {1, 2, 3}
  Payloads = {p1}
  Words = 1
  Offered = {"ordinary", "heartbeat", "stop", "estop", "cmd_vel", "info", "unsupported"}
INVARIANTS QuietStopDelivered
