\* One reader of a small ring while both lanes publish.
SPECIFICATION RingSpec
CONSTANTS
  Capacity = 2
  Batch = 1
  MaxEvents = 4
  MaxLost = 1
PROPERTIES NoHole
CHECK_DEADLOCK FALSE
