\* Commands that wait while the slot is busy, with velocity traffic beside them.
SPECIFICATION FairSpec
CONSTANTS
  Ids = {1, 2, 3}
  Payloads = {p1, p2}
  Words = 2
  Offered = {"ordinary", "cmd_vel"}
INVARIANTS HandedExactly
PROPERTIES SlotIsBuffer EventuallyTaken
