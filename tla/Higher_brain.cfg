SPECIFICATION HigherSpec
CONSTANTS
  Candidates = {"a", "b"}
  Compatible = {"a", "b"}
  NoCandidate = "none"
  Jobs = {1, 2}
  Refused = {}
  Named = {1}
  MaxRetries = 1
  MaxDeaths = 1
  Forebrains = {"f1", "f2"}
  MaxCycles = 2
  MaxFaults = 3
INVARIANTS
  HigherTypeOK RecordsAgree
  RunsAreAuthorised RecordsTruthful
  EachPhaseFollows
PROPERTIES
  SelectsApprovedModel SwitchKeepsOld
  JobsAreServed
  DurableProgress CycleGoesOn
