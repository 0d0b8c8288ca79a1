\* A call that is answered busy until its last attempt.
SPECIFICATION PossessionSpec
CONSTANTS
  BusyAttempts = 3
INVARIANTS BusyRetryReturns
CHECK_DEADLOCK FALSE
