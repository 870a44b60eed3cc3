SPECIFICATION Spec
CONSTANTS
  Accounts = {alice, bob}
  Amounts = {4}
  Durations = {2}
  InitialFunds = 4
  NoStream = NoStream
  Genesis = 4
  MaxTime = 6
SYMMETRY AccountSymmetry
INVARIANT ClaimedMatchesElapsed
CHECK_DEADLOCK FALSE
