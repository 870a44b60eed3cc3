SPECIFICATION Spec
CONSTANTS
  Accounts = {alice, bob}
  Amounts = {2, 7}
  Durations = {0, 2, 5}
  InitialFunds = 8
  NoStream = NoStream
  Genesis = 6
  MaxTime = 9
SYMMETRY AccountSymmetry
INVARIANTS TypeOK EveryAccountBalances UnacceptedPaysNothing
PROPERTIES ImplementsLedger
CHECK_DEADLOCK FALSE
