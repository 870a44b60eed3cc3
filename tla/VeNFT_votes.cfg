SPECIFICATION Spec
CONSTANTS
  Users = {alice, bob}
  NoOne = NoOne
  Amounts = {2}
  UnlockTimes = {4}
  WEEK = 2
  I_YEAR = 2
  MAX_TIME = 4
  MaxWeeks = 3
  UINT8_MAX = 2
  DeployTime = 2
  MaxTokens = 2
  MaxTime = 4
  MaxEpoch = 3
  MaxUserEpoch = 3
SYMMETRY UserSymmetry
INVARIANT VotesCountedOnce
PROPERTY PastVotesFixed
CHECK_DEADLOCK FALSE
