SPECIFICATION LockSpec
CONSTANTS
  Users = {alice}
  NoOne = NoOne
  Amounts = {3}
  UnlockTimes = {5, 7}
  WEEK = 2
  I_YEAR = 2
  MAX_TIME = 4
  MaxWeeks = 3
  UINT8_MAX = 255
  DeployTime = 1
  MaxTokens = 2
  MaxTime = 7
  MaxEpoch = 3
  MaxUserEpoch = 0
INVARIANTS TypeOK SupplyIsSumOfBalances LocksBackTotal
PROPERTY PastSupplyFixed
CHECK_DEADLOCK FALSE
