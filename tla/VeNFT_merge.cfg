SPECIFICATION Spec
CONSTANTS
  Users = {alice}
  NoOne = NoOne
  Amounts = {2}
  UnlockTimes = {2, 4}
  WEEK = 2
  I_YEAR = 2
  MAX_TIME = 4
  MaxWeeks = 3
  UINT8_MAX = 255
  DeployTime = 1
  MaxTokens = 2
  MaxTime = 4
  MaxEpoch = 5
  MaxUserEpoch = 0
INVARIANTS SupplyCoversBalances MergedIsStranded
CHECK_DEADLOCK FALSE
