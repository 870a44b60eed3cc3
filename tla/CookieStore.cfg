SPECIFICATION Spec
CONSTANTS
  alice = alice
  weth = weth
  feed = feed
  Users = {alice, bob}
  Tokens = {weth, wbtc}
  Feeds = {feed, feed2}
  NoFeed = NoFeed
  Prices = {5, 20}
  Amounts = {11}
  CKIAmounts = {10}
  InitialTokens <- MCTokens
  InitialFeeds <- MCFeeds
  InitialPrice = 20
  InitialFunds <- MCFunds
  AliceWeth = 22
  AliceOther = 11
  BobWeth = 0
  PRECISION = 10
  LIQUIDATION_THRESHOLD = 50
  LIQUIDATION_BONUS = 10
  UINT256_MAX = 100000
  MaxListed = 3
INVARIANTS TypeOK CustodyIsDeposits DebtCoversSupply DebtHasCollateral
PROPERTIES OnlyPricesHurt HealthyKeepCollateral
CHECK_DEADLOCK FALSE
