SPECIFICATION Spec
CONSTANTS
  Clients = {ann, ben}
  Capacity = 2
  Workers = {1, 2}
  MaxPrice <- FewPrices
  MaxOnTheWay = 1
  MaxFailures = 2
INVARIANTS
  TypeOK
  MapFollowsChannel
PROPERTIES
  PricesNeverGoBack
  ClientsCatchUp
  HungFeedReturns
CHECK_DEADLOCK FALSE
