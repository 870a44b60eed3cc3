SPECIFICATION StaleSpec
CONSTANTS
  alice = alice
  bob = bob
  dai = dai
  apes = apes
  punk = punk
  Users = {alice, bob}
  NFTs = {apes}
  Coins = {dai}
  Ether = Ether
  Exchange = Exchange
  NoOne = NoOne
  Offers <- MCSaleOffers
  BidAmounts = {1, 2}
  SelfTransfer = TRUE
  InitialOwner <- MCOwner
  InitialFunds = 2
  MaxListings = 2
  MaxLoans = 0
INVARIANT Collateralized
CHECK_DEADLOCK FALSE
