SPECIFICATION Spec
CONSTANTS
  alice = alice
  bob = bob
  dai = dai
  apes = apes
  punk = punk
  Users = {alice, bob}
  NFTs = {apes, punk}
  Coins = {dai}
  Ether = Ether
  Exchange = Exchange
  NoOne = NoOne
  Offers <- MCOffers
  BidAmounts = {1, 2}
  SelfTransfer = TRUE
  InitialOwner <- MCOwner
  InitialFunds = 1
  MaxListings = 2
  MaxLoans = 2
INVARIANTS TypeOK ActiveListingsEscrowed ListedOnce 
PROPERTIES SellerTakesBackOrIsPaid
CHECK_DEADLOCK FALSE
