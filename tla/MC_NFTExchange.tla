--------------------------- MODULE MC_NFTExchange ---------------------------
(* Two NFTs, both alice's at first.  The structs callers pass name either     *)
(* user as the seller and any NFT; the runs choose the terms and the bids.    *)
EXTENDS NFTExchange

CONSTANTS alice, bob, dai, apes, punk

SaleIn(coin) ==
  [purchasable |-> TRUE, purchaseAsset |-> coin, price |-> 1,
   flashLoanable |-> FALSE, loanAsset |-> dai, loanFee |-> 0, bidAsset |-> dai]
Lent == [SaleIn(dai) EXCEPT !.purchasable = FALSE, !.flashLoanable = TRUE, !.loanFee = 1]

Struct(active, seller, n, terms, bidder, bid) ==
  [active |-> active, seller |-> seller, nft |-> n, terms |-> terms,
   highestBidder |-> bidder, highestBid |-> bid]

\* Alice lends both NFTs for a fee, punk also with a listing that is inactive
\* from the start; bob sells punk for ether, and apes for tokens, with a bid of
\* his own that he made up.
MCOffers ==
  {Struct(TRUE, alice, apes, Lent, NoOne, 0),
   Struct(TRUE, alice, punk, Lent, NoOne, 0), Struct(FALSE, alice, punk, Lent, NoOne, 0),
   Struct(TRUE, bob, punk, SaleIn(Ether), NoOne, 0),
   Struct(TRUE, bob, apes, SaleIn(dai), bob, 1)}

\* A plain sale.
MCSaleOffers == {Struct(TRUE, u, n, SaleIn(dai), NoOne, 0) : u \in Users, n \in NFTs}

MCOwner == [n \in NFTs |-> alice]
=============================================================================
