---------------------------- MODULE NFTExchange ----------------------------
(***************************************************************************)
(* The marketplace of Solidity/NFT-flashloan-exchange/src/NFTExchange.sol: *)
(* sellers escrow an NFT in a listing, buyers purchase it or stand a bid   *)
(* on it, and anybody may flash-loan it.  A flash loan hands control to    *)
(* the borrower's executeOperation, from which it calls the exchange       *)
(* again, so an open loan is a frame of a call stack and every other       *)
(* external function is one atomic step.                                   *)
(*                                                                         *)
(* createListing and updateListing store the caller's struct as it is, bid *)
(* and NFT included.  What such a struct does to other listings is kept in *)
(* two history variables, which the invariants refer to.  A call that      *)
(* reverts is a step the specification does not have; a loan whose final   *)
(* checks can no longer pass is a transaction that never happened.  There  *)
(* is no clock: bidTime is stored, and nothing reads it.                   *)
(***************************************************************************)
EXTENDS Integers, Sequences, SequencesExt, FiniteSetsExt

CONSTANTS
  Users, NFTs,
  Coins,         \* the ERC-20 tokens in use
  Ether,         \* address(0) as purchaseAsset
  Exchange,      \* address(this)
  NoOne,         \* address(0)
  Offers,        \* the Listing structs that callers pass
  BidAmounts,
  SelfTransfer,  \* whether an ERC-20 lets its own holder use transferFrom
  InitialOwner,  \* who holds each NFT at deployment
  InitialFunds,  \* balance of every user in every token at deployment
  MaxListings,   \* bound: listings ever created
  MaxLoans       \* bound: nesting depth of flash loans

TermsOf == [purchasable : BOOLEAN, purchaseAsset : Coins \cup {Ether}, price : Nat,
            flashLoanable : BOOLEAN, loanAsset : Coins, loanFee : Nat,
            bidAsset : Coins]

Listing == [active : BOOLEAN, seller : Users, nft : NFTs, terms : TermsOf,
            highestBidder : Users \cup {NoOne}, highestBid : Nat]

ASSUME ExchangeAssumption ==
  /\ Exchange \notin Users /\ NoOne \notin Users /\ Exchange # NoOne
  /\ Ether \notin Coins
  /\ Offers \subseteq Listing
  /\ BidAmounts \subseteq Nat
  /\ SelfTransfer \in BOOLEAN
  /\ InitialOwner \in [NFTs -> Users]
  /\ InitialFunds \in Nat
  /\ MaxListings \in Nat /\ MaxLoans \in Nat

VARIABLES
  listings,       \* the listings array
  alreadyListed,
  owner,          \* ERC-721 ownership
  wallet,         \* ERC-20 balances of the users, by token
  held,           \* ERC-20 balances of the exchange
  allowance,      \* what the exchange approved each user for, by token
  ether,          \* ETH balance of the exchange
  loans,          \* open flashLoanNFT calls, innermost last
  draft,          \* the listing a seller read last, to edit and send back
  aimed,          \* history: NFTs at which an update has aimed a listing
  gap             \* history: tokens that bids lack, net of fees under way

bookVars == <<listings, alreadyListed>>
coinVars == <<wallet, held, allowance, ether>>
historyVars == <<aimed, gap>>
vars == <<bookVars, owner, coinVars, loans, draft, historyVars>>

Frame == [listing : Listing, receiver : Users, before : Nat]

\* Inside a loan the borrower is the one who runs.
MayCall(u) == loans # <<>> => Last(loans).receiver = u

\* safeTransferFrom(address(this), to, ...) of an NFT
Release(n, to) == owner[n] = Exchange /\ owner' = [owner EXCEPT ![n] = to]

\* Mistake: a payment is not checked against the balance.
Pays_Unchecked(c, u, amount) == amount \in Nat

Pays(c, u, amount) == wallet[c][u] >= amount

\* Mistake: the price is taken from the buyer and not passed on.
Paid_NotForwarded(c, from, to, amount) == [wallet EXCEPT ![c][from] = @ - amount]

\* Moves amount from one user to another, who may be the same.
Paid(c, from, to, amount) ==
  [wallet EXCEPT ![c] = [u \in Users |->
     wallet[c][u] - (IF u = from THEN amount ELSE 0) + (IF u = to THEN amount ELSE 0)]]

\* safeTransfer of the exchange's own tokens, of which it must have enough
SendsTo(c, u, amount) ==
  /\ held[c] >= amount
  /\ held' = [held EXCEPT ![c] = @ - amount]
  /\ wallet' = [wallet EXCEPT ![c][u] = @ + amount]

\* What a bidder has standing with a listing.
BidOn(listing, c) ==
  IF listing.active /\ listing.terms.bidAsset = c THEN listing.highestBid ELSE 0

-----------------------------------------------------------------------------
Init ==
  /\ listings = <<>>
  /\ alreadyListed = [n \in NFTs |-> FALSE]
  /\ owner = InitialOwner
  /\ wallet = [c \in Coins |-> [u \in Users |-> InitialFunds]]
  /\ held = [c \in Coins |-> 0]
  /\ allowance = [c \in Coins |-> [u \in Users |-> 0]]
  /\ ether = 0
  /\ loans = <<>>
  /\ draft = <<>>
  /\ aimed = {}
  /\ gap = [c \in Coins |-> 0]

\* createListing: the struct is stored with the active flag and the bid that
\* the caller wrote into it; no tokens come with such a bid.
CreateListing(u, new) ==
  /\ MayCall(u)
  /\ Len(listings) < MaxListings
  /\ new.seller = u
  /\ ~alreadyListed[new.nft]
  /\ owner[new.nft] = u
  /\ owner' = [owner EXCEPT ![new.nft] = Exchange]
  /\ listings' = Append(listings, new)
  /\ alreadyListed' = [alreadyListed EXCEPT ![new.nft] = TRUE]
  /\ gap' = [c \in Coins |-> gap[c] + BidOn(new, c)]
  /\ UNCHANGED <<coinVars, loans, draft, aimed>>

\* updateListing: the whole struct is replaced by the one in the call, with
\* whatever NFT, seller and bid it has.
UpdateListing(u, l, updated) ==
  /\ MayCall(u)
  /\ listings[l].active
  /\ listings[l].seller = u
  /\ updated.active
  /\ listings' = [listings EXCEPT ![l] = updated]
  /\ aimed' = aimed \cup ({updated.nft} \ {listings[l].nft})
  /\ gap' = [c \in Coins |-> gap[c] + BidOn(updated, c) - BidOn(listings[l], c)]
  /\ UNCHANGED <<alreadyListed, owner, coinVars, loans, draft>>

\* getListing by the seller, who will edit what it read
ReadListing(l) ==
  /\ loans = <<>>
  /\ listings[l].active
  /\ draft' = <<l, listings[l]>>
  /\ UNCHANGED <<bookVars, owner, coinVars, loans, historyVars>>

\* Mistake: the NFT goes back but the listing stays active.
CancelListing_StaysActive(u, l) ==
  /\ MayCall(u)
  /\ listings[l].active
  /\ listings[l].seller = u
  /\ Release(listings[l].nft, u)
  /\ alreadyListed' = [alreadyListed EXCEPT ![listings[l].nft] = FALSE]
  /\ UNCHANGED <<listings, coinVars, loans, draft, historyVars>>

\* cancelListing: a standing bid stays in the inactive listing.
CancelListing(u, l) ==
  /\ MayCall(u)
  /\ listings[l].active
  /\ listings[l].seller = u
  /\ Release(listings[l].nft, u)
  /\ listings' = [listings EXCEPT ![l].active = FALSE]
  /\ alreadyListed' = [alreadyListed EXCEPT ![listings[l].nft] = FALSE]
  /\ UNCHANGED <<coinVars, loans, draft, historyVars>>

\* purchaseListing: an ether price stays with the exchange, an ERC-20 price
\* goes to the seller; a standing bid is dropped without a refund.
PurchaseListing(u, l) ==
  LET listing == listings[l]
      terms == listing.terms
  IN
  /\ MayCall(u)
  /\ listing.active
  /\ terms.purchasable
  /\ IF terms.purchaseAsset = Ether
     THEN ether' = ether + terms.price /\ UNCHANGED wallet
     ELSE /\ Pays(terms.purchaseAsset, u, terms.price)
          /\ wallet' = Paid(terms.purchaseAsset, u, listing.seller, terms.price)
          /\ UNCHANGED ether
  /\ Release(listing.nft, u)
  /\ alreadyListed' = [alreadyListed EXCEPT ![listing.nft] = FALSE]
  /\ listings' = [listings EXCEPT ![l].active = FALSE, ![l].highestBidder = NoOne,
                    ![l].highestBid = 0]
  /\ UNCHANGED <<held, allowance, loans, draft, historyVars>>

\* createBid: the previous bidder is refunded first, with a transferFrom of the
\* exchange's own tokens; then the bidder, who may be the same, pays.
CreateBid(u, l, bidAmount) ==
  LET listing == listings[l]
      c == listing.terms.bidAsset
      refund == IF listing.highestBidder # NoOne THEN listing.highestBid ELSE 0
      Refund(w) == IF w = listing.highestBidder THEN refund ELSE 0
  IN
  /\ MayCall(u)
  /\ listing.active
  /\ listing.terms.purchasable
  /\ listing.highestBid < bidAmount
  /\ refund = 0 \/ SelfTransfer
  /\ held[c] >= refund
  /\ wallet[c][u] + Refund(u) >= bidAmount
  /\ wallet' = [wallet EXCEPT ![c] = [w \in Users |->
                  wallet[c][w] + Refund(w) - (IF w = u THEN bidAmount ELSE 0)]]
  /\ held' = [held EXCEPT ![c] = @ - refund + bidAmount]
  /\ listings' = [listings EXCEPT ![l].highestBidder = u, ![l].highestBid = bidAmount]
  /\ UNCHANGED <<alreadyListed, owner, allowance, ether, loans, draft, historyVars>>

\* Mistake: the refunded bid stays in the listing.
CancelBid_KeepsBid(u, l) ==
  LET listing == listings[l] IN
  /\ MayCall(u)
  /\ listing.active
  /\ listing.highestBidder = u
  /\ SendsTo(listing.terms.bidAsset, u, listing.highestBid)
  /\ UNCHANGED <<bookVars, owner, allowance, ether, loans, draft, historyVars>>

\* cancelBid: asks for an active listing and the bidder, and for nothing else.
CancelBid(u, l) ==
  LET listing == listings[l] IN
  /\ MayCall(u)
  /\ listing.active
  /\ listing.highestBidder = u
  /\ SendsTo(listing.terms.bidAsset, u, listing.highestBid)
  /\ listings' = [listings EXCEPT ![l].highestBidder = NoOne, ![l].highestBid = 0]
  /\ UNCHANGED <<alreadyListed, owner, allowance, ether, loans, draft, historyVars>>

\* acceptBid: without a bidder the NFT would go to address(0), which reverts.
AcceptBid(u, l) ==
  LET listing == listings[l] IN
  /\ MayCall(u)
  /\ listing.active
  /\ listing.seller = u
  /\ SendsTo(listing.terms.bidAsset, u, listing.highestBid)
  /\ listing.highestBidder # NoOne
  /\ Release(listing.nft, listing.highestBidder)
  /\ listings' = [listings EXCEPT ![l].highestBidder = NoOne, ![l].highestBid = 0,
                    ![l].active = FALSE]
  /\ alreadyListed' = [alreadyListed EXCEPT ![listing.nft] = FALSE]
  /\ UNCHANGED <<allowance, ether, loans, draft, historyVars>>

\* flashLoanNFT up to the call of executeOperation; the listing is the copy
\* in memory that the rest of the call works with.
BeginLoan(u, l, receiver) ==
  /\ MayCall(u)
  /\ Len(loans) < MaxLoans
  /\ listings[l].active
  /\ listings[l].terms.flashLoanable
  /\ Release(listings[l].nft, receiver)
  /\ loans' = Append(loans, [listing |-> listings[l], receiver |-> receiver,
                             before |-> held[listings[l].terms.loanAsset]])
  /\ UNCHANGED <<bookVars, coinVars, draft, historyVars>>

\* What a borrower does in executeOperation: give the NFT back ...
ReturnNFT ==
  LET n == Last(loans).listing.nft IN
  /\ loans # <<>>
  /\ owner[n] = Last(loans).receiver
  /\ owner' = [owner EXCEPT ![n] = Exchange]
  /\ UNCHANGED <<bookVars, coinVars, loans, draft, historyVars>>

\* ... and pay what the fee check will miss: bids the borrower has paid in
\* count for the fee, bids it has taken out come on top.
PayFee ==
  LET f == Last(loans)
      c == f.listing.terms.loanAsset
      missing == f.before + f.listing.terms.loanFee - held[c]
  IN  /\ loans # <<>>
      /\ missing > 0
      /\ Pays(c, f.receiver, missing)
      /\ wallet' = [wallet EXCEPT ![c][f.receiver] = @ - missing]
      /\ held' = [held EXCEPT ![c] = @ + missing]
      /\ gap' = [gap EXCEPT ![c] = @ - missing]
      /\ UNCHANGED <<bookVars, owner, allowance, ether, loans, draft, aimed>>

\* flashLoanNFT after executeOperation but for the return check: the seller is
\* approved for the fee and then sent the fee, so the approval remains.
FeeToSeller(f) ==
  LET c == f.listing.terms.loanAsset
      fee == f.listing.terms.loanFee
  IN  /\ held[c] = f.before + fee
      /\ allowance' = [allowance EXCEPT ![c][f.listing.seller] = fee]
      /\ SendsTo(c, f.listing.seller, fee)
      /\ gap' = [gap EXCEPT ![c] = @ + fee]

\* Mistake: the fee is checked, the return of the NFT is not.
EndLoan_OwnerUnchecked ==
  /\ loans # <<>>
  /\ FeeToSeller(Last(loans))
  /\ loans' = Front(loans)
  /\ UNCHANGED <<bookVars, owner, ether, draft, aimed>>

\* flashLoanNFT after executeOperation
EndLoan ==
  /\ loans # <<>>
  /\ owner[Last(loans).listing.nft] = Exchange
  /\ FeeToSeller(Last(loans))
  /\ loans' = Front(loans)
  /\ UNCHANGED <<bookVars, owner, ether, draft, aimed>>

\* transferFrom, on the token itself, by a seller with an approval left over
Draw(u, c, amount) ==
  /\ MayCall(u)
  /\ 0 < amount /\ amount <= allowance[c][u]
  /\ SendsTo(c, u, amount)
  /\ allowance' = [allowance EXCEPT ![c][u] = @ - amount]
  /\ gap' = [gap EXCEPT ![c] = @ + amount]
  /\ UNCHANGED <<bookVars, owner, ether, loans, draft, aimed>>

\* The calls but updateListing, and what a borrower and an approved seller do
\* with the tokens themselves.
Trade ==
  \/ \E u \in Users, new \in Offers : CreateListing(u, new)
  \/ \E u \in Users, l \in DOMAIN listings : CancelListing(u, l)
  \/ \E u \in Users, l \in DOMAIN listings : PurchaseListing(u, l)
  \/ \E u \in Users, l \in DOMAIN listings, amount \in BidAmounts :
       CreateBid(u, l, amount)
  \/ \E u \in Users, l \in DOMAIN listings : CancelBid(u, l)
  \/ \E u \in Users, l \in DOMAIN listings : AcceptBid(u, l)
  \/ \E u, receiver \in Users, l \in DOMAIN listings : BeginLoan(u, l, receiver)
  \/ ReturnNFT
  \/ PayFee
  \/ EndLoan
  \/ \E u \in Users, c \in Coins : \E amount \in 1 .. allowance[c][u] : Draw(u, c, amount)

\* The seller replaces its listing by any struct.
Update ==
  \E u \in Users, l \in DOMAIN listings, updated \in Offers :
    UpdateListing(u, l, updated)

\* The seller edits the terms of the listing as it read it before.
StaleUpdate ==
  /\ draft # <<>>
  /\ \E u \in Users, offer \in Offers :
       UpdateListing(u, draft[1], [draft[2] EXCEPT !.terms = offer.terms])

Next == Trade \/ Update

StaleNext == Trade \/ (\E l \in DOMAIN listings : ReadListing(l)) \/ StaleUpdate

Spec == Init /\ [][Next]_vars
StaleSpec == Init /\ [][StaleNext]_vars

-----------------------------------------------------------------------------
TypeOK ==
  /\ listings \in Seq(Listing)
  /\ alreadyListed \in [NFTs -> BOOLEAN]
  /\ owner \in [NFTs -> Users \cup {Exchange}]
  /\ wallet \in [Coins -> [Users -> Nat]]
  /\ held \in [Coins -> Nat]
  /\ allowance \in [Coins -> [Users -> Nat]]
  /\ ether \in Nat
  /\ loans \in Seq(Frame)
  /\ aimed \in SUBSET NFTs
  /\ gap \in [Coins -> Int]

OnLoan(n) == \E k \in DOMAIN loans : loans[k].listing.nft = n

\* As long as no update has aimed a listing at an NFT, its active listing can be
\* delivered: the NFT is in the exchange, or an open flash loan has it and must
\* bring it back, even if the borrower sells, buys, relists, updates or lends
\* again before executeOperation returns.
ActiveListingsEscrowed ==
  \A l \in DOMAIN listings :
    listings[l].active /\ listings[l].nft \notin aimed =>
      owner[listings[l].nft] = Exchange \/ OnLoan(listings[l].nft)

\* As long as no update has aimed a listing at an NFT, it is offered once:
\* alreadyListed keeps it from being listed again, and is not cleared by what
\* happens to other listings.
ListedOnce ==
  \A l \in DOMAIN listings :
    listings[l].active /\ listings[l].nft \notin aimed =>
      /\ alreadyListed[listings[l].nft]
      /\ \A k \in DOMAIN listings :
           listings[k].active /\ listings[k].nft = listings[l].nft => k = l

\* What the standing bids of active listings in token c come to.
StandingBids(c) == SumFunction([l \in DOMAIN listings |-> BidOn(listings[l], c)])

\* The tokens of the standing bids are missing for three reasons and no other:
\* a struct of createListing or updateListing had a bid in it, an approved
\* seller drew tokens, or a loan's fee was met with bids instead of a payment.
\* Refunds, acceptances, purchases and fees never touch another listing's bid.
BidsBacked == \A c \in Coins : held[c] + gap[c] >= StandingBids(c)

\* "Bid is fully collateralized": the exchange has the tokens of every
\* standing bid of an active listing.
Collateralized == \A c \in Coins : held[c] >= StandingBids(c)

\* How the listing l is settled with its seller in a step that hands its NFT
\* to the buyer: the seller has it back; or the price in ether stays with the
\* exchange (see the README); or the price goes from buyer to seller; or the
\* bid that stood for the buyer goes from the exchange to the seller.  (A bid
\* of 0 with a bidder can only have been written by the seller.)
Settled(l, buyer) ==
  LET listing == listings[l]
      seller == listing.seller
      terms == listing.terms
      bid == listing.highestBid
      Gets(c, u, amount) == wallet'[c][u] = wallet[c][u] + amount
  IN  \/ buyer = seller
      \/ terms.purchaseAsset = Ether /\ ether' = ether + terms.price
      \/ /\ terms.purchaseAsset # Ether
         /\ Gets(terms.purchaseAsset, seller, terms.price)
         /\ Gets(terms.purchaseAsset, buyer, -terms.price)
      \/ /\ buyer = listing.highestBidder
         /\ Gets(terms.bidAsset, seller, bid)
         /\ held'[terms.bidAsset] = held[terms.bidAsset] - bid

\* An NFT at which no update has aimed a listing leaves the exchange only on
\* loan, or through its listing, which closes and is settled with the seller.
SellerTakesBackOrIsPaid ==
  [][\A n \in NFTs \ aimed :
       owner[n] = Exchange /\ owner'[n] # Exchange /\ Len(loans') = Len(loans) =>
         \A l \in DOMAIN listings :
           listings[l].active /\ listings[l].nft = n =>
             ~listings'[l].active /\ Settled(l, owner'[n])]_vars
=============================================================================
