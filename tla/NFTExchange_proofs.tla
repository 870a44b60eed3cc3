------------------------ MODULE NFTExchange_proofs ------------------------
(***************************************************************************)
(* For any users, NFTs, tokens, depth of flash loans and structs passed to *)
(* createListing and updateListing: the types of NFTExchange, that an NFT  *)
(* at which no update has aimed a listing is escrowed, listed once and     *)
(* settled with its seller when it leaves, and that the standing bids lack *)
(* no more tokens than the history accounts for.                           *)
(* Escrow and single listing are inductive together: a listing that closes *)
(* releases its NFT, which no other active listing may be about.           *)
(***************************************************************************)
EXTENDS NFTExchange, SumTheorems

IInv == TypeOK /\ ListedOnce /\ ActiveListingsEscrowed

\* What a call that replaces listing l does to the array.
Replaces(l) ==
  /\ listings' \in Seq(Listing)
  /\ DOMAIN listings' = DOMAIN listings
  /\ \A k \in DOMAIN listings : k # l => listings'[k] = listings[k]

\* ... when the listing remains about the same NFT and is not reopened.
Edits(l) ==
  /\ Replaces(l)
  /\ listings'[l].nft = listings[l].nft
  /\ listings'[l].active => listings[l].active

\* ... when it also closes the listing and hands the NFT over.
Closes(l, to) ==
  /\ Edits(l)
  /\ listings[l].active /\ ~listings'[l].active
  /\ alreadyListed' = [alreadyListed EXCEPT ![listings[l].nft] = FALSE]
  /\ Release(listings[l].nft, to)
  /\ UNCHANGED <<loans, aimed>>

-----------------------------------------------------------------------------
\* A listing is a record of the type.
LEMMA Fields ==
  ASSUME NEW x \in Listing
  PROVE  /\ x.nft \in NFTs /\ x.seller \in Users
         /\ x.active \in BOOLEAN
         /\ x.highestBid \in Nat
         /\ x.highestBidder \in Users \cup {NoOne}
         /\ x.terms \in TermsOf
         /\ x.terms.price \in Nat /\ x.terms.loanFee \in Nat
         /\ x.terms.bidAsset \in Coins /\ x.terms.loanAsset \in Coins
         /\ x.terms.purchaseAsset \in Coins \cup {Ether}
<1> DEFINE t == x.terms
<1>1. t \in TermsOf
  BY DEF Listing
<1>2. /\ t.price \in Nat /\ t.loanFee \in Nat
      /\ t.bidAsset \in Coins /\ t.loanAsset \in Coins
      /\ t.purchaseAsset \in Coins \cup {Ether}
  <2> HIDE DEF t
  <2>1. QED BY <1>1 DEF TermsOf
<1>3. QED
  BY <1>1, <1>2 DEF Listing

LEMMA InArray == ASSUME TypeOK, NEW l \in DOMAIN listings PROVE listings[l] \in Listing
BY DEF TypeOK

\* The innermost loan.
LEMMA InnermostLoan ==
  ASSUME TypeOK, loans # <<>>
  PROVE  /\ Len(loans) \in DOMAIN loans
         /\ Last(loans) = loans[Len(loans)]
         /\ Last(loans).listing \in Listing
         /\ Last(loans).receiver \in Users
         /\ Last(loans).before \in Nat
<1>1. Len(loans) \in DOMAIN loans /\ Last(loans) = loans[Len(loans)]
  BY DEF TypeOK, Last
<1>2. Last(loans) \in Frame
  BY <1>1 DEF TypeOK
<1>3. QED
  BY <1>1, <1>2 DEF Frame

\* Replacing an element of the array by another listing.
LEMMA Replacing ==
  ASSUME listings \in Seq(Listing), NEW l \in DOMAIN listings, NEW x \in Listing,
         listings' = [listings EXCEPT ![l] = x]
  PROVE  Replaces(l) /\ listings'[l] = x
<1>1. listings'[l] = x /\ DOMAIN listings' = DOMAIN listings
  OBVIOUS
<1>2. listings' \in Seq(Listing)
  OBVIOUS
<1>3. QED
  BY <1>1, <1>2 DEF Replaces

\* What each call does to the array.
LEMMA UpdateReplaces ==
  ASSUME TypeOK, NEW u \in Users, NEW l \in DOMAIN listings, NEW updated \in Listing,
         UpdateListing(u, l, updated)
  PROVE  Replaces(l) /\ listings'[l] = updated
BY Replacing DEF UpdateListing, TypeOK

LEMMA BidEdits ==
  ASSUME TypeOK, NEW l \in DOMAIN listings,
         NEW bidder \in Users \cup {NoOne}, NEW bid \in Nat,
         listings' = [listings EXCEPT ![l].highestBidder = bidder,
                                      ![l].highestBid = bid]
  PROVE  /\ Edits(l)
         /\ listings'[l].active = listings[l].active
         /\ listings'[l].terms = listings[l].terms
         /\ listings'[l].highestBid = bid
<1> DEFINE x == [listings[l] EXCEPT !.highestBidder = bidder,
                                    !.highestBid = bid]
<1>1. /\ x \in Listing /\ x.nft = listings[l].nft /\ x.active = listings[l].active
      /\ x.terms = listings[l].terms /\ x.highestBid = bid
  BY InArray DEF Listing
<1>2. listings' = [listings EXCEPT ![l] = x]
  BY InArray DEF TypeOK, Listing
<1>3. Replaces(l) /\ listings'[l] = x
  <2> HIDE DEF x
  <2>1. QED BY <1>1, <1>2, Replacing DEF TypeOK
<1>4. QED
  <2> HIDE DEF x
  <2>1. QED BY <1>1, <1>3 DEF Edits

LEMMA CancelCloses ==
  ASSUME TypeOK, NEW u \in Users, NEW l \in DOMAIN listings, CancelListing(u, l)
  PROVE  Closes(l, u)
<1> DEFINE x == [listings[l] EXCEPT !.active = FALSE]
<1>1. x \in Listing /\ x.nft = listings[l].nft /\ ~x.active
  BY InArray DEF Listing
<1>2. listings' = [listings EXCEPT ![l] = x]
  BY InArray DEF CancelListing, TypeOK, Listing
<1>3. Replaces(l) /\ listings'[l] = x
  <2> HIDE DEF x
  <2>1. QED BY <1>1, <1>2, Replacing DEF TypeOK
<1> HIDE DEF x
<1>4. QED
  BY <1>1, <1>3 DEF Closes, Edits, CancelListing, historyVars

LEMMA PurchaseCloses ==
  ASSUME TypeOK, NEW u \in Users, NEW l \in DOMAIN listings, PurchaseListing(u, l)
  PROVE  Closes(l, u)
<1> DEFINE x == [listings[l] EXCEPT !.active = FALSE, !.highestBidder = NoOne,
                                    !.highestBid = 0]
<1>1. x \in Listing /\ x.nft = listings[l].nft /\ ~x.active
  BY InArray DEF Listing
<1>2. listings' = [listings EXCEPT ![l] = x]
  BY InArray DEF PurchaseListing, TypeOK, Listing
<1>3. Replaces(l) /\ listings'[l] = x
  <2> HIDE DEF x
  <2>1. QED BY <1>1, <1>2, Replacing DEF TypeOK
<1> HIDE DEF x
<1>4. QED
  BY <1>1, <1>3 DEF Closes, Edits, PurchaseListing, historyVars

LEMMA AcceptCloses ==
  ASSUME TypeOK, NEW u \in Users, NEW l \in DOMAIN listings, AcceptBid(u, l)
  PROVE  Closes(l, listings[l].highestBidder)
<1> DEFINE x == [listings[l] EXCEPT !.highestBidder = NoOne, !.highestBid = 0,
                                    !.active = FALSE]
<1>1. x \in Listing /\ x.nft = listings[l].nft /\ ~x.active
  BY InArray DEF Listing
<1>2. listings' = [listings EXCEPT ![l] = x]
  BY InArray DEF AcceptBid, TypeOK, Listing
<1>3. Replaces(l) /\ listings'[l] = x
  <2> HIDE DEF x
  <2>1. QED BY <1>1, <1>2, Replacing DEF TypeOK
<1> HIDE DEF x
<1>4. QED
  BY <1>1, <1>3 DEF Closes, Edits, AcceptBid, historyVars

-----------------------------------------------------------------------------
(* Types *)

\* Who pays and who is paid stay within the balances.
LEMMA PaymentType ==
  ASSUME TypeOK, NEW c \in Coins, NEW from \in Users, NEW to \in Users,
         NEW amount \in Nat, Pays(c, from, amount)
  PROVE  Paid(c, from, to, amount) \in [Coins -> [Users -> Nat]]
<1> DEFINE w == [u \in Users |-> wallet[c][u] - (IF u = from THEN amount ELSE 0)
                                              + (IF u = to THEN amount ELSE 0)]
<1>1. wallet[c] \in [Users -> Nat] /\ wallet[c][from] >= amount
  BY DEF TypeOK, Pays
<1>2. w \in [Users -> Nat]
  BY <1>1
<1>3. Paid(c, from, to, amount) = [wallet EXCEPT ![c] = w]
  BY DEF Paid
<1> HIDE DEF w
<1>4. QED
  BY <1>2, <1>3 DEF TypeOK

LEMMA SendsToType ==
  ASSUME TypeOK, NEW c \in Coins, NEW u \in Users, NEW amount \in Nat,
         SendsTo(c, u, amount)
  PROVE  held' \in [Coins -> Nat] /\ wallet' \in [Coins -> [Users -> Nat]]
<1>1. held[c] \in Nat /\ held[c] >= amount /\ wallet[c][u] \in Nat
  BY DEF SendsTo, TypeOK
<1>2. held[c] - amount \in Nat /\ wallet[c][u] + amount \in Nat
  BY <1>1
<1>3. /\ held' = [held EXCEPT ![c] = held[c] - amount]
      /\ wallet' = [wallet EXCEPT ![c] = [wallet[c] EXCEPT ![u] = wallet[c][u] + amount]]
  BY DEF SendsTo, TypeOK
<1>4. QED
  BY <1>2, <1>3 DEF TypeOK

LEMMA ClosesType ==
  ASSUME TypeOK, NEW l \in DOMAIN listings, NEW to \in Users, Closes(l, to)
  PROVE  /\ listings' \in Seq(Listing)
         /\ alreadyListed' \in [NFTs -> BOOLEAN]
         /\ owner' \in [NFTs -> Users \cup {Exchange}]
         /\ UNCHANGED <<loans, aimed>>
<1>1. listings[l].nft \in NFTs
  BY InArray, Fields
<1>2. QED
  BY <1>1 DEF Closes, Edits, Replaces, Release, TypeOK

LEMMA BidOnType ==
  ASSUME NEW x \in Listing, NEW c
  PROVE  BidOn(x, c) \in Nat
BY Fields DEF BidOn

LEMMA InitType == Init => TypeOK
BY ExchangeAssumption DEF Init, TypeOK

LEMMA CreateType ==
  ASSUME TypeOK, NEW u \in Users, NEW new \in Listing, CreateListing(u, new)
  PROVE  TypeOK'
<1>1. new.nft \in NFTs
  BY Fields
<1>2. listings' \in Seq(Listing)
  BY DEF CreateListing, TypeOK
<1>3. /\ alreadyListed' \in [NFTs -> BOOLEAN]
      /\ owner' \in [NFTs -> Users \cup {Exchange}]
  BY <1>1 DEF CreateListing, TypeOK
<1>4. gap' \in [Coins -> Int]
  <2>1. \A c \in Coins : gap[c] \in Int /\ BidOn(new, c) \in Nat
    BY BidOnType DEF TypeOK
  <2>2. gap' = [c \in Coins |-> gap[c] + BidOn(new, c)]
    BY DEF CreateListing
  <2>3. QED
    BY <2>1, <2>2
<1>5. QED
  BY <1>2, <1>3, <1>4 DEF CreateListing, coinVars, TypeOK

LEMMA UpdateType ==
  ASSUME TypeOK, NEW u \in Users, NEW l \in DOMAIN listings, NEW updated \in Listing,
         UpdateListing(u, l, updated)
  PROVE  TypeOK'
<1>1. updated.nft \in NFTs /\ listings[l] \in Listing
  BY Fields, InArray
<1>2. listings' \in Seq(Listing)
  BY UpdateReplaces DEF Replaces
<1>3. gap' \in [Coins -> Int]
  <2>1. \A c \in Coins : /\ gap[c] \in Int /\ BidOn(updated, c) \in Nat
                         /\ BidOn(listings[l], c) \in Nat
    BY <1>1, BidOnType DEF TypeOK
  <2>2. gap' = [c \in Coins |-> gap[c] + BidOn(updated, c) - BidOn(listings[l], c)]
    BY DEF UpdateListing
  <2>3. QED
    BY <2>1, <2>2
<1>4. aimed' \in SUBSET NFTs
  BY <1>1 DEF UpdateListing, TypeOK
<1>5. QED
  BY <1>2, <1>3, <1>4 DEF UpdateListing, coinVars, TypeOK

LEMMA PurchaseType ==
  ASSUME TypeOK, NEW u \in Users, NEW l \in DOMAIN listings, PurchaseListing(u, l)
  PROVE  TypeOK'
<1> DEFINE t == listings[l].terms
<1>1. t.price \in Nat /\ t.purchaseAsset \in Coins \cup {Ether} /\ listings[l].seller \in Users
  BY InArray, Fields
<1>2. ether' \in Nat /\ wallet' \in [Coins -> [Users -> Nat]]
  <2>1. CASE t.purchaseAsset = Ether
    <3>1. ether' = ether + t.price /\ wallet' = wallet
      BY <2>1 DEF PurchaseListing
    <3>2. QED
      BY <1>1, <3>1 DEF TypeOK
  <2>2. CASE t.purchaseAsset # Ether
    <3>1. /\ Pays(t.purchaseAsset, u, t.price) /\ ether' = ether
          /\ wallet' = Paid(t.purchaseAsset, u, listings[l].seller, t.price)
      BY <2>2 DEF PurchaseListing
    <3>2. QED
      <4> HIDE DEF t
      <4>1. t.purchaseAsset \in Coins
        BY <1>1, <2>2
      <4>2. QED
        BY <1>1, <3>1, <4>1, PaymentType DEF TypeOK
  <2>3. QED
    BY <2>1, <2>2
<1>3. UNCHANGED <<held, allowance, gap>>
  BY DEF PurchaseListing, historyVars
<1>4. QED
  BY <1>2, <1>3, PurchaseCloses, ClosesType DEF TypeOK

LEMMA CreateBidType ==
  ASSUME TypeOK, NEW u \in Users, NEW l \in DOMAIN listings, NEW bid \in Nat,
         CreateBid(u, l, bid)
  PROVE  TypeOK'
<1> DEFINE c == listings[l].terms.bidAsset
           bidder == listings[l].highestBidder
           refund == IF bidder # NoOne THEN listings[l].highestBid ELSE 0
           Refund(w) == IF w = bidder THEN refund ELSE 0
           W == [w \in Users |-> wallet[c][w] + Refund(w) - (IF w = u THEN bid ELSE 0)]
<1>1. c \in Coins /\ refund \in Nat
  BY InArray, Fields
<1>2. /\ held[c] >= refund /\ wallet[c][u] + Refund(u) >= bid
      /\ wallet' = [wallet EXCEPT ![c] = W]
      /\ held' = [held EXCEPT ![c] = held[c] - refund + bid]
      /\ UNCHANGED <<alreadyListed, owner, allowance, ether, loans, aimed, gap>>
  BY DEF CreateBid, historyVars
<1>3. listings' \in Seq(Listing)
  BY BidEdits DEF CreateBid, Edits, Replaces, TypeOK
<1> HIDE DEF c, refund, bidder
<1>4. W \in [Users -> Nat]
  <2>1. wallet[c] \in [Users -> Nat]
    BY <1>1 DEF TypeOK
  <2>2. \A w \in Users : Refund(w) \in Nat /\ wallet[c][w] \in Nat
    BY <1>1, <2>1
  <2>3. wallet[c][u] + Refund(u) >= bid
    BY <1>2
  <2> HIDE DEF Refund
  <2>4. QED
    BY <2>2, <2>3
<1>5. held[c] - refund + bid \in Nat
  BY <1>1, <1>2 DEF TypeOK
<1> HIDE DEF W
<1>6. wallet' \in [Coins -> [Users -> Nat]] /\ held' \in [Coins -> Nat]
  BY <1>2, <1>4, <1>5 DEF TypeOK
<1>7. QED
  BY <1>2, <1>3, <1>6 DEF TypeOK

LEMMA CancelBidType ==
  ASSUME TypeOK, NEW u \in Users, NEW l \in DOMAIN listings, CancelBid(u, l)
  PROVE  TypeOK'
<1> DEFINE x == listings[l]
<1>1. /\ SendsTo(x.terms.bidAsset, u, x.highestBid)
      /\ UNCHANGED <<alreadyListed, owner, allowance, ether, loans, aimed, gap>>
  BY DEF CancelBid, historyVars
<1>2. x.terms.bidAsset \in Coins /\ x.highestBid \in Nat
  BY InArray, Fields
<1>3. listings' \in Seq(Listing)
  BY BidEdits DEF CancelBid, Edits, Replaces
<1> HIDE DEF x
<1>4. QED
  BY <1>1, <1>2, <1>3, SendsToType DEF TypeOK

LEMMA AcceptType ==
  ASSUME TypeOK, NEW u \in Users, NEW l \in DOMAIN listings, AcceptBid(u, l)
  PROVE  TypeOK'
<1> DEFINE x == listings[l]
<1>1. /\ SendsTo(x.terms.bidAsset, u, x.highestBid)
      /\ x.highestBidder # NoOne
      /\ UNCHANGED <<allowance, ether, gap>>
  BY DEF AcceptBid, historyVars
<1>2. x.terms.bidAsset \in Coins /\ x.highestBid \in Nat /\ x.highestBidder \in Users \cup {NoOne}
  BY InArray, Fields
<1>3. Closes(l, x.highestBidder)
  BY AcceptCloses
<1> HIDE DEF x
<1>4. x.highestBidder \in Users
  BY <1>1, <1>2
<1>5. QED
  BY <1>1, <1>2, <1>3, <1>4, SendsToType, ClosesType DEF TypeOK

LEMMA BeginType ==
  ASSUME TypeOK, NEW u \in Users, NEW receiver \in Users, NEW l \in DOMAIN listings,
         BeginLoan(u, l, receiver)
  PROVE  TypeOK'
<1> DEFINE f == [listing |-> listings[l], receiver |-> receiver,
                 before |-> held[listings[l].terms.loanAsset]]
<1>1. listings[l].nft \in NFTs /\ listings[l].terms.loanAsset \in Coins
  BY InArray, Fields
<1>2. f \in Frame
  BY <1>1, InArray DEF Frame, TypeOK
<1>3. loans' = Append(loans, f)
  BY DEF BeginLoan
<1>4. loans' \in Seq(Frame)
  <2> HIDE DEF f
  <2>1. QED BY <1>2, <1>3 DEF TypeOK
<1>5. QED
  BY <1>1, <1>4 DEF BeginLoan, Release, TypeOK, bookVars, coinVars, historyVars

LEMMA PayFeeType == ASSUME TypeOK, PayFee PROVE TypeOK'
<1> DEFINE f == Last(loans)
           c == f.listing.terms.loanAsset
           missing == f.before + f.listing.terms.loanFee - held[c]
           u == f.receiver
<1>1. c \in Coins /\ f.listing.terms.loanFee \in Nat /\ f.before \in Nat /\ u \in Users
  BY InnermostLoan, Fields DEF PayFee
<1>2. /\ missing > 0 /\ wallet[c][u] >= missing
      /\ wallet' = [wallet EXCEPT ![c] = [wallet[c] EXCEPT ![u] = wallet[c][u] - missing]]
      /\ held' = [held EXCEPT ![c] = held[c] + missing]
      /\ gap' = [gap EXCEPT ![c] = gap[c] - missing]
      /\ UNCHANGED <<listings, alreadyListed, owner, allowance, ether, loans, aimed>>
  BY <1>1 DEF PayFee, Pays, bookVars, TypeOK
<1>3. missing \in Nat
  BY <1>1, <1>2 DEF TypeOK
<1> HIDE DEF missing, c, u, f
<1>4. held[c] + missing \in Nat /\ gap[c] - missing \in Int /\ wallet[c][u] - missing \in Nat
  BY <1>1, <1>2, <1>3 DEF TypeOK
<1>5. QED
  BY <1>2, <1>4 DEF TypeOK

LEMMA FeeToSellerType ==
  ASSUME TypeOK, NEW f, f.listing \in Listing, FeeToSeller(f)
  PROVE  /\ held' \in [Coins -> Nat] /\ wallet' \in [Coins -> [Users -> Nat]]
         /\ allowance' \in [Coins -> [Users -> Nat]]
         /\ gap' \in [Coins -> Int]
<1> DEFINE c == f.listing.terms.loanAsset
           fee == f.listing.terms.loanFee
           s == f.listing.seller
<1>1. c \in Coins /\ fee \in Nat /\ s \in Users
  BY Fields
<1>2. /\ SendsTo(c, s, fee)
      /\ allowance' = [allowance EXCEPT ![c] = [allowance[c] EXCEPT ![s] = fee]]
      /\ gap' = [gap EXCEPT ![c] = gap[c] + fee]
  BY <1>1 DEF FeeToSeller, TypeOK
<1> HIDE DEF c, fee, s
<1>3. gap[c] + fee \in Int
  BY <1>1 DEF TypeOK
<1>4. QED
  BY <1>1, <1>2, <1>3, SendsToType DEF TypeOK

LEMMA EndLoanType == ASSUME TypeOK, EndLoan PROVE TypeOK'
<1>1. loans' \in Seq(Frame)
  BY DEF EndLoan, Front, TypeOK
<1>2. /\ held' \in [Coins -> Nat] /\ wallet' \in [Coins -> [Users -> Nat]]
      /\ allowance' \in [Coins -> [Users -> Nat]]
      /\ gap' \in [Coins -> Int]
  BY InnermostLoan, FeeToSellerType DEF EndLoan
<1>3. QED
  BY <1>1, <1>2 DEF EndLoan, bookVars, TypeOK

LEMMA DrawType ==
  ASSUME TypeOK, NEW u \in Users, NEW c \in Coins, NEW amount \in 1 .. allowance[c][u],
         Draw(u, c, amount)
  PROVE  TypeOK'
<1>1. amount \in Nat /\ allowance[c][u] - amount \in Nat /\ gap[c] + amount \in Int
  BY DEF TypeOK
<1>2. /\ SendsTo(c, u, amount)
      /\ allowance' = [allowance EXCEPT ![c] = [allowance[c] EXCEPT ![u] = allowance[c][u] - amount]]
      /\ gap' = [gap EXCEPT ![c] = gap[c] + amount]
      /\ UNCHANGED <<listings, alreadyListed, owner, ether, loans, aimed>>
  BY DEF Draw, bookVars, TypeOK
<1>3. allowance' \in [Coins -> [Users -> Nat]] /\ gap' \in [Coins -> Int]
  BY <1>1, <1>2 DEF TypeOK
<1>4. QED
  BY <1>1, <1>2, <1>3, SendsToType DEF TypeOK

LEMMA NextType == ASSUME TypeOK, [Next]_vars PROVE TypeOK'
<1> USE ExchangeAssumption
<1>1. ASSUME NEW u \in Users, NEW l \in DOMAIN listings, CancelListing(u, l)
      PROVE  TypeOK'
  <2>1. UNCHANGED <<wallet, held, allowance, ether, gap>>
    BY <1>1 DEF CancelListing, coinVars, historyVars
  <2>2. QED
    BY <1>1, <2>1, CancelCloses, ClosesType DEF TypeOK
<1>2. CASE ReturnNFT
  BY <1>2 DEF ReturnNFT, TypeOK, bookVars, coinVars, historyVars
<1>3. CASE UNCHANGED vars
  BY <1>3 DEF vars, TypeOK, bookVars, coinVars, historyVars
<1>4. ASSUME NEW u \in Users, NEW l \in DOMAIN listings, NEW bid \in BidAmounts,
             CreateBid(u, l, bid)
      PROVE  TypeOK'
  BY <1>4, CreateBidType
<1>5. Trade => TypeOK'
  BY <1>1, <1>2, <1>4, CreateType, PurchaseType, CancelBidType, AcceptType,
     BeginType, PayFeeType, EndLoanType, DrawType DEF Trade
<1>6. Update => TypeOK'
  BY UpdateType DEF Update
<1>7. QED
  BY <1>3, <1>5, <1>6 DEF Next

\* Every reachable state has the types of TypeOK.
THEOREM TypeCorrect == Spec => []TypeOK
<1>1. QED BY InitType, NextType, PTL DEF Spec

-----------------------------------------------------------------------------
(* Escrow and single listing *)

\* Editing a listing whose NFT and loans stay where they are.
LEMMA EditsPreserve ==
  ASSUME IInv, NEW l \in DOMAIN listings, Edits(l),
         UNCHANGED <<alreadyListed, owner, loans, aimed>>
  PROVE  ListedOnce' /\ ActiveListingsEscrowed'
<1>1. /\ DOMAIN listings' = DOMAIN listings
      /\ \A k \in DOMAIN listings :
           /\ listings'[k].nft = listings[k].nft
           /\ listings'[k].active => listings[k].active
  BY DEF Edits, Replaces
<1>2. QED
  BY <1>1 DEF IInv, ListedOnce, ActiveListingsEscrowed, OnLoan

\* Closing a listing: unless an update has aimed one, no other active listing
\* is about its NFT.
LEMMA ClosesPreserve ==
  ASSUME IInv, NEW l \in DOMAIN listings, NEW to, Closes(l, to)
  PROVE  ListedOnce' /\ ActiveListingsEscrowed'
<1>1. /\ DOMAIN listings' = DOMAIN listings
      /\ \A k \in DOMAIN listings :
           /\ listings'[k].nft = listings[k].nft
           /\ listings'[k].active => listings[k].active /\ k # l
  BY DEF Closes, Edits, Replaces
<1>2. /\ listings[l].active /\ loans' = loans /\ aimed' = aimed
      /\ alreadyListed' = [alreadyListed EXCEPT ![listings[l].nft] = FALSE]
      /\ owner' = [owner EXCEPT ![listings[l].nft] = to]
  BY DEF Closes, Release
<1>3. ASSUME NEW k \in DOMAIN listings, listings'[k].active, listings[k].nft \notin aimed
      PROVE  listings[k].nft # listings[l].nft
  BY <1>1, <1>2, <1>3 DEF IInv, ListedOnce
<1>4. \A k \in DOMAIN listings : listings[k].nft \in NFTs
  BY InArray, Fields DEF IInv
<1>5. ListedOnce'
  BY <1>1, <1>2, <1>3, <1>4 DEF IInv, TypeOK, ListedOnce
<1>6. ActiveListingsEscrowed'
  BY <1>1, <1>2, <1>3, <1>4 DEF IInv, TypeOK, ActiveListingsEscrowed, OnLoan
<1>7. QED
  BY <1>5, <1>6

\* A new listing: its NFT was not listed, and is now in the exchange.
LEMMA CreatePreserves ==
  ASSUME IInv, NEW u \in Users, NEW x \in Listing, CreateListing(u, x)
  PROVE  ListedOnce' /\ ActiveListingsEscrowed'
<1> DEFINE new == Len(listings) + 1
           n == x.nft
<1>1. /\ DOMAIN listings' = DOMAIN listings \cup {new}
      /\ new \notin DOMAIN listings
      /\ \A k \in DOMAIN listings : listings'[k] = listings[k]
      /\ listings'[new].nft = n
  BY DEF CreateListing, IInv, TypeOK
<1>2. /\ ~alreadyListed[n]
      /\ alreadyListed' = [alreadyListed EXCEPT ![n] = TRUE]
      /\ owner' = [owner EXCEPT ![n] = Exchange]
      /\ loans' = loans /\ aimed' = aimed
  BY DEF CreateListing
<1>3. n \in NFTs /\ \A k \in DOMAIN listings : listings[k].nft \in NFTs
  BY InArray, Fields DEF IInv
<1>4. \A k \in DOMAIN listings :
        listings[k].active /\ listings[k].nft \notin aimed => listings[k].nft # n
  BY <1>2 DEF IInv, ListedOnce
<1> HIDE DEF new, n
<1>5. ListedOnce'
  <2>1. ASSUME NEW k \in DOMAIN listings', listings'[k].active, listings'[k].nft \notin aimed
        PROVE  alreadyListed'[listings'[k].nft]
    BY <1>1, <1>2, <1>3, <2>1 DEF IInv, TypeOK, ListedOnce
  <2>2. ASSUME NEW k \in DOMAIN listings', NEW j \in DOMAIN listings',
               listings'[k].active, listings'[j].active, listings'[k].nft \notin aimed,
               listings'[j].nft = listings'[k].nft
        PROVE  j = k
    <3>1. k = new <=> j = new
      BY <1>1, <1>4, <2>2
    <3>2. QED
      BY <1>1, <2>2, <3>1 DEF IInv, ListedOnce
  <2>3. QED
    BY <1>2, <2>1, <2>2 DEF ListedOnce
<1>6. \A y : OnLoan(y)' <=> OnLoan(y)
  BY <1>2 DEF OnLoan
<1>7. owner'[n] = Exchange /\ \A y \in NFTs : owner[y] = Exchange => owner'[y] = Exchange
  BY <1>2, <1>3 DEF IInv, TypeOK
<1>8. ActiveListingsEscrowed'
  BY <1>1, <1>2, <1>3, <1>6, <1>7 DEF IInv, ActiveListingsEscrowed
<1>9. QED
  BY <1>5, <1>8

\* An update: the NFT it names is the one of the listing, or is aimed at.
LEMMA UpdatePreserves ==
  ASSUME IInv, NEW u \in Users, NEW l \in DOMAIN listings, NEW x \in Listing,
         UpdateListing(u, l, x)
  PROVE  ListedOnce' /\ ActiveListingsEscrowed'
<1>1. /\ DOMAIN listings' = DOMAIN listings
      /\ \A k \in DOMAIN listings : k # l => listings'[k] = listings[k]
      /\ listings'[l] = x
  BY UpdateReplaces DEF IInv, Replaces
<1>2. /\ listings[l].active
      /\ aimed' = aimed \cup ({x.nft} \ {listings[l].nft})
      /\ UNCHANGED <<alreadyListed, owner, loans>>
  BY DEF UpdateListing
<1>3. ASSUME NEW k \in DOMAIN listings, listings'[k].active, listings'[k].nft \notin aimed'
      PROVE  listings[k].active /\ listings[k].nft = listings'[k].nft /\ listings[k].nft \notin aimed
  BY <1>1, <1>2, <1>3
<1>4. ASSUME NEW k \in DOMAIN listings, NEW j \in DOMAIN listings,
             listings'[k].active, listings'[k].nft \notin aimed',
             listings'[j].active, listings'[j].nft = listings'[k].nft
      PROVE  j = k
  <2>1. listings[j].active /\ listings[j].nft = listings[k].nft
    BY <1>3, <1>4
  <2>2. QED
    BY <1>3, <1>4, <2>1 DEF IInv, ListedOnce
<1>5. ListedOnce'
  BY <1>1, <1>2, <1>3, <1>4 DEF IInv, ListedOnce
<1>6. ActiveListingsEscrowed'
  BY <1>1, <1>2, <1>3 DEF IInv, ActiveListingsEscrowed, OnLoan
<1>7. QED
  BY <1>5, <1>6

\* IInv is inductive.
LEMMA InitInv == Init => IInv
BY InitType DEF Init, IInv, ListedOnce, ActiveListingsEscrowed

LEMMA NextInv == ASSUME IInv, [Next]_vars PROVE IInv'
<1> DEFINE Goal == ListedOnce' /\ ActiveListingsEscrowed'
<1>1. SUFFICES Goal
  BY NextType DEF IInv
<1> USE ExchangeAssumption
<1>2. ASSUME NEW u \in Users, NEW new \in Offers, CreateListing(u, new) PROVE Goal
  BY <1>2, CreatePreserves
<1>3. ASSUME NEW u \in Users, NEW l \in DOMAIN listings, CancelListing(u, l) PROVE Goal
  BY <1>3, CancelCloses, ClosesPreserve DEF IInv
<1>4. ASSUME NEW u \in Users, NEW l \in DOMAIN listings, PurchaseListing(u, l) PROVE Goal
  BY <1>4, PurchaseCloses, ClosesPreserve DEF IInv
<1>5. ASSUME NEW u \in Users, NEW l \in DOMAIN listings, NEW bid \in BidAmounts,
             CreateBid(u, l, bid)
      PROVE  Goal
  <2>1. bid \in Nat /\ TypeOK
    BY DEF IInv, TypeOK
  <2>2. Edits(l) /\ UNCHANGED <<alreadyListed, owner, loans, aimed>>
    BY <1>5, <2>1, BidEdits DEF CreateBid, historyVars
  <2>3. QED
    BY <2>2, EditsPreserve
<1>6. ASSUME NEW u \in Users, NEW l \in DOMAIN listings, CancelBid(u, l) PROVE Goal
  <2>1. Edits(l) /\ UNCHANGED <<alreadyListed, owner, loans, aimed>>
    BY <1>6, BidEdits DEF CancelBid, historyVars, IInv
  <2>2. QED
    BY <2>1, EditsPreserve
<1>7. ASSUME NEW u \in Users, NEW l \in DOMAIN listings, AcceptBid(u, l) PROVE Goal
  BY <1>7, AcceptCloses, ClosesPreserve DEF IInv
<1>8. ASSUME NEW u \in Users, NEW receiver \in Users, NEW l \in DOMAIN listings,
             BeginLoan(u, l, receiver)
      PROVE  Goal
  <2> DEFINE new == Len(loans) + 1
  <2>1. /\ DOMAIN loans' = DOMAIN loans \cup {new}
        /\ \A k \in DOMAIN loans : loans'[k] = loans[k]
        /\ loans'[new].listing = listings[l]
    BY <1>8 DEF BeginLoan, IInv, TypeOK
  <2>2. /\ UNCHANGED <<bookVars, aimed>>
        /\ owner' = [owner EXCEPT ![listings[l].nft] = receiver]
    BY <1>8 DEF BeginLoan, Release, historyVars
  <2> HIDE DEF new
  <2>3. OnLoan(listings[l].nft)' /\ \A n \in NFTs : OnLoan(n) => OnLoan(n)'
    <3>1. listings' = listings
      BY <2>2 DEF bookVars
    <3>2. QED
      BY <2>1, <3>1 DEF OnLoan
  <2>4. \A k \in DOMAIN listings : listings[k].nft \in NFTs
    BY InArray, Fields DEF IInv
  <2>5. QED
    BY <2>2, <2>3, <2>4 DEF IInv, TypeOK, ListedOnce, ActiveListingsEscrowed, bookVars
<1>9. CASE ReturnNFT
  <2>1. /\ UNCHANGED <<bookVars, loans, aimed>>
        /\ \A n \in NFTs : owner'[n] \in {owner[n], Exchange}
    BY <1>9 DEF ReturnNFT, IInv, TypeOK, historyVars
  <2>2. \A k \in DOMAIN listings : listings[k].nft \in NFTs
    BY InArray, Fields DEF IInv
  <2>3. QED
    BY <2>1, <2>2 DEF IInv, ListedOnce, ActiveListingsEscrowed, OnLoan, bookVars
<1>10. CASE EndLoan
  <2>1. /\ UNCHANGED <<bookVars, owner, aimed>>
        /\ loans # <<>>
        /\ owner[Last(loans).listing.nft] = Exchange
        /\ loans' = Front(loans)
    BY <1>10 DEF EndLoan
  <2>2. \A k \in DOMAIN loans : k # Len(loans) => k \in DOMAIN loans' /\ loans'[k] = loans[k]
    BY <2>1 DEF IInv, TypeOK, Front
  <2>3. \A n \in NFTs : OnLoan(n) => OnLoan(n)' \/ owner[n] = Exchange
    BY <2>1, <2>2, InnermostLoan DEF OnLoan, IInv
  <2>4. \A k \in DOMAIN listings : listings[k].nft \in NFTs
    BY InArray, Fields DEF IInv
  <2>5. QED
    BY <2>1, <2>3, <2>4 DEF IInv, ListedOnce, ActiveListingsEscrowed, bookVars
<1>11. ASSUME UNCHANGED <<listings, alreadyListed, owner, loans, aimed>> PROVE Goal
  BY <1>11 DEF IInv, ListedOnce, ActiveListingsEscrowed, OnLoan
<1>12. PayFee \/ UNCHANGED vars \/ (\E u \in Users, c \in Coins :
         \E amount \in 1 .. allowance[c][u] : Draw(u, c, amount)) => Goal
  BY <1>11 DEF PayFee, Draw, vars, bookVars, historyVars
<1>13. ASSUME NEW u \in Users, NEW l \in DOMAIN listings, NEW updated \in Offers,
              UpdateListing(u, l, updated)
       PROVE  Goal
  BY <1>13, UpdatePreserves
<1> HIDE DEF Goal
<1>14. QED
  BY <1>2, <1>3, <1>4, <1>5, <1>6, <1>7, <1>8, <1>9, <1>10, <1>12, <1>13
     DEF Next, Trade, Update

\* The NFT of an active listing is in the exchange or with a borrower who has
\* to bring it back, for any nesting of loans, sales and bids and any structs
\* passed to the calls, until an update aims a listing at it.
THEOREM Escrow == Spec => []ActiveListingsEscrowed
<1>1. IInv => ActiveListingsEscrowed
  BY DEF IInv
<1>2. QED
  BY InitInv, NextInv, <1>1, PTL DEF Spec

\* No NFT is offered in two active listings until an update aims a listing at
\* it, whatever is done with other listings.
THEOREM NoDoubleListing == Spec => []ListedOnce
<1>1. IInv => ListedOnce
  BY DEF IInv
<1>2. QED
  BY InitInv, NextInv, <1>1, PTL DEF Spec

-----------------------------------------------------------------------------
(* What a seller gets *)

LEMMA PurchaseSettles ==
  ASSUME TypeOK, NEW u \in Users, NEW l \in DOMAIN listings, PurchaseListing(u, l)
  PROVE  Settled(l, u)
<1> DEFINE seller == listings[l].seller
           c == listings[l].terms.purchaseAsset
           price == listings[l].terms.price
<1>1. seller \in Users /\ price \in Nat /\ c \in Coins \cup {Ether}
  BY InArray, Fields
<1>2. IF c = Ether THEN ether' = ether + price ELSE wallet' = Paid(c, u, seller, price)
  BY DEF PurchaseListing
<1>3. CASE u = seller \/ c = Ether
  BY <1>2, <1>3 DEF Settled
<1>4. CASE u # seller /\ c # Ether
  <2>1. c \in Coins /\ wallet' = Paid(c, u, seller, price)
    BY <1>1, <1>2, <1>4
  <2> HIDE DEF seller, c, price
  <2>2. wallet[c][u] \in Nat /\ wallet[c][seller] \in Nat
    BY <1>1, <2>1 DEF TypeOK
  <2>3. /\ wallet'[c][seller] = wallet[c][seller] - 0 + price
        /\ wallet'[c][u] = wallet[c][u] - price + 0
    BY <1>1, <1>4, <2>1 DEF Paid, TypeOK
  <2>4. wallet'[c][seller] = wallet[c][seller] + price /\ wallet'[c][u] = wallet[c][u] + (-price)
    BY <1>1, <2>2, <2>3
  <2>5. QED
    BY <1>4, <2>4 DEF Settled, seller, c, price
<1>5. QED
  BY <1>3, <1>4

LEMMA AcceptSettles ==
  ASSUME TypeOK, NEW u \in Users, NEW l \in DOMAIN listings, AcceptBid(u, l)
  PROVE  Settled(l, listings[l].highestBidder)
<1> DEFINE c == listings[l].terms.bidAsset
           bid == listings[l].highestBid
<1>1. c \in Coins /\ bid \in Nat
  BY InArray, Fields
<1>2. SendsTo(c, u, bid) /\ listings[l].seller = u
  BY DEF AcceptBid
<1>3. held'[c] = held[c] - bid /\ wallet'[c][u] = wallet[c][u] + bid
  <2> HIDE DEF c, bid
  <2>1. QED BY <1>1, <1>2 DEF SendsTo, TypeOK
<1>4. QED
  BY <1>2, <1>3 DEF Settled

\* What the property claims of a step.
Leaves(n) == owner[n] = Exchange /\ owner'[n] # Exchange /\ Len(loans') = Len(loans)
IsSettled(n) ==
  \A l \in DOMAIN listings :
    listings[l].active /\ listings[l].nft = n => ~listings'[l].active /\ Settled(l, owner'[n])

\* The NFT that leaves is the one of the listing that closes, its only one.
LEMMA ClosingSettles ==
  ASSUME IInv, NEW l \in DOMAIN listings, NEW to, Closes(l, to), Settled(l, to),
         NEW n \in NFTs \ aimed, Leaves(n)
  PROVE  IsSettled(n)
<1>1. owner' = [owner EXCEPT ![listings[l].nft] = to]
  BY DEF Closes, Release
<1>2. n = listings[l].nft /\ owner'[n] = to
  BY <1>1 DEF Leaves, IInv, TypeOK
<1>3. \A k \in DOMAIN listings : listings[k].active /\ listings[k].nft = n => k = l
  BY <1>2 DEF IInv, ListedOnce, Closes
<1>4. QED
  BY <1>2, <1>3 DEF IsSettled, Closes

LEMMA LeavingSettles ==
  ASSUME IInv, [Next]_vars, NEW n \in NFTs \ aimed, Leaves(n)
  PROVE  IsSettled(n)
<1>1. n \in NFTs /\ TypeOK
  BY DEF IInv
<1>2. ASSUME NEW m, owner' = [owner EXCEPT ![m] = Exchange] PROVE FALSE
  BY <1>1, <1>2 DEF Leaves, TypeOK
<1>3. ASSUME NEW u \in Users, NEW l \in DOMAIN listings, CancelListing(u, l)
      PROVE  IsSettled(n)
  <2>1. Settled(l, u)
    BY <1>3 DEF CancelListing, Settled
  <2>2. QED
    BY <1>1, <1>3, <2>1, CancelCloses, ClosingSettles
<1>4. ASSUME NEW u \in Users, NEW l \in DOMAIN listings, PurchaseListing(u, l)
      PROVE  IsSettled(n)
  BY <1>1, <1>4, PurchaseSettles, PurchaseCloses, ClosingSettles
<1>5. ASSUME NEW u \in Users, NEW l \in DOMAIN listings, AcceptBid(u, l)
      PROVE  IsSettled(n)
  BY <1>1, <1>5, AcceptSettles, AcceptCloses, ClosingSettles
<1>6. ASSUME NEW u \in Users, NEW receiver \in Users, NEW l \in DOMAIN listings,
             BeginLoan(u, l, receiver)
      PROVE  FALSE
  <2>1. PICK f : loans' = Append(loans, f)
    BY <1>6 DEF BeginLoan
  <2>2. Len(loans') = Len(loans) + 1 /\ Len(loans) \in Nat
    BY <1>1, <2>1 DEF TypeOK
  <2>3. QED
    BY <2>2 DEF Leaves
<1>7. owner' # owner
  BY DEF Leaves
<1>8. ASSUME NEW u \in Users, NEW x, CreateListing(u, x) PROVE FALSE
  BY <1>2, <1>8 DEF CreateListing
<1>9. ~ReturnNFT
  BY <1>2 DEF ReturnNFT
<1>10. ASSUME NEW u \in Users, NEW l, NEW amount, CreateBid(u, l, amount) PROVE FALSE
  BY <1>7, <1>10 DEF CreateBid
<1>11. ASSUME NEW u \in Users, NEW l, CancelBid(u, l) PROVE FALSE
  BY <1>7, <1>11 DEF CancelBid
<1>12. ~PayFee /\ ~EndLoan /\ ~UNCHANGED vars
  BY <1>7 DEF PayFee, EndLoan, vars
<1>13. ASSUME NEW u \in Users, NEW c, NEW amount, Draw(u, c, amount) PROVE FALSE
  BY <1>7, <1>13 DEF Draw
<1>14. ~Update
  BY <1>7 DEF Update, UpdateListing
<1>15. QED
  BY <1>3, <1>4, <1>5, <1>6, <1>8, <1>9, <1>10, <1>11, <1>12, <1>13, <1>14
     DEF Next, Trade

\* An NFT at which no update has aimed a listing leaves the exchange, but for
\* loans, only when its listing closes and its seller has it back or is paid,
\* from whatever depth of loans that happens.
THEOREM SellersPaid == Spec => SellerTakesBackOrIsPaid
<1>1. IInv /\ [Next]_vars =>
        [\A n \in NFTs \ aimed :
           owner[n] = Exchange /\ owner'[n] # Exchange /\ Len(loans') = Len(loans) =>
             \A l \in DOMAIN listings :
               listings[l].active /\ listings[l].nft = n =>
                 ~listings'[l].active /\ Settled(l, owner'[n])]_vars
  BY LeavingSettles DEF Leaves, IsSettled
<1>2. QED
  BY InitInv, NextInv, <1>1, PTL DEF Spec, SellerTakesBackOrIsPaid

-----------------------------------------------------------------------------
(* Bids: held + gap changes by as much as the bids that stand, or by more.   *)

BidTerms(c) == [l \in DOMAIN listings |-> BidOn(listings[l], c)]
Bids(c) == SumFunctionOnSet(BidTerms(c), DOMAIN listings)

LEMMA BidsType ==
  ASSUME TypeOK, NEW c
  PROVE  /\ IsFiniteSet(DOMAIN listings)
         /\ \A l \in DOMAIN listings : BidTerms(c)[l] \in Nat
         /\ Bids(c) \in Nat
         /\ StandingBids(c) = Bids(c)
<1>1. DOMAIN listings = 1..Len(listings) /\ Len(listings) \in Nat
  BY DEF TypeOK
<1>2. IsFiniteSet(DOMAIN listings)
  BY <1>1, FS_Interval
<1>3. \A l \in DOMAIN listings : BidTerms(c)[l] \in Nat
  BY InArray, BidOnType DEF BidTerms
<1>4. DOMAIN BidTerms(c) = DOMAIN listings
  BY DEF BidTerms
<1>5. StandingBids(c) = Bids(c)
  BY <1>4, SumOver DEF Bids, BidTerms, StandingBids
<1>6. Bids(c) \in Nat
  BY <1>2, <1>3, SumNat DEF Bids
<1>7. QED
  BY <1>2, <1>3, <1>5, <1>6

LEMMA BidOnNext ==
  ASSUME TypeOK', NEW l \in DOMAIN listings', NEW c
  PROVE  BidOn(listings'[l], c) \in Nat
<1>1. listings'[l] \in Listing
  BY DEF TypeOK
<1>2. QED
  BY <1>1, BidOnType

LEMMA BidsTypeNext == ASSUME TypeOK', NEW c PROVE Bids(c)' \in Nat
<1>1. DOMAIN listings' = 1..Len(listings') /\ Len(listings') \in Nat
  BY DEF TypeOK
<1>2. IsFiniteSet(DOMAIN listings')
  BY <1>1, FS_Interval
<1>3. \A l \in DOMAIN listings' : BidTerms(c)'[l] \in Nat
  BY BidOnNext DEF BidTerms
<1>4. Bids(c)' = SumFunctionOnSet(BidTerms(c)', DOMAIN listings')
  BY DEF Bids
<1>5. QED
  BY <1>2, <1>3, <1>4, SumNat

\* Replacing one listing changes the standing bids by what changes there.
LEMMA BidsChange ==
  ASSUME TypeOK, TypeOK', NEW c, NEW l \in DOMAIN listings, Replaces(l)
  PROVE  Bids(c)' = Bids(c) + (BidOn(listings'[l], c) - BidOn(listings[l], c))
<1> DEFINE S == DOMAIN listings
           f == BidTerms(c)
           g == BidTerms(c)'
<1>1. DOMAIN listings' = S
  BY DEF Replaces
<1>2. IsFiniteSet(S) /\ \A k \in S : f[k] \in Nat
  BY BidsType
<1>3. \A k \in S : g[k] = BidOn(listings'[k], c) /\ g[k] \in Nat
  BY <1>1, BidOnNext DEF BidTerms
<1>4. \A k \in S \ {l} : g[k] = f[k]
  BY <1>3 DEF BidTerms, Replaces
<1>5. f[l] = BidOn(listings[l], c)
  BY DEF BidTerms
<1>6. Bids(c)' = SumFunctionOnSet(g, S) /\ Bids(c) = SumFunctionOnSet(f, S)
  BY <1>1 DEF Bids
<1> HIDE DEF f, g
<1>7. SumFunctionOnSet(g, S) = SumFunctionOnSet(f, S) + (g[l] - f[l])
  BY <1>2, <1>3, <1>4, SumUpdate
<1>8. QED
  BY <1>3, <1>5, <1>6, <1>7

\* A new listing adds the bid that was written into it.
LEMMA NewListingBid ==
  ASSUME TypeOK, TypeOK', NEW c, NEW x, listings' = Append(listings, x)
  PROVE  Bids(c)' = Bids(c) + BidOn(x, c) /\ BidOn(x, c) \in Nat
<1> DEFINE n == Len(listings)
           f == BidTerms(c)
           g == BidTerms(c)'
<1>1. /\ DOMAIN listings = 1..n /\ n \in Nat
      /\ DOMAIN listings' = 1..(n + 1)
      /\ \A k \in 1..n : listings'[k] = listings[k]
      /\ listings'[n + 1] = x
  BY DEF TypeOK
<1>2. IsFiniteSet(1..n) /\ n + 1 \notin 1..n /\ 1..(n + 1) = 1..n \cup {n + 1}
  <2> HIDE DEF n
  <2>1. n \in Int /\ 1 \in Int
    BY <1>1
  <2>2. IsFiniteSet(1..n)
    BY <2>1, FS_Interval
  <2>3. n + 1 \notin 1..n /\ 1..(n + 1) = 1..n \cup {n + 1}
    BY <1>1
  <2>4. QED
    BY <2>2, <2>3
<1>3. \A k \in 1..(n + 1) : g[k] = BidOn(listings'[k], c) /\ g[k] \in Nat
  BY <1>1, BidOnNext DEF BidTerms
<1>4. \A k \in 1..n : f[k] = g[k]
  BY <1>1, <1>3 DEF BidTerms
<1>5. g[n + 1] = BidOn(x, c) /\ BidOn(x, c) \in Nat
  <2>1. n + 1 \in 1..(n + 1)
    BY <1>2
  <2>2. QED
    BY <1>1, <1>3, <2>1
<1>6. Bids(c)' = SumFunctionOnSet(g, 1..(n + 1)) /\ Bids(c) = SumFunctionOnSet(f, 1..n)
  BY <1>1 DEF Bids
<1>7. Bids(c) \in Nat
  BY BidsType
<1> HIDE DEF f, g, n
<1>8. SumFunctionOnSet(g, 1..n \cup {n + 1}) = g[n + 1] + SumFunctionOnSet(g, 1..n)
  <2> DEFINE A == 1..n
             y == n + 1
  <2>1. \A k \in A \cup {y} : g[k] \in Int
    BY <1>2, <1>3
  <2>2. IsFiniteSet(A) /\ y \notin A
    BY <1>2
  <2> SUFFICES SumFunctionOnSet(g, A \cup {y}) = g[y] + SumFunctionOnSet(g, A)
    OBVIOUS
  <2> HIDE DEF A, y
  <2>3. QED
    BY <2>1, <2>2, SumIn
<1>9. SumFunctionOnSet(f, 1..n) = SumFunctionOnSet(g, 1..n)
  BY <1>2, <1>4, SumSame
<1>10. Bids(c)' = BidOn(x, c) + Bids(c)
  BY <1>2, <1>5, <1>6, <1>8, <1>9
<1>11. QED
  BY <1>5, <1>7, <1>10

\* The bids that stand may only rise by what held and gap gain together.
BidInv == \A c \in Coins : held[c] + gap[c] >= Bids(c)
Gain(c) == (held'[c] + gap'[c]) - (held[c] + gap[c])

LEMMA KeepsAbove ==
  ASSUME NEW h \in Int, NEW hNext \in Int, NEW b \in Int, NEW bNext \in Int,
         h >= b, hNext - h >= bNext - b
  PROVE  hNext >= bNext
OBVIOUS

LEMMA GainKeeps ==
  ASSUME TypeOK, TypeOK', BidInv, \A c \in Coins : Gain(c) >= Bids(c)' - Bids(c)
  PROVE  BidInv'
<1>1. SUFFICES ASSUME NEW c \in Coins PROVE (held[c] + gap[c])' >= Bids(c)'
  BY DEF BidInv
<1>2. Bids(c) \in Int /\ held[c] + gap[c] \in Int
  BY BidsType DEF TypeOK
<1>3. held'[c] + gap'[c] \in Int
  BY DEF TypeOK
<1>4. Bids(c)' \in Int
  BY BidsTypeNext
<1>5. held[c] + gap[c] >= Bids(c)
  BY DEF BidInv
<1>6. (held'[c] + gap'[c]) - (held[c] + gap[c]) >= Bids(c)' - Bids(c)
  BY DEF Gain
<1>7. QED
  BY <1>2, <1>3, <1>4, <1>5, <1>6, KeepsAbove

\* One listing changes.
LEMMA OneListing ==
  ASSUME TypeOK, TypeOK', NEW c, NEW l \in DOMAIN listings, Replaces(l)
  PROVE  /\ BidOn(listings[l], c) \in Nat /\ BidOn(listings'[l], c) \in Nat
         /\ Bids(c)' - Bids(c) = BidOn(listings'[l], c) - BidOn(listings[l], c)
<1>1. BidOn(listings[l], c) \in Nat /\ BidOn(listings'[l], c) \in Nat
  BY InArray, BidOnType, BidOnNext DEF Replaces
<1>2. Bids(c) \in Nat
  BY BidsType
<1>3. QED
  BY <1>1, <1>2, BidsChange

\* What a transfer out takes from the balance.
LEMMA SendsGain ==
  ASSUME TypeOK, NEW d \in Coins, NEW u, NEW amount \in Nat, SendsTo(d, u, amount),
         NEW c \in Coins
  PROVE  held'[c] = held[c] - (IF c = d THEN amount ELSE 0)
BY DEF SendsTo, TypeOK

LEMMA InitBids == ASSUME Init, TypeOK PROVE BidInv
<1>1. SUFFICES ASSUME NEW c \in Coins PROVE held[c] + gap[c] >= Bids(c)
  BY DEF BidInv
<1>2. DOMAIN listings = {} /\ held[c] = 0 /\ gap[c] = 0
  BY DEF Init
<1>3. Bids(c) = 0
  BY <1>2, SumEmpty DEF Bids
<1>4. QED
  BY <1>2, <1>3

LEMMA CreateBids ==
  ASSUME TypeOK, TypeOK', BidInv, NEW u \in Users, NEW new \in Listing,
         CreateListing(u, new)
  PROVE  BidInv'
<1>1. ASSUME NEW c \in Coins PROVE Gain(c) >= Bids(c)' - Bids(c)
  <2>1. Bids(c)' = Bids(c) + BidOn(new, c) /\ BidOn(new, c) \in Nat
    BY NewListingBid DEF CreateListing
  <2>2. gap'[c] = gap[c] + BidOn(new, c) /\ held'[c] = held[c]
    BY DEF CreateListing, coinVars
  <2>3. held[c] \in Nat /\ gap[c] \in Int /\ Bids(c) \in Nat
    BY BidsType DEF TypeOK
  <2>4. QED
    BY <2>1, <2>2, <2>3 DEF Gain
<1>2. QED
  BY <1>1, GainKeeps

LEMMA UpdateBids ==
  ASSUME TypeOK, TypeOK', BidInv, NEW u \in Users, NEW l \in DOMAIN listings,
         NEW updated \in Listing, UpdateListing(u, l, updated)
  PROVE  BidInv'
<1>1. ASSUME NEW c \in Coins PROVE Gain(c) >= Bids(c)' - Bids(c)
  <2> DEFINE old == BidOn(listings[l], c)
             new == BidOn(updated, c)
  <2>1. old \in Nat /\ new \in Nat /\ Bids(c)' - Bids(c) = new - old
    BY OneListing, UpdateReplaces
  <2>2. gap'[c] = gap[c] + new - old /\ held'[c] = held[c]
    BY DEF UpdateListing, coinVars
  <2>3. held[c] \in Nat /\ gap[c] \in Int
    BY DEF TypeOK
  <2> HIDE DEF old, new
  <2>4. QED
    BY <2>1, <2>2, <2>3 DEF Gain
<1>2. QED
  BY <1>1, GainKeeps

\* A listing that closes: its bid stands no more.
LEMMA ClosesBids ==
  ASSUME TypeOK, TypeOK', BidInv, NEW l \in DOMAIN listings, NEW to, Closes(l, to),
         UNCHANGED <<held, gap>>
  PROVE  BidInv'
<1>1. ASSUME NEW c \in Coins PROVE Gain(c) >= Bids(c)' - Bids(c)
  <2>1. /\ BidOn(listings[l], c) \in Nat
        /\ Bids(c)' - Bids(c) = BidOn(listings'[l], c) - BidOn(listings[l], c)
    BY OneListing DEF Closes, Edits
  <2>2. BidOn(listings'[l], c) = 0
    BY DEF Closes, BidOn
  <2>3. Gain(c) = 0
    BY DEF Gain, TypeOK
  <2>4. QED
    BY <2>1, <2>2, <2>3
<1>2. QED
  BY <1>1, GainKeeps

\* A bid that is paid out of the exchange and stands no more.
LEMMA BidPaidOut ==
  ASSUME TypeOK, TypeOK', BidInv, NEW l \in DOMAIN listings, Replaces(l),
         listings[l].active, NEW u,
         SendsTo(listings[l].terms.bidAsset, u, listings[l].highestBid),
         listings'[l].active => listings'[l].highestBid = 0,
         UNCHANGED gap
  PROVE  BidInv'
<1> DEFINE d == listings[l].terms.bidAsset
           bid == listings[l].highestBid
<1>0. d \in Coins /\ bid \in Nat
  BY InArray, Fields
<1>1. ASSUME NEW c \in Coins PROVE Gain(c) >= Bids(c)' - Bids(c)
  <2>1. Bids(c)' - Bids(c) = BidOn(listings'[l], c) - BidOn(listings[l], c)
    BY OneListing
  <2>2. BidOn(listings'[l], c) = 0
    BY DEF BidOn
  <2>3. BidOn(listings[l], c) = IF c = d THEN bid ELSE 0
    BY DEF BidOn
  <2>4. SendsTo(d, u, bid)
    OBVIOUS
  <2> HIDE DEF d, bid
  <2>5. held'[c] = held[c] - (IF c = d THEN bid ELSE 0)
    BY <1>0, <2>4, SendsGain
  <2>6. held[c] \in Nat /\ gap[c] \in Int
    BY DEF TypeOK
  <2>7. QED
    BY <1>0, <2>1, <2>2, <2>3, <2>5, <2>6 DEF Gain
<1>2. QED
  BY <1>1, GainKeeps

LEMMA CreateBidBids ==
  ASSUME TypeOK, TypeOK', BidInv, NEW u \in Users, NEW l \in DOMAIN listings,
         NEW bid \in Nat, CreateBid(u, l, bid)
  PROVE  BidInv'
<1> DEFINE d == listings[l].terms.bidAsset
           last == listings[l].highestBid
           refund == IF listings[l].highestBidder # NoOne THEN last ELSE 0
<1>1. d \in Coins /\ last \in Nat
  BY InArray, Fields DEF TypeOK
<1>2. /\ listings[l].active /\ gap' = gap
      /\ held' = [held EXCEPT ![d] = held[d] - refund + bid]
  BY DEF CreateBid, historyVars
<1>3. /\ Replaces(l) /\ listings'[l].active = listings[l].active
      /\ listings'[l].terms = listings[l].terms /\ listings'[l].highestBid = bid
  <2>1. listings' = [listings EXCEPT ![l].highestBidder = u, ![l].highestBid = bid]
    BY DEF CreateBid
  <2>2. /\ Edits(l) /\ listings'[l].active = listings[l].active
        /\ listings'[l].terms = listings[l].terms /\ listings'[l].highestBid = bid
    BY <1>1, <2>1, BidEdits
  <2>3. QED
    BY <2>2 DEF Edits
<1>4. refund <= last /\ refund \in Nat
  BY <1>1
<1>5. ASSUME NEW c \in Coins PROVE Gain(c) >= Bids(c)' - Bids(c)
  <2>1. Bids(c)' - Bids(c) = BidOn(listings'[l], c) - BidOn(listings[l], c)
    BY <1>3, OneListing
  <2>2. BidOn(listings'[l], c) = IF c = d THEN bid ELSE 0
    BY <1>2, <1>3 DEF BidOn
  <2>3. BidOn(listings[l], c) = IF c = d THEN last ELSE 0
    BY <1>2 DEF BidOn
  <2> HIDE DEF d, last, refund
  <2>4. held[c] \in Nat /\ gap[c] \in Int
    BY DEF TypeOK
  <2>5. held'[c] = IF c = d THEN held[c] - refund + bid ELSE held[c]
    BY <1>1, <1>2 DEF TypeOK
  <2>6. gap'[c] = gap[c]
    BY <1>2
  <2>7. QED
    BY <1>1, <1>4, <2>1, <2>2, <2>3, <2>4, <2>5, <2>6 DEF Gain
<1>6. QED
  BY <1>5, GainKeeps

\* Calls that leave the array alone and move gap with the balance.
LEMMA NoListing ==
  ASSUME TypeOK, TypeOK', BidInv, UNCHANGED listings,
         \A c \in Coins : held'[c] + gap'[c] = held[c] + gap[c]
  PROVE  BidInv'
<1>1. \A c \in Coins : Bids(c)' = Bids(c)
  BY DEF Bids, BidTerms
<1>2. QED
  BY <1>1 DEF BidInv

LEMMA PayFeeBids == ASSUME TypeOK, TypeOK', BidInv, PayFee PROVE BidInv'
<1> DEFINE d == Last(loans).listing.terms.loanAsset
           missing == Last(loans).before + Last(loans).listing.terms.loanFee - held[d]
<1>1. d \in Coins /\ missing \in Int
  <2>1. /\ d \in Coins /\ Last(loans).before \in Nat
        /\ Last(loans).listing.terms.loanFee \in Nat
    BY InnermostLoan, Fields DEF PayFee
  <2>2. held[d] \in Nat
    BY <2>1 DEF TypeOK
  <2>3. QED
    BY <2>1, <2>2
<1>2. /\ held' = [held EXCEPT ![d] = held[d] + missing]
      /\ gap' = [gap EXCEPT ![d] = gap[d] - missing]
      /\ UNCHANGED listings
  BY DEF PayFee, bookVars
<1> HIDE DEF d, missing
<1>3. \A c \in Coins : held'[c] + gap'[c] = held[c] + gap[c]
  BY <1>1, <1>2 DEF TypeOK
<1>4. QED
  BY <1>2, <1>3, NoListing

LEMMA SentAndNoted ==
  ASSUME TypeOK, NEW d \in Coins, NEW u, NEW amount \in Nat, SendsTo(d, u, amount),
         gap' = [gap EXCEPT ![d] = gap[d] + amount]
  PROVE  \A c \in Coins : held'[c] + gap'[c] = held[c] + gap[c]
BY DEF SendsTo, TypeOK

LEMMA EndLoanBids == ASSUME TypeOK, TypeOK', BidInv, EndLoan PROVE BidInv'
<1> DEFINE d == Last(loans).listing.terms.loanAsset
           fee == Last(loans).listing.terms.loanFee
           s == Last(loans).listing.seller
<1>1. d \in Coins /\ fee \in Nat
  BY InnermostLoan, Fields DEF EndLoan
<1>2. /\ SendsTo(d, s, fee) /\ UNCHANGED listings
      /\ gap' = [gap EXCEPT ![d] = gap[d] + fee]
  BY DEF EndLoan, FeeToSeller, bookVars
<1> HIDE DEF d, fee, s
<1>3. QED
  BY <1>1, <1>2, SentAndNoted, NoListing

LEMMA DrawBids ==
  ASSUME TypeOK, TypeOK', BidInv, NEW u \in Users, NEW d \in Coins,
         NEW amount \in 1 .. allowance[d][u], Draw(u, d, amount)
  PROVE  BidInv'
<1>1. amount \in Nat
  BY DEF TypeOK
<1>2. /\ SendsTo(d, u, amount) /\ UNCHANGED listings
      /\ gap' = [gap EXCEPT ![d] = gap[d] + amount]
  BY DEF Draw, bookVars
<1>3. QED
  BY <1>1, <1>2, SentAndNoted, NoListing

LEMMA NextBids == ASSUME TypeOK, TypeOK', BidInv, [Next]_vars PROVE BidInv'
<1> USE ExchangeAssumption
<1>1. ASSUME NEW u \in Users, NEW l \in DOMAIN listings, CancelListing(u, l)
      PROVE  BidInv'
  BY <1>1, CancelCloses, ClosesBids DEF CancelListing, coinVars, historyVars
<1>2. ASSUME NEW u \in Users, NEW l \in DOMAIN listings, PurchaseListing(u, l)
      PROVE  BidInv'
  BY <1>2, PurchaseCloses, ClosesBids DEF PurchaseListing, historyVars
<1>3. ASSUME NEW u \in Users, NEW l \in DOMAIN listings, CancelBid(u, l)
      PROVE  BidInv'
  <2>1. Edits(l) /\ listings'[l].highestBid = 0
    <3>1. listings' = [listings EXCEPT ![l].highestBidder = NoOne, ![l].highestBid = 0]
      BY <1>3 DEF CancelBid
    <3>2. NoOne \in Users \cup {NoOne} /\ 0 \in Nat
      OBVIOUS
    <3>3. QED
      BY <3>1, <3>2, BidEdits
  <2>2. /\ listings[l].active /\ gap' = gap
        /\ SendsTo(listings[l].terms.bidAsset, u, listings[l].highestBid)
    BY <1>3 DEF CancelBid, historyVars
  <2>3. QED
    BY <2>1, <2>2, BidPaidOut DEF Edits
<1>4. ASSUME NEW u \in Users, NEW l \in DOMAIN listings, AcceptBid(u, l)
      PROVE  BidInv'
  <2>1. Replaces(l) /\ ~listings'[l].active
    BY <1>4, AcceptCloses DEF Closes, Edits
  <2>2. /\ listings[l].active /\ gap' = gap
        /\ SendsTo(listings[l].terms.bidAsset, u, listings[l].highestBid)
    BY <1>4 DEF AcceptBid, historyVars
  <2>3. QED
    BY <2>1, <2>2, BidPaidOut
<1>5. ASSUME NEW u \in Users, NEW l \in DOMAIN listings, NEW bid \in BidAmounts,
             CreateBid(u, l, bid)
      PROVE  BidInv'
  BY <1>5, CreateBidBids
<1>6. ASSUME UNCHANGED <<listings, held, gap>> PROVE BidInv'
  BY <1>6, NoListing
<1>7. ASSUME NEW u \in Users, NEW receiver \in Users, NEW l \in DOMAIN listings,
             BeginLoan(u, l, receiver)
      PROVE  BidInv'
  BY <1>6, <1>7 DEF BeginLoan, bookVars, coinVars, historyVars
<1>8. ReturnNFT \/ UNCHANGED vars => BidInv'
  BY <1>6 DEF ReturnNFT, vars, bookVars, coinVars, historyVars
<1>9. Trade => BidInv'
  BY <1>1, <1>2, <1>3, <1>4, <1>5, <1>7, <1>8, CreateBids, PayFeeBids, EndLoanBids,
     DrawBids DEF Trade
<1>10. Update => BidInv'
  BY UpdateBids DEF Update
<1>11. QED
  BY <1>8, <1>9, <1>10 DEF Next

\* The standing bids of every token lack no more than what structs written by
\* callers, approvals drawn and fees met with bids account for, for any number
\* of listings, tokens and bidders, and also inside flash loans.
THEOREM BidsAccounted == Spec => []BidsBacked
<1>1. Init => TypeOK /\ BidInv
  BY InitType, InitBids
<1>2. TypeOK /\ BidInv /\ [Next]_vars => TypeOK' /\ BidInv'
  BY NextType, NextBids
<1>3. TypeOK /\ BidInv => BidsBacked
  BY BidsType DEF BidInv, BidsBacked
<1>4. QED
  BY <1>1, <1>2, <1>3, PTL DEF Spec
=============================================================================
