----------------------------- MODULE CookieStore -----------------------------
(***************************************************************************)
(* The stablecoin engine of Solidity/Stable-Cookie-main: CookieStore.sol,  *)
(* its token StableCookie.sol (CKI) and the price check of OracleLib.sol.  *)
(* Users deposit collateral, mint CKI against it and give CKI back to get  *)
(* it; who mints too much, because a price fell, may be liquidated.        *)
(*                                                                         *)
(* Every call is one transaction and runs alone; one that reverts is a     *)
(* step the specification does not have.  Between calls prices move, feeds *)
(* go stale and CKI changes hands.                                         *)
(***************************************************************************)
EXTENDS Integers, Sequences, SequencesExt, FiniteSetsExt

CONSTANTS
  Users, Tokens, Feeds,
  NoFeed,          \* address(0)
  Prices,          \* answers a feed may give, in units of 1/PRECISION USD
  Amounts,         \* collateral amounts a call may name
  CKIAmounts,      \* CKI amounts a call may name
  InitialTokens, InitialFeeds, \* what the constructor gets
  InitialPrice,
  InitialFunds,    \* user -> token -> balance at the start
  PRECISION,       \* 1e18
  LIQUIDATION_THRESHOLD, LIQUIDATION_BONUS, \* percentages
  UINT256_MAX,
  MaxListed        \* bound: entries of authorizedCollateralTokens

ASSUME CookieAssumption ==
  /\ NoFeed \notin Feeds
  /\ Prices \subseteq Nat /\ InitialPrice \in Prices
  /\ Amounts \subseteq Nat \ {0} /\ CKIAmounts \subseteq Nat \ {0}
  /\ InitialTokens \in Seq(Tokens) /\ InitialFeeds \in Seq(Feeds)
  /\ Len(InitialTokens) = Len(InitialFeeds)
  /\ InitialFunds \in [Users -> [Tokens -> Nat]]
  /\ {LIQUIDATION_THRESHOLD, LIQUIDATION_BONUS} \subseteq Nat
  /\ PRECISION \in Nat \ {0} /\ MaxListed \in Nat
  /\ UINT256_MAX \in Nat /\ UINT256_MAX >= PRECISION
  /\ IsFiniteSet(Users)

VARIABLES
  priceFeeds,                  \* collateral token -> its feed
  authorizedCollateralTokens,
  collateralDeposited,         \* user -> token -> amount
  CKIMinted,                   \* user -> its debt
  cki,                         \* CKI balances of the users
  wallet,                      \* user -> token -> balance
  held,                        \* token -> balance of the store
  price, fresh                 \* feed -> its answer; whether it is accepted

bookVars == <<priceFeeds, authorizedCollateralTokens>>
debtVars == <<CKIMinted, cki>>
collateralVars == <<collateralDeposited, wallet, held>>
feedVars == <<price, fresh>>
vars == <<bookVars, debtVars, collateralVars, feedVars>>

Init ==
  /\ priceFeeds = [t \in Tokens |->
       LET at == {i \in DOMAIN InitialTokens : InitialTokens[i] = t}
       IN  IF at = {} THEN NoFeed ELSE InitialFeeds[Max(at)]]
  /\ authorizedCollateralTokens = InitialTokens
  /\ collateralDeposited = [u \in Users |-> [t \in Tokens |-> 0]]
  /\ CKIMinted = [u \in Users |-> 0]
  /\ cki = [u \in Users |-> 0]
  /\ wallet = InitialFunds
  /\ held = [t \in Tokens |-> 0]
  /\ price = [f \in Feeds |-> InitialPrice]
  /\ fresh = [f \in Feeds |-> TRUE]

-----------------------------------------------------------------------------
(* Values and health *)

\* staleCheckLatestRoundData of every feed a health factor reads: one stale
\* price reverts the call.
FeedsFresh ==
  \A i \in DOMAIN authorizedCollateralTokens :
    fresh[priceFeeds[authorizedCollateralTokens[i]]]

UsdValue(t, amount) == (price[priceFeeds[t]] * amount) \div PRECISION

TokenAmountFromUsd(t, usd) == (usd * PRECISION) \div price[priceFeeds[t]]

\* getAccountCollateralValue of an account with these deposits
AccountCollateralValue(deposits) ==
  SumFunction([i \in DOMAIN authorizedCollateralTokens |->
    UsdValue(authorizedCollateralTokens[i], deposits[authorizedCollateralTokens[i]])])

\* _calculateHealthFactor of an account with this debt and these deposits
HealthFactor(minted, deposits) ==
  IF minted = 0 THEN UINT256_MAX
  ELSE (((AccountCollateralValue(deposits) * LIQUIDATION_THRESHOLD) \div 100) * PRECISION)
         \div minted

\* What revertIfHealthFactorIsBroken lets pass.
HealthOk(minted, deposits) ==
  FeedsFresh /\ HealthFactor(minted, deposits) >= PRECISION

Health(u) == HealthFactor(CKIMinted[u], collateralDeposited[u])

-----------------------------------------------------------------------------
(* The two movements of collateral and the two of CKI *)

\* Mistake: a transferFrom that fails is not noticed.
TakeIn_Unchecked(u, t, amount) ==
  /\ priceFeeds[t] # NoFeed
  /\ collateralDeposited' = [collateralDeposited EXCEPT ![u][t] = @ + amount]
  /\ wallet' = [wallet EXCEPT ![u][t] = @ - amount]
  /\ held' = [held EXCEPT ![t] = @ + amount]

\* Mistake: a second deposit replaces the first.
TakeIn_Overwrites(u, t, amount) ==
  /\ priceFeeds[t] # NoFeed
  /\ wallet[u][t] >= amount
  /\ collateralDeposited' = [collateralDeposited EXCEPT ![u][t] = amount]
  /\ wallet' = [wallet EXCEPT ![u][t] = @ - amount]
  /\ held' = [held EXCEPT ![t] = @ + amount]

\* What depositCollateral does.
TakeIn(u, t, amount) ==
  /\ priceFeeds[t] # NoFeed
  /\ wallet[u][t] >= amount
  /\ collateralDeposited' = [collateralDeposited EXCEPT ![u][t] = @ + amount]
  /\ wallet' = [wallet EXCEPT ![u][t] = @ - amount]
  /\ held' = [held EXCEPT ![t] = @ + amount]

\* _redeemCollateral
PayOut(t, amount, from, to) ==
  /\ collateralDeposited[from][t] >= amount
  /\ held[t] >= amount
  /\ collateralDeposited' = [collateralDeposited EXCEPT ![from][t] = @ - amount]
  /\ held' = [held EXCEPT ![t] = @ - amount]
  /\ wallet' = [wallet EXCEPT ![to][t] = @ + amount]

\* Mistake: the CKI is booked as burnt and stays with its holder.
BurnDebt_NotBurnt(amount, onBehalfOf, CKIFrom) ==
  /\ amount > 0
  /\ CKIMinted[onBehalfOf] >= amount
  /\ cki[CKIFrom] >= amount
  /\ CKIMinted' = [CKIMinted EXCEPT ![onBehalfOf] = @ - amount]
  /\ UNCHANGED cki

\* _burnCKI; StableCookie.burn refuses an amount of 0.
BurnDebt(amount, onBehalfOf, CKIFrom) ==
  /\ amount > 0
  /\ CKIMinted[onBehalfOf] >= amount
  /\ cki[CKIFrom] >= amount
  /\ CKIMinted' = [CKIMinted EXCEPT ![onBehalfOf] = @ - amount]
  /\ cki' = [cki EXCEPT ![CKIFrom] = @ - amount]

-----------------------------------------------------------------------------
(* The calls *)

\* addTokenCollateral by a holder of the role; the token may be listed already.
AddTokenCollateral(t, f) ==
  /\ Len(authorizedCollateralTokens) < MaxListed
  /\ priceFeeds' = [priceFeeds EXCEPT ![t] = f]
  /\ authorizedCollateralTokens' = Append(authorizedCollateralTokens, t)
  /\ UNCHANGED <<debtVars, collateralVars, feedVars>>

DepositCollateral(u, t, amount) ==
  /\ TakeIn(u, t, amount)
  /\ UNCHANGED <<bookVars, debtVars, feedVars>>

\* mintCKI: the debt is raised, then the health factor is checked.
MintCKI(u, amount) ==
  /\ CKIMinted' = [CKIMinted EXCEPT ![u] = @ + amount]
  /\ HealthOk(CKIMinted'[u], collateralDeposited[u])
  /\ cki' = [cki EXCEPT ![u] = @ + amount]
  /\ UNCHANGED <<bookVars, collateralVars, feedVars>>

DepositCollateralAndMintCKI(u, t, amount, toMint) ==
  /\ TakeIn(u, t, amount)
  /\ CKIMinted' = [CKIMinted EXCEPT ![u] = @ + toMint]
  /\ HealthOk(CKIMinted'[u], collateralDeposited'[u])
  /\ cki' = [cki EXCEPT ![u] = @ + toMint]
  /\ UNCHANGED <<bookVars, feedVars>>

\* Mistake: the health factor is checked before the collateral is gone.
RedeemCollateral_CheckedBefore(u, t, amount) ==
  /\ HealthOk(CKIMinted[u], collateralDeposited[u])
  /\ PayOut(t, amount, u, u)
  /\ UNCHANGED <<bookVars, debtVars, feedVars>>

RedeemCollateral(u, t, amount) ==
  /\ PayOut(t, amount, u, u)
  /\ HealthOk(CKIMinted[u], collateralDeposited'[u])
  /\ UNCHANGED <<bookVars, debtVars, feedVars>>

RedeemCollateralForCKI(u, t, amount, toBurn) ==
  /\ BurnDebt(toBurn, u, u)
  /\ PayOut(t, amount, u, u)
  /\ HealthOk(CKIMinted'[u], collateralDeposited'[u])
  /\ UNCHANGED <<bookVars, feedVars>>

\* burnCKI: no health factor, and so no price, is needed.
BurnCKI(u, amount) ==
  /\ BurnDebt(amount, u, u)
  /\ UNCHANGED <<bookVars, collateralVars, feedVars>>

\* Tokens a liquidator gets for covering a debt: its worth and the bonus.
Reward(t, debtToCover) ==
  LET covered == TokenAmountFromUsd(t, debtToCover)
  IN  covered + (covered * LIQUIDATION_BONUS) \div 100

\* Mistake: the health of the user is not looked at.
Liquidate_AnyUser(liquidator, user, t, debtToCover) ==
  /\ FeedsFresh
  /\ priceFeeds[t] # NoFeed /\ price[priceFeeds[t]] # 0
  /\ PayOut(t, Reward(t, debtToCover), user, liquidator)
  /\ BurnDebt(debtToCover, user, liquidator)
  /\ HealthFactor(CKIMinted'[user], collateralDeposited'[user]) > Health(user)
  /\ HealthOk(CKIMinted'[liquidator], collateralDeposited'[liquidator])
  /\ UNCHANGED <<bookVars, feedVars>>

\* Mistake: the check at the end that "should never hit" is left out.
Liquidate_Unimproved(liquidator, user, t, debtToCover) ==
  /\ FeedsFresh
  /\ ~(Health(user) >= PRECISION)
  /\ priceFeeds[t] # NoFeed /\ price[priceFeeds[t]] # 0
  /\ PayOut(t, Reward(t, debtToCover), user, liquidator)
  /\ BurnDebt(debtToCover, user, liquidator)
  /\ HealthOk(CKIMinted'[liquidator], collateralDeposited'[liquidator])
  /\ UNCHANGED <<bookVars, feedVars>>

\* liquidate: only an unhealthy user, only when that improves its health
\* factor, and only by somebody who is healthy afterwards.
Liquidate(liquidator, user, t, debtToCover) ==
  /\ FeedsFresh
  /\ ~(Health(user) >= PRECISION)
  /\ priceFeeds[t] # NoFeed /\ price[priceFeeds[t]] # 0
  /\ PayOut(t, Reward(t, debtToCover), user, liquidator)
  /\ BurnDebt(debtToCover, user, liquidator)
  /\ HealthFactor(CKIMinted'[user], collateralDeposited'[user]) > Health(user)
  /\ HealthOk(CKIMinted'[liquidator], collateralDeposited'[liquidator])
  /\ UNCHANGED <<bookVars, feedVars>>

\* CKI is an ERC-20 token that changes hands freely ...
TransferCKI(from, to, amount) ==
  /\ cki[from] >= amount
  /\ from # to
  /\ cki' = [cki EXCEPT ![from] = @ - amount, ![to] = @ + amount]
  /\ UNCHANGED <<bookVars, CKIMinted, collateralVars, feedVars>>

\* ... and whose burnFrom, inherited from ERC20Burnable, is open to holders.
BurnFrom(u, amount) ==
  /\ cki[u] >= amount
  /\ cki' = [cki EXCEPT ![u] = @ - amount]
  /\ UNCHANGED <<bookVars, CKIMinted, collateralVars, feedVars>>

\* A round of a feed is answered ...
NewPrice(f, p) ==
  /\ price' = [price EXCEPT ![f] = p]
  /\ fresh' = [fresh EXCEPT ![f] = TRUE]
  /\ UNCHANGED <<bookVars, debtVars, collateralVars>>

\* ... and no later one for longer than the timeout.
GoesStale(f) ==
  /\ fresh[f]
  /\ fresh' = [fresh EXCEPT ![f] = FALSE]
  /\ UNCHANGED <<bookVars, debtVars, collateralVars, price>>

Next ==
  \/ \E t \in Tokens, f \in Feeds : AddTokenCollateral(t, f)
  \/ \E u \in Users, t \in Tokens, a \in Amounts : DepositCollateral(u, t, a)
  \/ \E u \in Users, m \in CKIAmounts : MintCKI(u, m)
  \/ \E u \in Users, t \in Tokens, a \in Amounts, m \in CKIAmounts :
       DepositCollateralAndMintCKI(u, t, a, m)
  \/ \E u \in Users, t \in Tokens, a \in Amounts : RedeemCollateral(u, t, a)
  \/ \E u \in Users, t \in Tokens, a \in Amounts, m \in CKIAmounts :
       RedeemCollateralForCKI(u, t, a, m)
  \/ \E u \in Users, m \in CKIAmounts : BurnCKI(u, m)
  \/ \E u, w \in Users, t \in Tokens, m \in CKIAmounts : Liquidate(u, w, t, m)
  \/ \E u, w \in Users, m \in CKIAmounts : TransferCKI(u, w, m)
  \/ \E u \in Users, m \in CKIAmounts : BurnFrom(u, m)
  \/ \E f \in Feeds, p \in Prices : NewPrice(f, p)
  \/ \E f \in Feeds : GoesStale(f)

Spec == Init /\ [][Next]_vars

-----------------------------------------------------------------------------
TypeOK ==
  /\ priceFeeds \in [Tokens -> Feeds \cup {NoFeed}]
  /\ authorizedCollateralTokens \in Seq(Tokens)
  /\ \A t \in Tokens : priceFeeds[t] # NoFeed <=> t \in ToSet(authorizedCollateralTokens)
  /\ collateralDeposited \in [Users -> [Tokens -> Nat]]
  /\ wallet \in [Users -> [Tokens -> Nat]]
  /\ held \in [Tokens -> Nat]
  /\ CKIMinted \in [Users -> Nat] /\ cki \in [Users -> Nat]
  /\ price \in [Feeds -> Prices] /\ fresh \in [Feeds -> BOOLEAN]

\* The store has in every token what its users deposited and did not take out
\* or lose in a liquidation, whose bonus comes from the liquidated deposit.
CustodyIsDeposits ==
  \A t \in Tokens :
    held[t] = SumFunction([u \in Users |-> collateralDeposited[u][t]])

\* Every CKI in circulation is owed by somebody: whoever minted it, sold it,
\* covered another's debt with it or burnt it.
DebtCoversSupply == SumFunction(cki) <= SumFunction(CKIMinted)

\* No debt is left without collateral, however far prices fall: a partial
\* liquidation that would take the last collateral for a part of the debt is
\* what the check at the end of liquidate stops.
DebtHasCollateral ==
  \A u \in Users : CKIMinted[u] > 0 => \E t \in Tokens : collateralDeposited[u][t] > 0

\* A healthy account becomes liquidatable through prices (or another feed for
\* one of its tokens) alone: no call, its own or a liquidator's, does it.
OnlyPricesHurt ==
  [][\A u \in Users :
       Health(u) >= PRECISION /\ UNCHANGED <<price, priceFeeds>>
         => Health(u)' >= PRECISION]_vars

\* What leaves the deposit of a healthy account goes to its owner's wallet.
HealthyKeepCollateral ==
  [][\A u \in Users, t \in Tokens :
       Health(u) >= PRECISION /\ collateralDeposited'[u][t] < collateralDeposited[u][t]
         => wallet'[u][t] + collateralDeposited'[u][t]
              = wallet[u][t] + collateralDeposited[u][t]]_vars
=============================================================================
