------------------------- MODULE CookieStore_proofs -------------------------
(***************************************************************************)
(* For any users, tokens, feeds and prices: the types of CookieStore, by   *)
(* which no deposit, debt or balance is ever overdrawn; that custody is    *)
(* the deposits and debts cover the supply; that no debt is ever without   *)
(* collateral; that only prices hurt a healthy account, and that its       *)
(* collateral only ever goes to its owner.                                 *)
(***************************************************************************)
EXTENDS CookieStore, SumTheorems

-----------------------------------------------------------------------------
\* A set of indices of a sequence has a greatest member.
LEMMA MaxInIndices ==
  ASSUME NEW n \in Nat, NEW S \in SUBSET (1..n), S # {}
  PROVE  Max(S) \in S
<1> DEFINE D == {n - i : i \in S}
           Less == OpToRel(<, Nat)
<1>1. \A i \in S : i \in Nat /\ n - i \in Nat
  OBVIOUS
<1>2. D \subseteq Nat /\ D # {}
  BY <1>1
<1>3. \A x, y \in Nat : x < y => <<x, y>> \in Less
  BY DEF OpToRel
<1>4. \E d \in D : \A e \in D : ~(<<e, d>> \in Less)
  <2>1. IsWellFoundedOn(Less, Nat)
    BY NatLessThanWellFounded
  <2> HIDE DEF D, Less
  <2>2. QED
    BY <1>2, <2>1, WFMin, Zenon
<1>5. PICK i \in S : \A j \in S : ~(<<n - j, n - i>> \in Less)
  BY <1>4
<1> HIDE DEF D, Less
<1>6. \A j \in S : i >= j
  <2>1. SUFFICES ASSUME NEW j \in S, ~(i >= j) PROVE FALSE
    OBVIOUS
  <2>2. i \in Nat /\ j \in Nat /\ n - j \in Nat /\ n - i \in Nat
    BY <1>1
  <2>3. n - j < n - i
    BY <2>1, <2>2
  <2>4. QED
    BY <1>3, <1>5, <2>2, <2>3
<1>7. QED
  BY <1>6 DEF Max

\* The integer division of two natural numbers.
LEMMA Quotient ==
  ASSUME NEW a \in Nat, NEW d \in Nat, d # 0
  PROVE  a \div d \in Nat
BY SMTT(60)

\* A table of amounts that changes at one place only.
LEMMA AmountTable ==
  ASSUME NEW f \in [Users -> [Tokens -> Nat]], NEW u \in Users, NEW t \in Tokens,
         NEW v \in Nat
  PROVE  [f EXCEPT ![u][t] = v] \in [Users -> [Tokens -> Nat]]
OBVIOUS

LEMMA InitType == Init => TypeOK
<1>1. SUFFICES ASSUME Init PROVE TypeOK
  OBVIOUS
<1> USE CookieAssumption
<1>2. ASSUME NEW t \in Tokens
      PROVE  /\ priceFeeds[t] \in Feeds \cup {NoFeed}
             /\ priceFeeds[t] # NoFeed <=> t \in ToSet(authorizedCollateralTokens)
  <2> DEFINE at == {i \in DOMAIN InitialTokens : InitialTokens[i] = t}
  <2>1. /\ priceFeeds[t] = IF at = {} THEN NoFeed ELSE InitialFeeds[Max(at)]
        /\ authorizedCollateralTokens = InitialTokens
    BY <1>1 DEF Init
  <2>2. at # {} <=> t \in ToSet(InitialTokens)
    BY DEF ToSet
  <2>3. at # {} => Max(at) \in at
    <3>1. at \in SUBSET (1..Len(InitialTokens)) /\ Len(InitialTokens) \in Nat
      OBVIOUS
    <3> HIDE DEF at
    <3>2. QED
      BY <3>1, MaxInIndices
  <2>4. at # {} => InitialFeeds[Max(at)] \in Feeds
    BY <2>3
  <2> HIDE DEF at
  <2>5. QED
    BY <2>1, <2>2, <2>4
<1>3. /\ authorizedCollateralTokens \in Seq(Tokens)
      /\ priceFeeds = [t \in Tokens |-> priceFeeds[t]]
  BY <1>1 DEF Init
<1>4. /\ collateralDeposited \in [Users -> [Tokens -> Nat]]
      /\ wallet \in [Users -> [Tokens -> Nat]]
      /\ held \in [Tokens -> Nat]
      /\ CKIMinted \in [Users -> Nat] /\ cki \in [Users -> Nat]
      /\ price \in [Feeds -> Prices] /\ fresh \in [Feeds -> BOOLEAN]
  BY <1>1 DEF Init
<1>5. QED
  BY <1>2, <1>3, <1>4 DEF TypeOK

-----------------------------------------------------------------------------
(* The movements of collateral and of CKI keep the types of what they move. *)

CollateralOK ==
  /\ collateralDeposited \in [Users -> [Tokens -> Nat]]
  /\ wallet \in [Users -> [Tokens -> Nat]]
  /\ held \in [Tokens -> Nat]

DebtOK == CKIMinted \in [Users -> Nat] /\ cki \in [Users -> Nat]

BookOK ==
  /\ priceFeeds \in [Tokens -> Feeds \cup {NoFeed}]
  /\ authorizedCollateralTokens \in Seq(Tokens)
  /\ \A t \in Tokens : priceFeeds[t] # NoFeed <=> t \in ToSet(authorizedCollateralTokens)

FeedOK == price \in [Feeds -> Prices] /\ fresh \in [Feeds -> BOOLEAN]

LEMMA TypeParts == TypeOK <=> CollateralOK /\ DebtOK /\ BookOK /\ FeedOK
BY DEF TypeOK, CollateralOK, DebtOK, BookOK, FeedOK

LEMMA TypePartsNext == TypeOK' <=> CollateralOK' /\ DebtOK' /\ BookOK' /\ FeedOK'
BY DEF TypeOK, CollateralOK, DebtOK, BookOK, FeedOK

LEMMA TakeInType ==
  ASSUME CollateralOK, NEW u \in Users, NEW t \in Tokens, NEW amount \in Nat,
         TakeIn(u, t, amount)
  PROVE  CollateralOK'
<1>1. /\ collateralDeposited[u][t] + amount \in Nat
      /\ wallet[u][t] - amount \in Nat
      /\ held[t] + amount \in Nat
  BY DEF CollateralOK, TakeIn
<1>2. QED
  BY <1>1 DEF CollateralOK, TakeIn

LEMMA PayOutType ==
  ASSUME CollateralOK, NEW t \in Tokens, NEW amount \in Nat,
         NEW from \in Users, NEW to \in Users, PayOut(t, amount, from, to)
  PROVE  CollateralOK'
<1>1. /\ collateralDeposited[from][t] - amount \in Nat
      /\ held[t] - amount \in Nat
      /\ wallet[to][t] + amount \in Nat
  BY DEF CollateralOK, PayOut
<1>2. QED
  BY <1>1 DEF CollateralOK, PayOut

LEMMA BurnDebtType ==
  ASSUME DebtOK, NEW amount \in Nat, NEW u \in Users, NEW w \in Users,
         BurnDebt(amount, u, w)
  PROVE  DebtOK'
BY DEF DebtOK, BurnDebt

\* A transfer of CKI leaves debts alone.
LEMMA TransferType ==
  ASSUME DebtOK, NEW u \in Users, NEW w \in Users, NEW m \in CKIAmounts,
         cki[u] >= m, u # w, CKIMinted' = CKIMinted,
         cki' = [cki EXCEPT ![u] = @ - m, ![w] = @ + m]
  PROVE  DebtOK'
<1>1. m \in Nat /\ cki[u] \in Nat /\ cki[w] \in Nat
  BY CookieAssumption DEF DebtOK
<1>2. cki[u] - m \in Nat /\ cki[w] + m \in Nat
  BY <1>1
<1>3. QED
  BY <1>2 DEF DebtOK

\* Minting adds to a debt and to a balance.
LEMMA MintType ==
  ASSUME DebtOK, NEW u \in Users, NEW m \in CKIAmounts,
         CKIMinted' = [CKIMinted EXCEPT ![u] = @ + m], cki' = [cki EXCEPT ![u] = @ + m]
  PROVE  DebtOK'
<1>1. m \in Nat /\ CKIMinted[u] \in Nat /\ cki[u] \in Nat
  BY CookieAssumption DEF DebtOK
<1>2. CKIMinted[u] + m \in Nat /\ cki[u] + m \in Nat
  BY <1>1
<1>3. QED
  BY <1>2 DEF DebtOK

\* What a liquidator gets is a natural number of tokens.
LEMMA RewardType ==
  ASSUME BookOK, FeedOK, NEW t \in Tokens, NEW debtToCover \in Nat,
         priceFeeds[t] # NoFeed, price[priceFeeds[t]] # 0
  PROVE  Reward(t, debtToCover) \in Nat
<1> USE CookieAssumption
<1> DEFINE p == price[priceFeeds[t]]
           covered == (debtToCover * PRECISION) \div p
<1>1. p \in Nat /\ p # 0
  BY DEF BookOK, FeedOK
<1>2. debtToCover * PRECISION \in Nat
  OBVIOUS
<1> HIDE DEF p
<1>3. covered \in Nat
  BY <1>1, <1>2, Quotient
<1>4. Reward(t, debtToCover) = covered + (covered * LIQUIDATION_BONUS) \div 100
  BY DEF Reward, TokenAmountFromUsd, p
<1> HIDE DEF covered
<1>5. covered * LIQUIDATION_BONUS \in Nat
  BY <1>3
<1>6. (covered * LIQUIDATION_BONUS) \div 100 \in Nat
  BY <1>5, Quotient
<1>7. QED
  BY <1>3, <1>4, <1>6

-----------------------------------------------------------------------------
LEMMA NextType == ASSUME TypeOK, [Next]_vars PROVE TypeOK'
<1> USE CookieAssumption
<1>0. CollateralOK /\ DebtOK /\ BookOK /\ FeedOK
  BY TypeParts
<1>a. UNCHANGED bookVars => BookOK'
  BY <1>0 DEF BookOK, bookVars
<1>b. UNCHANGED debtVars => DebtOK'
  BY <1>0 DEF DebtOK, debtVars
<1>c. UNCHANGED collateralVars => CollateralOK'
  BY <1>0 DEF CollateralOK, collateralVars
<1>d. UNCHANGED feedVars => FeedOK'
  BY <1>0 DEF FeedOK, feedVars
<1> USE <1>a, <1>b, <1>c, <1>d, TypePartsNext
<1>1. ASSUME NEW t \in Tokens, NEW f \in Feeds, AddTokenCollateral(t, f)
      PROVE  TypeOK'
  <2>1. /\ priceFeeds' = [priceFeeds EXCEPT ![t] = f]
        /\ authorizedCollateralTokens' = Append(authorizedCollateralTokens, t)
        /\ UNCHANGED <<debtVars, collateralVars, feedVars>>
    BY <1>1 DEF AddTokenCollateral
  <2>2. ToSet(authorizedCollateralTokens') = ToSet(authorizedCollateralTokens) \cup {t}
    <3> DEFINE a == authorizedCollateralTokens
    <3>1. a \in Seq(Tokens)
      BY <1>0 DEF BookOK
    <3>2. /\ DOMAIN a = 1..Len(a) /\ Len(a) \in Nat
          /\ DOMAIN Append(a, t) = 1..(Len(a) + 1)
          /\ \A i \in 1..Len(a) : Append(a, t)[i] = a[i]
          /\ Append(a, t)[Len(a) + 1] = t
      BY <3>1
    <3> HIDE DEF a
    <3>3. ToSet(Append(a, t)) = ToSet(a) \cup {t}
      BY <3>2 DEF ToSet
    <3>4. QED
      BY <2>1, <3>3 DEF a
  <2>3. BookOK'
    BY <1>0, <2>1, <2>2 DEF BookOK
  <2>4. QED
    BY <2>1, <2>3
<1>2. ASSUME NEW u \in Users, NEW t \in Tokens, NEW a \in Amounts,
             DepositCollateral(u, t, a)
      PROVE  TypeOK'
  BY <1>0, <1>2, TakeInType DEF DepositCollateral
<1>3. ASSUME NEW u \in Users, NEW m \in CKIAmounts, MintCKI(u, m)
      PROVE  TypeOK'
  <2>1. DebtOK'
    BY <1>0, <1>3, MintType DEF MintCKI
  <2>2. QED
    BY <1>3, <2>1 DEF MintCKI
<1>4. ASSUME NEW u \in Users, NEW t \in Tokens, NEW a \in Amounts, NEW m \in CKIAmounts,
             DepositCollateralAndMintCKI(u, t, a, m)
      PROVE  TypeOK'
  <2>1. DebtOK'
    <3>1. /\ CKIMinted' = [CKIMinted EXCEPT ![u] = @ + m]
          /\ cki' = [cki EXCEPT ![u] = @ + m]
      BY <1>4 DEF DepositCollateralAndMintCKI
    <3>2. QED
      BY <1>0, <3>1, MintType
  <2>2. CollateralOK'
    BY <1>0, <1>4, TakeInType DEF DepositCollateralAndMintCKI
  <2>3. QED
    BY <1>4, <2>1, <2>2 DEF DepositCollateralAndMintCKI
<1>5. ASSUME NEW u \in Users, NEW t \in Tokens, NEW a \in Amounts,
             RedeemCollateral(u, t, a)
      PROVE  TypeOK'
  BY <1>0, <1>5, PayOutType DEF RedeemCollateral
<1>6. ASSUME NEW u \in Users, NEW t \in Tokens, NEW a \in Amounts, NEW m \in CKIAmounts,
             RedeemCollateralForCKI(u, t, a, m)
      PROVE  TypeOK'
  BY <1>0, <1>6, PayOutType, BurnDebtType DEF RedeemCollateralForCKI
<1>7. ASSUME NEW u \in Users, NEW m \in CKIAmounts, BurnCKI(u, m)
      PROVE  TypeOK'
  BY <1>0, <1>7, BurnDebtType DEF BurnCKI
<1>8. ASSUME NEW u \in Users, NEW w \in Users, NEW t \in Tokens, NEW m \in CKIAmounts,
             Liquidate(u, w, t, m)
      PROVE  TypeOK'
  <2>1. /\ priceFeeds[t] # NoFeed /\ price[priceFeeds[t]] # 0
        /\ PayOut(t, Reward(t, m), w, u)
        /\ BurnDebt(m, w, u)
        /\ UNCHANGED <<bookVars, feedVars>>
    BY <1>8 DEF Liquidate
  <2>2. Reward(t, m) \in Nat
    BY <1>0, <2>1, RewardType
  <2>3. CollateralOK'
    BY <1>0, <2>1, <2>2, PayOutType
  <2>4. DebtOK'
    BY <1>0, <2>1, BurnDebtType
  <2>5. QED
    BY <2>1, <2>3, <2>4
<1>9. ASSUME NEW u \in Users, NEW w \in Users, NEW m \in CKIAmounts, TransferCKI(u, w, m)
      PROVE  TypeOK'
  <2>1. DebtOK'
    <3>1. /\ cki[u] >= m /\ u # w /\ CKIMinted' = CKIMinted
          /\ cki' = [cki EXCEPT ![u] = @ - m, ![w] = @ + m]
      BY <1>9 DEF TransferCKI
    <3>2. QED
      BY <1>0, <3>1, TransferType
  <2>2. QED
    BY <1>9, <2>1 DEF TransferCKI
<1>10. ASSUME NEW u \in Users, NEW m \in CKIAmounts, BurnFrom(u, m)
       PROVE  TypeOK'
  <2>1. DebtOK'
    BY <1>0, <1>10 DEF BurnFrom, DebtOK
  <2>2. QED
    BY <1>10, <2>1 DEF BurnFrom
<1>11. ASSUME NEW f \in Feeds, NEW p \in Prices, NewPrice(f, p)
       PROVE  TypeOK'
  <2>1. FeedOK'
    BY <1>0, <1>11 DEF NewPrice, FeedOK
  <2>2. QED
    BY <1>11, <2>1 DEF NewPrice
<1>12. ASSUME NEW f \in Feeds, GoesStale(f)
       PROVE  TypeOK'
  <2>1. FeedOK'
    BY <1>0, <1>12 DEF GoesStale, FeedOK
  <2>2. QED
    BY <1>12, <2>1 DEF GoesStale
<1>13. CASE UNCHANGED vars
  BY <1>13 DEF vars
<1>14. QED
  BY <1>1, <1>2, <1>3, <1>4, <1>5, <1>6, <1>7, <1>8, <1>9, <1>10, <1>11, <1>12, <1>13
  DEF Next

\* Every reachable state has the types of TypeOK: no call, and no liquidation
\* whose reward is computed from prices, overdraws a deposit, a debt, the store
\* or a wallet; and a token has a feed exactly when it is listed.
THEOREM TypeCorrect == Spec => []TypeOK
<1>1. QED
  BY InitType, NextType, PTL DEF Spec

-----------------------------------------------------------------------------
\* What a transaction may do to the collateral of an account.
OwnerGets(u, t) ==
  wallet'[u][t] + collateralDeposited'[u][t] = wallet[u][t] + collateralDeposited[u][t]

\* A deposit or withdrawal moves one account's tokens between wallet and store.
LEMMA PaidToOwner ==
  ASSUME CollateralOK, NEW u \in Users, NEW t \in Tokens, NEW a \in Nat,
         TakeIn(u, t, a) \/ PayOut(t, a, u, u),
         NEW w \in Users, NEW x \in Tokens
  PROVE  OwnerGets(w, x)
<1>1. /\ collateralDeposited[u][t] \in Nat /\ wallet[u][t] \in Nat
      /\ collateralDeposited[w][x] \in Nat /\ wallet[w][x] \in Nat
  BY DEF CollateralOK
<1>2. CASE TakeIn(u, t, a)
  BY <1>1, <1>2 DEF CollateralOK, TakeIn, OwnerGets
<1>3. CASE PayOut(t, a, u, u)
  BY <1>1, <1>3 DEF CollateralOK, PayOut, OwnerGets
<1>4. QED
  BY <1>2, <1>3

\* A liquidation takes nothing out of other deposits than the liquidated one.
LEMMA OthersKeepDeposits ==
  ASSUME CollateralOK, NEW t \in Tokens, NEW a \in Nat, NEW from \in Users,
         NEW to \in Users, PayOut(t, a, from, to),
         NEW w \in Users, w # from, NEW x \in Tokens
  PROVE  collateralDeposited'[w][x] = collateralDeposited[w][x]
BY DEF CollateralOK, PayOut

LEMMA NextKeeps ==
  ASSUME TypeOK, [Next]_vars, NEW u \in Users, NEW t \in Tokens,
         Health(u) >= PRECISION, collateralDeposited'[u][t] < collateralDeposited[u][t]
  PROVE  OwnerGets(u, t)
<1> USE CookieAssumption
<1>0. CollateralOK /\ DebtOK /\ BookOK /\ FeedOK
  BY TypeParts
<1>a. UNCHANGED collateralVars => OwnerGets(u, t)
  BY DEF collateralVars, OwnerGets
<1>1. ASSUME NEW w \in Users, NEW x \in Tokens, NEW a \in Amounts,
             TakeIn(w, x, a) \/ PayOut(x, a, w, w)
      PROVE  OwnerGets(u, t)
  BY <1>0, <1>1, PaidToOwner
<1>2. ASSUME NEW l \in Users, NEW w \in Users, NEW x \in Tokens, NEW m \in CKIAmounts,
             Liquidate(l, w, x, m)
      PROVE  OwnerGets(u, t)
  <2>1. /\ priceFeeds[x] # NoFeed /\ price[priceFeeds[x]] # 0
        /\ PayOut(x, Reward(x, m), w, l)
        /\ u # w
    BY <1>2 DEF Liquidate
  <2>2. Reward(x, m) \in Nat
    BY <1>0, <2>1, RewardType
  <2>3. collateralDeposited'[u][t] = collateralDeposited[u][t]
    BY <1>0, <2>1, <2>2, OthersKeepDeposits
  <2>4. collateralDeposited[u][t] \in Nat
    BY <1>0 DEF CollateralOK
  <2>5. QED
    BY <2>3, <2>4
<1>3. CASE \E w \in Users, x \in Tokens, a \in Amounts : DepositCollateral(w, x, a)
  BY <1>1, <1>3 DEF DepositCollateral
<1>4. CASE \E w \in Users, x \in Tokens, a \in Amounts, m \in CKIAmounts :
             DepositCollateralAndMintCKI(w, x, a, m)
  BY <1>1, <1>4 DEF DepositCollateralAndMintCKI
<1>5. CASE \E w \in Users, x \in Tokens, a \in Amounts : RedeemCollateral(w, x, a)
  BY <1>1, <1>5 DEF RedeemCollateral
<1>6. CASE \E w \in Users, x \in Tokens, a \in Amounts, m \in CKIAmounts :
             RedeemCollateralForCKI(w, x, a, m)
  BY <1>1, <1>6 DEF RedeemCollateralForCKI
<1>7. CASE \/ \E x \in Tokens, f \in Feeds : AddTokenCollateral(x, f)
           \/ \E w \in Users, m \in CKIAmounts : MintCKI(w, m)
           \/ \E w \in Users, m \in CKIAmounts : BurnCKI(w, m)
           \/ \E w, y \in Users, m \in CKIAmounts : TransferCKI(w, y, m)
           \/ \E w \in Users, m \in CKIAmounts : BurnFrom(w, m)
           \/ \E f \in Feeds, p \in Prices : NewPrice(f, p)
           \/ \E f \in Feeds : GoesStale(f)
  BY <1>a, <1>7 DEF AddTokenCollateral, MintCKI, BurnCKI, TransferCKI, BurnFrom,
                    NewPrice, GoesStale
<1>8. CASE UNCHANGED vars
  BY <1>a, <1>8 DEF vars
<1>9. QED
  BY <1>2, <1>3, <1>4, <1>5, <1>6, <1>7, <1>8 DEF Next

\* What leaves the deposit of a healthy account goes to its owner's wallet, in
\* every transaction: liquidators reach unhealthy accounts only, whatever the
\* tokens, the prices and the rewards.
THEOREM HealthyAreSafe == Spec => HealthyKeepCollateral
<1>1. TypeOK /\ [Next]_vars =>
        [\A u \in Users, t \in Tokens :
           Health(u) >= PRECISION /\ collateralDeposited'[u][t] < collateralDeposited[u][t]
             => wallet'[u][t] + collateralDeposited'[u][t]
                  = wallet[u][t] + collateralDeposited[u][t]]_vars
  BY NextKeeps DEF OwnerGets
<1>2. QED
  BY TypeCorrect, <1>1, PTL DEF Spec, HealthyKeepCollateral

-----------------------------------------------------------------------------
(* The books of the store: sums over its users. *)

Deposits(t) == [u \in Users |-> collateralDeposited[u][t]]

LEMMA UsersFinite == IsFiniteSet(Users)
BY CookieAssumption

LEMMA SumsAreNats ==
  ASSUME CollateralOK, DebtOK
  PROVE  /\ SumFunctionOnSet(cki, Users) \in Nat
         /\ SumFunctionOnSet(CKIMinted, Users) \in Nat
         /\ SumFunction(cki) = SumFunctionOnSet(cki, Users)
         /\ SumFunction(CKIMinted) = SumFunctionOnSet(CKIMinted, Users)
         /\ \A t \in Tokens :
              /\ Deposits(t) \in [Users -> Nat]
              /\ SumFunctionOnSet(Deposits(t), Users) \in Nat
<1>1. \A t \in Tokens : Deposits(t) \in [Users -> Nat]
  BY DEF CollateralOK, Deposits
<1>2. DOMAIN cki = Users /\ DOMAIN CKIMinted = Users
  BY DEF DebtOK
<1>3. /\ SumFunction(cki) = SumFunctionOnSet(cki, Users)
      /\ SumFunction(CKIMinted) = SumFunctionOnSet(CKIMinted, Users)
  BY <1>2, SumOver
<1>4. /\ SumFunctionOnSet(cki, Users) \in Nat
      /\ SumFunctionOnSet(CKIMinted, Users) \in Nat
  BY UsersFinite, SumNat DEF DebtOK
<1>5. \A t \in Tokens : SumFunctionOnSet(Deposits(t), Users) \in Nat
  BY <1>1, UsersFinite, SumNat
<1>6. QED
  BY <1>1, <1>3, <1>4, <1>5

\* CustodyIsDeposits with the sum of the theorems.
Custody == \A t \in Tokens : held[t] = SumFunctionOnSet(Deposits(t), Users)

LEMMA CustodySum == CustodyIsDeposits <=> Custody
<1>1. \A t \in Tokens : SumFunction(Deposits(t)) = SumFunctionOnSet(Deposits(t), Users)
  BY SumOver DEF Deposits
<1>2. QED
  BY <1>1 DEF CustodyIsDeposits, Custody, Deposits

\* A deposit that changes by as much as the store holds of the token.
LEMMA CustodyMoves ==
  ASSUME CollateralOK, CollateralOK', Custody,
         NEW u \in Users, NEW t \in Tokens, NEW delta \in Int,
         held' = [held EXCEPT ![t] = @ + delta],
         collateralDeposited' = [collateralDeposited EXCEPT ![u][t] = @ + delta]
  PROVE  Custody'
<1>1. SUFFICES ASSUME NEW x \in Tokens
               PROVE  held'[x] = SumFunctionOnSet(Deposits(x)', Users)
  BY DEF Custody
<1> DEFINE f == Deposits(x)
           g == Deposits(x)'
<1>2. f \in [Users -> Nat] /\ g \in [Users -> Nat]
  BY DEF CollateralOK, Deposits
<1>3. \A w \in Users :
        /\ f[w] = collateralDeposited[w][x]
        /\ g[w] = IF w = u /\ x = t THEN f[w] + delta ELSE f[w]
  BY DEF CollateralOK, Deposits
<1>4. held[x] = SumFunctionOnSet(f, Users)
  BY DEF Custody
<1>5. held'[x] = IF x = t THEN held[x] + delta ELSE held[x]
  BY DEF CollateralOK
<1>6. held[x] \in Int
  BY DEF CollateralOK
<1> SUFFICES held'[x] = SumFunctionOnSet(g, Users)
  OBVIOUS
<1> HIDE DEF f, g
<1>7. CASE x = t
  <2>1. /\ \A w \in Users : f[w] \in Int /\ g[w] \in Int
        /\ \A w \in Users \ {u} : g[w] = f[w]
        /\ g[u] = f[u] + delta
    BY <1>2, <1>3, <1>7
  <2>2. SumFunctionOnSet(g, Users) = SumFunctionOnSet(f, Users) + (g[u] - f[u])
    BY <2>1, UsersFinite, SumUpdate
  <2>3. g[u] - f[u] = delta
    BY <2>1
  <2>4. QED
    BY <1>4, <1>5, <1>7, <2>2, <2>3
<1>8. CASE x # t
  <2>1. \A w \in Users : f[w] = g[w]
    BY <1>3, <1>8
  <2>2. SumFunctionOnSet(f, Users) = SumFunctionOnSet(g, Users)
    BY <2>1, UsersFinite, SumSame
  <2>3. QED
    BY <1>4, <1>5, <1>8, <2>2
<1>9. QED
  BY <1>7, <1>8

LEMMA TakeInCustody ==
  ASSUME CollateralOK, Custody, NEW u \in Users, NEW t \in Tokens, NEW amount \in Nat,
         TakeIn(u, t, amount)
  PROVE  Custody'
<1>1. held' = [held EXCEPT ![t] = @ + amount]
  BY DEF TakeIn
<1>2. collateralDeposited' = [collateralDeposited EXCEPT ![u][t] = @ + amount]
  BY DEF TakeIn
<1>3. CollateralOK' /\ amount \in Int
  BY TakeInType
<1>4. QED
  BY <1>1, <1>2, <1>3, CustodyMoves

LEMMA PayOutCustody ==
  ASSUME CollateralOK, Custody, NEW t \in Tokens, NEW amount \in Nat,
         NEW from \in Users, NEW to \in Users, PayOut(t, amount, from, to)
  PROVE  Custody'
<1> DEFINE delta == 0 - amount
<1>1. held' = [held EXCEPT ![t] = @ + delta]
  <2>1. held[t] - amount = held[t] + delta
    BY DEF CollateralOK
  <2>2. QED
    BY <2>1 DEF PayOut
<1>2. collateralDeposited' = [collateralDeposited EXCEPT ![from][t] = @ + delta]
  <2>1. collateralDeposited[from][t] - amount = collateralDeposited[from][t] + delta
    BY DEF CollateralOK
  <2>2. QED
    BY <2>1 DEF PayOut
<1>3. CollateralOK' /\ delta \in Int
  BY PayOutType
<1> HIDE DEF delta
<1>4. QED
  BY <1>1, <1>2, <1>3, CustodyMoves

LEMMA InitCustody == ASSUME Init, TypeOK PROVE Custody
<1>1. SUFFICES ASSUME NEW t \in Tokens
               PROVE  held[t] = SumFunctionOnSet(Deposits(t), Users)
  BY DEF Custody
<1>2. \A u \in Users : Deposits(t)[u] = 0
  BY DEF Init, Deposits
<1>3. SumFunctionOnSet(Deposits(t), Users) = 0
  BY <1>2, UsersFinite, SumZero
<1>4. QED
  BY <1>3 DEF Init

LEMMA NextCustody == ASSUME TypeOK, Custody, [Next]_vars PROVE Custody'
<1> USE CookieAssumption
<1>0. CollateralOK /\ BookOK /\ FeedOK
  BY TypeParts
<1>a. UNCHANGED collateralVars => Custody'
  BY DEF collateralVars, Custody, Deposits
<1>1. ASSUME NEW u \in Users, NEW t \in Tokens, NEW a \in Amounts,
             TakeIn(u, t, a) \/ PayOut(t, a, u, u)
      PROVE  Custody'
  BY <1>0, <1>1, TakeInCustody, PayOutCustody
<1>2. ASSUME NEW l \in Users, NEW w \in Users, NEW t \in Tokens, NEW m \in CKIAmounts,
             Liquidate(l, w, t, m)
      PROVE  Custody'
  <2>1. /\ priceFeeds[t] # NoFeed /\ price[priceFeeds[t]] # 0
        /\ PayOut(t, Reward(t, m), w, l)
    BY <1>2 DEF Liquidate
  <2>2. Reward(t, m) \in Nat
    BY <1>0, <2>1, RewardType
  <2>3. QED
    BY <1>0, <2>1, <2>2, PayOutCustody
<1>3. CASE \E u \in Users, t \in Tokens, a \in Amounts : DepositCollateral(u, t, a)
  BY <1>1, <1>3 DEF DepositCollateral
<1>4. CASE \E u \in Users, t \in Tokens, a \in Amounts, m \in CKIAmounts :
             DepositCollateralAndMintCKI(u, t, a, m)
  BY <1>1, <1>4 DEF DepositCollateralAndMintCKI
<1>5. CASE \E u \in Users, t \in Tokens, a \in Amounts : RedeemCollateral(u, t, a)
  BY <1>1, <1>5 DEF RedeemCollateral
<1>6. CASE \E u \in Users, t \in Tokens, a \in Amounts, m \in CKIAmounts :
             RedeemCollateralForCKI(u, t, a, m)
  BY <1>1, <1>6 DEF RedeemCollateralForCKI
<1>7. CASE \/ \E t \in Tokens, f \in Feeds : AddTokenCollateral(t, f)
           \/ \E u \in Users, m \in CKIAmounts : MintCKI(u, m)
           \/ \E u \in Users, m \in CKIAmounts : BurnCKI(u, m)
           \/ \E u, w \in Users, m \in CKIAmounts : TransferCKI(u, w, m)
           \/ \E u \in Users, m \in CKIAmounts : BurnFrom(u, m)
           \/ \E f \in Feeds, p \in Prices : NewPrice(f, p)
           \/ \E f \in Feeds : GoesStale(f)
  BY <1>a, <1>7 DEF AddTokenCollateral, MintCKI, BurnCKI, TransferCKI, BurnFrom,
                    NewPrice, GoesStale
<1>8. CASE UNCHANGED vars
  BY <1>a, <1>8 DEF vars
<1>9. QED
  BY <1>2, <1>3, <1>4, <1>5, <1>6, <1>7, <1>8 DEF Next

\* The store holds of every token exactly what its users' deposits add up to,
\* after any calls by any number of users: a withdrawal can always be paid.
THEOREM CustodyHolds == Spec => []CustodyIsDeposits
<1>1. Init => TypeOK /\ Custody
  BY InitType, InitCustody
<1>2. TypeOK /\ Custody /\ [Next]_vars => TypeOK' /\ Custody'
  BY NextType, NextCustody
<1>3. Custody => CustodyIsDeposits
  BY CustodySum
<1>4. QED
  BY <1>1, <1>2, <1>3, PTL DEF Spec

-----------------------------------------------------------------------------
(* Debts and the supply of CKI *)

Supply == SumFunctionOnSet(cki, Users)
Debt == SumFunctionOnSet(CKIMinted, Users)
Covered == Supply <= Debt

LEMMA CoveredSum == ASSUME CollateralOK, DebtOK PROVE DebtCoversSupply <=> Covered
BY SumsAreNats DEF DebtCoversSupply, Covered, Supply, Debt

\* One balance that changes by delta changes the sum by delta.
LEMMA BalanceMoves ==
  ASSUME NEW f \in [Users -> Nat], NEW u \in Users, NEW delta \in Int
  PROVE  SumFunctionOnSet([f EXCEPT ![u] = @ + delta], Users)
           = SumFunctionOnSet(f, Users) + delta
<1>1. f \in [Users -> Int] /\ f[u] \in Int /\ f[u] + delta \in Int
  OBVIOUS
<1>2. SumFunctionOnSet([f EXCEPT ![u] = f[u] + delta], Users)
        = SumFunctionOnSet(f, Users) + ((f[u] + delta) - f[u])
  BY <1>1, UsersFinite, SumExcept
<1>3. (f[u] + delta) - f[u] = delta
  BY <1>1
<1>4. QED
  BY <1>2, <1>3

LEMMA SupplyTypes ==
  ASSUME DebtOK
  PROVE  Supply \in Nat /\ Debt \in Nat
BY UsersFinite, SumNat DEF DebtOK, Supply, Debt

LEMMA MintCovered ==
  ASSUME DebtOK, Covered, NEW u \in Users, NEW m \in CKIAmounts,
         CKIMinted' = [CKIMinted EXCEPT ![u] = @ + m], cki' = [cki EXCEPT ![u] = @ + m]
  PROVE  Covered'
<1>1. m \in Int
  BY CookieAssumption
<1>2. Supply' = Supply + m /\ Debt' = Debt + m
  BY <1>1, BalanceMoves DEF DebtOK, Supply, Debt
<1>3. QED
  BY <1>1, <1>2, SupplyTypes DEF Covered

LEMMA BurnCovered ==
  ASSUME DebtOK, Covered, NEW m \in CKIAmounts, NEW u \in Users, NEW w \in Users,
         BurnDebt(m, u, w)
  PROVE  Covered'
<1> DEFINE d == 0 - m
<1>1. m \in Int /\ d \in Int
  BY CookieAssumption
<1>2. CKIMinted[u] - m = CKIMinted[u] + d /\ cki[w] - m = cki[w] + d
  BY <1>1 DEF DebtOK
<1>3. /\ CKIMinted' = [CKIMinted EXCEPT ![u] = @ + d]
      /\ cki' = [cki EXCEPT ![w] = @ + d]
  BY <1>2 DEF BurnDebt
<1> HIDE DEF d
<1>4. Supply' = Supply + d /\ Debt' = Debt + d
  BY <1>1, <1>3, BalanceMoves DEF DebtOK, Supply, Debt
<1>5. QED
  BY <1>1, <1>4, SupplyTypes DEF Covered

\* A transfer keeps the supply, and burning without a debt lowers it.
LEMMA TransferCovered ==
  ASSUME DebtOK, Covered, NEW u \in Users, NEW w \in Users, NEW m \in CKIAmounts,
         TransferCKI(u, w, m)
  PROVE  Covered'
<1> DEFINE d == 0 - m
           f == [cki EXCEPT ![u] = @ + d]
<1>1. m \in Nat /\ m \in Int /\ d \in Int
  BY CookieAssumption
<1>2. /\ u # w /\ cki[u] >= m /\ CKIMinted' = CKIMinted
      /\ cki' = [cki EXCEPT ![u] = @ - m, ![w] = @ + m]
  BY DEF TransferCKI
<1>3. /\ cki \in [Users -> Nat]
      /\ cki[u] - m = cki[u] + d /\ cki[u] + d \in Nat
  BY <1>1, <1>2 DEF DebtOK
<1>4. f \in [Users -> Nat] /\ f[w] = cki[w]
  BY <1>2, <1>3
<1>5. cki' = [f EXCEPT ![w] = @ + m]
  BY <1>2, <1>3, <1>4
<1>6. SumFunctionOnSet(f, Users) = Supply + d
  <2> HIDE DEF d
  <2>1. QED
    BY <1>1, <1>3, BalanceMoves DEF Supply
<1> HIDE DEF f
<1>7. SumFunctionOnSet([f EXCEPT ![w] = @ + m], Users) = SumFunctionOnSet(f, Users) + m
  BY <1>1, <1>4, BalanceMoves
<1>8. Supply' = (Supply + d) + m
  BY <1>5, <1>6, <1>7 DEF Supply
<1>9. Supply' = Supply /\ Debt' = Debt
  BY <1>1, <1>2, <1>8, SupplyTypes DEF Debt
<1>10. QED
  BY <1>9 DEF Covered

LEMMA BurnFromCovered ==
  ASSUME DebtOK, Covered, NEW u \in Users, NEW m \in CKIAmounts, BurnFrom(u, m)
  PROVE  Covered'
<1> DEFINE d == 0 - m
<1>1. m \in Nat /\ d \in Int
  BY CookieAssumption
<1>2. cki[u] - m = cki[u] + d
  BY <1>1 DEF DebtOK
<1>3. cki' = [cki EXCEPT ![u] = @ + d] /\ CKIMinted' = CKIMinted
  BY <1>2 DEF BurnFrom
<1>4. Supply' = Supply + d
  <2> HIDE DEF d
  <2>1. QED
    BY <1>1, <1>3, BalanceMoves DEF DebtOK, Supply
<1>5. Debt' = Debt
  BY <1>3 DEF Debt
<1>6. QED
  BY <1>1, <1>4, <1>5, SupplyTypes DEF Covered

LEMMA InitCovered == ASSUME Init, TypeOK PROVE Covered
<1>1. (\A u \in Users : cki[u] = 0) /\ (\A u \in Users : CKIMinted[u] = 0)
  BY DEF Init
<1>2. Supply = 0 /\ Debt = 0
  BY <1>1, UsersFinite, SumZero DEF Supply, Debt
<1>3. QED
  BY <1>2 DEF Covered

LEMMA NextCovered == ASSUME TypeOK, Covered, [Next]_vars PROVE Covered'
<1>0. DebtOK
  BY TypeParts
<1>a. UNCHANGED debtVars => Covered'
  BY DEF debtVars, Covered, Supply, Debt
<1>1. ASSUME NEW u \in Users, NEW m \in CKIAmounts,
             \/ MintCKI(u, m)
             \/ \E t \in Tokens, a \in Amounts : DepositCollateralAndMintCKI(u, t, a, m)
      PROVE  Covered'
  <2>1. /\ CKIMinted' = [CKIMinted EXCEPT ![u] = @ + m]
        /\ cki' = [cki EXCEPT ![u] = @ + m]
    BY <1>1 DEF MintCKI, DepositCollateralAndMintCKI
  <2>2. QED
    BY <1>0, <2>1, MintCovered
<1>2. ASSUME NEW u \in Users, NEW w \in Users, NEW m \in CKIAmounts,
             \/ u = w /\ BurnCKI(u, m)
             \/ u = w /\ \E t \in Tokens, a \in Amounts : RedeemCollateralForCKI(u, t, a, m)
             \/ \E t \in Tokens : Liquidate(w, u, t, m)
      PROVE  Covered'
  <2>1. BurnDebt(m, u, w)
    BY <1>2 DEF BurnCKI, RedeemCollateralForCKI, Liquidate
  <2>2. QED
    BY <1>0, <2>1, BurnCovered
<1>3. CASE \E u, w \in Users, m \in CKIAmounts : TransferCKI(u, w, m)
  BY <1>0, <1>3, TransferCovered
<1>4. CASE \E u \in Users, m \in CKIAmounts : BurnFrom(u, m)
  BY <1>0, <1>4, BurnFromCovered
<1>5. CASE \/ \E t \in Tokens, f \in Feeds : AddTokenCollateral(t, f)
           \/ \E u \in Users, t \in Tokens, a \in Amounts : DepositCollateral(u, t, a)
           \/ \E u \in Users, t \in Tokens, a \in Amounts : RedeemCollateral(u, t, a)
           \/ \E f \in Feeds, p \in Prices : NewPrice(f, p)
           \/ \E f \in Feeds : GoesStale(f)
  BY <1>a, <1>5 DEF AddTokenCollateral, DepositCollateral, RedeemCollateral,
                    NewPrice, GoesStale
<1>6. CASE UNCHANGED vars
  BY <1>a, <1>6 DEF vars
<1>7. QED
  BY <1>1, <1>2, <1>3, <1>4, <1>5, <1>6 DEF Next

\* Every CKI in circulation is owed by somebody, for any number of users and
\* whatever they mint, sell, burn and cover.
THEOREM SupplyIsOwed == Spec => []DebtCoversSupply
<1>1. Init => TypeOK /\ Covered
  BY InitType, InitCovered
<1>2. TypeOK /\ Covered /\ [Next]_vars => TypeOK' /\ Covered'
  BY NextType, NextCovered
<1>3. TypeOK /\ Covered => DebtCoversSupply
  BY TypeParts, CoveredSum
<1>4. QED
  BY <1>1, <1>2, <1>3, PTL DEF Spec

-----------------------------------------------------------------------------
(* Health.  A factor of at least PRECISION is a comparison of the debt with *)
(* the value of the collateral, whatever the three divisions round.         *)

LEMMA DivAtLeast ==
  ASSUME NEW a \in Nat, NEW d \in Nat \ {0}, NEW k \in Nat
  PROVE  a \div d >= k <=> a >= k * d
<1> DEFINE q == a \div d
<1>1. q \in Nat /\ q * d <= a /\ a < q * d + d
  BY SMTT(60)
<1> HIDE DEF q
<1>2. k * d \in Nat /\ q * d \in Nat
  BY <1>1, SMTT(60)
<1>3. ASSUME q >= k PROVE a >= k * d
  <2>1. q * d >= k * d
    BY <1>1, <1>3, SMTT(60)
  <2>2. QED
    BY <1>1, <1>2, <2>1
<1>4. ASSUME ~(q >= k) PROVE ~(a >= k * d)
  <2>1. q + 1 <= k
    BY <1>1, <1>4
  <2>2. (q + 1) * d <= k * d /\ (q + 1) * d = q * d + d
    BY <1>1, <2>1, SMTT(60)
  <2>3. QED
    BY <1>1, <1>2, <2>2
<1>5. q >= k <=> a >= k * d
  BY <1>3, <1>4
<1>6. QED
  BY <1>5 DEF q

\* HealthFactor as a function of the value of the collateral.
HealthWith(minted, value) ==
  IF minted = 0 THEN UINT256_MAX
  ELSE (((value * LIQUIDATION_THRESHOLD) \div 100) * PRECISION) \div minted

LEMMA HealthIs ==
  ASSUME NEW minted \in Nat, NEW value \in Nat
  PROVE  /\ HealthWith(minted, value) \in Nat
         /\ HealthWith(minted, value) >= PRECISION <=>
              minted = 0 \/ value * LIQUIDATION_THRESHOLD >= minted * 100
         /\ HealthWith(minted, value) > 0 => minted = 0 \/ value > 0
<1> DEFINE T == LIQUIDATION_THRESHOLD
           P == PRECISION
           x == (value * T) \div 100
<1>0. T \in Nat /\ P \in Nat \ {0} /\ UINT256_MAX \in Nat /\ UINT256_MAX >= P
  BY CookieAssumption
<1>1. CASE minted = 0
  BY <1>0, <1>1 DEF HealthWith
<1>2. CASE minted # 0
  <2>1. HealthWith(minted, value) = (x * P) \div minted
    BY <1>2 DEF HealthWith
  <2> HIDE DEF T, P
  <2>2. value * T \in Nat /\ minted \in Nat \ {0}
    BY <1>0, <1>2, SMTT(60)
  <2>3. x \in Nat /\ (x >= minted <=> value * T >= minted * 100)
    BY <2>2, Quotient, DivAtLeast
  <2>4. value = 0 => x = 0
    BY <1>0
  <2> HIDE DEF x
  <2>5. x * P \in Nat
    BY <1>0, <2>3, SMTT(60)
  <2>6. /\ (x * P) \div minted \in Nat
        /\ (x * P) \div minted >= P <=> x * P >= P * minted
    BY <1>0, <2>2, <2>5, Quotient, DivAtLeast
  <2>7. x * P >= P * minted <=> x >= minted
    <3>1. x >= minted => x * P >= P * minted
      BY <1>0, <2>3, SMTT(60)
    <3>2. ~(x >= minted) => ~(x * P >= P * minted)
      <4>1. SUFFICES ASSUME x + 1 <= minted PROVE ~(x * P >= P * minted)
        BY <2>3
      <4>2. P * minted >= P * (x + 1) /\ P * (x + 1) = x * P + P
        BY <1>0, <2>3, <4>1, SMTT(60)
      <4>3. QED
        BY <1>0, <2>5, <4>2
    <3>3. QED
      BY <3>1, <3>2
  <2>8. x = 0 => (x * P) \div minted = 0
    BY <1>0, <2>2
  <2>9. HealthWith(minted, value) >= P <=> value * T >= minted * 100
    BY <2>1, <2>3, <2>6, <2>7
  <2>10. HealthWith(minted, value) > 0 => value > 0
    BY <2>1, <2>4, <2>8
  <2>11. QED
    BY <1>2, <2>1, <2>6, <2>9, <2>10 DEF T, P
<1>3. QED
  BY <1>1, <1>2

-----------------------------------------------------------------------------
(* The value of a deposit is a sum over the listed tokens, a token counted  *)
(* as often as it is listed.                                                *)

Deposit == [Tokens -> Nat]

Listed(s) == s \in Seq(Tokens) /\ \A i \in DOMAIN s : priceFeeds[s[i]] # NoFeed

Terms(s, d) == [i \in DOMAIN s |-> UsdValue(s[i], d[s[i]])]

ValueOf(s, d) == SumFunction(Terms(s, d))

LEMMA UsdValueType ==
  ASSUME BookOK, FeedOK, NEW t \in Tokens, priceFeeds[t] # NoFeed,
         NEW a \in Nat, NEW b \in Nat, a <= b
  PROVE  UsdValue(t, a) \in Nat /\ UsdValue(t, a) <= UsdValue(t, b) /\ UsdValue(t, 0) = 0
<1> DEFINE p == price[priceFeeds[t]]
           P == PRECISION
<1>1. p \in Nat /\ P \in Nat \ {0}
  BY CookieAssumption DEF BookOK, FeedOK
<1>2. /\ UsdValue(t, a) = (p * a) \div P /\ UsdValue(t, b) = (p * b) \div P
      /\ UsdValue(t, 0) = (p * 0) \div P
  BY DEF UsdValue
<1> HIDE DEF p, P
<1>3. p * a \in Nat /\ p * b \in Nat /\ p * a <= p * b /\ p * 0 = 0
  BY <1>1, SMTT(60)
<1>4. (p * a) \div P \in Nat
  BY <1>1, <1>3, Quotient
<1>5. (p * b) \div P >= (p * a) \div P
  <2> DEFINE q == (p * a) \div P
  <2>1. q \in Nat /\ q * P \in Nat /\ p * a >= q * P
    BY <1>1, <1>3, <1>4, DivAtLeast, SMTT(60)
  <2> HIDE DEF q
  <2>2. p * b >= q * P
    BY <1>3, <2>1
  <2>3. (p * b) \div P >= q
    BY <1>1, <1>3, <2>1, <2>2, DivAtLeast
  <2>4. QED
    BY <2>3 DEF q
<1>6. (p * 0) \div P = 0
  BY <1>1, <1>3
<1>7. (p * b) \div P \in Nat
  BY <1>1, <1>3, Quotient
<1>8. QED
  BY <1>2, <1>4, <1>5, <1>6, <1>7

LEMMA Indices ==
  ASSUME NEW s \in Seq(Tokens)
  PROVE  /\ DOMAIN s = 1..Len(s) /\ Len(s) \in Nat
         /\ IsFiniteSet(DOMAIN s) /\ \A i \in DOMAIN s : s[i] \in Tokens
<1>1. DOMAIN s = 1..Len(s) /\ Len(s) \in Nat /\ \A i \in DOMAIN s : s[i] \in Tokens
  OBVIOUS
<1>2. QED
  BY <1>1, FS_Interval

LEMMA ValueIsSum ==
  ASSUME BookOK, FeedOK, NEW s, Listed(s), NEW d \in Deposit
  PROVE  /\ \A i \in DOMAIN s : Terms(s, d)[i] \in Nat
         /\ ValueOf(s, d) = SumFunctionOnSet(Terms(s, d), DOMAIN s)
         /\ ValueOf(s, d) \in Nat
<1>1. s \in Seq(Tokens) /\ IsFiniteSet(DOMAIN s)
  BY Indices DEF Listed
<1>2. \A i \in DOMAIN s : Terms(s, d)[i] \in Nat
  <2>1. SUFFICES ASSUME NEW i \in DOMAIN s PROVE UsdValue(s[i], d[s[i]]) \in Nat
    BY DEF Terms
  <2>2. s[i] \in Tokens /\ priceFeeds[s[i]] # NoFeed /\ d[s[i]] \in Nat
    BY <1>1, Indices DEF Listed, Deposit
  <2>3. QED
    BY <2>2, UsdValueType
<1>3. ValueOf(s, d) = SumFunctionOnSet(Terms(s, d), DOMAIN s)
  BY SumOver DEF ValueOf, Terms
<1>4. QED
  BY <1>1, <1>2, <1>3, SumNat

\* More of the tokens is not worth less, nothing is worth nothing, and a
\* longer list of tokens adds value.
LEMMA ValueGrows ==
  ASSUME BookOK, FeedOK, NEW s, Listed(s), NEW d \in Deposit, NEW e \in Deposit,
         \A t \in Tokens : d[t] <= e[t]
  PROVE  ValueOf(s, d) <= ValueOf(s, e)
<1> DEFINE f == Terms(s, d)
           g == Terms(s, e)
<1>1. s \in Seq(Tokens) /\ IsFiniteSet(DOMAIN s)
  BY Indices DEF Listed
<1>2. \A i \in DOMAIN s : f[i] \in Nat /\ g[i] \in Nat
  BY ValueIsSum
<1>3. ASSUME NEW i \in DOMAIN s PROVE f[i] <= g[i]
  <2>1. /\ s[i] \in Tokens /\ priceFeeds[s[i]] # NoFeed
        /\ d[s[i]] \in Nat /\ e[s[i]] \in Nat /\ d[s[i]] <= e[s[i]]
    BY <1>1, Indices DEF Listed, Deposit
  <2>2. UsdValue(s[i], d[s[i]]) <= UsdValue(s[i], e[s[i]])
    BY <2>1, UsdValueType
  <2>3. QED
    BY <2>2 DEF Terms
<1>4. ValueOf(s, d) = SumFunctionOnSet(f, DOMAIN s)
      /\ ValueOf(s, e) = SumFunctionOnSet(g, DOMAIN s)
  BY ValueIsSum
<1> HIDE DEF f, g
<1>5. SumFunctionOnSet(f, DOMAIN s) <= SumFunctionOnSet(g, DOMAIN s)
  BY <1>1, <1>2, <1>3, SumMonotone
<1>6. QED
  BY <1>4, <1>5

LEMMA NothingIsWorthNothing ==
  ASSUME BookOK, FeedOK, NEW s, Listed(s), NEW d \in Deposit,
         \A t \in Tokens : d[t] = 0
  PROVE  ValueOf(s, d) = 0
<1>1. s \in Seq(Tokens) /\ IsFiniteSet(DOMAIN s)
  BY Indices DEF Listed
<1>2. ASSUME NEW i \in DOMAIN s PROVE Terms(s, d)[i] = 0
  <2>1. s[i] \in Tokens /\ priceFeeds[s[i]] # NoFeed /\ d[s[i]] = 0
    BY <1>1, Indices DEF Listed
  <2>2. UsdValue(s[i], 0) = 0
    BY <2>1, UsdValueType
  <2>3. QED
    BY <2>1, <2>2 DEF Terms
<1>3. SumFunctionOnSet(Terms(s, d), DOMAIN s) = 0
  BY <1>1, <1>2, SumZero
<1>4. QED
  BY <1>3, ValueIsSum

LEMMA LongerListAddsValue ==
  ASSUME BookOK, FeedOK, NEW s, Listed(s), NEW t \in Tokens, priceFeeds[t] # NoFeed,
         NEW d \in Deposit
  PROVE  Listed(Append(s, t)) /\ ValueOf(s, d) <= ValueOf(Append(s, t), d)
<1> DEFINE n == Len(s)
           a == Append(s, t)
           f == Terms(s, d)
           g == Terms(a, d)
<1>1. s \in Seq(Tokens) /\ DOMAIN s = 1..n /\ n \in Nat /\ IsFiniteSet(1..n)
  BY Indices DEF Listed
<1>2. /\ a \in Seq(Tokens) /\ DOMAIN a = 1..(n + 1)
      /\ \A i \in 1..n : a[i] = s[i]
      /\ a[n + 1] = t
  BY <1>1
<1>3. Listed(a)
  BY <1>1, <1>2 DEF Listed
<1>4. /\ \A i \in 1..n : f[i] \in Nat
      /\ ValueOf(s, d) = SumFunctionOnSet(f, 1..n) /\ ValueOf(s, d) \in Nat
      /\ \A i \in 1..(n + 1) : g[i] \in Nat
      /\ ValueOf(a, d) = SumFunctionOnSet(g, 1..(n + 1))
  <2> HIDE DEF a
  <2>1. QED
    BY <1>1, <1>2, <1>3, ValueIsSum
<1>5. \A i \in 1..n : f[i] = g[i]
  <2> HIDE DEF a
  <2>1. QED
    BY <1>1, <1>2 DEF Terms
<1> HIDE DEF f, g, n, a
<1>6. SumFunctionOnSet(f, 1..n) = SumFunctionOnSet(g, 1..n)
  BY <1>1, <1>5, SumSame
<1>7. 1..(n + 1) = 1..n \cup {n + 1} /\ n + 1 \notin 1..n
  BY <1>1
<1>8. SumFunctionOnSet(g, 1..(n + 1)) = g[n + 1] + SumFunctionOnSet(g, 1..n)
  <2>1. \A i \in 1..n \cup {n + 1} : g[i] \in Int
    BY <1>4, <1>7
  <2>2. SumFunctionOnSet(g, 1..n \cup {n + 1}) = g[n + 1] + SumFunctionOnSet(g, 1..n)
    BY <1>1, <1>7, <2>1, SumIn
  <2>3. QED
    BY <1>7, <2>2
<1>9. g[n + 1] \in Nat
  BY <1>1, <1>4
<1>10. ValueOf(s, d) <= ValueOf(a, d)
  BY <1>4, <1>6, <1>8, <1>9
<1>11. QED
  BY <1>3, <1>10 DEF a

LEMMA ListedTokens == ASSUME BookOK PROVE Listed(authorizedCollateralTokens)
<1> DEFINE a == authorizedCollateralTokens
<1>1. a \in Seq(Tokens) /\ \A i \in DOMAIN a : a[i] \in Tokens /\ a[i] \in ToSet(a)
  BY Indices DEF BookOK, ToSet
<1>2. QED
  BY <1>1 DEF BookOK, Listed

LEMMA HealthNow ==
  ASSUME BookOK, FeedOK, NEW m \in Nat, NEW d \in Deposit
  PROVE  /\ ValueOf(authorizedCollateralTokens, d) \in Nat
         /\ HealthFactor(m, d) = HealthWith(m, ValueOf(authorizedCollateralTokens, d))
<1>1. ValueOf(authorizedCollateralTokens, d) \in Nat
  BY ListedTokens, ValueIsSum
<1>2. AccountCollateralValue(d) = ValueOf(authorizedCollateralTokens, d)
  BY DEF AccountCollateralValue, ValueOf, Terms
<1>3. QED
  BY <1>1, <1>2 DEF HealthFactor, HealthWith

\* The health factor after a step that leaves prices and feeds alone.
LEMMA HealthNext ==
  ASSUME UNCHANGED <<price, priceFeeds>>, NEW u \in Users
  PROVE  Health(u)' = HealthWith(CKIMinted'[u],
                        ValueOf(authorizedCollateralTokens', collateralDeposited'[u]))
<1>1. Health(u)' = HealthFactor(CKIMinted[u], collateralDeposited[u])'
  BY DEF Health
<1>2. AccountCollateralValue(collateralDeposited[u])'
        = ValueOf(authorizedCollateralTokens', collateralDeposited'[u])
  BY DEF AccountCollateralValue, UsdValue, ValueOf, Terms
<1>3. QED
  BY <1>1, <1>2 DEF HealthFactor, HealthWith

\* What an account has of debt and collateral after a step: no more debt and no
\* less collateral, or a checked health factor, or it was liquidated and its
\* health factor rose.
NoWorse(u) ==
  /\ CKIMinted'[u] <= CKIMinted[u]
  /\ \A t \in Tokens : collateralDeposited[u][t] <= collateralDeposited'[u][t]

Checked(u) == HealthFactor(CKIMinted'[u], collateralDeposited'[u]) >= PRECISION

Liquidated(u) ==
  /\ ~(Health(u) >= PRECISION)
  /\ HealthFactor(CKIMinted'[u], collateralDeposited'[u]) > Health(u)

LEMMA TakeInNoWorse ==
  ASSUME CollateralOK, DebtOK, CKIMinted' = CKIMinted,
         NEW w \in Users, NEW x \in Tokens, NEW a \in Amounts, TakeIn(w, x, a),
         NEW u \in Users
  PROVE  NoWorse(u)
<1>1. a \in Nat /\ CKIMinted[u] \in Nat
  BY CookieAssumption DEF DebtOK
<1>2. ASSUME NEW t \in Tokens
      PROVE  collateralDeposited[u][t] <= collateralDeposited'[u][t]
  <2>1. collateralDeposited[u][t] \in Nat
    BY DEF CollateralOK
  <2>2. collateralDeposited'[u][t]
          = IF u = w /\ t = x THEN collateralDeposited[u][t] + a
                              ELSE collateralDeposited[u][t]
    BY DEF TakeIn, CollateralOK
  <2>3. QED
    BY <1>1, <2>1, <2>2
<1>3. QED
  BY <1>1, <1>2 DEF NoWorse

\* Another's deposit or withdrawal does not touch the account's collateral.
LEMMA OthersCollateral ==
  ASSUME CollateralOK, NEW w \in Users, NEW x \in Tokens, NEW a \in Nat, NEW l \in Users,
         TakeIn(w, x, a) \/ PayOut(x, a, w, l),
         NEW u \in Users, u # w
  PROVE  collateralDeposited'[u] = collateralDeposited[u]
BY DEF CollateralOK, TakeIn, PayOut

LEMMA SameIsNoWorse ==
  ASSUME CollateralOK, DebtOK, NEW u \in Users,
         CKIMinted'[u] = CKIMinted[u], collateralDeposited'[u] = collateralDeposited[u]
  PROVE  NoWorse(u)
<1>1. /\ CKIMinted[u] \in Nat
      /\ \A t \in Tokens : collateralDeposited[u][t] \in Nat
  BY DEF CollateralOK, DebtOK
<1>2. QED
  BY <1>1 DEF NoWorse

LEMMA Effects ==
  ASSUME TypeOK, [Next]_vars, NEW u \in Users
  PROVE  NoWorse(u) \/ Checked(u) \/ Liquidated(u)
<1> USE CookieAssumption
<1>0. CollateralOK /\ DebtOK /\ BookOK /\ FeedOK
  BY TypeParts
<1>a. CKIMinted'[u] = CKIMinted[u] /\ collateralDeposited'[u] = collateralDeposited[u]
        => NoWorse(u)
  BY <1>0, SameIsNoWorse
<1>1. ASSUME NEW w \in Users, NEW t \in Tokens, NEW a \in Amounts,
             DepositCollateral(w, t, a)
      PROVE  NoWorse(u)
  BY <1>0, <1>1, TakeInNoWorse DEF DepositCollateral, debtVars
<1>2. ASSUME NEW w \in Users, NEW m \in CKIAmounts, MintCKI(w, m)
      PROVE  NoWorse(u) \/ Checked(u)
  <2>1. CASE u = w
    BY <1>2, <2>1 DEF MintCKI, HealthOk, Checked, collateralVars
  <2>2. CASE u # w
    BY <1>0, <1>2, <1>a, <2>2 DEF MintCKI, collateralVars, DebtOK
  <2>3. QED
    BY <2>1, <2>2
<1>3. ASSUME NEW w \in Users, NEW t \in Tokens, NEW a \in Amounts, NEW m \in CKIAmounts,
             DepositCollateralAndMintCKI(w, t, a, m)
      PROVE  NoWorse(u) \/ Checked(u)
  <2>1. CASE u = w
    BY <1>3, <2>1 DEF DepositCollateralAndMintCKI, HealthOk, Checked
  <2>2. CASE u # w
    <3>1. collateralDeposited'[u] = collateralDeposited[u]
      BY <1>0, <1>3, <2>2, OthersCollateral DEF DepositCollateralAndMintCKI
    <3>2. CKIMinted'[u] = CKIMinted[u]
      BY <1>0, <1>3, <2>2 DEF DepositCollateralAndMintCKI, DebtOK
    <3>3. QED
      BY <1>a, <3>1, <3>2
  <2>3. QED
    BY <2>1, <2>2
<1>4. ASSUME NEW w \in Users, NEW t \in Tokens, NEW a \in Amounts,
             RedeemCollateral(w, t, a)
      PROVE  NoWorse(u) \/ Checked(u)
  <2>1. CASE u = w
    BY <1>4, <2>1 DEF RedeemCollateral, HealthOk, Checked, debtVars
  <2>2. CASE u # w
    <3>1. collateralDeposited'[u] = collateralDeposited[u]
      BY <1>0, <1>4, <2>2, OthersCollateral DEF RedeemCollateral
    <3>2. CKIMinted'[u] = CKIMinted[u]
      BY <1>4 DEF RedeemCollateral, debtVars
    <3>3. QED
      BY <1>a, <3>1, <3>2
  <2>3. QED
    BY <2>1, <2>2
<1>5. ASSUME NEW w \in Users, NEW t \in Tokens, NEW a \in Amounts, NEW m \in CKIAmounts,
             RedeemCollateralForCKI(w, t, a, m)
      PROVE  NoWorse(u) \/ Checked(u)
  <2>1. CASE u = w
    BY <1>5, <2>1 DEF RedeemCollateralForCKI, HealthOk, Checked
  <2>2. CASE u # w
    <3>1. collateralDeposited'[u] = collateralDeposited[u]
      BY <1>0, <1>5, <2>2, OthersCollateral DEF RedeemCollateralForCKI
    <3>2. CKIMinted'[u] = CKIMinted[u]
      BY <1>0, <1>5, <2>2 DEF RedeemCollateralForCKI, BurnDebt, DebtOK
    <3>3. QED
      BY <1>a, <3>1, <3>2
  <2>3. QED
    BY <2>1, <2>2
<1>6. ASSUME NEW w \in Users, NEW m \in CKIAmounts, BurnCKI(w, m)
      PROVE  NoWorse(u)
  <2>1. /\ CKIMinted' = [CKIMinted EXCEPT ![w] = @ - m]
        /\ collateralDeposited' = collateralDeposited
    BY <1>6 DEF BurnCKI, BurnDebt, collateralVars
  <2>2. CKIMinted[u] \in Nat /\ m \in Nat
    BY <1>0 DEF DebtOK
  <2>3. CKIMinted'[u] <= CKIMinted[u]
    BY <1>0, <2>1, <2>2 DEF DebtOK
  <2>4. \A t \in Tokens : collateralDeposited[u][t] \in Nat
    BY <1>0 DEF CollateralOK
  <2>5. QED
    BY <2>1, <2>3, <2>4 DEF NoWorse
<1>7. ASSUME NEW l \in Users, NEW w \in Users, NEW t \in Tokens, NEW m \in CKIAmounts,
             Liquidate(l, w, t, m)
      PROVE  NoWorse(u) \/ Liquidated(u)
  <2>1. CASE u = w
    BY <1>7, <2>1 DEF Liquidate, Liquidated
  <2>2. CASE u # w
    <3>1. /\ priceFeeds[t] # NoFeed /\ price[priceFeeds[t]] # 0
          /\ PayOut(t, Reward(t, m), w, l) /\ BurnDebt(m, w, l)
      BY <1>7 DEF Liquidate
    <3>2. Reward(t, m) \in Nat
      BY <1>0, <3>1, RewardType
    <3>3. collateralDeposited'[u] = collateralDeposited[u]
      BY <1>0, <2>2, <3>1, <3>2, OthersCollateral
    <3>4. CKIMinted'[u] = CKIMinted[u]
      BY <1>0, <2>2, <3>1 DEF BurnDebt, DebtOK
    <3>5. QED
      BY <1>a, <3>3, <3>4
  <2>3. QED
    BY <2>1, <2>2
<1>8. CASE \/ \E t \in Tokens, f \in Feeds : AddTokenCollateral(t, f)
           \/ \E w, y \in Users, m \in CKIAmounts : TransferCKI(w, y, m)
           \/ \E w \in Users, m \in CKIAmounts : BurnFrom(w, m)
           \/ \E f \in Feeds, p \in Prices : NewPrice(f, p)
           \/ \E f \in Feeds : GoesStale(f)
           \/ UNCHANGED vars
  <2>1. UNCHANGED <<CKIMinted, collateralDeposited>>
    BY <1>8 DEF AddTokenCollateral, TransferCKI, BurnFrom, NewPrice, GoesStale,
                debtVars, collateralVars, vars
  <2>2. QED
    BY <1>a, <2>1
<1>9. QED
  BY <1>1, <1>2, <1>3, <1>4, <1>5, <1>6, <1>7, <1>8 DEF Next

-----------------------------------------------------------------------------
(* No debt without collateral *)

Has(m, d) == m > 0 => \E t \in Tokens : d[t] > 0

\* Without collateral the health factor of a debt is 0.
LEMMA HealthNeedsCollateral ==
  ASSUME BookOK, FeedOK, NEW m \in Nat, NEW d \in Deposit, HealthFactor(m, d) > 0
  PROVE  Has(m, d)
<1>1. SUFFICES ASSUME m > 0, \A t \in Tokens : ~(d[t] > 0) PROVE FALSE
  BY DEF Has
<1>2. \A t \in Tokens : d[t] = 0
  BY <1>1 DEF Deposit
<1>3. ValueOf(authorizedCollateralTokens, d) = 0
  BY <1>2, ListedTokens, NothingIsWorthNothing
<1>4. HealthFactor(m, d) = HealthWith(m, 0)
  BY <1>3, HealthNow
<1>5. QED
  BY <1>1, <1>4, HealthIs

LEMMA NextHasCollateral ==
  ASSUME TypeOK, TypeOK', DebtHasCollateral, [Next]_vars
  PROVE  DebtHasCollateral'
<1>0. CollateralOK /\ DebtOK /\ BookOK /\ FeedOK
  BY TypeParts
<1>1. SUFFICES ASSUME NEW u \in Users PROVE Has(CKIMinted'[u], collateralDeposited'[u])
  BY DEF DebtHasCollateral, Has
<1>2. /\ CKIMinted[u] \in Nat /\ collateralDeposited[u] \in Deposit
      /\ CKIMinted'[u] \in Nat /\ collateralDeposited'[u] \in Deposit
  BY DEF TypeOK, Deposit
<1>3. Has(CKIMinted[u], collateralDeposited[u])
  BY DEF DebtHasCollateral, Has
<1>4. CASE NoWorse(u)
  BY <1>2, <1>3, <1>4 DEF NoWorse, Has, Deposit
<1>5. HealthFactor(CKIMinted'[u], collateralDeposited'[u]) > 0
        => Has(CKIMinted'[u], collateralDeposited'[u])
  BY <1>0, <1>2, HealthNeedsCollateral
<1>6. /\ Health(u) \in Nat
      /\ HealthFactor(CKIMinted'[u], collateralDeposited'[u]) \in Nat
  <2>1. \A m \in Nat, d \in Deposit : HealthFactor(m, d) \in Nat
    BY <1>0, HealthNow, HealthIs
  <2>2. QED
    BY <1>2, <2>1 DEF Health
<1>7. CASE Checked(u)
  BY <1>5, <1>6, <1>7, CookieAssumption DEF Checked
<1>8. CASE Liquidated(u)
  BY <1>5, <1>6, <1>8 DEF Liquidated
<1>9. QED
  BY <1>4, <1>7, <1>8, Effects

\* No account owes CKI without collateral, however far prices fall and whoever
\* liquidates: a liquidation must raise the health factor, and that of a debt
\* without collateral is 0.
THEOREM NoBareDebt == Spec => []DebtHasCollateral
<1>1. Init => TypeOK /\ DebtHasCollateral
  BY InitType DEF Init, DebtHasCollateral
<1>2. TypeOK /\ DebtHasCollateral /\ [Next]_vars => TypeOK' /\ DebtHasCollateral'
  BY NextType, NextHasCollateral
<1>3. QED
  BY <1>1, <1>2, PTL DEF Spec

-----------------------------------------------------------------------------
(* Only prices hurt *)

\* Of less debt and more collateral an account is not less healthy.
LEMMA HealthGrows ==
  ASSUME NEW m \in Nat, NEW n \in Nat, n <= m, NEW v \in Nat, NEW w \in Nat, v <= w,
         HealthWith(m, v) >= PRECISION
  PROVE  HealthWith(n, w) >= PRECISION
<1> DEFINE T == LIQUIDATION_THRESHOLD
<1>1. T \in Nat
  BY CookieAssumption
<1>2. m = 0 \/ v * T >= m * 100
  BY HealthIs
<1> HIDE DEF T
<1>3. v * T \in Nat /\ w * T \in Nat /\ v * T <= w * T
  BY <1>1, SMTT(60)
<1>4. n = 0 \/ w * T >= n * 100
  BY <1>2, <1>3
<1>5. QED
  BY <1>4, HealthIs DEF T

LEMMA NextHealthy ==
  ASSUME TypeOK, TypeOK', [Next]_vars, NEW u \in Users,
         Health(u) >= PRECISION, UNCHANGED <<price, priceFeeds>>
  PROVE  Health(u)' >= PRECISION
<1> DEFINE a == authorizedCollateralTokens
<1>0. CollateralOK /\ DebtOK /\ BookOK /\ FeedOK
  BY TypeParts
<1>1. /\ CKIMinted[u] \in Nat /\ collateralDeposited[u] \in Deposit
      /\ CKIMinted'[u] \in Nat /\ collateralDeposited'[u] \in Deposit
  BY DEF TypeOK, Deposit
<1>2. /\ Health(u) = HealthWith(CKIMinted[u], ValueOf(a, collateralDeposited[u]))
      /\ HealthFactor(CKIMinted'[u], collateralDeposited'[u])
           = HealthWith(CKIMinted'[u], ValueOf(a, collateralDeposited'[u]))
      /\ ValueOf(a, collateralDeposited[u]) \in Nat
      /\ ValueOf(a, collateralDeposited'[u]) \in Nat
  BY <1>0, <1>1, HealthNow DEF Health
<1>3. Health(u)' = HealthWith(CKIMinted'[u], ValueOf(a', collateralDeposited'[u]))
  BY HealthNext
<1>4. Listed(a)
  BY <1>0, ListedTokens
<1>5. CASE a' = a
  <2>1. CASE NoWorse(u)
    <3>1. ValueOf(a, collateralDeposited[u]) <= ValueOf(a, collateralDeposited'[u])
      BY <1>0, <1>1, <1>4, <2>1, ValueGrows DEF NoWorse
    <3>2. CKIMinted'[u] <= CKIMinted[u]
      BY <2>1 DEF NoWorse
    <3> HIDE DEF a
    <3>3. HealthWith(CKIMinted'[u], ValueOf(a, collateralDeposited'[u])) >= PRECISION
      BY <1>1, <1>2, <3>1, <3>2, HealthGrows
    <3>4. QED
      BY <1>3, <1>5, <3>3
  <2>2. CASE Checked(u)
    BY <1>2, <1>3, <1>5, <2>2 DEF Checked
  <2>3. QED
    BY <2>1, <2>2, Effects DEF Liquidated
<1>6. CASE a' # a
  <2>1. PICK t \in Tokens, f \in Feeds : AddTokenCollateral(t, f)
    BY <1>6 DEF Next, vars, bookVars, DepositCollateral, MintCKI,
       DepositCollateralAndMintCKI, RedeemCollateral, RedeemCollateralForCKI, BurnCKI,
       Liquidate, TransferCKI, BurnFrom, NewPrice, GoesStale
  <2>2. /\ a' = Append(a, t) /\ priceFeeds' = [priceFeeds EXCEPT ![t] = f]
        /\ CKIMinted' = CKIMinted /\ collateralDeposited' = collateralDeposited
    BY <2>1 DEF AddTokenCollateral, debtVars, collateralVars
  <2>3. priceFeeds[t] # NoFeed
    BY <1>0, <2>2, CookieAssumption DEF BookOK
  <2>4. /\ Listed(Append(a, t))
        /\ ValueOf(a, collateralDeposited[u]) <= ValueOf(Append(a, t), collateralDeposited[u])
    BY <1>0, <1>1, <1>4, <2>3, LongerListAddsValue
  <2>5. ValueOf(Append(a, t), collateralDeposited[u]) \in Nat
    BY <1>0, <1>1, <2>4, ValueIsSum
  <2> HIDE DEF a
  <2>6. HealthWith(CKIMinted[u], ValueOf(Append(a, t), collateralDeposited[u])) >= PRECISION
    BY <1>1, <1>2, <2>4, <2>5, HealthGrows
  <2>7. QED
    BY <1>3, <2>2, <2>6
<1>7. QED
  BY <1>5, <1>6

\* A healthy account stays healthy through every call, its own, another's or a
\* liquidator's, and through every addition to the list of tokens, as long as
\* prices and feeds stay: for all tokens, amounts, thresholds and roundings.
THEOREM PricesAlone == Spec => OnlyPricesHurt
<1>1. TypeOK /\ TypeOK' /\ [Next]_vars =>
        [\A u \in Users :
           Health(u) >= PRECISION /\ UNCHANGED <<price, priceFeeds>>
             => Health(u)' >= PRECISION]_vars
  BY NextHealthy
<1>2. QED
  BY TypeCorrect, <1>1, PTL DEF Spec, OnlyPricesHurt
=============================================================================
