# TLA+ specifications of the programs in this repository

This directory holds TLA+ models of the programs under `src/`, the TLC
configurations that check them on small instances, and theorems about them
with proofs for TLAPS. The repository collects independent programs (Solidity
contracts and their deployment, a Move module, two Rust services); none calls
another, so each has a specification of its own.

## 1. Inventory

### VeNFT (`src/Solidity/veNFT-main`)

Vote escrow. A user locks base tokens until a week boundary and gets an ERC-721
token; its voting power decays linearly to zero at the end of the lock.

- *State*: `lockedBalances` (the locks), `totalTokenLocked` and the base tokens
  in the contract, the token counter and ERC-721 owners, and the same voting
  power three times: per token (`tokenPointHistory`), in aggregate
  (`pointHistory`, `slopeChanges`, `epoch`), and per user through the list of
  tokens held (`userTokenHistory`).
- *Operations*: `createLock`, `depositFor`, `increaseAmount`,
  `increaseUnlockTime`, `withdraw`, `mergePositions`, `checkpoint`, and the
  inherited transfer and burn. Every call is one transaction. A transfer hook
  (`_beforeTokenTransfer`) keeps the per-user histories; ERC-20 transfers move
  the base token.
- *Hard*: three accounts of one quantity that decay by three different loops;
  several checkpoints in one block; a catch-up loop with a limit; binary
  searches over histories with equal timestamps; merges and burns that leave a
  part of the state alone.
- *Correct when*: the aggregate is the sum of the positions at every timestamp;
  a token votes for one user; what governance read about the past does not
  change; custody pays every lock.

### NFTExchange (`src/Solidity/NFT-flashloan-exchange`)

A marketplace that escrows listed NFTs, takes fully paid bids and lends listed
NFTs in flash loans.

- *State*: `listings`, `alreadyListed`, NFT owners, ERC-20 and ether balances,
  the approvals the exchange gives.
- *Operations*: `createListing`, `updateListing`, `cancelListing`,
  `purchaseListing`, `createBid`, `cancelBid`, `acceptBid`, `flashLoanNFT`,
  `getListing`. `flashLoanNFT` calls the borrower, who may call the exchange
  again, nested to any depth.
- *Hard*: everything a borrower can do while the NFT is away; a loan's memory
  copy of a listing that has changed since; bids that share one token balance
  with fees and prices; structs that are stored as the caller writes them, with
  any NFT, seller and bid; a struct that a seller reads, edits and writes back.
- *Correct when*: an active listing can be delivered and is the only one of its
  NFT, unless an update has aimed a listing at that NFT; no call touches the
  tokens of another listing's bid; a seller loses an NFT only for its price.
  That bids are fully collateralised and stand for seven days, as the interface
  has it, is not so (findings 2 and 8).

### Craft authentication (`src/Rust/craft-main`)

A gRPC server that checks a proof of knowledge of a secret, and its client.

- *State*: users with their proof values and commitment, and challenges, in
  maps behind one mutex. Per request: what a handler has read.
- *Operations*: `register_user`, `create_challenge`, `verify`; the client's
  `run_protocol` calls them in this order. Handlers run concurrently and give
  the mutex back between their lock sections.
- *Hard*: interleavings of lock sections, a record copied under one lock and
  written back under another, answers sent again, connections lost half-way.
- *Correct when*: an honest run logs in, whatever other users do; a challenge
  gives one login.

The `ec_snark` library (curve arithmetic) and the command lines are parts of
their own without protocol state.

### Pay stream (`src/Move/move-pay-stream-main`)

A sender locks coins for a receiver, who accepts and claims them by the second.

- *State*: per sender a table from receiver to stream (coins, start, duration),
  and account balances.
- *Operations*: `create_payment`, `accept_payment`, `claim_payment`,
  `cancel_payment`, each a transaction that aborts as a whole.
- *Hard*: integer division, repeated claims, zero durations and very long ones,
  streams that were never accepted, cancellation by either party at any moment.
- *Correct when*: no coin appears or disappears in any account; an unaccepted
  stream pays nothing (but for finding 9); what is claimed matches the time
  elapsed (it does not: finding 4).

### Stable-Cookie engine (`src/Solidity/Stable-Cookie-main`)

An over-collateralised stablecoin: collateral in, CKI out, liquidations.

- *State*: the list of collateral tokens and their feeds, deposits, debts, CKI
  balances; the prices and freshness of the Chainlink feeds.
- *Operations*: `addTokenCollateral`, `depositCollateral`, `mintCKI`,
  `redeemCollateral`, `burnCKI`, the two combined calls, `liquidate`, and
  ERC-20 transfer and `burnFrom` of CKI.
- *Hard*: prices that jump between calls, a stale feed that stops every call
  that needs a health factor, partial liquidations with a bonus, checks that
  come after updates.
- *Correct when*: custody is the deposits, debts cover the supply, only prices
  make a healthy account liquidatable, nobody takes a healthy account's
  collateral, no debt is left without collateral, and a deposit counts once
  (it may count twice: section 4).

### Stable-Cookie deployment and governance (`deploy/`, `contracts/DAO`)

Six hardhat-deploy scripts put the DAO and the stablecoin on a chain and hand the
timelock over to the governor.

- *State*: the instances of each contract on the chain with their constructor
  arguments, the votes the deployer has delegated, the timelock's admins,
  proposers and executors; the records of `deployments/`; the position of a run.
- *Operations*: `hardhat deploy` with or without `--tags`, which executes the
  scripts of a tag in order; their steps are lookups, deployments, verification
  by the explorer, delegation and role changes.
- *Hard*: a run stops at any step, and the next one executes every script again
  on what is left; a contract can be sent and lost from the records; tags run
  in any order; the deployer gives up its own rights half-way; the script of
  the store cannot deploy it.
- *Correct when*: the timelock always has somebody in charge; what is on record
  belongs together and stays; a governor has voters; whoever repeats every part
  finishes, the store excepted (finding 10).

The governor, timelock and governance token are generated contracts whose
behaviour is in a library outside this repository. Their constructors and
what the scripts call are part of the deployment's model; voting, queueing and
execution are not modelled.

### AAVE price aggregator (`src/Rust/aave_aggregator-master`)

Two feed tasks insert prices into a shared map and a bounded broadcast channel;
an HTTP handler streams the channel to clients, which show the latest price of
each source.

- *State*: the map, the channel and its receivers; the state of each feed task;
  what is in sockets and streams; what each client shows.
- *Operations*: a feed connects, takes a message, inserts a price (broadcast, then
  store), times out, connects again; a client subscribes, its handler forwards
  events, the client shows them and reconnects when its stream breaks.
- *Hard*: a subscriber that lags loses the oldest events; broadcast and store
  are two lock sections; a feed reconnects after 60 silent seconds, panics if it
  cannot, and waits for ever if nobody answers; a Polygon stream that has ended
  keeps its worker thread busy.
- *Correct when*: a client never goes back to an older price and catches up with
  what the channel holds; the map follows the channel; a hung feed returns
  (findings 6 and 7 say when not).

### Aave clients (`src/Solidity/aave-streams-main`, `src/Solidity/aave-test-main`)

Small contracts that call Sablier, Aave and Uniswap in one transaction each. They
keep no state but settings of their owner; what a call does is decided by the
contracts it calls. Not modelled (section 6).

## 2. Modules

| Module | Models | Runs | Proofs |
|---|---|---|---|
| `VeNFT` | `VeNFT.sol` | `VeNFT_locks`, `VeNFT_merge`, `VeNFT_votes` | `VeNFT_proofs` |
| `NFTExchange` | `NFTExchange.sol` | `NFTExchange`, `NFTExchange_stale` | `NFTExchange_proofs` |
| `EcAuth` | `service.rs`, the in-memory store, `logic.rs` of the client | `EcAuth`, `EcAuth_shared` | `EcAuth_proofs` |
| `PayStream` | `pay_stream.move` | `PayStream`, `PayStream_rate` | `PayStream_proofs` |
| `StreamLedger` | where the coins of `pay_stream.move` go, without times and rates | implemented by `PayStream` | `PayStream_proofs` |
| `CookieStore` | `CookieStore.sol`, `StableCookie.sol`, `OracleLib.sol` | `CookieStore` | `CookieStore_proofs` |
| `Deployment` | the scripts of `deploy/`, their helpers and configuration | `Deployment` | `Deployment_proofs` |
| `Aggregator` | `coinbase.rs`, `polygon.rs`, `state.rs`, `routes.rs`, the client | `Aggregator` | `Aggregator_proofs` |
| `SumTheorems` | nothing of the code: facts about sums over finite sets, for the proofs | | itself |

`MC_<module>` gives the instances for TLC. The names of variables and actions are
those of the code. In the contracts a call is one action: the EVM (and the Move
VM) runs a transaction alone and undoes one that reverts, so a call that reverts
is a step the model does not have. Definitions called `<Name>_<Mistake>` are
plausible errors in `<Name>`; no specification uses them, they are there to test
that the properties notice them.

### How state and actions correspond to the code

- **VeNFT.** `Checkpoint` is `_checkpoint` and `UpdateGlobalPoint` is
  `_updateGlobalPoint`, as functions from the four vote variables (`Votes`) to
  their new values, because `mergePositions` runs two checkpoints in a row. The
  weekly loops of `_updateGlobalPoint` and `supplyAt` are one recursive function,
  `WeeklyPoints` with iterations `NextWeek`, that differs in whether it clips
  negative values; `Without` is the loop that drops a token from a user's list.
  `FindTimestampEpoch` is the binary search of all three histories. `DepositInto`
  is `_depositFor` and `MoveToken` the ERC-721 hook. Slopes are
  `amount \div I_YEAR` as in the code, so that small amounts lose their
  remainder in the same way.
  `lagged` is a history variable: it becomes TRUE when a position is recorded
  on an aggregate point that the bounded catch-up loop left behind `now`.
  `stranded` is another: the tokens of secondary locks that were merged away.
- **NFTExchange.** A flash loan is two actions, `BeginLoan` (up to the call of
  `executeOperation`) and `EndLoan` (the checks after it); the frames of `loans`
  are the call stack and keep the memory copy of the listing and the balance
  before. While there is a frame only its receiver acts (`MayCall`). A loan
  whose checks never pass is a transaction that would have been undone:
  the states it goes through are states the *inside* of a transaction can see,
  and the properties hold there too. `createListing` and `updateListing` store
  any struct of `Offers`, a set of whole `Listing` records: the NFT, the seller, the
  bid and the active flag are the caller's, as in the code. Two history
  variables keep what such structs do: `aimed` has the NFTs at which an update
  has pointed a listing; `gap` counts, by token, the bids that were written into
  a struct (less those an update has dropped), less what borrowers have paid in
  for fees, plus the fees and the
  approved tokens (`Draw`) that sellers have got. `PayFee` pays what the fee check
  still misses, so a bid made inside the callback counts for the fee, and then
  `gap` shows it. `allowance` is what `approve` before the transfer of the fee leaves.
  `draft` is the listing a seller has read with `getListing`. There is no clock:
  `bidTime` is stored and read nowhere (finding 8).
- **EcAuth.** One action per lock section. `copy` is the local user record of
  `create_challenge` between its two lock sections, `call` the position of each
  `verify` handler, and `sessions` counts the session ids handed out. A client is
  one run of the protocol and stands for its own commitment, challenge and
  `auth_id`, which are fresh random values in the code. The equations of
  `verify` become the question whether the stored secret and commitment are
  those the answer was made from (`Verdict`).
- **PayStream.** A stream's `start_time` is 0 until it is accepted, as in the
  code. `amount`, `claimed` and `earned` are history.
  Time is seconds since 1970. Its abstract specification is `StreamLedger`: a
  pot is none, offered or open; an open one pays its receiver, any returns to
  its sender. The refinement mapping (`Ledger`) reads the state of a pot off
  the stream: no entry is "none", a `start_time` of 0 "offered", anything else
  "open". A stream that lasts more than half the time since 1970 and holds a
  coin for each second of it (`DueSince1970`) is open from the start, because
  the code pays it without acceptance (finding 9).
  Claims that pay nothing are stuttering steps.
- **CookieStore.** `TakeIn`, `PayOut` and `BurnDebt` are the internal movements
  that the external functions share. A health factor is computed with the
  code's order of multiplications and divisions; percentages are the code's,
  the scale `PRECISION` is a constant. `NewPrice` and `GoesStale` are the feeds.
- **Deployment.** A script is its tags and a sequence of steps (`Scripts`), a run
  is a tag, a script number and a position in it; `Proceed` goes on to the next
  step or script and `Throw` ends the run. `Send` and `Save` are the two halves of
  `deploy()`: between them the contract is on the chain and not on record, and
  `Fail` may lose it there. `deploy()` takes what is on record when its
  arguments are the same. `DeployUnlinked` is `deploy()` of a contract that needs
  a library its script does not name (`Unlinked`): it throws, and the steps
  behind it in script 06 are never reached, so they are not in the model. `wasSetUp` is history: the timelock was handed over
  when the run began. On `hardhat` chain and records start afresh with every run.
- **Aggregator.** `Broadcast` and `Store` are the two lock sections of `insert`;
  `inserting` is the price between them. The channel is its whole `log`, of which
  it holds the last `Capacity` events; a receiver is an index into it. A price is
  its place in the order its source published it, which is what "older" means.
  A task needs a worker thread (`FreeWorker`): an insert keeps one between its
  halves, and a Polygon feed whose stream has ended (`Spinning`) keeps one for ever.
  A feed is "dead" when its task has panicked, and "stuck" when it waits for a
  call without a timeout that will not return: connecting and subscribing
  (`ConnectFeed`) or answering a ping (`PongBlocks`). The timeout of 60 seconds is
  around the next message only.

## 3. Runs: what is checked

| Run | Shows | States | Bounds |
|---|---|---|---|
| `VeNFT_locks` | without merges: aggregate = sum of positions at every past, present and future timestamp; custody = locks; the past supply is not rewritten | 65k | one user, two positions, weeks of 2, 7 ticks |
| `VeNFT_merge` | with merges: the aggregate is never below the positions; what a secondary lock held stays in the contract without a lock (finding 1) | 266k | one user, two positions with different ends, both of which come |
| `VeNFT_votes` | a token votes for one user, its owner now; the past votes of a user do not change, also when two positions are merged | 38k | two users, two positions |
| `NFTExchange` | escrow, single listing and settled sellers, for NFTs at which no update has aimed a listing; the tokens of the standing bids are there, but for what `gap` accounts for | 1.5M | two users, two NFTs, two listings ever, two nested loans, bids of 1 and 2 |
| `NFTExchange_stale` | *violation*, finding 2; its trace also shows finding 8 | until found | one NFT |
| `EcAuth` | a run alone on its username is never rejected and logs in; a used challenge gives no login to a call that has not read it | 242k | three runs, two on one username, two answers each |
| `EcAuth_shared` | *violation*, finding 3 | until found | two runs with one secret |
| `PayStream` | every account balances; unaccepted streams pay nothing, but for those due since 1970 (finding 9); every step is one of `StreamLedger` | 29k | two accounts, both directions, amounts 2 and 7, durations 0, 2, 5, from second 6 to 9 |
| `PayStream_rate` | *violation*, finding 4 | until found | one stream of 4 coins over 2 seconds |
| `CookieStore` | custody, supply against debt, collateral behind every debt, and what can hurt a healthy account | 150k | two users, two tokens, two feeds, prices 5 and 20, three list entries |
| `Deployment` | the timelock has somebody in charge, governors have voters, records belong together and stay, repeating every part finishes all but the store, which it never deploys (finding 10), the plain command stops at the setup once that is done (finding 5) | 30k | all three networks, every tag in any order, two failures |
| `Aggregator` | clients never go back and catch up, the map follows the channel, a hung feed returns, is gone or is stuck (finding 6); both but for a machine with one thread whose Polygon stream has ended (finding 7) | 518k | two clients, a channel of two, one or two threads, three prices, two failures |

### Why the bounds are enough

- *VeNFT*: two positions give every pair of `old` and `new` locks, equal and
  different ends, deposits before and after extensions, and expiry of one before
  the other. Weeks are two ticks long, so there are unlocks on and off a
  boundary and several checkpoints per week and per tick. `MaxWeeks` (255 in
  the code) is 3, so the catch-up limit itself is reached; `UINT8_MAX` is 2 in
  the votes run, the length of the longest list there. A lower limit only makes calls
  revert, so it has no histories of its own; the theorems hold for every limit.
  `MaxEpoch`, `MaxUserEpoch`, `MaxTokens` and `MaxTime` only stop histories from
  growing. Deadlock is not checked there or in the other bounded runs, since
  the bounds end behaviours.
- *NFTExchange*: two nested loans let a borrower lend the NFT on to the other
  user, sell it, take it back and relist it; both NFTs may be on loan at once.
  Two listings ever are enough for an NFT that is sold and listed again inside a
  loan, and for one that an update aims at the other listing's NFT or seller. The
  structs (`MCOffers`) are alice's loans of either NFT for a fee, one of them also
  inactive from the start, bob's sale of one NFT for ether and of the other for
  tokens, with a bid of his own that nobody paid. Either user may update to
  any of them, so an update may give a listing away, move it to the other NFT,
  or turn a loan into a sale while the NFT is out. Bids of 1 and 2 replace each
  other, inside loans and outside; fees, prices and bids share one token, so that
  whatever one takes too much is missing for another. Bids in a token of their
  own and any number of tokens are left to the proofs.
- *EcAuth*: interference between runs on one username needs two; the third
  run, with its own username, is the one the properties about sole runs are
  about. Two answers per challenge make a retry race with the first answer.
- *PayStream*: amounts 2 and 7 with durations 2 and 5 leave remainders;
  duration 0 is accepted by the code and divides by zero later. At the seconds 6
  to 9 a stream of 7 coins over 5 seconds is one that is due since 1970, and
  the others are not. Streams of 2 seconds run past their end.
- *CookieStore*: alice has 22 weth and amounts are 11, the collateral for which
  a liquidation of 10 CKI at a price of 10 asks; prices 5 and 20 move an account
  from safe to under water in one step, past the ratio (110%) where a
  liquidation no longer improves it. Bob starts with nothing, so his CKI and
  collateral come through transfers and liquidations.
- *Deployment*: two failures let a run stop, its repetition stop elsewhere, and a
  third one meet what both left behind: two lost instances of one contract, or a
  lost one and a setup done half-way. The proofs show that the safety properties
  do not depend on the number.
- *Aggregator*: a channel of two events is overrun by the three prices there are,
  so a client may lag, lose its oldest event, disconnect and subscribe again
  in between. `MaxOnTheWay` 1 makes every queue fill up at once. Two failures
  are a hung feed whose reconnect fails or does not return, or one feed and one
  client.
  One thread or two decides whether an ended Polygon stream starves the rest.

### Fairness

Three modules make liveness claims.

- `EcAuth`: `Spec` has weak fairness of `Progress(c)` for each run: tokio schedules
  the tasks of server and client fairly and its mutex is handed over in the
  order of the requests, so a handler that can take a step takes it eventually.
  Losing a connection is never fair: it may or may not happen, and `SoleRunLogsIn`
  excepts the runs it happened to.
- `Deployment`: weak fairness of `RunStep`. The scripts await each call, which
  returns or throws. `DeploymentFinishes` assumes in its antecedent
  (`RepeatsEveryPart`) that the operator runs every tag again and again; nothing
  in the code makes it.
- `Aggregator`: weak fairness of each task's steps by tokio's scheduler (a step needs
  a free worker thread, so a starved task is not enabled), of the Coinbase
  timeout on a hung connection, by its 60 seconds, and of the client's loop.
  Fairness of `ConnectFeed` does not say that connecting succeeds or even returns:
  one of its outcomes is "stuck", which nothing leaves. Publishing, subscribing,
  hanging and breaking are not fair. The liveness properties except `Starved`, the
  state of finding 7, and name the ends a reconnect may have (finding 6).

### Assumptions about the environment

- Base, bid, loan and collateral tokens are plain ERC-20 tokens without fees or
  hooks. `SelfTransfer` says whether a token lets its holder use `transferFrom`
  without an allowance, which the refund in `createBid` needs; the runs take the
  permissive kind, where more is possible, and the proofs both.
- Receivers of NFTs accept in `onERC721Received` and do nothing else. Borrowers
  act in `executeOperation` only, where they may call everything. Nobody sends
  tokens or NFTs to the exchange but a borrower, who returns the NFT and pays
  what the fee check misses.
- `updateListing` checks the caller and the two active flags and nothing else (the
  repository's `testUpdateListing` replaces the asset). What the exchange promises
  of an NFT it can therefore promise only as long as no update has named that
  NFT in a listing of another one: `ActiveListingsEscrowed`, `ListedOnce` and
  `SellerTakesBackOrIsPaid` are about these NFTs (`aimed`), whatever happens to
  the rest.
- An ether price stays in the exchange: no code sends it to the seller.
  `SellerTakesBackOrIsPaid` asks of such a sale that the exchange gets the price,
  and of the others that the seller does. Ether sent along with an ERC-20 price
  is left out.
- The supply properties of `VeNFT` are about histories in which no position was
  recorded while the aggregate was behind (`lagged`); the code accepts that a
  contract nobody touched for 255 weeks falls behind.
- Feeds in `CookieStore` are fresh or stale; the timeout itself has no clock.
  The store may mint CKI: the model begins after somebody has given it the
  stablecoin's ownership, which no script of `deploy/` does.
- In `Deployment` the localhost node is not restarted, so its chain stays. The
  source of `TimeLock` is never shown by the explorer, since `verify` is given no
  arguments for it.
- In `Aggregator` the Polygon feed has no timeout, so that a hung Polygon
  connection stays hung. No route reads `price_map`; the property about it is for the
  reader the map is meant for.

## 4. Findings

1. **Merging does not store the merged lock.** `mergePositions`
   (`VeNFT.sol:296`) checkpoints `updatedPrimaryLock` and never assigns it,
   while the secondary lock is zeroed; the comment above it says "Update the
   primary lock position". The secondary's tokens stay in the contract without
   a lock that pays them out: `VeNFT_merge` checks `MergedIsStranded`, by which
   custody is the open locks plus exactly these tokens. Every remaining lock is
   payable and the aggregate does not fall below the positions.
2. **A stale listing update restores an old bid.** `updateListing`
   (`NFTExchange.sol:53`) writes the whole struct, bid fields included. A seller
   who edits what it read before a bid was cancelled brings the refunded bid
   back, against "Bid is fully collateralized" (`INFTExchange.sol:118`;
   `NFTExchange_stale`). Two more ways are in the model: bid fields that a caller of
   `createListing` or `updateListing` makes up, and the approval of line 162, which
   the transfer behind it does not use up. `BidsBacked` says that there are no
   others but a fee that is met with bids.
3. **An honest answer is rejected when its username is shared.** `verify` uses the
   commitment stored per username (`service.rs:148`, `160`), which another
   run's `register_user` or `create_challenge` replaces; the handler rejects
   an answer whose equations hold for its own commitment, or panics on the
   missing commitment (`EcAuth_shared`).
4. **Claims do not add up to the rate.** `claim_payment` computes what is due
   from the coins left and an unmoved start time, so a second claim pays the
   first seconds again (`pay_stream.move:158`; `PayStream_rate`).
5. **The deploy command works once.** A setup ends with the deployer's admin role
   revoked, and a repeated run executes it again, where `grantRole`
   (`04-setup-governance-contracts.js:21`) reverts: "Execute `yarn hardhat deploy`"
   (`README.md:46`) gets no further, also when the stablecoin has not been
   deployed yet (`AllStopsAtSetup` of `Deployment`). Its own tag still works.
6. **A reconnect that fails ends the feed, one without an answer stops it.** "Run
   everything inside a failsafe loop since we want to reconnect" (`coinbase.rs:22`),
   but the connection in the loop is opened with `expect` (lines 29, 48) and
   without a timeout: `HungFeedReturns` has to allow for both (`Aggregator`).
7. **An ended Polygon stream takes a thread for ever.** `polygon.rs:75` polls it
   without ever waiting; with one worker thread nothing is forwarded "in
   real time" (`README.md:3`) any more; `ClientsCatchUp` has to except this (`Aggregator`).
8. **A bid may be cancelled at once.** "Enforces 7 day minimum bid time"
   (`INFTExchange.sol:127`, and `README.md:30`), but `_validateCancelBid`
   (`NFTExchange.sol:249`) does not read `bidTime`, and `MinimumTimeUnmet` is never
   raised. In the trace of `NFTExchange_stale` a bid is refunded with nothing between
   it and its cancellation but a read of the listing.
9. **A long and large stream pays before it is accepted.** `claim_payment`
   (`pay_stream.move:158`) does not ask for the acceptance, and `create_payment` has
   no limits: where a stream lasts about as long as the time since 1970 and
   holds a coin for each second of it, the claim with a start time of 0 does
   not abort, against "Claiming payments from active streams" (`README.MD:9`).
   `UnacceptedPaysNothing` excepts these streams (`DueSince1970`), one of which
   the run `PayStream` has.
10. **The store is never deployed.** `CookieStore` calls `OracleLib`, whose functions
    are public (`OracleLib.sol:11-14`, `28`), and its script names no libraries
    (`06-deploy-CookieStore.js:27`), so `deploy()` throws, whatever is repeated;
    "Execute `yarn hardhat deploy` to deploy the contracts" (`README.md:46`; line 50
    speaks of "a minor hiccup"). By `DeploymentFinishes` the store is not on record in
    the end, while all else is (`Deployment`).

One disagreement no property states: a token that `addTokenCollateral`
(`CookieStore.sol:89`) lists twice counts twice in the sum over the list, which
is then not "the total value of all authorized collateral tokens deposited by the
user" (line 394). The run `CookieStore` has such lists, and what it checks of health
holds with them.

## 5. Proofs

Every safety property the passing runs check, the refinement included, is a
theorem as well: the runs show it on a small instance, the theorem for every
value of the constants that the named assumptions of its module allow. Besides
types and orders of magnitude they ask for

- finite sets of accounts (`PayStream`) and users (`CookieStore`),
  over which balances are summed;
- in `CookieStore`, that `UINT256_MAX` is at least `PRECISION`: the health factor of
  an account without debt, which is the largest number, has to count as good;
- in `VeNFT`, that time does not end before the deployment, and `LoopsSuffice`: the
  catch-up loops walk further than a lock can last. In the code they walk 255
  weeks, and a lock lasts four years, at most 209 weeks.

What the modules prove:

- **SumTheorems**: what a sum over a finite set does when one term changes
  (`SumUpdate`), when all terms are zero, non-negative or equal, and that it has
  each term as a part. The sum is a fold, and the induction over it is
  first-order: the set of good arguments is shown to be everything, by looking
  at a least argument outside it (`LeastNatural`, `AllNaturals`, `AllSubsets`).
- **VeNFT**: all properties of the three runs.
  - *Recursion.* The weekly loops, the loop that removes a token and the binary
    searches are recursive functions. `RecursionExists` shows that a definition
    that only looks at smaller arguments has a function that obeys it; from it
    come `Walk` (each point of a loop is made from the one before),
    `WithoutRemoves` (the list without the token, in order, without repeats) and
    `SearchFinds` (the last entry not later than the timestamp, the last one
    among equal ones).
  - *Custody*: `LocksBacked` and `MergesStrand`, by the sum of the locks.
  - *Ownership*: `OneVoteEach` (`VotesCountedOnce`). The invariant `OwnershipInv` says
    that each user's history is ordered by time and its last entry lists the
    tokens the user owns, once each, so that what a search for `now` finds is
    current, with however many entries of one second behind each other; the
    entries of the past stay as they were.
  - *Past votes*: `PastVotes`. Points are only appended, with the timestamp `now`
    (`PointsOrdered`), so a search for an earlier second finds the same entry
    (`SamePower`).
  - *Supply*: `SupplyExact`, `SupplyCovers` and `PastSupply`. Neither property is
    inductive, since a checkpoint changes one point and two scheduled slopes and
    the views compute everything else from them later. The invariant says that
    these are samples of a curve: there are functions `b` and `s`, bias and slope at
    every second, that are straight within a week and bend at its end by the
    scheduled change (`Curve`), pass through the last recorded point, end at zero,
    and are what `totalSupply` reads at every second (`Described`). Both weekly loops
    walk along the curve (`WalkOnCurve`), so catching up changes nothing that can be
    read, whether it gets to `now` or not (`UpdateDescribed`). A checkpoint that has
    caught up moves the curve, from `now` on, by the line of the new lock less that
    of the old one (`CheckpointDescribed`), and the sum of the positions' points by
    the new lock less the position's last point (`SumsMove`). `Books` adds what makes
    the two fit: the curve is at least the sum of the positions' points, and
    each position's last point at least its lock. Equality (`Exact`) survives all
    calls but a merge, where the primary's point is that of the merged lock, but
    `lockedBalances` keeps the old one (finding 1). Nothing clips or overflows
    on the way, because the curve without one lock's line is still not negative.
    A lock needs to end with a week for this, which every call makes sure of
    (`Scheduled`).
- **NFTExchange**: `TypeCorrect` (no balance goes negative), `Escrow`
  (`ActiveListingsEscrowed`) and `NoDoubleListing` (`ListedOnce`), for any number
  of users and NFTs, any structs (`Offers` is any set of them) and any depth of
  loans. Escrow is not inductive alone: a listing that closes hands out its NFT,
  which must not be that of another active listing, so the invariant is
  `TypeOK /\ ListedOnce /\ ActiveListingsEscrowed`. Calls fall into those that edit
  the bid of a listing, those that close one (`Edits`, `Closes`), and
  `updateListing`, which either keeps the NFT or puts the new one into `aimed`; a
  listing that was aimed at an NFT therefore closes without harm to an NFT that
  is not in `aimed`. Each kind preserves the invariant by one lemma, and
  each call is shown to be of its kind by a lemma of its own. `SellersPaid`
  (`SellerTakesBackOrIsPaid`) reuses these lemmas: only a call that closes a
  listing can take such an NFT off, and each of the three settles it (`Settled`).
  `BidsAccounted` (`BidsBacked`) sums the standing bids and shows, call by call,
  that tokens and `gap` together change by no less than the sum (`BidInv`).
- **EcAuth**: `TypeCorrect`, `SoleRunsNeverRejected` and
  `UsedChallengesStayUsed`. The invariant of the second, `RunInv`, says for a run
  alone on its username what the store holds at each stage (registered, copied,
  stored); `OtherRunsApart` shows that the steps of other runs do not touch it,
  `OwnSteps` that its own steps keep it. The third is an action property: it
  needs that a run with a session has no open challenge (`UsedInv`).
- **PayStream**: `TypeCorrect`, `NothingBeforeAcceptance`, `Refinement`
  (`ImplementsLedger`) and `AccountsBalance` (`EveryAccountBalances`), where what an
  account locked and was paid are sums over its streams. The second holds for an
  arithmetical reason only: with a start time of 0 more than the stream holds is
  due since 1970, unless nothing is due. That is so for durations up to half the
  time since 1970, and for longer ones if the stream holds fewer coins than
  there are seconds (`NothingDueSince1970`); for the rest it is false (finding
  9), and the statement excepts exactly these (`DueSince1970`). The third maps
  initial states to initial states and each call to a step of the ledger or a
  stutter; it needs the second, since the ledger pays no pot that is offered.
- **CookieStore**: `TypeCorrect`: no deposit, debt, wallet or supply goes negative,
  liquidation rewards included. The position of a token in the list is a
  maximum, for which the least-element argument is `WFMin`. `HealthyAreSafe`
  (`HealthyKeepCollateral`) follows from the types: `liquidate` is the only call
  that pays somebody else, and it refuses a healthy account. `CustodyHolds` and
  `SupplyIsOwed` are sums over the users. `NoBareDebt` (`DebtHasCollateral`) and
  `PricesAlone` (`OnlyPricesHurt`) rest on the value of a collateral, a sum over the
  list of tokens, which rises and falls with the deposits.
- **Deployment**: all its properties but liveness, for any number of failures:
  `TypeCorrect`, `SomebodyInCharge`, `GovernorsHaveVoters`, `RecordsWired`,
  `RecordsAreKept`, `SetupStopsAll`. The scripts are first looked up as tables
  (`KindTable`, `AboutTable`, `Positions`), so that each step is a place. `RecInv`
  says which contracts are on record at each place of a run, that their arguments
  are today's, and that only a contract without a record is ever sent;
  a record therefore never changes, and neither do the arguments of what was
  built from it. `LockInv`, `VoteInv` and `StopInv` add what the runs know in the
  middle of the setup, behind the first script, and after the hand-over.
- **Aggregator**: `MapFollows`, `NoPriceGoesBack` and `TypeCorrect`, for any clients,
  capacity, threads and failures. The invariant `IInv` follows a price from end
  to end: those in the socket are newer than the one being inserted, that is
  not older than the map's, the events of a source are in order in the channel
  (`LogInOrder`), and what a client shows, its stream and its receiver's rest of
  the channel are in order too (`ClientsInOrder`). Lagging and reconnecting skip
  events and never reorder them.

Only model-checked: the liveness properties `SoleRunLogsIn`, `DeploymentFinishes`,
`ClientsCatchUp` and `HungFeedReturns`, because liveness under fairness is outside
the prover's reach, as are `ENABLED` and induction over data with the library's
theorems. That the runs which expect a violation find one is not
proved either.

## 6. Not modelled

- `ec_snark`: arithmetic over 255-bit fields. `EcAuth` uses what its equations
  decide.
- Command lines, start-up and tests: no state of the programs.
- The Aave clients: every function is one transaction around calls of Sablier, Aave
  or Uniswap, and the contracts keep settings of their owner only. A model would
  consist of the external contracts, whose code is not here.
- Voting, queueing and execution of the governance: OpenZeppelin's, likewise.
- Keep-alive comments and the text of prices in the aggregator; a ping only as a
  reply that may not leave.
- VeNFT receivers that call back from `onERC721Received`; NFT receivers that
  trade from it; tokens with transfer fees.
- What script 06 would do behind its deployment: verification without arguments,
  and role calls at lines 44-52 on a deployment result, which has no such methods.

## 7. Plan

What is left, in this order:

1. `NFTExchange`: an abstract escrow (an NFT is free, offered or lent; a bid is
   paid or returned) with a refinement mapping from the exchange, checked and
   then proved from `Escrow` and `BidsAccounted`.
2. The invariants behind the liveness properties, as theorems: what a run
   of `EcAuth` or a feed of `Aggregator` still has ahead of it at each place.
3. Receivers of NFTs that trade from their transfer hooks, in `VeNFT` and
   `NFTExchange`.
