------------------------------- MODULE VeNFT -------------------------------
(***************************************************************************)
(* Vote-escrowed positions of Solidity/veNFT-main/contracts/VeNFT.sol.     *)
(* A lock is an ERC-721 token; its voting power decays linearly to zero at *)
(* the end of the lock.  The contract keeps that power three times: per    *)
(* token (tokenPointHistory), in aggregate (pointHistory together with the *)
(* scheduled slopeChanges) and, through the list of tokens a user held     *)
(* (userTokenHistory), per user.  Every action is one transaction, so each *)
(* runs alone; now is block.timestamp and moves between transactions.      *)
(***************************************************************************)
EXTENDS Integers, Sequences, SequencesExt, FiniteSetsExt

CONSTANTS
  Users,        \* accounts that own positions
  NoOne,        \* address(0)
  Amounts,      \* amounts a call may deposit
  UnlockTimes,  \* unlock times a call may ask for
  WEEK, I_YEAR, MAX_TIME,
  MaxWeeks,     \* weeks one catch-up loop walks at most (255 in the code)
  UINT8_MAX,    \* last value of the uint8 index of _checkpointUserPositions
  DeployTime,   \* block.timestamp of the constructor
  MaxTokens,    \* bound: positions ever minted
  MaxTime,      \* bound: last timestamp
  MaxEpoch,     \* bound: no checkpoint is taken from this epoch on
  MaxUserEpoch  \* bound: no transfer once a user has this many entries

ASSUME VeAssumption ==
  /\ NoOne \notin Users
  /\ Amounts \subseteq Nat \ {0} /\ UnlockTimes \subseteq Nat
  /\ WEEK \in Nat \ {0} /\ I_YEAR \in Nat \ {0} /\ MAX_TIME \in Nat \ {0}
  /\ MaxWeeks \in Nat \ {0} /\ UINT8_MAX \in Nat
  /\ {DeployTime, MaxTokens, MaxTime, MaxEpoch, MaxUserEpoch} \subseteq Nat
  /\ DeployTime <= MaxTime

\* A loop walks at least from a point to the end of every lock that was open
\* then: 255 weeks are more than the four years of MAX_TIME.
ASSUME LoopsSuffice == MAX_TIME + WEEK <= MaxWeeks * WEEK

VARIABLES
  now,                \* block.timestamp
  totalTokenLocked,
  held,               \* base tokens in the contract's balance
  stranded,           \* history: what secondary locks held when merged away
  tokenIds,           \* the _tokenIds counter
  ownerOf,            \* ERC-721 ownership
  lockedBalances,
  epoch, pointHistory, slopeChanges,
  tokenPointHistory,  \* per token, its points from tokenPointEpoch 1 on
  userTokenHistory,   \* per user, the entries from userEpoch 1 on
  lagged              \* history: a position was recorded on a global point
                      \* that the catch-up loop had not brought up to now

fundVars == <<totalTokenLocked, held, stranded>>
voteVars == <<epoch, pointHistory, slopeChanges, tokenPointHistory, lagged>>
nftVars == <<tokenIds, ownerOf, userTokenHistory>>
vars == <<now, fundVars, lockedBalances, voteVars, nftVars>>

Tokens == 1..MaxTokens
Horizon == MaxTime + MAX_TIME
NoLock == [amount |-> 0, end |-> 0]
NonNeg(x) == IF x < 0 THEN 0 ELSE x

-----------------------------------------------------------------------------
(* The decaying points: _checkpoint and _updateGlobalPoint *)

\* Mistake: the operands of the remaining time swapped.
PointOf_Swapped(lock) ==
  LET slope == IF lock.end > now THEN lock.amount \div I_YEAR ELSE 0
  IN  [bias |-> slope * (now - lock.end), slope |-> slope, ts |-> now]

\* Slope and bias of a lock as _checkpoint computes them, at now.
PointOf(lock) ==
  LET slope == IF lock.end > now THEN lock.amount \div I_YEAR ELSE 0
  IN  [bias |-> slope * (lock.end - now), slope |-> slope, ts |-> now]

\* Iterations of the weekly loops from one timestamp to another.
WeeksBetween(from, to) ==
  LET ahead == to - (from \div WEEK) * WEEK
  IN  Min({MaxWeeks, Max({1, (ahead + WEEK - 1) \div WEEK})})

\* One iteration of the weekly loops, to the end of the week or to the time the
\* loop runs up to; the loop of _updateGlobalPoint clips a bias or slope that
\* went negative, the one of supplyAt does not.
NextWeek(prev, week, to, changes, clips) ==
  LET ti      == IF week > to THEN to ELSE week
      dslope  == IF week > to THEN 0 ELSE changes[ti]
      Clip(x) == IF clips THEN NonNeg(x) ELSE x
  IN  [bias  |-> Clip(prev.bias - prev.slope * (ti - prev.ts)),
       slope |-> Clip(prev.slope + dslope),
       ts    |-> ti]

\* The points the weekly loops pass from p on.
WeeklyPoints(p, to, changes, clips) ==
  LET base == (p.ts \div WEEK) * WEEK
      walk[i \in 0..WeeksBetween(p.ts, to)] ==
        IF i = 0 THEN p
                 ELSE NextWeek(walk[i-1], base + i * WEEK, to, changes, clips)
  IN  walk

Votes == [epoch |-> epoch, points |-> pointHistory,
          slopes |-> slopeChanges, tokens |-> tokenPointHistory]

\* Mistake: the first week is written over the last epoch.
UpdateGlobalPoint_InPlace(v) ==
  LET last == IF v.epoch > 0 THEN v.points[v.epoch]
                             ELSE [bias |-> 0, slope |-> 0, ts |-> now]
      n    == WeeksBetween(last.ts, now)
      walk == WeeklyPoints(last, now, v.slopes, TRUE)
      from == IF v.epoch > 0 THEN v.epoch - 1 ELSE 0
  IN  [v EXCEPT !.epoch  = from + n,
                !.points = [e \in 0..(from + n) |->
                              IF e <= from THEN @[e] ELSE walk[e - from]]]

\* _updateGlobalPoint: appends one point per week passed and one for now.
UpdateGlobalPoint(v) ==
  LET last == IF v.epoch > 0 THEN v.points[v.epoch]
                             ELSE [bias |-> 0, slope |-> 0, ts |-> now]
      n    == WeeksBetween(last.ts, now)
      walk == WeeklyPoints(last, now, v.slopes, TRUE)
  IN  [v EXCEPT !.epoch  = @ + n,
                !.points = [e \in 0..(v.epoch + n) |->
                              IF e <= v.epoch THEN @[e] ELSE walk[e - v.epoch]]]

\* _checkpoint: a position goes from lock old to lock new.
Checkpoint(v, t, old, new) ==
  LET uOld == PointOf(old)
      uNew == PointOf(new)
      g    == UpdateGlobalPoint(v)
      last == g.points[g.epoch]
      Dropped(f) == IF old.end > now
                    THEN [f EXCEPT ![old.end] = @ + uOld.slope
                            - (IF new.end = old.end THEN uNew.slope ELSE 0)]
                    ELSE f
      Scheduled(f) == IF new.end > now /\ new.end > old.end
                      THEN [f EXCEPT ![new.end] = @ - uNew.slope] ELSE f
  IN  [g EXCEPT
         !.points[g.epoch] = [bias  |-> NonNeg(last.bias + uNew.bias - uOld.bias),
                              slope |-> NonNeg(last.slope + uNew.slope - uOld.slope),
                              ts    |-> last.ts],
         !.slopes = Scheduled(Dropped(@)),
         !.tokens[t] = Append(@, uNew)]

\* Stores v; the bound keeps the histories finite.
Record(v) ==
  /\ epoch < MaxEpoch
  /\ epoch' = v.epoch
  /\ pointHistory' = v.points
  /\ slopeChanges' = v.slopes
  /\ tokenPointHistory' = v.tokens
  /\ lagged' = (lagged \/ (v.tokens # tokenPointHistory /\ v.points[v.epoch].ts # now))

-----------------------------------------------------------------------------
(* Who holds which token: _beforeTokenTransfer *)

CurrentTokens(h, addr) == IF h[addr] = <<>> THEN <<>> ELSE Last(h[addr]).tokenIds

\* The removing loop: copies every token but t, in order.
Without(tokens, t) ==
  LET copied[i \in 0..Len(tokens)] ==
        IF i = 0 THEN <<>>
        ELSE IF tokens[i] # t THEN Append(copied[i-1], tokens[i]) ELSE copied[i-1]
  IN  copied[Len(tokens)]

\* Mistake: the user's last entry is changed instead of a new one appended.
CheckpointUserPositions_InPlace(h, addr, t, isIncoming) ==
  LET tokens  == CurrentTokens(h, addr)
      updated == IF isIncoming THEN Append(tokens, t)
                 ELSE Without(tokens, t)
      earlier == IF h[addr] = <<>> THEN <<>> ELSE Front(h[addr])
  IN  [h EXCEPT ![addr] = Append(earlier, [ts |-> now, tokenIds |-> updated])]

CheckpointUserPositions(h, addr, t, isIncoming) ==
  LET tokens  == CurrentTokens(h, addr)
      updated == IF isIncoming THEN Append(tokens, t)
                 ELSE Without(tokens, t)
  IN  [h EXCEPT ![addr] = Append(@, [ts |-> now, tokenIds |-> updated])]

\* The copying loop's uint8 index overflows, and the call reverts, on a list
\* longer than UINT8_MAX.
Copyable(h, addr) == Len(CurrentTokens(h, addr)) <= UINT8_MAX

\* Mistake: the token is added for the receiver before it is removed from the
\* sender's list, which may be the same list.
MoveToken_InFirst(from, to, t) ==
  LET in == IF to = NoOne THEN userTokenHistory
            ELSE CheckpointUserPositions(userTokenHistory, to, t, TRUE)
  IN  /\ userTokenHistory' = IF from = NoOne THEN in
                             ELSE CheckpointUserPositions(in, from, t, FALSE)
      /\ ownerOf' = [ownerOf EXCEPT ![t] = to]

\* Mint (from is NoOne), transfer or burn (to is NoOne) of token t.
MoveToken(from, to, t) ==
  LET out == IF from = NoOne THEN userTokenHistory
             ELSE CheckpointUserPositions(userTokenHistory, from, t, FALSE)
  IN  /\ from # NoOne => Copyable(userTokenHistory, from)
      /\ to # NoOne => Copyable(out, to)
      /\ userTokenHistory' = IF to = NoOne THEN out
                             ELSE CheckpointUserPositions(out, to, t, TRUE)
      /\ ownerOf' = [ownerOf EXCEPT ![t] = to]

-----------------------------------------------------------------------------
Init ==
  /\ now = DeployTime
  /\ totalTokenLocked = 0 /\ held = 0 /\ tokenIds = 0
  /\ ownerOf = [t \in Tokens |-> NoOne]
  /\ lockedBalances = [t \in Tokens |-> NoLock]
  /\ epoch = 0
  /\ pointHistory = [e \in {0} |-> [bias |-> 0, slope |-> 0, ts |-> DeployTime]]
  /\ slopeChanges = [ts \in 0..Horizon |-> 0]
  /\ tokenPointHistory = [t \in Tokens |-> <<>>]
  /\ userTokenHistory = [u \in Users |-> <<>>]
  /\ lagged = FALSE
  /\ stranded = 0

\* Mistake: the unlock time is taken as it comes.
Rounded_Not(unlockTime) == unlockTime

Rounded(unlockTime) == (unlockTime \div WEEK) * WEEK
ValidUnlock(end) == end <= now + MAX_TIME

\* Mistake: extending a lock replaces its amount.
Deposited_Replaces(lock, value, unlockTime) ==
  IF unlockTime # 0 THEN [amount |-> value, end |-> unlockTime]
                    ELSE [amount |-> lock.amount + value, end |-> lock.end]

\* The lock after a deposit of value; a new end unless it is 0.
Deposited(lock, value, unlockTime) ==
  [amount |-> lock.amount + value,
   end    |-> IF unlockTime # 0 THEN unlockTime ELSE lock.end]

\* _depositFor; the base token moves from the caller to the contract.
DepositInto(t, value, unlockTime) ==
  LET old == lockedBalances[t]
      new == Deposited(old, value, unlockTime)
  IN  /\ totalTokenLocked' = totalTokenLocked + value
      /\ held' = held + value
      /\ UNCHANGED stranded
      /\ lockedBalances' = [lockedBalances EXCEPT ![t] = new]
      /\ Record(Checkpoint(Votes, t, old, new))

\* createLock, with _mintNextToken
CreateLock(account, value, unlockTime) ==
  LET end == Rounded(unlockTime)
      t   == tokenIds + 1
  IN  /\ t \in Tokens
      /\ tokenIds' = t
      /\ MoveToken(NoOne, account, t)
      /\ end > now
      /\ ValidUnlock(end)
      /\ DepositInto(t, value, end)
      /\ UNCHANGED now

\* depositFor: anyone pays; addr must be what _ownerOf returns, which is
\* address(0) for a burnt token.
DepositFor(addr, t, value) ==
  /\ ownerOf[t] = addr
  /\ lockedBalances[t].end > now
  /\ DepositInto(t, value, 0)
  /\ UNCHANGED <<now, nftVars>>

\* increaseAmount
IncreaseAmount(sender, t, value) ==
  /\ ownerOf[t] = sender
  /\ lockedBalances[t].end > now
  /\ DepositInto(t, value, 0)
  /\ UNCHANGED <<now, nftVars>>

\* increaseUnlockTime
IncreaseUnlockTime(sender, t, unlockTime) ==
  /\ ownerOf[t] = sender
  /\ lockedBalances[t].end > now
  /\ Rounded(unlockTime) > lockedBalances[t].end
  /\ ValidUnlock(Rounded(unlockTime))
  /\ DepositInto(t, 0, Rounded(unlockTime))
  /\ UNCHANGED <<now, nftVars>>

\* withdraw: the checked subtraction and the token transfer revert when the
\* contract does not have the amount.
Withdraw(sender, t) ==
  LET lock == lockedBalances[t]
  IN  /\ ownerOf[t] = sender
      /\ now >= lock.end
      /\ lock.amount <= totalTokenLocked /\ lock.amount <= held
      /\ lockedBalances' = [lockedBalances EXCEPT ![t] = NoLock]
      /\ totalTokenLocked' = totalTokenLocked - lock.amount
      /\ held' = held - lock.amount
      /\ Record(Checkpoint(Votes, t, lock, NoLock))
      /\ MoveToken(sender, NoOne, t)
      /\ UNCHANGED <<now, stranded, tokenIds>>

\* Mistake: the merged lock is stored, but the secondary position lives on.
MergePositions_KeepsSecondary(sender, primary, secondary) ==
  LET p == lockedBalances[primary]
      s == lockedBalances[secondary]
      merged == [amount |-> p.amount + s.amount, end |-> Max({p.end, s.end})]
  IN  /\ ownerOf[primary] = sender /\ ownerOf[secondary] = sender
      /\ now < p.end /\ now < s.end
      /\ lockedBalances' = [lockedBalances EXCEPT ![primary] = merged]
      /\ Record(Checkpoint(Checkpoint(Votes, primary, p, merged),
                           secondary, s, NoLock))
      /\ UNCHANGED <<now, fundVars, nftVars>>

\* mergePositions: the primary's lock is read and checkpointed but the
\* merged lock is not stored in lockedBalances.
MergePositions(sender, primary, secondary) ==
  LET p == lockedBalances[primary]
      s == lockedBalances[secondary]
      merged == [amount |-> p.amount + s.amount, end |-> Max({p.end, s.end})]
  IN  /\ ownerOf[primary] = sender
      /\ ownerOf[secondary] = sender
      /\ now < p.end /\ now < s.end
      /\ lockedBalances' = [lockedBalances EXCEPT ![secondary] = NoLock]
      /\ Record(Checkpoint(Checkpoint(Votes, primary, p, merged),
                           secondary, s, NoLock))
      /\ stranded' = stranded + s.amount
      /\ MoveToken(sender, NoOne, secondary)
      /\ UNCHANGED <<now, totalTokenLocked, held, tokenIds>>

\* checkpoint()
GlobalCheckpoint ==
  /\ Record(UpdateGlobalPoint(Votes))
  /\ UNCHANGED <<now, fundVars, lockedBalances, nftVars>>

\* transferFrom, by the owner or an approved account
Transfer(from, to, t) ==
  /\ \A u \in {from, to} : Len(userTokenHistory[u]) < MaxUserEpoch
  /\ ownerOf[t] = from
  /\ MoveToken(from, to, t)
  /\ UNCHANGED <<now, fundVars, lockedBalances, voteVars, tokenIds>>

\* burn, inherited from ERC721Burnable: the lock stays where it is.
Burn(sender, t) ==
  /\ ownerOf[t] = sender
  /\ MoveToken(sender, NoOne, t)
  /\ UNCHANGED <<now, fundVars, lockedBalances, voteVars, tokenIds>>

Tick ==
  /\ now < MaxTime
  /\ now' = now + 1
  /\ UNCHANGED <<fundVars, lockedBalances, voteVars, nftVars>>

\* Everything but mergePositions.
LockNext ==
  \/ \E u \in Users, value \in Amounts, ts \in UnlockTimes : CreateLock(u, value, ts)
  \/ \E a \in Users \cup {NoOne}, t \in Tokens, value \in Amounts : DepositFor(a, t, value)
  \/ \E u \in Users, t \in Tokens, value \in Amounts : IncreaseAmount(u, t, value)
  \/ \E u \in Users, t \in Tokens, ts \in UnlockTimes : IncreaseUnlockTime(u, t, ts)
  \/ \E u \in Users, t \in Tokens : Withdraw(u, t)
  \/ GlobalCheckpoint
  \/ \E u, w \in Users, t \in Tokens : Transfer(u, w, t)
  \/ \E u \in Users, t \in Tokens : Burn(u, t)
  \/ Tick

Next ==
  \/ LockNext
  \/ \E u \in Users, t, s \in Tokens : MergePositions(u, t, s)

LockSpec == Init /\ [][LockNext]_vars
Spec == Init /\ [][Next]_vars

-----------------------------------------------------------------------------
(* Views *)

\* The binary searches over checkpoint timestamps 1..max: the epoch to use
\* for ts, 0 if there is none.
FindTimestampEpoch(stamp, max, ts) ==
  LET search[range \in (0..max) \X (0..max)] ==
        LET lo  == range[1]
            hi  == range[2]
            mid == (lo + hi + 1) \div 2
        IN  IF lo >= hi THEN lo
            ELSE IF stamp[mid] <= ts THEN search[<<mid, hi>>]
                                     ELSE search[<<lo, mid - 1>>]
  IN  search[<<0, max>>]

BalanceOfToken(t, ts) ==
  LET h == tokenPointHistory[t]
      e == FindTimestampEpoch([k \in DOMAIN h |-> h[k].ts], Len(h), ts)
  IN  IF e = 0 THEN 0
      ELSE NonNeg(h[e].bias - h[e].slope * (ts - h[e].ts))

\* userTokenHistory[u] as of ts, which balanceOfUser sums over
TokensOfUser(u, ts) ==
  LET h == userTokenHistory[u]
      e == FindTimestampEpoch([k \in DOMAIN h |-> h[k].ts], Len(h), ts)
  IN  IF e = 0 THEN <<>> ELSE h[e].tokenIds

BalanceOfUser(u, ts) ==
  LET tokens == TokensOfUser(u, ts)
  IN  SumFunction([k \in DOMAIN tokens |-> BalanceOfToken(tokens[k], ts)])

\* supplyAt
SupplyAt(p, ts) ==
  NonNeg(WeeklyPoints(p, ts, slopeChanges, FALSE)[WeeksBetween(p.ts, ts)].bias)

TotalSupply(ts) ==
  SupplyAt(pointHistory[FindTimestampEpoch(
             [e \in 1..epoch |-> pointHistory[e].ts], epoch, ts)], ts)

-----------------------------------------------------------------------------
(* Properties *)

Point == [bias : Nat, slope : Nat, ts : Nat]
Lock == [amount : Nat, end : Nat]

TypeOK ==
  /\ now \in 0..MaxTime /\ {totalTokenLocked, held, stranded} \subseteq Nat
  /\ tokenIds \in 0..MaxTokens
  /\ ownerOf \in [Tokens -> Users \cup {NoOne}]
  /\ lockedBalances \in [Tokens -> Lock]
  /\ epoch \in Nat
  /\ pointHistory \in [0..epoch -> Point]
  /\ slopeChanges \in [0..Horizon -> Int]
  /\ tokenPointHistory \in [Tokens -> Seq(Point)]
  /\ userTokenHistory \in [Users -> Seq([ts : Nat, tokenIds : Seq(Tokens)])]
  /\ lagged \in BOOLEAN

SumOfBalances(ts) == SumFunction([t \in Tokens |-> BalanceOfToken(t, ts)])
SumOfLocks == SumFunction([t \in Tokens |-> lockedBalances[t].amount])

\* The aggregate (pointHistory, slopeChanges, supplyAt) and the positions
\* (tokenPointHistory) are two accounts of the same voting power: at every
\* timestamp, past, present and future, totalSupply(ts) is the sum of
\* balanceOfToken(t, ts), unless the contract was left untouched for longer
\* than the catch-up loop walks.
SupplyIsSumOfBalances ==
  ~lagged => \A ts \in 0..Horizon : TotalSupply(ts) = SumOfBalances(ts)

\* Merging may leave too much voting power behind, but no deposit, extension,
\* withdrawal or merge ever makes the supply smaller than what positions have.
SupplyCoversBalances ==
  ~lagged => \A ts \in 0..Horizon : TotalSupply(ts) >= SumOfBalances(ts)

\* Without merges the base tokens in custody are those of the open locks.
LocksBackTotal ==
  /\ totalTokenLocked = SumOfLocks
  /\ held = SumOfLocks

\* With merges, every lock can still be paid out of custody, whatever was
\* merged or burnt; but what a secondary lock held (mergePositions zeroes it and
\* does not store the merged lock) backs no lock any more and never leaves.
MergedIsStranded ==
  /\ totalTokenLocked = held
  /\ held = SumOfLocks + stranded

\* A token votes for one user only, at every past timestamp, and now it
\* votes for its owner: the histories _beforeTokenTransfer keeps follow
\* mints, transfers (also to oneself), burns and merges in one block.
VotesCountedOnce ==
  /\ \A ts \in 0..now : \A u, w \in Users :
       /\ IsInjective(TokensOfUser(u, ts))
       /\ u # w => ToSet(TokensOfUser(u, ts)) \cap ToSet(TokensOfUser(w, ts)) = {}
  /\ \A u \in Users : ToSet(TokensOfUser(u, now)) = {t \in Tokens : ownerOf[t] = u}

\* What governance read about the past stays what it was: no later
\* transaction changes the total voting power of an earlier timestamp.
PastSupplyFixed ==
  [][~lagged' => \A ts \in 0..(now - 1) : TotalSupply(ts)' = TotalSupply(ts)]_vars

\* The same for every user, even when the supply is lagging.
PastVotesFixed ==
  [][\A u \in Users, ts \in 0..(now - 1) : BalanceOfUser(u, ts)' = BalanceOfUser(u, ts)]_vars
=============================================================================
