-------------------------- MODULE PayStream_proofs --------------------------
(***************************************************************************)
(* For any accounts, amounts and durations: the types of PayStream, that   *)
(* every account balances, that a stream pays nothing before it is         *)
(* accepted unless it is due since 1970, and that the module implements    *)
(* StreamLedger.                                                           *)
(***************************************************************************)
EXTENDS PayStream, SumTheorems

IInv == TypeOK /\ now >= Genesis /\ UnacceptedPaysNothing

-----------------------------------------------------------------------------
\* The quotient of the integer division that AmountDue rounds down to.
LEMMA Quotient ==
  ASSUME NEW a \in Nat, NEW d \in Nat, d # 0
  PROVE  a \div d \in Nat /\ (a \div d) * d <= a /\ a < (a \div d) * d + d
BY SMTT(60)

\* With start_time 0, more is due than the stream holds, or nothing, unless
\* the stream is long and holds much.
LEMMA NothingDueSince1970 ==
  ASSUME NEW coins \in Nat, NEW d \in Durations, d # 0,
         now \in Nat, now >= Genesis,
         2 * d <= Genesis \/ coins < Genesis,
         AmountDue(coins, 0, d) <= coins
  PROVE  AmountDue(coins, 0, d) = 0
<1> DEFINE q == coins \div d
<1>1. d \in Nat /\ Genesis \in Nat /\ now > 0
  BY StreamAssumption
<1>2. q \in Nat /\ coins < q * d + d
  BY <1>1, Quotient
<1>3. AmountDue(coins, 0, d) = q * now
  BY <1>1 DEF AmountDue
<1>4. CASE q = 0
  BY <1>1, <1>3, <1>4
<1>5. CASE q # 0 /\ 2 * d <= Genesis
  <2> HIDE DEF q
  <2>1. q >= 1 /\ 2 * d <= now
    BY <1>1, <1>2, <1>5
  <2>2. q * (2 * d) <= q * now
    BY <1>1, <1>2, <2>1, SMTT(60)
  <2>3. d <= q * d
    BY <1>1, <1>2, <2>1, SMTT(60)
  <2>4. q * (2 * d) = q * d + q * d
    BY <1>1, <1>2, SMTT(60)
  <2>5. q * d \in Nat /\ q * now \in Nat
    BY <1>1, <1>2, SMTT(60)
  <2>6. coins < q * now
    BY <1>1, <1>2, <2>2, <2>3, <2>4, <2>5
  <2>7. QED
    BY <1>1, <1>3, <2>5, <2>6
<1>6. CASE q # 0 /\ coins < Genesis
  <2> HIDE DEF q
  <2>1. q >= 1 /\ coins < now
    BY <1>1, <1>2, <1>6
  <2>2. q * now >= now /\ q * now \in Nat
    BY <1>1, <1>2, <2>1, SMTT(60)
  <2>3. QED
    BY <1>1, <1>3, <2>1, <2>2
<1>7. QED
  BY <1>4, <1>5, <1>6

\* An open stream is a record of the type.
LEMMA StreamFields ==
  ASSUME TypeOK, NEW a \in Accounts, NEW b \in Accounts, streams[a][b] # NoStream
  PROVE  /\ streams[a][b] \in Stream
         /\ streams[a][b].duration_in_sec \in Durations
         /\ streams[a][b].start_time \in Nat
         /\ streams[a][b].coins \in Nat
         /\ streams[a][b].amount \in Nat
         /\ streams[a][b].claimed \in Nat
<1>1. streams[a][b] \in Stream
  BY DEF TypeOK
<1> DEFINE s == streams[a][b]
<1>2. s \in Stream
  BY <1>1
<1>3. /\ s.duration_in_sec \in Durations /\ s.start_time \in Nat
      /\ s.coins \in Nat /\ s.amount \in Nat /\ s.claimed \in Nat
  <2> HIDE DEF s
  <2>1. QED BY <1>2 DEF Stream
<1>4. QED
  BY <1>1, <1>3

\* What is due is a natural number of coins.
LEMMA DueIsNat ==
  ASSUME now \in Nat, NEW coins \in Nat, NEW start \in Nat, NEW d \in Durations,
         now > start => d # 0
  PROVE  AmountDue(coins, start, d) \in Nat
<1>1. CASE now > start
  <2>1. coins \div d \in Nat
    BY <1>1, StreamAssumption, Quotient
  <2>2. now - start \in Nat
    BY <1>1
  <2>3. (coins \div d) * (now - start) \in Nat
    BY <2>1, <2>2, SMTT(60)
  <2>4. QED
    BY <1>1, <2>3 DEF AmountDue
<1>2. CASE ~(now > start)
  BY <1>2 DEF AmountDue
<1>3. QED
  BY <1>1, <1>2

\* A claim of an offered stream that goes through pays nothing.
LEMMA NothingPaidEarly ==
  ASSUME IInv, NEW a \in Accounts, NEW b \in Accounts, ClaimPayment(a, b),
         streams[a][b].start_time = 0, ~DueSince1970(streams[a][b])
  PROVE  /\ streams[a][b].claimed = 0 /\ streams[a][b].coins = streams[a][b].amount
         /\ AmountDue(streams[a][b].coins, streams[a][b].start_time,
                      streams[a][b].duration_in_sec) = 0
<1> DEFINE s == streams[a][b]
<1> USE StreamAssumption
<1>1. /\ s # NoStream /\ s.duration_in_sec # 0
      /\ AmountDue(s.coins, 0, s.duration_in_sec) <= s.coins
  BY DEF ClaimPayment, IInv, TypeOK
<1>2. s.duration_in_sec \in Durations /\ s.coins \in Nat /\ s.amount \in Nat
  BY <1>1, StreamFields DEF IInv
<1>3. s.claimed = 0 /\ s.coins = s.amount
  BY <1>1 DEF IInv, UnacceptedPaysNothing
<1>4. 2 * s.duration_in_sec <= Genesis \/ s.coins < Genesis
  <2>1. s.duration_in_sec \in Nat
    BY <1>2
  <2>2. QED
    BY <1>2, <1>3, <2>1 DEF DueSince1970
<1>5. AmountDue(s.coins, 0, s.duration_in_sec) = 0
  BY <1>1, <1>2, <1>4, NothingDueSince1970 DEF IInv, TypeOK
<1>6. QED
  BY <1>3, <1>5

\* A transaction that replaces one stream and keeps the others.
LEMMA OneStreamReplaced ==
  ASSUME IInv, now' = now, NEW a \in Accounts, NEW b \in Accounts,
         NEW x \in Stream \cup {NoStream},
         streams' = [streams EXCEPT ![a][b] = x],
         x # NoStream /\ x.start_time = 0 /\ ~DueSince1970(x) =>
           x.claimed = 0 /\ x.coins = x.amount
  PROVE  /\ streams' \in [Accounts -> [Accounts -> Stream \cup {NoStream}]]
         /\ now' \in Nat /\ now' >= Genesis
         /\ UnacceptedPaysNothing'
<1>1. streams' \in [Accounts -> [Accounts -> Stream \cup {NoStream}]]
  BY DEF IInv, TypeOK
<1>2. \A c, d \in Accounts :
        streams'[c][d] = IF c = a /\ d = b THEN x ELSE streams[c][d]
  BY DEF IInv, TypeOK
<1>3. UnacceptedPaysNothing'
  BY <1>2 DEF IInv, UnacceptedPaysNothing, DueSince1970
<1>4. QED
  BY <1>1, <1>3 DEF IInv, TypeOK

-----------------------------------------------------------------------------
\* IInv is inductive.
LEMMA InitInv == Init => IInv
BY StreamAssumption DEF Init, IInv, TypeOK, UnacceptedPaysNothing

LEMMA NextInv == ASSUME IInv, [Next]_vars PROVE IInv'
<1> USE StreamAssumption
<1>1. ASSUME NEW a \in Accounts, NEW b \in Accounts, NEW amount \in Amounts,
             NEW d \in Durations, CreatePayment(a, b, amount, d)
      PROVE  IInv'
  <2> DEFINE x == [duration_in_sec |-> d, start_time |-> 0, coins |-> amount,
                   amount |-> amount, claimed |-> 0]
  <2>1. x \in Stream /\ x.claimed = 0 /\ x.coins = x.amount
    BY DEF Stream
  <2>2. now' = now /\ streams' = [streams EXCEPT ![a][b] = x]
    BY <1>1 DEF CreatePayment
  <2>3. balance' \in [Accounts -> Nat] /\ earned' = earned
    BY <1>1 DEF CreatePayment, IInv, TypeOK
  <2> HIDE DEF x
  <2>4. QED
    BY <2>1, <2>2, <2>3, OneStreamReplaced DEF IInv, TypeOK
<1>2. ASSUME NEW a \in Accounts, NEW b \in Accounts, AcceptPayment(a, b)
      PROVE  IInv'
  <2> DEFINE x == [streams[a][b] EXCEPT !.start_time = now]
  <2>1. x \in Stream /\ x.start_time # 0
    <3>1. streams[a][b] \in Stream /\ now \in Nat /\ now # 0
      BY <1>2, StreamFields DEF AcceptPayment, IInv, TypeOK
    <3>2. QED
      BY <3>1 DEF Stream
  <2>2. now' = now /\ streams' = [streams EXCEPT ![a][b] = x]
    BY <1>2 DEF AcceptPayment, IInv, TypeOK
  <2>3. UNCHANGED <<balance, earned>>
    BY <1>2 DEF AcceptPayment
  <2> HIDE DEF x
  <2>4. QED
    BY <2>1, <2>2, <2>3, OneStreamReplaced DEF IInv, TypeOK
<1>3. ASSUME NEW a \in Accounts, NEW b \in Accounts, ClaimPayment(a, b)
      PROVE  IInv'
  <2> DEFINE s == streams[a][b]
             due == AmountDue(s.coins, s.start_time, s.duration_in_sec)
             x == [s EXCEPT !.coins = @ - due, !.claimed = @ + due]
  <2>1. /\ s # NoStream
        /\ now > s.start_time => s.duration_in_sec # 0
        /\ due <= s.coins
        /\ streams' = [streams EXCEPT ![a][b] = x]
        /\ balance' = [balance EXCEPT ![b] = @ + due]
        /\ earned' = [earned EXCEPT ![b] = @ + due, ![a] = @ - due]
        /\ now' = now
    BY <1>3 DEF ClaimPayment
  <2>2. /\ s \in Stream /\ s.duration_in_sec \in Durations /\ s.start_time \in Nat
        /\ s.coins \in Nat /\ s.claimed \in Nat
    BY <2>1, StreamFields DEF IInv
  <2>3. due \in Nat
    BY <2>1, <2>2, DueIsNat DEF IInv, TypeOK
  <2>4. s.start_time = 0 /\ ~DueSince1970(s) =>
          due = 0 /\ s.claimed = 0 /\ s.coins = s.amount
    BY <1>3, NothingPaidEarly DEF ClaimPayment, IInv
  <2> HIDE DEF s, due
  <2>5. /\ x \in Stream
        /\ x.start_time = s.start_time /\ x.amount = s.amount
        /\ x.duration_in_sec = s.duration_in_sec
        /\ x.coins = s.coins - due /\ x.claimed = s.claimed + due
    <3>1. due <= s.coins /\ s.coins - due \in Nat /\ s.claimed + due \in Nat
      BY <2>1, <2>2, <2>3
    <3>2. QED
      BY <2>2, <3>1 DEF Stream
  <2>6. x.start_time = 0 /\ ~DueSince1970(x) => x.claimed = 0 /\ x.coins = x.amount
    BY <2>2, <2>4, <2>5 DEF DueSince1970
  <2>7. balance' \in [Accounts -> Nat] /\ earned' \in [Accounts -> Int]
    BY <2>1, <2>3 DEF IInv, TypeOK
  <2> HIDE DEF x
  <2>8. QED
    BY <2>1, <2>5, <2>6, <2>7, OneStreamReplaced DEF IInv, TypeOK
<1>4. ASSUME NEW c \in Accounts, NEW a \in Accounts, NEW b \in Accounts,
             CancelPayment(c, a, b)
      PROVE  IInv'
  <2>1. now' = now /\ streams' = [streams EXCEPT ![a][b] = NoStream]
    BY <1>4 DEF CancelPayment
  <2>2. balance' \in [Accounts -> Nat] /\ earned' = earned
    <3>1. streams[a][b].coins \in Nat
      BY <1>4, StreamFields DEF CancelPayment, IInv
    <3>2. /\ balance' = [balance EXCEPT ![a] = @ + streams[a][b].coins]
          /\ earned' = earned
      BY <1>4 DEF CancelPayment
    <3>3. QED
      BY <3>1, <3>2 DEF IInv, TypeOK
  <2>3. QED
    BY <2>1, <2>2, OneStreamReplaced DEF IInv, TypeOK
<1>5. CASE Tick
  BY <1>5 DEF Tick, IInv, TypeOK, UnacceptedPaysNothing
<1>6. CASE UNCHANGED vars
  BY <1>6 DEF vars, IInv, TypeOK, UnacceptedPaysNothing
<1>7. QED
  BY <1>1, <1>2, <1>3, <1>4, <1>5, <1>6 DEF Next

\* Every reachable state has the types of TypeOK: no balance and no stream
\* is ever overdrawn.
THEOREM TypeCorrect == Spec => []TypeOK
<1>1. IInv => TypeOK
  BY DEF IInv
<1>2. QED
  BY InitInv, NextInv, <1>1, PTL DEF Spec

\* For any amounts, durations and clock: a stream pays nothing before its
\* receiver has accepted it, unless it is as long as half the time since 1970
\* and locks a coin for each second of that time.
THEOREM NothingBeforeAcceptance == Spec => []UnacceptedPaysNothing
<1>1. IInv => UnacceptedPaysNothing
  BY DEF IInv
<1>2. QED
  BY InitInv, NextInv, <1>1, PTL DEF Spec

-----------------------------------------------------------------------------
\* What the streams of an account hold, and that Locked is their sum.
CoinsIn(a) == [b \in Accounts |-> CoinsOf(streams[a][b])]

LEMMA LockedIsSum ==
  ASSUME TypeOK, NEW a \in Accounts
  PROVE  /\ CoinsIn(a) \in [Accounts -> Nat]
         /\ Locked(a) = SumFunctionOnSet(CoinsIn(a), Accounts)
         /\ Locked(a) \in Nat
<1>1. \A b \in Accounts : CoinsOf(streams[a][b]) \in Nat
  BY StreamFields DEF CoinsOf
<1>2. CoinsIn(a) \in [Accounts -> Nat]
  BY <1>1 DEF CoinsIn
<1>3. Locked(a) = SumFunctionOnSet(CoinsIn(a), Accounts)
  BY SumOver DEF Locked, CoinsIn
<1>4. QED
  BY <1>2, <1>3, StreamAssumption, SumNat

LEMMA LockedIsSumNext ==
  ASSUME TypeOK', NEW a \in Accounts
  PROVE  /\ CoinsIn(a)' \in [Accounts -> Nat]
         /\ Locked(a)' = SumFunctionOnSet(CoinsIn(a)', Accounts)
<1>1. \A b \in Accounts : streams'[a][b] \in Stream \cup {NoStream}
  BY DEF TypeOK
<1>2. \A b \in Accounts : CoinsOf(streams'[a][b]) \in Nat
  BY <1>1 DEF CoinsOf, Stream
<1>3. CoinsIn(a)' \in [Accounts -> Nat]
  BY <1>2 DEF CoinsIn, CoinsOf
<1>4. Locked(a)' = SumFunctionOnSet(CoinsIn(a)', Accounts)
  BY SumOver DEF Locked, CoinsIn
<1>5. QED
  BY <1>3, <1>4

\* Replacing one stream changes what its sender has locked by as much.
LEMMA LockedReplaced ==
  ASSUME TypeOK, TypeOK', NEW a \in Accounts, NEW b \in Accounts,
         NEW x \in Stream \cup {NoStream},
         streams' = [streams EXCEPT ![a][b] = x]
  PROVE  /\ Locked(a)' = Locked(a) + (CoinsOf(x) - CoinsOf(streams[a][b]))
         /\ \A c \in Accounts : c # a => Locked(c)' = Locked(c)
<1>1. \A d, e \in Accounts :
        streams'[d][e] = IF d = a /\ e = b THEN x ELSE streams[d][e]
  BY DEF TypeOK
<1>2. \A d, e \in Accounts :
        /\ CoinsIn(d)[e] = CoinsOf(streams[d][e])
        /\ CoinsIn(d)'[e] = CoinsOf(streams'[d][e])
  BY DEF CoinsIn, CoinsOf
<1>3. Locked(a)' = Locked(a) + (CoinsOf(x) - CoinsOf(streams[a][b]))
  <2> DEFINE f == CoinsIn(a)
             g == CoinsIn(a)'
  <2>1. /\ f \in [Accounts -> Nat] /\ Locked(a) = SumFunctionOnSet(f, Accounts)
        /\ g \in [Accounts -> Nat] /\ Locked(a)' = SumFunctionOnSet(g, Accounts)
    BY LockedIsSum, LockedIsSumNext
  <2>2. /\ \A e \in Accounts \ {b} : g[e] = f[e]
        /\ g[b] = CoinsOf(x) /\ f[b] = CoinsOf(streams[a][b])
    BY <1>1, <1>2
  <2> HIDE DEF f, g
  <2>3. SumFunctionOnSet(g, Accounts) = SumFunctionOnSet(f, Accounts) + (g[b] - f[b])
    BY <2>1, <2>2, StreamAssumption, SumUpdate
  <2>4. QED
    BY <2>1, <2>2, <2>3
<1>4. ASSUME NEW c \in Accounts, c # a PROVE Locked(c)' = Locked(c)
  <2> DEFINE f == CoinsIn(c)
             g == CoinsIn(c)'
  <2>1. /\ Locked(c) = SumFunctionOnSet(f, Accounts)
        /\ Locked(c)' = SumFunctionOnSet(g, Accounts)
    BY LockedIsSum, LockedIsSumNext
  <2>2. \A e \in Accounts : f[e] = g[e]
    BY <1>1, <1>2, <1>4
  <2> HIDE DEF f, g
  <2>3. QED
    BY <2>1, <2>2, StreamAssumption, SumSame
<1>5. QED
  BY <1>3, <1>4

LEMMA InitBalances == ASSUME Init, TypeOK PROVE EveryAccountBalances
<1>1. SUFFICES ASSUME NEW a \in Accounts
               PROVE  balance[a] + Locked(a) = InitialFunds + earned[a]
  BY DEF EveryAccountBalances
<1>2. \A b \in Accounts : CoinsIn(a)[b] = 0
  BY DEF Init, CoinsIn, CoinsOf
<1>3. Locked(a) = 0
  BY <1>2, LockedIsSum, StreamAssumption, SumZero
<1>4. QED
  BY <1>3, StreamAssumption DEF Init

LEMMA NextBalances ==
  ASSUME IInv, IInv', EveryAccountBalances, [Next]_vars
  PROVE  EveryAccountBalances'
<1> USE StreamAssumption
<1>0. SUFFICES ASSUME NEW u \in Accounts
               PROVE  balance'[u] + Locked(u)' = InitialFunds + earned'[u]
  BY DEF EveryAccountBalances
<1>a. /\ TypeOK /\ TypeOK' /\ Locked(u) \in Nat
      /\ balance[u] \in Nat /\ earned[u] \in Int
      /\ balance[u] + Locked(u) = InitialFunds + earned[u]
  BY LockedIsSum DEF IInv, TypeOK, EveryAccountBalances
<1>1. ASSUME NEW a \in Accounts, NEW b \in Accounts, NEW amount \in Amounts,
             NEW d \in Durations, CreatePayment(a, b, amount, d)
      PROVE  balance'[u] + Locked(u)' = InitialFunds + earned'[u]
  <2> DEFINE x == [duration_in_sec |-> d, start_time |-> 0, coins |-> amount,
                   amount |-> amount, claimed |-> 0]
  <2>1. x \in Stream /\ CoinsOf(x) = amount
    BY DEF Stream, CoinsOf
  <2>2. /\ streams[a][b] = NoStream
        /\ streams' = [streams EXCEPT ![a][b] = x]
        /\ balance' = [balance EXCEPT ![a] = @ - amount]
        /\ earned' = earned
    BY <1>1 DEF CreatePayment
  <2>3. CoinsOf(streams[a][b]) = 0
    BY <2>2 DEF CoinsOf
  <2> HIDE DEF x
  <2>4. /\ Locked(a)' = Locked(a) + (amount - 0)
        /\ u # a => Locked(u)' = Locked(u)
    BY <1>a, <2>1, <2>2, <2>3, LockedReplaced
  <2>5. balance'[u] = IF u = a THEN balance[u] - amount ELSE balance[u]
    BY <1>a, <2>2 DEF TypeOK
  <2>6. QED
    BY <1>a, <2>2, <2>4, <2>5
<1>2. ASSUME NEW a \in Accounts, NEW b \in Accounts, AcceptPayment(a, b)
      PROVE  balance'[u] + Locked(u)' = InitialFunds + earned'[u]
  <2> DEFINE x == [streams[a][b] EXCEPT !.start_time = now]
  <2>1. streams[a][b] \in Stream /\ now \in Nat /\ streams[a][b] # NoStream
    BY <1>2, StreamFields DEF AcceptPayment, IInv, TypeOK
  <2>2. x \in Stream /\ x.coins = streams[a][b].coins
    BY <2>1 DEF Stream
  <2>3. /\ streams' = [streams EXCEPT ![a][b] = x]
        /\ balance' = balance /\ earned' = earned
    BY <1>2 DEF AcceptPayment, IInv, TypeOK
  <2> HIDE DEF x
  <2>4. CoinsOf(x) = CoinsOf(streams[a][b]) /\ CoinsOf(x) \in Nat
    BY <2>1, <2>2 DEF CoinsOf, Stream
  <2>5. /\ Locked(a)' = Locked(a) + (CoinsOf(x) - CoinsOf(streams[a][b]))
        /\ u # a => Locked(u)' = Locked(u)
    BY <1>a, <2>2, <2>3, LockedReplaced
  <2>6. QED
    BY <1>a, <2>3, <2>4, <2>5
<1>3. ASSUME NEW a \in Accounts, NEW b \in Accounts, ClaimPayment(a, b)
      PROVE  balance'[u] + Locked(u)' = InitialFunds + earned'[u]
  <2> DEFINE s == streams[a][b]
             due == AmountDue(s.coins, s.start_time, s.duration_in_sec)
             x == [s EXCEPT !.coins = @ - due, !.claimed = @ + due]
  <2>1. /\ s # NoStream
        /\ now > s.start_time => s.duration_in_sec # 0
        /\ due <= s.coins
        /\ streams' = [streams EXCEPT ![a][b] = x]
        /\ balance' = [balance EXCEPT ![b] = @ + due]
        /\ earned' = [earned EXCEPT ![b] = @ + due, ![a] = @ - due]
    BY <1>3 DEF ClaimPayment
  <2>2. /\ s \in Stream /\ s.duration_in_sec \in Durations /\ s.start_time \in Nat
        /\ s.coins \in Nat /\ s.claimed \in Nat
    BY <2>1, StreamFields DEF IInv
  <2>3. due \in Nat
    BY <2>1, <2>2, DueIsNat DEF IInv, TypeOK
  <2>4. CoinsOf(s) = s.coins
    BY <2>1 DEF CoinsOf
  <2>5. u # a /\ u # b => balance'[u] = balance[u] /\ earned'[u] = earned[u]
    BY <1>a, <2>1 DEF TypeOK
  <2>6. u = b /\ a # b => balance'[u] = balance[u] + due /\ earned'[u] = earned[u] + due
    BY <1>a, <2>1 DEF TypeOK
  <2>7. u = a /\ a # b => balance'[u] = balance[u] /\ earned'[u] = earned[u] - due
    BY <1>a, <2>1 DEF TypeOK
  <2>8. u = a /\ a = b => balance'[u] = balance[u] + due /\ earned'[u] = earned[u]
    BY <1>a, <2>1, <2>3 DEF TypeOK
  <2> HIDE DEF due
  <2>9. x \in Stream /\ CoinsOf(x) = s.coins - due
    <3> HIDE DEF s
    <3>1. due <= s.coins /\ s.coins - due \in Nat /\ s.claimed + due \in Nat
      BY <2>1, <2>2, <2>3
    <3>2. x \in Stream /\ x.coins = s.coins - due
      BY <2>2, <3>1 DEF Stream
    <3>3. QED
      BY <3>2 DEF CoinsOf
  <2> HIDE DEF x
  <2>10. /\ Locked(a)' = Locked(a) + (CoinsOf(x) - CoinsOf(s))
         /\ u # a => Locked(u)' = Locked(u)
    BY <1>a, <2>1, <2>9, LockedReplaced
  <2> HIDE DEF s
  <2>11. Locked(u)' = IF u = a THEN Locked(u) - due ELSE Locked(u)
    BY <1>a, <2>2, <2>3, <2>4, <2>9, <2>10
  <2>12. QED
    BY <1>a, <2>3, <2>5, <2>6, <2>7, <2>8, <2>11
<1>4. ASSUME NEW c \in Accounts, NEW a \in Accounts, NEW b \in Accounts,
             CancelPayment(c, a, b)
      PROVE  balance'[u] + Locked(u)' = InitialFunds + earned'[u]
  <2> DEFINE coins == streams[a][b].coins
  <2>1. /\ streams[a][b] # NoStream
        /\ streams' = [streams EXCEPT ![a][b] = NoStream]
        /\ balance' = [balance EXCEPT ![a] = @ + coins]
        /\ earned' = earned
    BY <1>4 DEF CancelPayment
  <2>2. coins \in Nat /\ CoinsOf(streams[a][b]) = coins /\ CoinsOf(NoStream) = 0
    BY <2>1, StreamFields DEF IInv, CoinsOf
  <2>3. balance'[u] = IF u = a THEN balance[u] + coins ELSE balance[u]
    BY <1>a, <2>1 DEF TypeOK
  <2> HIDE DEF coins
  <2>4. /\ Locked(a)' = Locked(a) + (0 - coins)
        /\ u # a => Locked(u)' = Locked(u)
    BY <1>a, <2>1, <2>2, LockedReplaced
  <2>5. QED
    BY <1>a, <2>1, <2>2, <2>3, <2>4
<1>5. CASE UNCHANGED <<streams, balance, earned>>
  <2>1. CoinsIn(u)' = CoinsIn(u)
    BY <1>5 DEF CoinsIn, CoinsOf
  <2>2. Locked(u)' = Locked(u)
    BY <1>a, <2>1, LockedIsSum, LockedIsSumNext
  <2>3. QED
    BY <1>5, <1>a, <2>2
<1>6. QED
  BY <1>1, <1>2, <1>3, <1>4, <1>5 DEF Next, Tick, vars

\* Whoever creates, accepts, claims and cancels, any number of streams between
\* any accounts: what an account has in its wallet and has locked is what it
\* began with, what it claimed and what was claimed from it.
THEOREM AccountsBalance == Spec => []EveryAccountBalances
<1>1. IInv => TypeOK
  BY DEF IInv
<1>2. Init => IInv /\ EveryAccountBalances
  BY InitInv, InitBalances, <1>1
<1>3. IInv /\ EveryAccountBalances /\ [Next]_vars => IInv' /\ EveryAccountBalances'
  BY NextInv, NextBalances
<1>4. QED
  BY <1>2, <1>3, PTL DEF Spec

-----------------------------------------------------------------------------
\* The refinement mapping, and what it makes of a stream x.
StateBar == [a \in Accounts |-> [b \in Accounts |-> StateOf(streams[a][b])]]

PotBar == [a \in Accounts |-> [b \in Accounts |-> CoinsOf(streams[a][b])]]

\* The table f with v for a and b.
Put(f, a, b, v) == [f EXCEPT ![a][b] = v]

\* A table that differs from another at one place only.
LEMMA OnePlace ==
  ASSUME NEW R, NEW f \in [Accounts -> [Accounts -> R]],
         NEW g \in [Accounts -> [Accounts -> R]],
         NEW a \in Accounts, NEW b \in Accounts, NEW v,
         \A c, d \in Accounts : g[c][d] = IF c = a /\ d = b THEN v ELSE f[c][d]
  PROVE  g = Put(f, a, b, v)
<1>1. ASSUME NEW c \in Accounts
      PROVE  g[c] = IF c = a THEN [f[a] EXCEPT ![b] = v] ELSE f[c]
  <2>1. g[c] \in [Accounts -> R] /\ f[c] \in [Accounts -> R]
    OBVIOUS
  <2>2. QED
    BY <2>1
<1>2. QED
  BY <1>1 DEF Put

States == {"none", "offered", "open"}

\* The mapping yields a state and a number for each stream.
LEMMA BarTypes ==
  ASSUME NEW x \in Stream \cup {NoStream}
  PROVE  StateOf(x) \in States /\ CoinsOf(x) \in Nat
<1>1. x \in Stream => x.coins \in Nat
  BY DEF Stream
<1>2. QED
  BY <1>1 DEF StateOf, CoinsOf, States

\* A transaction that replaces one stream by x changes the ledger at one place.
LEMMA OnePotReplaced ==
  ASSUME TypeOK, NEW a \in Accounts, NEW b \in Accounts,
         NEW x \in Stream \cup {NoStream},
         streams' = [streams EXCEPT ![a][b] = x]
  PROVE  /\ StateBar' = Put(StateBar, a, b, StateOf(x))
         /\ PotBar' = Put(PotBar, a, b, CoinsOf(x))
         /\ StateBar[a][b] = StateOf(streams[a][b])
         /\ PotBar[a][b] = CoinsOf(streams[a][b])
         /\ StateOf(x) = StateOf(streams[a][b]) => StateBar' = StateBar
         /\ CoinsOf(x) = CoinsOf(streams[a][b]) => PotBar' = PotBar
<1>1. \A d, e \in Accounts :
        streams'[d][e] = IF d = a /\ e = b THEN x ELSE streams[d][e]
  BY DEF TypeOK
<1>2. \A d, e \in Accounts :
        /\ StateBar[d][e] = StateOf(streams[d][e])
        /\ PotBar[d][e] = CoinsOf(streams[d][e])
        /\ StateBar'[d][e] = StateOf(streams'[d][e])
        /\ PotBar'[d][e] = CoinsOf(streams'[d][e])
  BY DEF StateBar, PotBar, CoinsOf, StateOf
<1>3. /\ StateBar \in [Accounts -> [Accounts -> States]]
      /\ PotBar \in [Accounts -> [Accounts -> Nat]]
  <2>1. \A d, e \in Accounts : streams[d][e] \in Stream \cup {NoStream}
    BY DEF TypeOK
  <2>2. QED
    BY <2>1, BarTypes DEF StateBar, PotBar, CoinsOf
<1>4. /\ StateBar' \in [Accounts -> [Accounts -> States]]
      /\ PotBar' \in [Accounts -> [Accounts -> Nat]]
  <2>1. \A d, e \in Accounts : streams'[d][e] \in Stream \cup {NoStream}
    BY <1>1 DEF TypeOK
  <2>2. QED
    BY <2>1, BarTypes DEF StateBar, PotBar, CoinsOf, StateOf
<1>5. \A d, e \in Accounts :
        StateBar'[d][e] = IF d = a /\ e = b THEN StateOf(x) ELSE StateBar[d][e]
  BY <1>1, <1>2
<1>6. \A d, e \in Accounts :
        PotBar'[d][e] = IF d = a /\ e = b THEN CoinsOf(x) ELSE PotBar[d][e]
  BY <1>1, <1>2
<1>7. StateBar' = Put(StateBar, a, b, StateOf(x))
  BY <1>3, <1>4, <1>5, OnePlace DEF Put
<1>8. PotBar' = Put(PotBar, a, b, CoinsOf(x))
  BY <1>3, <1>4, <1>6, OnePlace DEF Put
<1>9. StateOf(x) = StateOf(streams[a][b]) => StateBar' = StateBar
  BY <1>2, <1>3, <1>7 DEF Put
<1>10. CoinsOf(x) = CoinsOf(streams[a][b]) => PotBar' = PotBar
  BY <1>2, <1>3, <1>8 DEF Put
<1>11. QED
  BY <1>2, <1>7, <1>8, <1>9, <1>10

LEMMA InitLedger == Init => Ledger!Init
BY DEF Init, Ledger!Init, StateOf, CoinsOf

LEMMA NextLedger == ASSUME IInv, [Next]_vars PROVE [Ledger!Next]_(Ledger!vars)
<1> USE StreamAssumption
<1>1. ASSUME NEW a \in Accounts, NEW b \in Accounts, NEW amount \in Amounts,
             NEW d \in Durations, CreatePayment(a, b, amount, d)
      PROVE  Ledger!Next
  <2> DEFINE x == [duration_in_sec |-> d, start_time |-> 0, coins |-> amount,
                   amount |-> amount, claimed |-> 0]
  <2>1. /\ a # b /\ amount > 0 /\ balance[a] >= amount
        /\ streams[a][b] = NoStream
        /\ streams' = [streams EXCEPT ![a][b] = x]
        /\ balance' = [balance EXCEPT ![a] = @ - amount]
    BY <1>1 DEF CreatePayment
  <2>2. x \in Stream /\ StateOf(x) \in {"offered", "open"} /\ CoinsOf(x) = amount
    <3>1. x \in Stream
      BY DEF Stream
    <3>2. QED
      BY <3>1 DEF StateOf, CoinsOf
  <2> HIDE DEF x
  <2>3. /\ StateBar' = [StateBar EXCEPT ![a][b] = StateOf(x)]
        /\ PotBar' = [PotBar EXCEPT ![a][b] = amount]
        /\ StateBar[a][b] = "none"
    <3>1. /\ StateBar' = Put(StateBar, a, b, StateOf(x))
          /\ PotBar' = Put(PotBar, a, b, CoinsOf(x))
          /\ StateBar[a][b] = StateOf(NoStream)
      <4>1. TypeOK /\ x \in Stream \cup {NoStream}
        BY <2>2 DEF IInv
      <4>2. /\ StateBar' = Put(StateBar, a, b, StateOf(x))
            /\ PotBar' = Put(PotBar, a, b, CoinsOf(x))
            /\ StateBar[a][b] = StateOf(streams[a][b])
        BY <2>1, <4>1, OnePotReplaced, ZenonT(30)
      <4>3. QED
        BY <2>1, <4>2
    <3>2. QED
      BY <2>2, <3>1 DEF Put, StateOf
  <2>4. Ledger!Offer(a, b, amount, StateOf(x))
    BY <2>1, <2>3 DEF Ledger!Offer, StateBar, PotBar
  <2>5. amount \in 1..balance[a]
    BY <2>1 DEF IInv, TypeOK
  <2>6. QED
    BY <2>2, <2>4, <2>5 DEF Ledger!Next
<1>2. ASSUME NEW a \in Accounts, NEW b \in Accounts, AcceptPayment(a, b)
      PROVE  [Ledger!Next]_(Ledger!vars)
  <2> DEFINE s == streams[a][b]
             x == [s EXCEPT !.start_time = now]
  <2>1. /\ s # NoStream /\ s.start_time = 0
        /\ streams' = [streams EXCEPT ![a][b] = x]
        /\ balance' = balance
    BY <1>2 DEF AcceptPayment, IInv, TypeOK
  <2>2. s \in Stream /\ s.coins \in Nat
    BY <2>1, StreamFields DEF IInv
  <2> HIDE DEF s
  <2>3. x \in Stream /\ StateOf(x) = "open" /\ CoinsOf(x) = s.coins
    <3>1. x \in Stream /\ x.start_time = now /\ x.coins = s.coins
      BY <2>2 DEF Stream, IInv, TypeOK
    <3>2. now # 0
      BY DEF IInv, TypeOK
    <3> HIDE DEF x
    <3>3. QED
      BY <3>1, <3>2 DEF StateOf, CoinsOf
  <2> HIDE DEF x
  <2>4. StateOf(s) \in {"offered", "open"} /\ CoinsOf(s) = s.coins
    BY <2>1 DEF StateOf, CoinsOf
  <2>5. /\ StateBar[a][b] = StateOf(s)
        /\ StateBar' = [StateBar EXCEPT ![a][b] = "open"]
        /\ StateOf(s) = "open" => StateBar' = StateBar
        /\ PotBar' = PotBar
    <3>1. /\ TypeOK
          /\ x \in Stream \cup {NoStream}
          /\ streams' = [streams EXCEPT ![a][b] = x]
      BY <2>1, <2>3 DEF IInv
    <3>2. /\ StateBar[a][b] = StateOf(s)
          /\ StateBar' = Put(StateBar, a, b, StateOf(x))
          /\ StateOf(x) = StateOf(s) => StateBar' = StateBar
          /\ CoinsOf(x) = CoinsOf(s) => PotBar' = PotBar
      <4>1. /\ StateBar[a][b] = StateOf(streams[a][b])
            /\ StateBar' = Put(StateBar, a, b, StateOf(x))
            /\ StateOf(x) = StateOf(streams[a][b]) => StateBar' = StateBar
            /\ CoinsOf(x) = CoinsOf(streams[a][b]) => PotBar' = PotBar
        BY <3>1, OnePotReplaced, ZenonT(30)
      <4>2. QED
        BY <4>1 DEF s
    <3>3. QED
      BY <2>3, <2>4, <3>2 DEF Put
  <2>6. CASE StateOf(s) = "offered"
    <3>1. Ledger!Accept(a, b)
      BY <2>1, <2>5, <2>6 DEF Ledger!Accept, StateBar, PotBar
    <3>2. QED
      BY <3>1 DEF Ledger!Next
  <2>7. CASE StateOf(s) = "open"
    BY <2>1, <2>5, <2>7 DEF Ledger!vars, StateBar, PotBar
  <2>8. QED
    BY <2>4, <2>6, <2>7
<1>3. ASSUME NEW a \in Accounts, NEW b \in Accounts, ClaimPayment(a, b)
      PROVE  [Ledger!Next]_(Ledger!vars)
  <2> DEFINE s == streams[a][b]
             due == AmountDue(s.coins, s.start_time, s.duration_in_sec)
             x == [s EXCEPT !.coins = @ - due, !.claimed = @ + due]
  <2>1. /\ s # NoStream
        /\ now > s.start_time => s.duration_in_sec # 0
        /\ due <= s.coins
        /\ streams' = [streams EXCEPT ![a][b] = x]
        /\ balance' = [balance EXCEPT ![b] = @ + due]
    BY <1>3 DEF ClaimPayment
  <2>2. /\ s \in Stream /\ s.duration_in_sec \in Durations /\ s.start_time \in Nat
        /\ s.coins \in Nat /\ s.claimed \in Nat
    BY <2>1, StreamFields DEF IInv
  <2>3. due \in Nat
    BY <2>1, <2>2, DueIsNat DEF IInv, TypeOK
  <2>4. s.start_time = 0 /\ ~DueSince1970(s) => due = 0
    BY <1>3, NothingPaidEarly
  <2> HIDE DEF s, due
  <2>5. /\ x \in Stream /\ x.start_time = s.start_time /\ x.coins = s.coins - due
        /\ DueSince1970(x) <=> DueSince1970(s)
    <3>1. due <= s.coins /\ s.coins - due \in Nat /\ s.claimed + due \in Nat
      BY <2>1, <2>2, <2>3
    <3>2. QED
      BY <2>2, <3>1 DEF Stream, DueSince1970
  <2>6. x \in Stream /\ StateOf(x) = StateOf(s) /\ CoinsOf(x) = s.coins - due
    BY <2>1, <2>5 DEF StateOf, CoinsOf
  <2> HIDE DEF x
  <2>7. /\ StateBar[a][b] = StateOf(s) /\ PotBar[a][b] = s.coins
        /\ StateBar' = StateBar
        /\ PotBar' = [PotBar EXCEPT ![a][b] = s.coins - due]
        /\ due = 0 => PotBar' = PotBar
    <3>1. streams[a][b] = s /\ CoinsOf(s) = s.coins
      BY <2>1 DEF s, CoinsOf
    <3>2. /\ StateBar[a][b] = StateOf(streams[a][b])
          /\ PotBar[a][b] = CoinsOf(streams[a][b])
          /\ StateOf(x) = StateOf(streams[a][b]) => StateBar' = StateBar
          /\ PotBar' = Put(PotBar, a, b, CoinsOf(x))
          /\ CoinsOf(x) = CoinsOf(streams[a][b]) => PotBar' = PotBar
      <4>1. /\ TypeOK
            /\ x \in Stream \cup {NoStream}
            /\ streams' = [streams EXCEPT ![a][b] = x]
        BY <2>1, <2>6 DEF IInv
      <4>2. QED
        BY <4>1, OnePotReplaced, ZenonT(30)
    <3>3. QED
      BY <2>2, <2>6, <3>1, <3>2 DEF Put
  <2>9. CASE due = 0
    <3>1. PotBar' = PotBar
      BY <2>7, <2>9
    <3>2. balance' = balance
      BY <2>1, <2>9 DEF IInv, TypeOK
    <3>3. QED
      BY <2>7, <3>1, <3>2 DEF Ledger!vars, StateBar, PotBar
  <2>10. CASE due # 0
    <3>1. StateBar[a][b] = "open"
      BY <2>1, <2>4, <2>7, <2>10 DEF StateOf
    <3>2. PotBar' = [PotBar EXCEPT ![a][b] = @ - due]
      BY <2>7 DEF PotBar
    <3>3. PICK m \in 1..s.coins : m = due
      BY <2>1, <2>2, <2>3, <2>10
    <3>4. Ledger!Pay(a, b, m)
      BY <2>1, <2>7, <3>1, <3>2, <3>3 DEF Ledger!Pay, StateBar, PotBar
    <3>5. m \in 1..PotBar[a][b]
      BY <2>7
    <3>6. Ledger!Next
      BY <3>4, <3>5 DEF Ledger!Next, PotBar
    <3>7. QED
      BY <3>6
  <2>11. QED
    BY <2>9, <2>10
<1>4. ASSUME NEW c \in Accounts, NEW a \in Accounts, NEW b \in Accounts,
             CancelPayment(c, a, b)
      PROVE  Ledger!Next
  <2>1. /\ streams[a][b] # NoStream
        /\ streams' = [streams EXCEPT ![a][b] = NoStream]
        /\ balance' = [balance EXCEPT ![a] = @ + streams[a][b].coins]
    BY <1>4 DEF CancelPayment
  <2>2. /\ StateBar' = Put(StateBar, a, b, StateOf(NoStream))
        /\ PotBar' = Put(PotBar, a, b, CoinsOf(NoStream))
        /\ StateBar[a][b] = StateOf(streams[a][b])
        /\ PotBar[a][b] = CoinsOf(streams[a][b])
    <3>1. /\ TypeOK
          /\ NoStream \in Stream \cup {NoStream}
          /\ streams' = [streams EXCEPT ![a][b] = NoStream]
      BY <2>1 DEF IInv
    <3>2. QED
      BY <3>1, OnePotReplaced, ZenonT(30)
  <2>3. /\ StateOf(NoStream) = "none" /\ CoinsOf(NoStream) = 0
        /\ StateBar[a][b] # "none" /\ PotBar[a][b] = streams[a][b].coins
    BY <2>1, <2>2 DEF StateOf, CoinsOf
  <2>4. Ledger!Return(a, b)
    BY <2>1, <2>2, <2>3 DEF Put, Ledger!Return, StateBar, PotBar
  <2>5. QED
    BY <2>4 DEF Ledger!Next
<1>5. CASE Tick
  BY <1>5 DEF Tick, Ledger!vars
<1>6. CASE UNCHANGED vars
  BY <1>6 DEF vars, Ledger!vars
<1>7. QED
  BY <1>1, <1>2, <1>3, <1>4, <1>5, <1>6 DEF Next

\* Whatever the accounts, amounts, durations and the clock: the module
\* implements the ledger.  A pot pays nobody but its receiver, never more than
\* it holds and nothing while it is offered, which it is until the receiver
\* accepts unless its stream is due since 1970, and the rest of a cancelled
\* stream is the sender's.
THEOREM Refinement == Spec => ImplementsLedger
<1>1. IInv /\ [Next]_vars => [Ledger!Next]_(Ledger!vars)
  BY NextLedger
<1>2. QED
  BY InitInv, InitLedger, NextInv, <1>1, PTL DEF Spec, ImplementsLedger, Ledger!Spec
=============================================================================
