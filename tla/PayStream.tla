----------------------------- MODULE PayStream -----------------------------
(***************************************************************************)
(* Payment streams of the Move module pay_stream.move.  A sender locks     *)
(* coins for a receiver in its Payments table (one stream per receiver);   *)
(* the receiver accepts and claims, either of the two may cancel.  Every   *)
(* entry function is one transaction, and one that aborts is a step the    *)
(* specification does not have.  now is timestamp::now_seconds.            *)
(***************************************************************************)
EXTENDS Integers, FiniteSetsExt

CONSTANTS
  Accounts,
  Amounts,       \* amounts a sender may lock
  Durations,
  InitialFunds,  \* AptosCoin balance of every account
  NoStream,      \* no entry in the table
  Genesis,       \* now of the first transaction, in seconds since 1970
  MaxTime        \* bound: last timestamp

Stream == [duration_in_sec : Durations, start_time : Nat, coins : Nat,
           amount : Nat, claimed : Nat]

ASSUME StreamAssumption ==
  /\ NoStream \notin Stream /\ IsFiniteSet(Accounts)
  /\ Amounts \subseteq Nat /\ Durations \subseteq Nat
  /\ InitialFunds \in Nat /\ Genesis \in Nat \ {0} /\ MaxTime \in Nat

VARIABLES
  now,
  streams,   \* sender -> receiver -> the stream; amount, the coins it was
             \* created with, and claimed, the coins paid, are history
  balance,   \* AptosCoin balances
  earned     \* history: coins claimed from others less coins paid to them

vars == <<now, streams, balance, earned>>

Init ==
  /\ now = Genesis
  /\ streams = [a \in Accounts |-> [b \in Accounts |-> NoStream]]
  /\ balance = [a \in Accounts |-> InitialFunds]
  /\ earned = [a \in Accounts |-> 0]

-----------------------------------------------------------------------------
\* Mistake: a claim that asks for too much is cut to what is left.
AmountDue_Capped(total, start_time, duration_in_sec) ==
  IF now > start_time
  THEN Min({total, (total \div duration_in_sec) * (now - start_time)}) ELSE 0

\* calc_amount_due, for a division that does not abort
AmountDue(total, start_time, duration_in_sec) ==
  IF now > start_time THEN (total \div duration_in_sec) * (now - start_time) ELSE 0

\* create_payment: table::add aborts on a second stream to the same receiver.
CreatePayment(sender, receiver, amount, duration) ==
  /\ sender # receiver
  /\ amount > 0
  /\ streams[sender][receiver] = NoStream
  /\ balance[sender] >= amount
  /\ balance' = [balance EXCEPT ![sender] = @ - amount]
  /\ streams' = [streams EXCEPT ![sender][receiver] =
       [duration_in_sec |-> duration, start_time |-> 0, coins |-> amount,
        amount |-> amount, claimed |-> 0]]
  /\ UNCHANGED <<now, earned>>

\* accept_payment
AcceptPayment(sender, receiver) ==
  /\ streams[sender][receiver] # NoStream
  /\ streams[sender][receiver].start_time = 0
  /\ streams' = [streams EXCEPT ![sender][receiver].start_time = now]
  /\ UNCHANGED <<now, balance, earned>>

\* Mistake: the balance of the stream is not compared with what is due.
ClaimPayment_Overdraws(sender, receiver) ==
  LET s == streams[sender][receiver]
      due == AmountDue(s.coins, s.start_time, s.duration_in_sec)
  IN  /\ s # NoStream
      /\ now > s.start_time => s.duration_in_sec # 0
      /\ streams' = [streams EXCEPT ![sender][receiver] =
           [s EXCEPT !.coins = @ - due, !.claimed = @ + due]]
      /\ balance' = [balance EXCEPT ![receiver] = @ + due]
      /\ earned' = [earned EXCEPT ![receiver] = @ + due, ![sender] = @ - due]
      /\ UNCHANGED now

\* claim_payment: what is due is computed from the coins that are left, and
\* start_time stays.  Past start_time a duration of 0 divides by zero.
ClaimPayment(sender, receiver) ==
  LET s == streams[sender][receiver]
      due == AmountDue(s.coins, s.start_time, s.duration_in_sec)
  IN  /\ s # NoStream
      /\ now > s.start_time => s.duration_in_sec # 0
      /\ due <= s.coins
      /\ streams' = [streams EXCEPT ![sender][receiver] =
           [s EXCEPT !.coins = @ - due, !.claimed = @ + due]]
      /\ balance' = [balance EXCEPT ![receiver] = @ + due]
      /\ earned' = [earned EXCEPT ![receiver] = @ + due, ![sender] = @ - due]
      /\ UNCHANGED now

\* Mistake: the rest goes to whoever cancels.
CancelPayment_ToSigner(signer, sender, receiver) ==
  /\ streams[sender][receiver] # NoStream
  /\ signer \in {sender, receiver}
  /\ balance' = [balance EXCEPT ![signer] = @ + streams[sender][receiver].coins]
  /\ streams' = [streams EXCEPT ![sender][receiver] = NoStream]
  /\ UNCHANGED <<now, earned>>

\* Mistake: the coins are taken out of the stream and the stream is kept.
CancelPayment_KeepsStream(signer, sender, receiver) ==
  /\ streams[sender][receiver] # NoStream
  /\ signer \in {sender, receiver}
  /\ balance' = [balance EXCEPT ![sender] = @ + streams[sender][receiver].coins]
  /\ streams' = [streams EXCEPT ![sender][receiver].coins = 0]
  /\ UNCHANGED <<now, earned>>

\* cancel_payment by either party: the coins that are left go to the sender.
CancelPayment(signer, sender, receiver) ==
  /\ streams[sender][receiver] # NoStream
  /\ signer \in {sender, receiver}
  /\ balance' = [balance EXCEPT ![sender] = @ + streams[sender][receiver].coins]
  /\ streams' = [streams EXCEPT ![sender][receiver] = NoStream]
  /\ UNCHANGED <<now, earned>>

Tick ==
  /\ now < MaxTime
  /\ now' = now + 1
  /\ UNCHANGED <<streams, balance, earned>>

Next ==
  \/ \E a, b \in Accounts, amount \in Amounts, d \in Durations : CreatePayment(a, b, amount, d)
  \/ \E a, b \in Accounts : AcceptPayment(a, b)
  \/ \E a, b \in Accounts : ClaimPayment(a, b)
  \/ \E c, a, b \in Accounts : CancelPayment(c, a, b)
  \/ Tick

Spec == Init /\ [][Next]_vars

-----------------------------------------------------------------------------
TypeOK ==
  /\ now \in Nat
  /\ streams \in [Accounts -> [Accounts -> Stream \cup {NoStream}]]
  /\ balance \in [Accounts -> Nat]
  /\ earned \in [Accounts -> Int]

\* The coins in a stream, and those an account has locked in streams of its own.
CoinsOf(s) == IF s = NoStream THEN 0 ELSE s.coins

Locked(a) == SumFunction([b \in Accounts |-> CoinsOf(streams[a][b])])

\* Whoever creates, claims and cancels, in whatever order: an account has in
\* its wallet and its open streams what it began with, plus what it claimed,
\* less what was claimed from it.  A cancelled stream returns the rest to the
\* sender, also when the receiver cancels.
EveryAccountBalances ==
  \A a \in Accounts : balance[a] + Locked(a) = InitialFunds + earned[a]

\* A stream as long as half the time since 1970, some 27 years, that locks a
\* coin for each second of that time.  create_payment has no upper limits.
DueSince1970(s) == 2 * s.duration_in_sec > Genesis /\ s.amount >= Genesis

\* A stream the receiver has not accepted pays nothing, unless it is that long
\* and that large.  claim_payment does not ask for the acceptance: the claim
\* aborts because start_time is 0, so that more is due since 1970 than the
\* stream holds, or rounds to nothing.
UnacceptedPaysNothing ==
  \A a, b \in Accounts :
    LET s == streams[a][b] IN
    s # NoStream /\ s.start_time = 0 /\ ~DueSince1970(s) =>
      s.claimed = 0 /\ s.coins = s.amount

\* What the ledger sees of a stream: one due since 1970 is open when created.
StateOf(s) ==
  IF s = NoStream THEN "none"
  ELSE IF s.start_time = 0 /\ ~DueSince1970(s) THEN "offered" ELSE "open"

Ledger == INSTANCE StreamLedger WITH
  Funds <- InitialFunds,
  state <- [a \in Accounts |-> [b \in Accounts |-> StateOf(streams[a][b])]],
  pot   <- [a \in Accounts |-> [b \in Accounts |-> CoinsOf(streams[a][b])]]

\* The module implements the ledger: at every step coins move as one of its
\* steps says.  The streams that are open before the receiver accepts are
\* those due since 1970 and no others.
ImplementsLedger == Ledger!Spec

\* README: the stream "pays to the recipient every second": after some
\* seconds the receiver has at most that many times the amount per second.
ClaimedMatchesElapsed ==
  \A a, b \in Accounts :
    streams[a][b] # NoStream /\ streams[a][b].start_time # 0 =>
      streams[a][b].claimed <=
        (streams[a][b].amount \div streams[a][b].duration_in_sec)
          * (now - streams[a][b].start_time)
=============================================================================
