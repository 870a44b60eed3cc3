----------------------------- MODULE StreamLedger -----------------------------
(***************************************************************************)
(* What pay_stream.move does with the coins, without times and rates: a    *)
(* pot between a sender and a receiver that the sender fills once, that    *)
(* pays nobody but the receiver and only while it is open, and whose rest  *)
(* goes back to the sender.  The receiver opens an offered pot; the sender *)
(* may offer one that is open from the start.                              *)
(***************************************************************************)
EXTENDS Integers

CONSTANTS Accounts, Funds

VARIABLES
  state,    \* sender -> receiver -> "none", "offered" or "open"
  pot,      \* sender -> receiver -> coins in the pot
  balance   \* coins of the accounts

vars == <<state, pot, balance>>

Init ==
  /\ state = [a \in Accounts |-> [b \in Accounts |-> "none"]]
  /\ pot = [a \in Accounts |-> [b \in Accounts |-> 0]]
  /\ balance = [a \in Accounts |-> Funds]

Offer(a, b, amount, s) ==
  /\ a # b
  /\ state[a][b] = "none"
  /\ state' = [state EXCEPT ![a][b] = s]
  /\ pot' = [pot EXCEPT ![a][b] = amount]
  /\ balance' = [balance EXCEPT ![a] = @ - amount]

Accept(a, b) ==
  /\ state[a][b] = "offered"
  /\ state' = [state EXCEPT ![a][b] = "open"]
  /\ UNCHANGED <<pot, balance>>

Pay(a, b, amount) ==
  /\ state[a][b] = "open"
  /\ pot' = [pot EXCEPT ![a][b] = @ - amount]
  /\ balance' = [balance EXCEPT ![b] = @ + amount]
  /\ UNCHANGED state

Return(a, b) ==
  /\ state[a][b] # "none"
  /\ state' = [state EXCEPT ![a][b] = "none"]
  /\ pot' = [pot EXCEPT ![a][b] = 0]
  /\ balance' = [balance EXCEPT ![a] = @ + pot[a][b]]

Next ==
  \E a, b \in Accounts :
    \/ \E amount \in 1..balance[a], s \in {"offered", "open"} : Offer(a, b, amount, s)
    \/ \E amount \in 1..pot[a][b] : Pay(a, b, amount)
    \/ Accept(a, b)
    \/ Return(a, b)

Spec == Init /\ [][Next]_vars
=============================================================================
