---------------------------- MODULE MC_Aggregator ----------------------------
(* Small instances of Aggregator. *)
EXTENDS Aggregator

\* Coinbase trades more often than the oracle answers.
FewPrices == [s \in Sources |-> IF s = "coinbase" THEN 2 ELSE 1]
=============================================================================
