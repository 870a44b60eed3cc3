---------------------------- MODULE MC_PayStream ----------------------------
(* Small instances of PayStream: the accounts are interchangeable. *)
EXTENDS PayStream, TLC

AccountSymmetry == Permutations(Accounts)
=============================================================================
