------------------------------ MODULE MC_VeNFT ------------------------------
(* Small instances of VeNFT: the users are interchangeable. *)
EXTENDS VeNFT

UserSymmetry == Permutations(Users)
=============================================================================
