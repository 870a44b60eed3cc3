----------------------------- MODULE MC_Deployment -----------------------------
(* The instance of Deployment that TLC checks: a few failures of the environment. *)
EXTENDS Deployment
=============================================================================
