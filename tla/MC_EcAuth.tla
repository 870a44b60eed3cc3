----------------------------- MODULE MC_EcAuth -----------------------------
(* Two runs share the username peggy (the client's default), as two clients *)
(* of one person or of two; a third run has a username of its own.          *)
EXTENDS EcAuth, TLC

CONSTANTS run1, run2, run3

MCUserOf == run1 :> "peggy" @@ run2 :> "peggy" @@ run3 :> "victor"
MCSecretOf == run1 :> "s1" @@ run2 :> "s2" @@ run3 :> "s3"
MCSameSecret == run1 :> "s1" @@ run2 :> "s1" @@ run3 :> "s3"
=============================================================================
