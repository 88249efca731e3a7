------------------------------ MODULE MCSignIn ------------------------------
(* Small instance of SignIn. *)
EXTENDS SignIn, TLC

Alike == Permutations(Clients)
=============================================================================
