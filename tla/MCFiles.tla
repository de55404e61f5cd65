------------------------------ MODULE MCFiles ------------------------------
(* FileSessions on a small instance; the clients are interchangeable.      *)
EXTENDS FileSessions, TLC

ClientSymmetry == Permutations(Client)
=============================================================================
