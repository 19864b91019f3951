------------------------------- MODULE MCAuth -------------------------------
(* Instance of AuthManager for TLC.                                        *)
EXTENDS AuthManager, TLC

CONSTANTS t1, t2, c1, c2, c3

Symmetry == Permutations(Threads) \cup Permutations(Clients)
=============================================================================
