------------------------------ MODULE MCLimiter ------------------------------
(* LoginRateLimiter with the addresses and the request slots made interchangeable for TLC.   *)
EXTENDS LoginRateLimiter, TLC

Symmetry == Permutations(Threads) \cup Permutations(IP)
=============================================================================
