-------------------------- MODULE MCLoginRateLimit --------------------------
(* Instance of LoginRateLimit for TLC: interchangeable processes.           *)
EXTENDS LoginRateLimit, TLC

Symmetry == Permutations(Procs)
=============================================================================
