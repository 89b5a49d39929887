----------------------------- MODULE MCLabCase -----------------------------
(* Instance of LabCase for TLC: inits, shows, imports, verifies, analyses   *)
(* with and without findings.                                               *)
EXTENDS LabCase, TLC

SomeRequests ==
  {[cmd |-> "init"], [cmd |-> "show"], [cmd |-> "import"], [cmd |-> "verify"],
   [cmd |-> "analyse", findings |-> 0], [cmd |-> "analyse", findings |-> 2]}

Symmetry == Permutations(Writers)
=============================================================================
