---------------------------- MODULE MCCaseRecords ----------------------------
(* Instance of CaseRecords for TLC.                                         *)
EXTENDS CaseRecords, TLC

CONSTANTS a, b

SomeRequests ==
  {[cmd |-> "create"], [cmd |-> "log"],
   [cmd |-> "ioc", value |-> a], [cmd |-> "ioc", value |-> b],
   [cmd |-> "index", values |-> {a}], [cmd |-> "index", values |-> {a, b}]}

Symmetry == Permutations(Reqs)
=============================================================================
