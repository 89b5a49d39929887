---------------------------- MODULE MCLabEvidence ----------------------------
(* Instances of LabEvidence for TLC: sets of commands.                      *)
EXTENDS LabEvidence, TLC

\* Both imports by copy, an import by reference, and a verify of all.
ImportsAndVerify ==
  {[cmd |-> c, label |-> l, source |-> s, mode |-> "copy"] :
     c \in {"ingest", "import_image"}, l \in Labels, s \in Sources}
    \cup
  {[cmd |-> "ingest", label |-> l, source |-> s, mode |-> "reference"] :
     l \in Labels, s \in Sources}
    \cup
  {[cmd |-> "verify", label |-> "all"]}

\* Imports by copy, and verifies of a label.
CopiesAndVerify ==
  {r \in ImportsAndVerify : r.cmd # "verify" /\ r.mode = "copy"}
    \cup
  [cmd : {"verify"}, label : Labels]

Symmetry == Permutations(Procs) \cup Permutations(Labels) \cup Permutations(Sources) \cup Permutations(Contents)
=============================================================================
