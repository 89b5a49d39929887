----------------------------- MODULE LabCustody -----------------------------
(***************************************************************************)
(* <case>/chain_of_custody.log of dfirlab (dfirlab/custody.py).            *)
(*                                                                         *)
(* The file is the one of CustodyFile: lines of JSON, each with the hash   *)
(* of its own payload and of the line before it, extended by a process     *)
(* that has read it and does not lock it.  The difference is that          *)
(* append_entry verifies what it has read, and raises if the log does not  *)
(* verify: a fork stops the log for good.                                  *)
(***************************************************************************)
EXTENDS CustodyFile

\* Mutant: append_entry does not verify what it has read.
read_and_verify_Trusts(w) == ReadTail(w)

\* append_entry up to prev_hash.  read_entries raises on a line that does not
\* parse, and append_entry on a chain that does not verify.
read_and_verify(w) ==
  /\ verify_chain(log)
  /\ ReadTail(w)

LabNext ==
  \/ \E w \in Writers : read_and_verify(w)
  \/ \E w \in Writers, b \in Bodies : WriteEntry(w, b)
  \/ \E w \in Writers : AbandonAppend(w)
  \/ \E w \in Writers : TearLine(w)
  \/ \E k \in 0..Len(log) : PowerLoss(k)

LabSpec == Init /\ [][LabNext]_vars

-----------------------------------------------------------------------------
Prefix(k) == SubSeq(log, 1, k)

\* An entry always extends a prefix of the log that verifies, however appends
\* interleave: the log may fork, but nothing is ever built on a fork.
EntriesExtendVerified ==
  \A i \in 1..Len(log) :
    \E k \in 0..(i - 1) :
      verify_chain(Prefix(k)) /\ log[i].prev_hash = last_entry_hash(Prefix(k))
=============================================================================
