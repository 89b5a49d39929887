------------------------------ MODULE MCIngest ------------------------------
(* Instances of Ingest for TLC: sets of requests.                           *)
EXTENDS Ingest

\* The ways through the two endpoints, refusals included.
MixedRequests ==
  {[via |-> "import", file |-> f, case |-> "row", size |-> "fits"] : f \in Files}
    \cup
  {[via |-> "upload", file |-> f, case |-> "row", size |-> s] :
     f \in Files, s \in {"fits", "too large"}}
    \cup
  {[via |-> v, file |-> f, case |-> "no row", size |-> "fits"] :
     v \in {"import", "upload"}, f \in Files}
=============================================================================
