--------------------------- MODULE MCJobPipeline ---------------------------
(* Instances of JobPipeline for TLC: sets of requests.                      *)
EXTENDS JobPipeline, TLC

\* A job that a module can do, with everything in the database.
GoodRequests == {[via |-> "api", module |-> "inventory",
    case |-> "row", evidence |-> "row"]}

\* A job that can run and one whose evidence does not exist.
GoodAndBadRequests ==
  GoodRequests \cup
    {[via |-> "api", module |-> "inventory", case |-> "row", evidence |-> "no_row"]}

\* Those, and one request of each kind that the handler or the worker treats in a
\* way of its own: refused, run without evidence, rejected by the worker.
MixedRequests ==
  GoodAndBadRequests \cup
    {[via |-> "api", module |-> "inventory", case |-> "row", evidence |-> "none"],
     [via |-> "api", module |-> "report", case |-> "row", evidence |-> "none"],
     [via |-> "script", module |-> "unsupported", case |-> "row", evidence |-> "row"],
     [via |-> "script", module |-> "inventory", case |-> "row", evidence |-> "none"]}

Symmetry == Permutations(Jobs) \cup Permutations(Workers)
=============================================================================
