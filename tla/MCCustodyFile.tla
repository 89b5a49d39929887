--------------------------- MODULE MCCustodyFile ---------------------------
(* Instance of CustodyFile for TLC: an API thread, a worker process and a   *)
(* report being written, and two kinds of event (see the .cfg files).       *)
EXTENDS CustodyFile
=============================================================================
