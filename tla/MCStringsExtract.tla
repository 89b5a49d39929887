-------------------------- MODULE MCStringsExtract --------------------------
(* Instance of StringsExtract for TLC: every file up to a length.           *)
EXTENDS StringsExtract
=============================================================================
