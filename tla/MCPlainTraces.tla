---------------------------- MODULE MCPlainTraces ----------------------------
(***************************************************************************)
(* The instances of MCExtract whose failures the replay can see.           *)
(***************************************************************************)
EXTENDS MCExtract, PlainTraces
=============================================================================
