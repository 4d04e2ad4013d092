----------------------------- MODULE MCCarExport -----------------------------
(* Every traced set and every store over four blocks, and small channels. *)
EXTENDS CarExport

CONSTANTS b1, b2, b3, b4

Blocks  == {b1, b2, b3, b4}
=============================================================================
