------------------------------ MODULE MCChain ------------------------------
(* A small chain for TLC.  The sites are interchangeable to the code.      *)
EXTENDS Chain
=============================================================================
