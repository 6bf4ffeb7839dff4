----------------------------- MODULE MCConsole -----------------------------
(* The dashboard over a few submissions for TLC.                           *)
EXTENDS Console
=============================================================================
