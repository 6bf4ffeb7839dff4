------------------------------ MODULE MCSubmit ------------------------------
(* A few submissions to one submit node for TLC.                           *)
EXTENDS Submit
=============================================================================
