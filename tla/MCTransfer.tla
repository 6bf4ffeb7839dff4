----------------------------- MODULE MCTransfer -----------------------------
(* Instances of Transfer for TLC: one pair of workers.                     *)
EXTENDS Transfer

CONSTANTS CLEM, TACC

TwoSites == {CLEM, TACC}

=============================================================================
