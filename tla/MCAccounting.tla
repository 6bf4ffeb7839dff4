---------------------------- MODULE MCAccounting ----------------------------
(* Instances of Accounting for TLC.                                        *)
EXTENDS Accounting

CONSTANTS CLEM, TACC

TwoSites == {CLEM, TACC}

=============================================================================
