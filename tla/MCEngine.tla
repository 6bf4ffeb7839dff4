------------------------------ MODULE MCEngine ------------------------------
(* Instances of Engine for TLC: two workers in the order config/sites.yaml  *)
(* lists them.                                                              *)
EXTENDS Engine

CONSTANTS CLEM, TACC

TwoSites == {CLEM, TACC}

TwoOrder == [s \in TwoSites |-> IF s = CLEM THEN 1 ELSE 2]
=============================================================================
