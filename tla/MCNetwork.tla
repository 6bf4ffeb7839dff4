----------------------------- MODULE MCNetwork ------------------------------
(* Two managed sites, a direct link and a detour over a transit rack; a link *)
(* is idle or full.  The migrations are one over the relay and four over the *)
(* dataplane: two below the size that measures a bandwidth, one of them with *)
(* an absurd downtime, and two above it, of different rates, the faster of   *)
(* which takes less than the setup of the smaller ones.                      *)
EXTENDS Network

CONSTANTS CLEM, TACC, WASH

ThreeRacks == {CLEM, TACC, WASH}
TwoPaths   == {{CLEM, TACC}, {CLEM, WASH}, {WASH, TACC}}

SomeMoves ==
    {[method |-> "dataplane", size |-> 2,  seconds |-> 3,  downtime |-> 9],
     [method |-> "dataplane", size |-> 2,  seconds |-> 5,  downtime |-> 1],
     [method |-> "dataplane", size |-> 28, seconds |-> 20, downtime |-> 26],
     [method |-> "dataplane", size |-> 10, seconds |-> 2,  downtime |-> 7],
     [method |-> "relay",     size |-> 28, seconds |-> 40, downtime |-> 49]}

=============================================================================
