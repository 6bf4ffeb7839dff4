---------------------------- MODULE TrainingRun ----------------------------
(***************************************************************************)
(* What a chained training run promises, with no jobs, hosts, attempts or  *)
(* files: the surviving model passes through Segments segments, each one   *)
(* training it further than the last, and the run ends, either with every  *)
(* segment behind it or as a failure.  Chain.tla implements it.            *)
(***************************************************************************)
EXTENDS Naturals

CONSTANT Segments

VARIABLES segments,   \* training segments that completed
          steps,      \* gradient steps behind the surviving checkpoint
          outcome     \* "running", "done" or "failed"

vars == <<segments, steps, outcome>>

Init == segments = 0 /\ steps = 0 /\ outcome = "running"

\* One more segment has trained the model the segment before it left.
CompleteSegment ==
    /\ outcome = "running"
    /\ segments < Segments
    /\ segments' = segments + 1
    /\ steps' > steps
    /\ UNCHANGED outcome

Succeed ==
    /\ outcome = "running"
    /\ segments = Segments
    /\ outcome' = "done"
    /\ UNCHANGED <<segments, steps>>

Fail ==
    /\ outcome = "running"
    /\ outcome' = "failed"
    /\ UNCHANGED <<segments, steps>>

Next == CompleteSegment \/ Succeed \/ Fail

\* No run is left hanging.
Ends == <>(outcome # "running")

Spec == Init /\ [][Next]_vars /\ Ends
=============================================================================
