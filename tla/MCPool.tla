------------------------------- MODULE MCPool -------------------------------
(* Two workers, and the pairs of deployments an instance starts from.      *)
EXTENDS Pool

Sound == [start |-> 0, span |-> 40, first |-> 0, last |-> 40, accel |-> 2,
          checkable |-> TRUE, stamped |-> TRUE, clock |-> 0, injections |-> 0]

Injected(d) == [d EXCEPT !.injections = 1]

Skewed(by) == [Sound EXCEPT !.clock = by]

Both(a, b) == [n \in Nodes |-> IF n = Min(Nodes) THEN a ELSE b]

\* Two sound nodes with clocks that are right, slow and fast; and a sound one
\* beside one with less coverage; a trace staged at another time; a period of
\* its own; another speed; an older publisher; no pair of clocks.
MCPools ==
    {Both(Sound, Injected(Sound)), Both(Skewed(-4), Sound), Both(Skewed(-4), Skewed(2))}
    \cup {Both(Sound, other) : other \in
             {Injected([Skewed(2) EXCEPT !.first = 5, !.last = 7]), [Sound EXCEPT !.start = 20],
              [Sound EXCEPT !.span = 30], [Sound EXCEPT !.accel = 3],
              [Sound EXCEPT !.checkable = FALSE], [Skewed(-4) EXCEPT !.stamped = FALSE]}}
=============================================================================
