----------------------------- MODULE PathSearch -----------------------------
(***************************************************************************)
(* The breadth-first search that finds the rack path of a transfer         *)
(* (fabric_metrics.py, FabricNetworkModel._shortest_path).  The neighbours *)
(* of a rack are queued in any order: the code's is the one in which the   *)
(* metrics API listed the links.                                           *)
(***************************************************************************)
EXTENDS Integers, Sequences, SequencesExt, FiniteSets

\* adj[a], of a set of links, each a pair of racks.
Adjacent(a, links) == {b \in UNION links : {a, b} \in links /\ b # a}

\* A rack counted as seen when it is taken from the queue...
Neighbours_dequeued(a, prev, queue, links) ==
    Adjacent(a, links) \ (DOMAIN prev \ ToSet(queue))

\* ... or when it is put there, which is when its prev is set.
Neighbours(a, prev, queue, links) == Adjacent(a, links) \ DOMAIN prev

\* The walk back along prev, reversed: back[k] is the rack k links before dst.
Back(dst, prev) ==
    LET back[k \in Nat] == IF k = 0 THEN dst ELSE prev[back[k - 1]]
    IN  back

PathTo(dst, src, prev) ==
    LET back == Back(dst, prev)
        hops == CHOOSE k \in 0 .. Cardinality(DOMAIN prev) :
                    back[k] = src /\ \A j \in 0 .. k - 1 : back[j] # src
    IN  [i \in 1 .. hops + 1 |-> back[hops + 1 - i]]

\* A search under way is the racks to look at, and how each rack seen was reached.
\* One turn of the loop leads to a search for each order of the neighbours.
Turns(s, links) ==
    LET cur  == Head(s.queue)
        new  == Neighbours(cur, s.prev, Tail(s.queue), links)
        prev == [r \in DOMAIN s.prev \cup new |-> IF r \in new THEN cur ELSE s.prev[r]]
    IN  {[queue |-> Tail(s.queue) \o order, prev |-> prev] : order \in SetToSeqs(new)}

Finds(s, dst) == s.queue # <<>> /\ Head(s.queue) = dst
Goes(s, dst)  == s.queue # <<>> /\ Head(s.queue) # dst

\* The searches after each number of turns.
Explore(src, dst, links) ==
    LET after[k \in Nat] ==
            IF k = 0 THEN {[queue |-> <<src>>, prev |-> [r \in {src} |-> src]]}
            ELSE UNION {Turns(s, links) : s \in {t \in after[k - 1] : Goes(t, dst)}}
    IN  after

\* The paths a search may return, none if its queue runs empty: every rack is
\* looked at once, so there are no more turns than racks.
shortest_path(src, dst, links) ==
    LET after == Explore(src, dst, links)
        found == {s \in UNION {after[k] : k \in 0 .. Cardinality(UNION links)} :
                     Finds(s, dst)}
    IN  IF {src, dst} \subseteq UNION links
        THEN {PathTo(dst, src, s.prev) : s \in found} ELSE {}

-----------------------------------------------------------------------------
(* What the search is to return                                            *)

\* The racks at most n links away.
Near(src, links) ==
    LET near[k \in Nat] ==
            IF k = 0 THEN {src}
            ELSE near[k - 1] \cup
                     {b \in UNION links : \E a \in near[k - 1] : {a, b} \in links}
    IN  near

Within(n, src, links) == Near(src, links)[n]

\* Every path that may be returned is a walk over links from src to dst, no walk
\* has fewer links, and one is returned whenever dst can be reached.
SearchIsRight(src, dst, links) ==
    LET found == shortest_path(src, dst, links)
    IN  /\ \A p \in found :
              /\ p[1] = src /\ p[Len(p)] = dst
              /\ \A i \in 1 .. Len(p) - 1 : {p[i], p[i + 1]} \in links
              /\ \A n \in 0 .. Len(p) - 2 : dst \notin Within(n, src, links)
        /\ found = {} => \/ src \notin UNION links
                         \/ dst \notin Within(Cardinality(UNION links), src, links)
=============================================================================
