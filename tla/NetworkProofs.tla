--------------------------- MODULE NetworkProofs ----------------------------
(***************************************************************************)
(* Theorems about the migration veto (Network), for any racks, links,      *)
(* utilisations and migrations: the search finds a shortest path of any    *)
(* graph, a veto rests on a recent answer of the metrics API, and a        *)
(* predicted downtime stays within what migrations really cost.            *)
(***************************************************************************)
EXTENDS Network, TLAPS, FiniteSetTheorems, SequenceTheorems

----------------------------------------------------------------------------
(* Induction and recursion over the naturals, by sets and functions.       *)

\* Induction over the naturals, for a set of them.
LEMMA NatByStep ==
    ASSUME NEW S, 0 \in S, \A n \in Nat : n \in S => n + 1 \in S
    PROVE  Nat \subseteq S
<1> SUFFICES ASSUME Nat \ S # {} PROVE FALSE
  OBVIOUS
<1> DEFINE less == OpToRel(<, Nat)
<1>1. IsWellFoundedOn(less, Nat)
  BY NatLessThanWellFounded
<1> HIDE DEF less
<1>2. PICK x \in Nat \ S : \A y \in Nat \ S : ~ (<<y, x>> \in less)
  BY <1>1, WFMin
<1>3. x # 0 /\ x - 1 \in Nat /\ (x - 1) + 1 = x
  BY <1>2
<1>4. <<x - 1, x>> \in less
  BY <1>2, <1>3 DEF less, OpToRel
<1>5. x - 1 \in S
  BY <1>2, <1>3, <1>4
<1> QED
  BY <1>2, <1>3, <1>5

\* A step can be taken any number of times: what a recursive function of the number
\* of steps rests on.
LEMMA Iteration ==
    ASSUME NEW X, NEW a \in X, NEW step \in [X -> X]
    PROVE  \E f \in [Nat -> X] : f[0] = a /\ \A n \in Nat \ {0} : f[n] = step[f[n - 1]]
<1> DEFINE Upto(n) == {f \in [0 .. n -> X] :
                         f[0] = a /\ \A k \in 1 .. n : f[k] = step[f[k - 1]]}
           S == {n \in Nat : Upto(n) # {}}
           U == {n \in Nat : \A f, g \in Upto(n) : f[n] = g[n]}
<1>0. ASSUME NEW n \in Nat, NEW f \in Upto(n)
      PROVE  /\ f \in [0 .. n -> X] /\ f[0] = a
             /\ \A k \in 1 .. n : f[k] = step[f[k - 1]]
  OBVIOUS
<1>1. ASSUME NEW n \in Nat, NEW f \in Upto(n + 1)
      PROVE  [k \in 0 .. n |-> f[k]] \in Upto(n)
  OBVIOUS
<1>2. Nat \subseteq S
  <2>1. 0 \in S
    <3>1. [k \in 0 .. 0 |-> a] \in Upto(0)
      OBVIOUS
    <3> QED
      BY <3>1
  <2>2. ASSUME NEW n \in Nat, n \in S PROVE n + 1 \in S
    <3>1. PICK f : f \in Upto(n)
      BY <2>2
    <3>2. [k \in 0 .. n + 1 |-> IF k = n + 1 THEN step[f[n]] ELSE f[k]] \in Upto(n + 1)
      BY <3>1
    <3> QED
      BY <3>2
  <2> QED
    BY <2>1, <2>2, NatByStep
<1>3. Nat \subseteq U
  <2>1. 0 \in U
    OBVIOUS
  <2>2. ASSUME NEW n \in Nat, n \in U PROVE n + 1 \in U
    <3>1. ASSUME NEW f \in Upto(n + 1), NEW g \in Upto(n + 1)
          PROVE  f[n + 1] = g[n + 1]
      <4> DEFINE ff == [k \in 0 .. n |-> f[k]]
                 gg == [k \in 0 .. n |-> g[k]]
      <4>1. ff \in Upto(n) /\ gg \in Upto(n)
        BY <1>1
      <4> HIDE DEF Upto
      <4>2. f[n] = g[n]
        <5>1. ff[n] = f[n] /\ gg[n] = g[n]
          OBVIOUS
        <5> HIDE DEF ff, gg
        <5> QED
          BY <2>2, <4>1, <5>1
      <4>3. n + 1 \in Nat /\ n + 1 \in 1 .. n + 1 /\ (n + 1) - 1 = n
        OBVIOUS
      <4>4. f[n + 1] = step[f[n]] /\ g[n + 1] = step[g[n]]
        BY <1>0, <4>3
      <4> QED
        BY <4>2, <4>4
    <3> QED
      BY <3>1
  <2> QED
    BY <2>1, <2>2, NatByStep
<1> DEFINE of == [n \in Nat |-> CHOOSE f : f \in Upto(n)]
           all == [n \in Nat |-> of[n][n]]
<1>4. \A n \in Nat : of[n] \in Upto(n)
  BY <1>2
<1>5. all \in [Nat -> X] /\ all[0] = a
  <2>1. ASSUME NEW n \in Nat PROVE all[n] \in X
    <3>2. all[n] = of[n][n]
      OBVIOUS
    <3> HIDE DEF Upto, of, all
    <3>1. of[n] \in Upto(n) /\ n \in 0 .. n
      BY <1>4
    <3>3. of[n] \in [0 .. n -> X]
      BY <1>0, <3>1
    <3> QED
      BY <3>1, <3>2, <3>3
  <2>2. all[0] = of[0][0]
    OBVIOUS
  <2>3. of[0] \in Upto(0)
    BY <1>4
  <2> HIDE DEF Upto, of
  <2> QED
    BY <1>0, <2>1, <2>2, <2>3
<1>6. ASSUME NEW n \in Nat \ {0} PROVE all[n] = step[all[n - 1]]
  <2>1. n - 1 \in Nat /\ (n - 1) + 1 = n
    OBVIOUS
  <2>2. of[n] \in Upto(n)
    BY <1>4
  <2> DEFINE f == of[n]
             g == of[n - 1]
  <2>3. f \in Upto(n) /\ g \in Upto(n - 1)
    BY <1>4, <2>1
  <2>4. [k \in 0 .. n - 1 |-> f[k]] \in Upto(n - 1)
    <3> HIDE DEF Upto, f
    <3> QED BY <1>1, <2>1, <2>3
  <2>5. [k \in 0 .. n - 1 |-> f[k]][n - 1] = g[n - 1]
    <3> HIDE DEF Upto, f, g
    <3> QED BY <1>3, <2>1, <2>3, <2>4
  <2>6. n \in 1 .. n
    OBVIOUS
  <2>7. f[n] = step[f[n - 1]]
    <3> HIDE DEF Upto, f, g
    <3> QED BY <1>0, <2>3, <2>6
  <2> QED
    BY <2>1, <2>5, <2>7
<1> QED
  BY <1>5, <1>6

----------------------------------------------------------------------------
(* What is near, the way back and the orders of a set.                     *)

\* The racks at most n links away are those and their neighbours one link on.
LEMMA NearIs ==
    ASSUME NEW src, NEW L
    PROVE  /\ Near(src, L)[0] = {src}
           /\ \A n \in Nat : \A b : b \in Near(src, L)[n + 1] <=>
                  \/ b \in Near(src, L)[n]
                  \/ b \in UNION L /\ \E a \in Near(src, L)[n] : {a, b} \in L
<1> DEFINE Is(f) == f = [k \in Nat |-> IF k = 0 THEN {src} ELSE f[k - 1] \cup
                            {b \in UNION L : \E a \in f[k - 1] : {a, b} \in L}]
           X == SUBSET ((UNION L) \cup {src})
           step == [A \in X |-> A \cup {b \in UNION L : \E a \in A : {a, b} \in L}]
<1>1. \E f : Is(f)
  <2>1. step \in [X -> X] /\ {src} \in X
    OBVIOUS
  <2>2. PICK f \in [Nat -> X] :
            f[0] = {src} /\ \A n \in Nat \ {0} : f[n] = step[f[n - 1]]
    <3> HIDE DEF step, X
    <3> QED BY <2>1, Iteration
  <2>3. ASSUME NEW n \in Nat \ {0}
        PROVE  f[n] = f[n - 1] \cup {b \in UNION L : \E a \in f[n - 1] : {a, b} \in L}
    <3>1. n - 1 \in Nat
      OBVIOUS
    <3>2. f[n - 1] \in X /\ f[n] = step[f[n - 1]]
      <4> HIDE DEF step, X
      <4> QED BY <2>2, <3>1
    <3> QED
      BY <3>2
  <2> HIDE DEF X, step
  <2>4. Is(f)
    BY <2>2, <2>3
  <2> QED
    BY <2>4
<1>2. Near(src, L) = CHOOSE f : Is(f)
  BY DEF Near
<1>3. Is(Near(src, L))
  <2> HIDE DEF Is
  <2> QED BY <1>1, <1>2, Zenon
<1>4. \A k \in Nat : Near(src, L)[k] = IF k = 0 THEN {src} ELSE Near(src, L)[k - 1] \cup
                            {b \in UNION L : \E a \in Near(src, L)[k - 1] : {a, b} \in L}
  BY <1>3, Zenon
<1>5. Near(src, L)[0] = {src}
  BY <1>4
<1>6. ASSUME NEW k \in Nat \ {0}, NEW b
      PROVE  b \in Near(src, L)[k] <=>
                 \/ b \in Near(src, L)[k - 1]
                 \/ b \in UNION L /\ \E a \in Near(src, L)[k - 1] : {a, b} \in L
  BY <1>4
<1>7. ASSUME NEW n \in Nat
      PROVE  \A b : b \in Near(src, L)[n + 1] <=>
                 \/ b \in Near(src, L)[n]
                 \/ b \in UNION L /\ \E a \in Near(src, L)[n] : {a, b} \in L
  <2>1. n + 1 \in Nat \ {0} /\ (n + 1) - 1 = n
    OBVIOUS
  <2> QED
    BY <1>6, <2>1
<1> QED
  BY <1>5, <1>7

LEMMA NearGrows ==
    ASSUME NEW src, NEW L, NEW k \in Nat, NEW n \in Nat, k <= n
    PROVE  Near(src, L)[k] \subseteq Near(src, L)[n]
<1> DEFINE near == Near(src, L)
           S == {m \in Nat : near[k] \subseteq near[k + m]}
<1> HIDE DEF near
<1>1. 0 \in S
  OBVIOUS
<1>2. ASSUME NEW m \in Nat, m \in S PROVE m + 1 \in S
  <2>1. k + m \in Nat /\ k + (m + 1) = (k + m) + 1
    OBVIOUS
  <2>2. near[k + m] \subseteq near[(k + m) + 1]
    BY <2>1, NearIs DEF near
  <2> QED
    BY <1>2, <2>1, <2>2
<1>3. n - k \in Nat /\ k + (n - k) = n
  OBVIOUS
<1>4. n - k \in S
  BY <1>1, <1>2, <1>3, NatByStep
<1> QED
  BY <1>3, <1>4 DEF near

\* What is closed under links and holds src holds all that is near it.
LEMMA NearStays ==
    ASSUME NEW src, NEW L, NEW C, src \in C,
           \A a \in C, b \in UNION L : {a, b} \in L => b \in C,
           NEW n \in Nat
    PROVE  Near(src, L)[n] \subseteq C
<1> DEFINE S == {m \in Nat : Near(src, L)[m] \subseteq C}
<1>1. 0 \in S
  BY NearIs
<1>2. ASSUME NEW m \in Nat, m \in S PROVE m + 1 \in S
  <2>1. m + 1 \in Nat \ {0} /\ (m + 1) - 1 = m
    OBVIOUS
  <2>3. ASSUME NEW b \in Near(src, L)[m + 1] PROVE b \in C
    <3>1. CASE b \in Near(src, L)[m]
      BY <1>2, <3>1
    <3>2. CASE b \in UNION L /\ \E a \in Near(src, L)[m] : {a, b} \in L
      <4>1. PICK a \in Near(src, L)[m] : {a, b} \in L
        BY <3>2
      <4>2. a \in C
        BY <1>2
      <4> QED
        BY <3>2, <4>1, <4>2
    <3> QED
      BY NearIs, <3>1, <3>2
  <2> QED
    BY <2>1, <2>3
<1>3. n \in S
  BY <1>1, <1>2, NatByStep
<1> QED
  BY <1>3

LEMMA BackIs ==
    ASSUME NEW D, NEW prev \in [D -> D], NEW dst \in D
    PROVE  /\ Back(dst, prev) \in [Nat -> D] /\ Back(dst, prev)[0] = dst
           /\ \A k \in Nat \ {0} : Back(dst, prev)[k] = prev[Back(dst, prev)[k - 1]]
<1> DEFINE Is(f) == f = [k \in Nat |-> IF k = 0 THEN dst ELSE prev[f[k - 1]]]
<1>1. PICK f \in [Nat -> D] : f[0] = dst /\ \A n \in Nat \ {0} : f[n] = prev[f[n - 1]]
  BY Iteration
<1>2. Is(f)
  BY <1>1
<1>3. Back(dst, prev) = CHOOSE g : Is(g)
  BY DEF Back
<1>4. Is(Back(dst, prev))
  <2> HIDE DEF Is
  <2> QED BY <1>2, <1>3, Zenon
<1> DEFINE back == Back(dst, prev)
<1> HIDE DEF back
<1>5. Is(back)
  BY <1>4 DEF back
<1>6. back[0] = dst /\ \A k \in Nat \ {0} : back[k] = prev[back[k - 1]]
  BY <1>5
<1> DEFINE S == {m \in Nat : back[m] \in D}
<1>7. 0 \in S
  BY <1>6
<1>8. ASSUME NEW m \in Nat, m \in S PROVE m + 1 \in S
  <2>1. m + 1 \in Nat \ {0} /\ (m + 1) - 1 = m
    OBVIOUS
  <2>2. back[m + 1] = prev[back[m]]
    BY <1>6, <2>1
  <2> QED
    BY <1>8, <2>1, <2>2
<1>9. Nat \subseteq S
  <2> HIDE DEF S
  <2> QED BY <1>7, <1>8, NatByStep
<1>10. back \in [Nat -> D]
  BY <1>5, <1>9
<1> QED
  BY <1>6, <1>10 DEF back

LEMMA BackSteps ==
    ASSUME NEW D, NEW prev \in [D -> D], NEW dst \in D, NEW k \in Nat
    PROVE  /\ Back(dst, prev)[k] \in D
           /\ Back(dst, prev)[k + 1] = prev[Back(dst, prev)[k]]
<1> DEFINE back == Back(dst, prev)
<1>1. /\ back \in [Nat -> D]
      /\ \A n \in Nat \ {0} : back[n] = prev[back[n - 1]]
  BY BackIs
<1> HIDE DEF back
<1>2. k + 1 \in Nat \ {0} /\ (k + 1) - 1 = k
  OBVIOUS
<1> QED
  BY <1>1, <1>2 DEF back

\* A set can be put in order, and an order has each of its members.
LEMMA OrdersAre ==
    ASSUME NEW S, IsFiniteSet(S)
    PROVE  /\ SetToSeqs(S) # {}
           /\ \A order \in SetToSeqs(S) :
                 /\ order \in Seq(S) /\ Len(order) = Cardinality(S)
                 /\ \A r \in S : \E i \in 1 .. Len(order) : order[i] = r
<1> DEFINE D == 1 .. Cardinality(S)
<1>1. Cardinality(S) \in Nat /\ ExistsBijection(D, S)
  BY FS_CardinalityType
<1>2. IsFiniteSet(D) /\ Cardinality(D) = Cardinality(S)
  BY <1>1, FS_Interval
<1>3. SetToSeqs(S) = Injection(D, S)
  BY DEF SetToSeqs, Injection, IsInjective
<1>4. SetToSeqs(S) # {}
  BY <1>1, <1>3 DEF ExistsBijection, Bijection
<1>5. ASSUME NEW order \in SetToSeqs(S)
      PROVE  /\ order \in Seq(S) /\ Len(order) = Cardinality(S)
             /\ \A r \in S : \E i \in 1 .. Len(order) : order[i] = r
  <2>1. order \in Injection(D, S)
    BY <1>3
  <2>2. order \in Surjection(D, S)
    BY <1>2, <2>1, FS_Injection
  <2>3. order \in [D -> S]
    BY <2>2 DEF Surjection
  <2>4. order \in Seq(S) /\ Len(order) = Cardinality(S)
    BY <1>1, <2>3
  <2> QED
    BY <2>2, <2>4 DEF Surjection
<1> QED
  BY <1>4, <1>5

----------------------------------------------------------------------------
(* The turns of the search.                                                *)

\* What the searches are made of.
Searches(L) ==
    [queue : Seq(UNION L), prev : UNION {[S -> UNION L] : S \in SUBSET UNION L}]

\* A search that has not begun.
Start(src) == [queue |-> <<src>>, prev |-> [r \in {src} |-> src]]

\* The racks a search meets at the head of its queue.
Unseen(s, L) == Adjacent(s.queue[1], L) \ DOMAIN s.prev

\* The head of a queue leaves it and new racks are put at its end.
QueuedBehind(new, queue, after) ==
    /\ Len(after) = Len(queue) - 1 + Cardinality(new)
    /\ \A i \in 1 .. Len(queue) - 1 : after[i] = queue[i + 1]
    /\ \A i \in Len(queue) .. Len(after) : after[i] \in new
    /\ \A r \in new : \E i \in Len(queue) .. Len(after) : after[i] = r

LEMMA QueuedIs ==
    ASSUME NEW U, NEW queue \in Seq(U), queue # <<>>,
           NEW new \in SUBSET U, IsFiniteSet(new), NEW order \in SetToSeqs(new)
    PROVE  /\ QueuedBehind(new, queue, Tail(queue) \o order)
           /\ Tail(queue) \o order \in Seq(U)
<1>1. /\ order \in Seq(new) /\ Len(order) = Cardinality(new)
      /\ \A r \in new : \E i \in 1 .. Len(order) : order[i] = r
  BY OrdersAre
<1>2. order \in Seq(U) /\ Len(order) \in Nat
  BY <1>1, SeqMonotonic
<1> DEFINE tail == Tail(queue)
           after == tail \o order
<1>3. /\ tail \in Seq(U) /\ Len(tail) \in Nat /\ Len(queue) = Len(tail) + 1
      /\ \A i \in 1 .. Len(tail) : tail[i] = queue[i + 1]
  OBVIOUS
<1> HIDE DEF tail
<1>4. /\ after \in Seq(U)
      /\ Len(after) = Len(tail) + Len(order)
      /\ \A i \in 1 .. Len(tail) + Len(order) :
            after[i] = IF i <= Len(tail) THEN tail[i] ELSE order[i - Len(tail)]
  BY <1>2, <1>3, ConcatProperties
<1> HIDE DEF after
<1>5. \A i \in 1 .. Len(queue) - 1 : after[i] = queue[i + 1]
  BY <1>2, <1>3, <1>4
<1>6. ASSUME NEW i \in Len(queue) .. Len(after)
      PROVE  after[i] \in new
  <2>1. i \in 1 .. Len(tail) + Len(order) /\ ~(i <= Len(tail))
        /\ i - Len(tail) \in 1 .. Len(order)
    BY <1>2, <1>3, <1>4
  <2>2. order[i - Len(tail)] \in new
    BY <1>1, <2>1, ElementOfSeq
  <2> QED
    BY <1>4, <2>1, <2>2
<1>7. ASSUME NEW r \in new
      PROVE  \E i \in Len(queue) .. Len(after) : after[i] = r
  <2>1. PICK j \in 1 .. Len(order) : order[j] = r
    BY <1>1
  <2>2. /\ j + Len(tail) \in Len(queue) .. Len(after)
        /\ j + Len(tail) \in 1 .. Len(tail) + Len(order)
        /\ ~(j + Len(tail) <= Len(tail))
        /\ (j + Len(tail)) - Len(tail) = j
    BY <1>2, <1>3, <1>4
  <2>3. after[j + Len(tail)] = order[(j + Len(tail)) - Len(tail)]
    BY <1>4, <2>2
  <2> QED
    BY <2>1, <2>2, <2>3
<1>8. Len(after) = Len(queue) - 1 + Cardinality(new)
  BY <1>1, <1>2, <1>3, <1>4
<1> QED
  BY <1>4, <1>5, <1>6, <1>7, <1>8 DEF QueuedBehind, after, tail

\* One turn: the head is replaced at the back by its unseen neighbours, in some
\* order, and is what they were reached from.
LEMMA TurnIs ==
    ASSUME NEW L, IsFiniteSet(UNION L), NEW s \in Searches(L), s.queue # <<>>
    PROVE  /\ Turns(s, L) # {}
           /\ \A t \in Turns(s, L) :
                 /\ t \in Searches(L)
                 /\ DOMAIN t.prev = DOMAIN s.prev \cup Unseen(s, L)
                 /\ \A r \in DOMAIN t.prev :
                       t.prev[r] = IF r \in Unseen(s, L) THEN s.queue[1] ELSE s.prev[r]
                 /\ QueuedBehind(Unseen(s, L), s.queue, t.queue)
<1> DEFINE cur == s.queue[1]
           new == Unseen(s, L)
<1>1. /\ s.queue \in Seq(UNION L) /\ Len(s.queue) \in Nat \ {0}
      /\ DOMAIN s.prev \subseteq UNION L
      /\ s.prev \in [DOMAIN s.prev -> UNION L]
  BY DEF Searches
<1>2. cur = Head(s.queue) /\ cur \in UNION L
  BY <1>1
<1>3. new \subseteq UNION L /\ IsFiniteSet(new) /\ Cardinality(new) \in Nat
  <2>1. new \subseteq UNION L
    BY DEF Adjacent, Unseen
  <2> HIDE DEF new
  <2> QED
    BY <2>1, FS_Subset, FS_CardinalityType
<1> DEFINE prev == [r \in DOMAIN s.prev \cup new |-> IF r \in new THEN cur ELSE s.prev[r]]
           tail == Tail(s.queue)
<1>4. /\ DOMAIN prev \in SUBSET UNION L /\ DOMAIN prev = DOMAIN s.prev \cup new
      /\ \A r \in DOMAIN prev : prev[r] = IF r \in new THEN cur ELSE s.prev[r]
      /\ prev \in UNION {[S -> UNION L] : S \in SUBSET UNION L}
  <2>1. /\ DOMAIN prev \in SUBSET UNION L /\ DOMAIN prev = DOMAIN s.prev \cup new
        /\ prev \in [DOMAIN prev -> UNION L]
        /\ \A r \in DOMAIN prev : prev[r] = IF r \in new THEN cur ELSE s.prev[r]
    BY <1>1, <1>2, <1>3
  <2> HIDE DEF prev
  <2> QED
    BY <2>1
<1>5. /\ tail \in Seq(UNION L) /\ Len(tail) = Len(s.queue) - 1
      /\ Len(tail) \in Nat
      /\ \A i \in 1 .. Len(tail) : tail[i] = s.queue[i + 1]
  BY <1>1
<1>6. Turns(s, L) = {[queue |-> tail \o order, prev |-> prev] : order \in SetToSeqs(new)}
  BY <1>2 DEF Turns, Neighbours, Unseen
<1> HIDE DEF prev, tail, cur, new
<1>7. ASSUME NEW order \in SetToSeqs(new)
      PROVE  QueuedBehind(new, s.queue, tail \o order)
             /\ tail \o order \in Seq(UNION L)
  BY <1>1, <1>3, QueuedIs DEF tail
<1>8. ASSUME NEW t \in Turns(s, L)
      PROVE  /\ t \in Searches(L)
             /\ DOMAIN t.prev = DOMAIN s.prev \cup new
             /\ \A r \in DOMAIN t.prev :
                   t.prev[r] = IF r \in new THEN cur ELSE s.prev[r]
             /\ QueuedBehind(new, s.queue, t.queue)
  <2>1. PICK order \in SetToSeqs(new) : t = [queue |-> tail \o order, prev |-> prev]
    BY <1>6
  <2>2. t.queue = tail \o order /\ t.prev = prev
    BY <2>1
  <2>3. t \in Searches(L)
    BY <1>4, <1>7, <2>1 DEF Searches
  <2> QED
    BY <1>4, <1>7, <2>2, <2>3
<1>9. Turns(s, L) # {}
  <2>1. SetToSeqs(new) # {}
    BY <1>3, OrdersAre, Zenon
  <2> QED
    BY <1>6, <2>1
<1> QED
  BY <1>8, <1>9 DEF cur, new

LEMMA ExploreIs ==
    ASSUME NEW L, IsFiniteSet(UNION L), NEW src \in UNION L, NEW dst
    PROVE  /\ Explore(src, dst, L)[0] = {Start(src)}
           /\ \A n \in Nat :
                 /\ Explore(src, dst, L)[n] \subseteq Searches(L)
                 /\ \A t : t \in Explore(src, dst, L)[n + 1] <=>
                       \E s \in Explore(src, dst, L)[n] : Goes(s, dst) /\ t \in Turns(s, L)
<1> DEFINE start == Start(src)
           On(A) == UNION {Turns(s, L) : s \in {t \in A : Goes(t, dst)}}
           Is(f) == f = [k \in Nat |-> IF k = 0 THEN {start} ELSE On(f[k - 1])]
           X == SUBSET Searches(L)
           step == [A \in X |-> On(A)]
           after == Explore(src, dst, L)
<1>1. {start} \in X
  <2>1. <<src>> \in Seq(UNION L)
    OBVIOUS
  <2>2. [r \in {src} |-> src] \in [{src} -> UNION L] /\ {src} \in SUBSET UNION L
    OBVIOUS
  <2>3. [r \in {src} |-> src] \in UNION {[S -> UNION L] : S \in SUBSET UNION L}
    BY <2>2
  <2> QED
    BY <2>1, <2>3 DEF Searches, Start
<1>2. \A A \in X : On(A) \in X
  <2>1. ASSUME NEW s \in Searches(L), Goes(s, dst), NEW t \in Turns(s, L)
        PROVE  t \in Searches(L)
    <3>2. s.queue # <<>>
      BY <2>1 DEF Goes
    <3> HIDE DEF start, On, Is, X, step, after
    <3>3. \A u \in Turns(s, L) : u \in Searches(L)
      BY <3>2, TurnIs
    <3> QED
      BY <3>3
  <2> QED
    BY <2>1
<1>3. step \in [X -> X]
  <2> HIDE DEF X, On
  <2> QED BY <1>2
<1>4. PICK f \in [Nat -> X] : f[0] = {start} /\ \A n \in Nat \ {0} : f[n] = step[f[n - 1]]
  <2> HIDE DEF X, step, start
  <2> QED BY <1>1, <1>3, Iteration
<1>5. ASSUME NEW n \in Nat \ {0} PROVE f[n] = On(f[n - 1])
  <2>1. n - 1 \in Nat
    OBVIOUS
  <2> HIDE DEF X, On, start
  <2> QED BY <1>4, <2>1
<1>6. Is(f)
  <2> HIDE DEF X, On, step, start
  <2> QED BY <1>4, <1>5
<1>7. after = CHOOSE g : Is(g)
  BY DEF Explore, Start
<1>8. Is(after)
  <2> HIDE DEF Is, after
  <2> QED BY <1>6, <1>7, Zenon
<1> HIDE DEF after
<1>9. after[0] = {start}
  BY <1>8
<1>10. ASSUME NEW n \in Nat PROVE after[n + 1] = On(after[n])
  <2>1. n + 1 \in Nat \ {0} /\ (n + 1) - 1 = n
    OBVIOUS
  <2> HIDE DEF On, start
  <2> QED BY <1>8, <2>1
<1>11. \A n \in Nat : after[n] \in X
  <2> DEFINE S == {n \in Nat : after[n] \in X}
  <2>1. 0 \in S
    BY <1>1, <1>9
  <2>2. ASSUME NEW n \in Nat, n \in S PROVE n + 1 \in S
    <3> HIDE DEF X, On
    <3> QED BY <1>2, <1>10, <2>2
  <2> QED
    <3> HIDE DEF X
    <3> QED BY <2>1, <2>2, NatByStep
<1> QED
  BY <1>9, <1>10, <1>11 DEF after

----------------------------------------------------------------------------
(* What holds of a search under way, d being how far it has each rack seen. *)

\* Each rack seen but src was reached over a link from one that is a link nearer.
Reached(s, d, src, L) ==
    LET seen == DOMAIN s.prev
    IN  /\ src \in seen /\ seen \subseteq UNION L
        /\ s.prev \in [seen -> seen] /\ s.prev[src] = src
        /\ d \in [seen -> Nat] /\ d[src] = 0
        /\ \A r \in seen : d[r] < Cardinality(seen)
        /\ \A r \in seen \ {src} : {s.prev[r], r} \in L /\ d[r] = d[s.prev[r]] + 1

\* The distances are those of the graph.
Nearest(s, d, src, L) ==
    \A r \in DOMAIN s.prev :
        /\ r \in Near(src, L)[d[r]]
        /\ \A n \in 0 .. d[r] - 1 : r \notin Near(src, L)[n]

\* The queue goes outwards, over at most two distances at a time; all that is
\* as near as its head has been seen.
Outwards(s, d, src, L) ==
    LET q == s.queue
    IN  /\ q \in Seq(DOMAIN s.prev)
        /\ \A i, j \in 1 .. Len(q) : i <= j => d[q[i]] <= d[q[j]]
        /\ \A i \in 1 .. Len(q) : d[q[i]] <= d[q[1]] + 1
        /\ q # <<>> => Near(src, L)[d[q[1]]] \subseteq DOMAIN s.prev

\* A rack that left the queue is not the one sought, and its neighbours were seen.
LookedAt(s, dst, L) ==
    \A r \in DOMAIN s.prev :
        \/ \E i \in 1 .. Len(s.queue) : s.queue[i] = r
        \/ r # dst /\ Adjacent(r, L) \subseteq DOMAIN s.prev

Searching(s, d, src, dst, L) ==
    /\ Reached(s, d, src, L) /\ Nearest(s, d, src, L)
    /\ Outwards(s, d, src, L) /\ LookedAt(s, dst, L)

LEMMA SearchStarts ==
    ASSUME NEW L, NEW src \in UNION L, NEW dst
    PROVE  /\ Searching(Start(src), [r \in {src} |-> 0], src, dst, L)
           /\ Len(Start(src).queue) = Cardinality(DOMAIN Start(src).prev)
<1> DEFINE s == Start(src)
           d == [r \in {src} |-> 0]
<1>1. s.queue = <<src>> /\ s.prev = [r \in {src} |-> src] /\ DOMAIN s.prev = {src}
  BY DEF Start
<1> HIDE DEF s
<1>2. Cardinality(DOMAIN s.prev) = 1
  BY <1>1, FS_Singleton
<1>3. Reached(s, d, src, L)
  BY <1>1, <1>2 DEF Reached
<1>4. Near(src, L)[0] = {src}
  BY NearIs
<1>5. Nearest(s, d, src, L)
  BY <1>1, <1>4 DEF Nearest
<1>6. Outwards(s, d, src, L)
  BY <1>1, <1>4 DEF Outwards
<1>7. LookedAt(s, dst, L)
  BY <1>1 DEF LookedAt
<1>8. Len(s.queue) = 1
  BY <1>1
<1> QED
  BY <1>2, <1>3, <1>5, <1>6, <1>7, <1>8 DEF Searching, s

LEMMA SearchTurns ==
    ASSUME NEW L, IsFiniteSet(UNION L), NEW s \in Searches(L), NEW src, NEW dst, NEW d,
           Searching(s, d, src, dst, L), Goes(s, dst), NEW t \in Turns(s, L),
           NEW n \in Nat, n + Len(s.queue) = Cardinality(DOMAIN s.prev)
    PROVE  /\ \E e : Searching(t, e, src, dst, L)
           /\ (n + 1) + Len(t.queue) = Cardinality(DOMAIN t.prev)
<1> DEFINE seen == DOMAIN s.prev
           new  == Unseen(s, L)
           q    == s.queue
           cur  == q[1]
           seen2 == DOMAIN t.prev
           q2   == t.queue
           near == Near(src, L)
           e    == [r \in seen2 |-> IF r \in new THEN d[cur] + 1 ELSE d[r]]
<1>1. /\ src \in seen /\ seen \subseteq UNION L
      /\ s.prev \in [seen -> seen] /\ s.prev[src] = src
      /\ d \in [seen -> Nat] /\ d[src] = 0
      /\ \A r \in seen : d[r] < Cardinality(seen)
      /\ \A r \in seen \ {src} : {s.prev[r], r} \in L /\ d[r] = d[s.prev[r]] + 1
  BY DEF Searching, Reached
<1>2. /\ q \in Seq(seen) /\ q # <<>> /\ Len(q) \in Nat \ {0} /\ cur \in seen /\ cur # dst
      /\ \A i, j \in 1 .. Len(q) : i <= j => d[q[i]] <= d[q[j]]
      /\ \A i \in 1 .. Len(q) : d[q[i]] <= d[cur] + 1 /\ q[i] \in seen
      /\ near[d[cur]] \subseteq seen
  <2>1. q \in Seq(seen) /\ q # <<>>
    BY DEF Searching, Outwards, Goes
  <2>2. Len(q) \in Nat \ {0} /\ cur = Head(q) /\ \A i \in 1 .. Len(q) : q[i] \in seen
    BY <2>1
  <2>3. cur # dst
    BY <2>2 DEF Goes
  <2> QED
    BY <2>1, <2>2, <2>3 DEF Searching, Outwards
<1>3. /\ new \cap seen = {} /\ new \subseteq UNION L
      /\ \A b \in new : {cur, b} \in L
      /\ Adjacent(cur, L) \subseteq seen \cup new
  BY DEF Unseen, Adjacent
<1>4. /\ seen2 = seen \cup new
      /\ \A r \in seen2 : t.prev[r] = IF r \in new THEN cur ELSE s.prev[r]
      /\ QueuedBehind(new, q, q2) /\ t \in Searches(L)
  BY <1>2, TurnIs
<1>5. /\ Len(q2) = Len(q) - 1 + Cardinality(new)
      /\ \A i \in 1 .. Len(q) - 1 : q2[i] = q[i + 1]
      /\ \A i \in Len(q) .. Len(q2) : q2[i] \in new
      /\ \A r \in new : \E i \in Len(q) .. Len(q2) : q2[i] = r
  BY <1>4 DEF QueuedBehind
<1>6. /\ q2 \in Seq(UNION L) /\ Len(q2) \in Nat
      /\ t.prev \in [seen2 -> UNION L]
  <2>1. t.queue \in Seq(UNION L) /\ t.prev \in UNION {[S -> UNION L] : S \in SUBSET UNION L}
    BY <1>4 DEF Searches
  <2>2. t.prev \in [DOMAIN t.prev -> UNION L]
    BY <2>1
  <2> QED
    BY <2>1, <2>2
<1>7. /\ Cardinality(seen2) = Cardinality(seen) + Cardinality(new)
      /\ Cardinality(seen) \in Nat /\ Cardinality(new) \in Nat
      /\ new # {} => Cardinality(new) > 0
  <2> HIDE DEF seen, new
  <2>1. IsFiniteSet(seen) /\ IsFiniteSet(new)
    BY <1>1, <1>3, FS_Subset
  <2>2. Cardinality(seen \cup new) = Cardinality(seen) + Cardinality(new) - Cardinality({})
    BY <1>3, <2>1, FS_Union
  <2> QED
    BY <1>4, <2>1, <2>2, FS_EmptySet, FS_CardinalityType
<1> HIDE DEF seen, new, q, cur, seen2, q2, near
<1>8. /\ e \in [seen2 -> Nat]
      /\ \A r \in seen : e[r] = d[r]
      /\ \A r \in new : e[r] = d[cur] + 1
  BY <1>1, <1>2, <1>3, <1>4
<1> HIDE DEF e
<1>9. \A i \in 1 .. Len(q2) :
         \/ i <= Len(q) - 1 /\ q2[i] \in seen /\ q2[i] = q[i + 1]
         \/ i >= Len(q) /\ q2[i] \in new
  BY <1>2, <1>5, <1>6
<1>10. Reached(t, e, src, L)
  <2>1. t.prev \in [seen2 -> seen2] /\ t.prev[src] = src
    <3>1. \A r \in seen2 : t.prev[r] \in seen2
      BY <1>1, <1>2, <1>4
    <3>2. src \notin new
      BY <1>1, <1>3
    <3> QED
      BY <1>1, <1>4, <1>6, <3>1, <3>2
  <2>2. ASSUME NEW r \in seen2 PROVE e[r] < Cardinality(seen2)
    <3>1. CASE r \in seen
      BY <1>1, <1>7, <1>8, <3>1
    <3>2. CASE r \in new
      <4>1. d[cur] < Cardinality(seen) /\ d[cur] \in Nat
        BY <1>1, <1>2
      <4> QED
        BY <1>7, <1>8, <3>2, <4>1
    <3> QED
      BY <1>4, <3>1, <3>2
  <2>3. ASSUME NEW r \in seen2 \ {src}
        PROVE  {t.prev[r], r} \in L /\ e[r] = e[t.prev[r]] + 1
    <3>1. CASE r \in new
      BY <1>2, <1>3, <1>4, <1>8, <3>1
    <3>2. CASE r \notin new
      <4>1. r \in seen \ {src} /\ t.prev[r] = s.prev[r] /\ s.prev[r] \in seen
        BY <1>1, <1>4, <3>2
      <4> QED
        BY <1>1, <1>8, <4>1
    <3> QED
      BY <3>1, <3>2
  <2>4. src \in seen2 /\ seen2 \subseteq UNION L /\ e[src] = 0
    BY <1>1, <1>3, <1>4, <1>8
  <2> QED
    BY <1>8, <2>1, <2>2, <2>3, <2>4 DEF Reached, seen2
<1>11. Nearest(t, e, src, L)
  <2>1. ASSUME NEW r \in seen
        PROVE  r \in near[d[r]] /\ \A k \in 0 .. d[r] - 1 : r \notin near[k]
    BY <2>1 DEF Searching, Nearest, seen, near
  <2>2. ASSUME NEW r \in new
        PROVE  r \in near[e[r]] /\ \A k \in 0 .. e[r] - 1 : r \notin near[k]
    <3>1. cur \in near[d[cur]] /\ {cur, r} \in L /\ r \in UNION L /\ d[cur] \in Nat
      BY <1>1, <1>2, <1>3, <2>1
    <3>2. r \in near[d[cur] + 1]
      BY <3>1, NearIs DEF near
    <3>3. ASSUME NEW m \in 0 .. d[cur] PROVE r \notin near[m]
      <4>1. near[m] \subseteq near[d[cur]]
        BY <3>1, NearGrows DEF near
      <4> QED
        BY <1>2, <1>3, <4>1
    <3> QED
      BY <1>8, <3>1, <3>2, <3>3
  <2>3. ASSUME NEW r \in seen2
        PROVE  r \in near[e[r]] /\ \A k \in 0 .. e[r] - 1 : r \notin near[k]
    BY <1>4, <1>8, <2>1, <2>2
  <2> QED
    BY <2>3 DEF Nearest, seen2, near
<1>12. LookedAt(t, dst, L)
  <2>1. ASSUME NEW r \in seen2, ~ \E i \in 1 .. Len(q2) : q2[i] = r
        PROVE  r # dst /\ Adjacent(r, L) \subseteq seen2
    <3>1. r \notin new
      <4>1. ASSUME r \in new PROVE FALSE
        <5>1. PICK i \in Len(q) .. Len(q2) : q2[i] = r
          BY <1>5, <4>1
        <5>2. i \in 1 .. Len(q2)
          BY <1>2, <1>6
        <5> QED
          BY <2>1, <5>1, <5>2
      <4> QED
        BY <4>1
    <3>2. CASE r = cur
      BY <1>2, <1>3, <1>4, <3>2
    <3>3. CASE r # cur
      <4>1. ~ \E i \in 1 .. Len(q) : q[i] = r
        <5>1. ASSUME NEW i \in 1 .. Len(q), q[i] = r PROVE FALSE
          <6>1. i # 1
            BY <3>3, <5>1 DEF cur
          <6>2. i - 1 \in 1 .. Len(q) - 1 /\ i - 1 \in 1 .. Len(q2) /\ (i - 1) + 1 = i
            BY <1>2, <1>5, <1>7, <6>1
          <6>3. q2[i - 1] = q[(i - 1) + 1]
            BY <1>5, <6>2
          <6> QED
            BY <2>1, <5>1, <6>2, <6>3
        <5> QED
          BY <5>1
      <4>2. r \in seen
        BY <1>4, <3>1
      <4>3. r # dst /\ Adjacent(r, L) \subseteq seen
        BY <4>1, <4>2 DEF Searching, LookedAt, seen, q
      <4> QED
        BY <1>4, <4>3
    <3> QED
      BY <3>2, <3>3
  <2> QED
    BY <2>1 DEF LookedAt, seen2, q2
<1>13. Outwards(t, e, src, L)
  <2>1. q2 \in Seq(seen2)
    <3>1. \A i \in 1 .. Len(q2) : q2[i] \in seen2
      BY <1>4, <1>9
    <3> QED
      BY <1>6, <3>1
  <2>2. ASSUME NEW i \in 1 .. Len(q2)
        PROVE  e[q2[i]] \in Nat /\ d[cur] <= e[q2[i]] /\ e[q2[i]] <= d[cur] + 1
    <3>0. d[cur] \in Nat
      BY <1>1, <1>2
    <3>1. CASE i <= Len(q) - 1 /\ q2[i] \in seen /\ q2[i] = q[i + 1]
      <4>1. i + 1 \in 1 .. Len(q) /\ 1 \in 1 .. Len(q) /\ 1 <= i + 1
        BY <1>2, <3>1
      <4>2. d[q[1]] <= d[q[i + 1]] /\ d[q[i + 1]] <= d[cur] + 1
        BY <1>2, <4>1
      <4>3. d[q2[i]] \in Nat /\ e[q2[i]] = d[q2[i]]
        BY <1>1, <1>8, <3>1
      <4> QED
        BY <3>1, <4>2, <4>3 DEF cur
    <3>2. CASE i >= Len(q) /\ q2[i] \in new
      BY <1>8, <3>0, <3>2
    <3> QED
      BY <1>9, <3>1, <3>2
  <2>3. ASSUME NEW i \in 1 .. Len(q2), NEW j \in 1 .. Len(q2), i <= j
        PROVE  e[q2[i]] <= e[q2[j]]
    <3>1. CASE j >= Len(q) /\ q2[j] \in new
      <4>1. e[q2[j]] = d[cur] + 1
        BY <1>8, <3>1
      <4> QED
        BY <2>2, <4>1
    <3>2. CASE j <= Len(q) - 1 /\ q2[j] \in seen /\ q2[j] = q[j + 1]
      <4>1. i <= Len(q) - 1
        BY <1>2, <2>3, <3>2
      <4>2. q2[i] \in seen /\ q2[i] = q[i + 1]
        BY <1>2, <1>9, <4>1
      <4>3. i + 1 \in 1 .. Len(q) /\ j + 1 \in 1 .. Len(q) /\ i + 1 <= j + 1
        BY <1>2, <2>3, <3>2, <4>1
      <4>4. d[q[i + 1]] <= d[q[j + 1]]
        BY <1>2, <4>3
      <4> QED
        BY <1>8, <3>2, <4>2, <4>4
    <3> QED
      BY <1>9, <3>1, <3>2
  <2>4. ASSUME NEW i \in 1 .. Len(q2)
        PROVE  e[q2[i]] <= e[q2[1]] + 1
    <3>1. 1 \in 1 .. Len(q2)
      BY <1>6
    <3>2. d[cur] \in Nat
      BY <1>1, <1>2
    <3> QED
      BY <2>2, <3>1, <3>2
  <2>5. ASSUME q2 # <<>> PROVE near[e[q2[1]]] \subseteq seen2
    <3>1. 1 \in 1 .. Len(q2) /\ q2[1] \in seen2
      BY <1>6, <2>1, <2>5
    <3>2. d[cur] \in Nat /\ e[q2[1]] \in d[cur] .. d[cur] + 1
      BY <1>1, <1>2, <2>2, <3>1
    <3>3. CASE e[q2[1]] = d[cur]
      BY <1>2, <1>4, <3>3
    <3>4. CASE e[q2[1]] = d[cur] + 1
      <4>1. ASSUME NEW b \in near[d[cur] + 1] PROVE b \in seen2
        <5>1. CASE b \in near[d[cur]]
          BY <1>2, <1>4, <5>1
        <5>2. CASE b \in UNION L /\ \E a \in near[d[cur]] : {a, b} \in L
          <6>1. PICK a \in near[d[cur]] : {a, b} \in L
            BY <5>2
          <6>2. a \in seen /\ d[a] \in Nat
            BY <1>1, <1>2
          <6>3. d[a] <= d[cur]
            <7>1. ASSUME d[cur] < d[a] PROVE FALSE
              <8>1. d[cur] \in 0 .. d[a] - 1
                BY <3>2, <6>2, <7>1
              <8>2. a \notin near[d[cur]]
                BY <6>2, <8>1 DEF Searching, Nearest, seen, near
              <8> QED
                BY <8>2
            <7> QED
              BY <3>2, <6>2, <7>1
          <6>4. ~ \E i \in 1 .. Len(q2) : q2[i] = a
            <7>1. ASSUME NEW i \in 1 .. Len(q2), q2[i] = a PROVE FALSE
              <8>1. e[q2[1]] <= e[q2[i]]
                BY <2>3, <3>1
              <8>2. e[a] = d[a]
                BY <1>8, <6>2
              <8> QED
                BY <3>2, <3>4, <6>2, <6>3, <7>1, <8>1, <8>2
            <7> QED
              BY <7>1
          <6>5. Adjacent(a, L) \subseteq seen2
            BY <1>4, <1>12, <6>2, <6>4 DEF LookedAt, seen2, q2
          <6>6. CASE b = a
            BY <1>4, <6>2, <6>6
          <6>7. CASE b # a
            BY <5>2, <6>1, <6>5, <6>7 DEF Adjacent
          <6> QED
            BY <6>6, <6>7
        <5> QED
          BY <3>2, <5>1, <5>2, NearIs DEF near
      <4> QED
        BY <3>4, <4>1
    <3> QED
      BY <3>2, <3>3, <3>4
  <2> QED
    BY <2>1, <2>3, <2>4, <2>5 DEF Outwards, q2, seen2, near
<1>14. Searching(t, e, src, dst, L)
  BY <1>10, <1>11, <1>12, <1>13 DEF Searching
<1>15. (n + 1) + Len(q2) = Cardinality(seen2)
  <2>1. n + Len(q) = Cardinality(seen)
    BY DEF q, seen
  <2> QED
    BY <1>2, <1>5, <1>6, <1>7, <2>1
<1> QED
  BY <1>14, <1>15 DEF seen2, q2

\* A path over links.
IsWalk(p, src, dst, L) ==
    /\ p \in Seq(UNION L) /\ Len(p) \in Nat \ {0}
    /\ p[1] = src /\ p[Len(p)] = dst
    /\ \A i \in 1 .. Len(p) - 1 : {p[i], p[i + 1]} \in L

\* The walk back from a rack seen takes as many steps as the rack is far.
LEMMA PathIs ==
    ASSUME NEW L, IsFiniteSet(UNION L), NEW s, NEW d, NEW src, NEW dst,
           Reached(s, d, src, L), Nearest(s, d, src, L), dst \in DOMAIN s.prev
    PROVE  /\ IsWalk(PathTo(dst, src, s.prev), src, dst, L)
           /\ \A n \in 0 .. Len(PathTo(dst, src, s.prev)) - 2 : dst \notin Near(src, L)[n]
<1> DEFINE seen == DOMAIN s.prev
           prev == s.prev
           back == Back(dst, prev)
           h    == d[dst]
<1>1. /\ src \in seen /\ seen \subseteq UNION L
      /\ prev \in [seen -> seen] /\ prev[src] = src
      /\ d \in [seen -> Nat] /\ d[src] = 0
      /\ \A r \in seen : d[r] < Cardinality(seen)
      /\ \A r \in seen \ {src} : {prev[r], r} \in L /\ d[r] = d[prev[r]] + 1
  BY DEF Reached
<1>2. Cardinality(seen) \in Nat /\ h \in Nat /\ h < Cardinality(seen)
  <2>1. IsFiniteSet(seen)
    BY <1>1, FS_Subset
  <2> HIDE DEF seen
  <2> QED
    BY <1>1, <2>1, FS_CardinalityType DEF seen
<1>3. /\ back \in [Nat -> seen] /\ back[0] = dst
      /\ \A n \in Nat : back[n + 1] = prev[back[n]]
  <2>1. dst \in seen
    OBVIOUS
  <2> HIDE DEF seen, prev
  <2> QED
    <3>1. prev \in [seen -> seen]
      BY <1>1
    <3>2. Back(dst, prev) \in [Nat -> seen]
      BY <2>1, <3>1, BackIs
    <3>3. Back(dst, prev)[0] = dst
      BY <2>1, <3>1, BackIs
    <3>4. ASSUME NEW n \in Nat
          PROVE  Back(dst, prev)[n + 1] = prev[Back(dst, prev)[n]]
      BY <2>1, <3>1, BackSteps
    <3> QED
      BY <3>2, <3>3, <3>4
<1> DEFINE Hops(k) == back[k] = src /\ \A j \in 0 .. k - 1 : back[j] # src
           hops    == CHOOSE k \in 0 .. Cardinality(seen) : Hops(k)
           p       == PathTo(dst, src, prev)
<1>4. p = [i \in 1 .. hops + 1 |-> back[hops + 1 - i]]
  BY DEF PathTo
<1> HIDE DEF seen, prev, back, p, hops
<1> DEFINE S == {j \in Nat : j <= h => d[back[j]] = h - j}
<1>5. Nat \subseteq S
  <2>1. 0 \in S
    BY <1>2, <1>3
  <2>2. ASSUME NEW n \in Nat, n \in S PROVE n + 1 \in S
    <3>1. SUFFICES ASSUME n + 1 <= h PROVE d[back[n + 1]] = h - (n + 1)
      OBVIOUS
    <3>2. d[back[n]] = h - n /\ h - n > 0 /\ back[n] \in seen
      BY <1>2, <1>3, <2>2, <3>1
    <3>3. back[n] # src
      BY <1>1, <3>2
    <3>4. d[back[n]] = d[prev[back[n]]] + 1 /\ prev[back[n]] \in seen
      BY <1>1, <3>2, <3>3
    <3>5. d[prev[back[n]]] \in Nat
      BY <1>1, <3>4
    <3> QED
      BY <1>2, <1>3, <3>2, <3>4, <3>5
  <2> HIDE DEF S
  <2> QED
    BY <2>1, <2>2, NatByStep
<1>6. ASSUME NEW j \in 0 .. h
      PROVE  back[j] \in seen /\ d[back[j]] = h - j
  BY <1>2, <1>3, <1>5
<1>7. \A j \in 0 .. h - 1 : back[j] # src
  BY <1>1, <1>2, <1>6
<1>8. back[h] = src
  <2>1. h \in 0 .. h /\ back[h] \in seen /\ d[back[h]] = 0
    BY <1>2, <1>6
  <2>2. ASSUME back[h] # src PROVE FALSE
    <3>1. d[back[h]] = d[prev[back[h]]] + 1 /\ prev[back[h]] \in seen
      BY <1>1, <2>1, <2>2
    <3>2. d[prev[back[h]]] \in Nat
      BY <1>1, <3>1
    <3> QED
      BY <2>1, <3>1, <3>2
  <2> QED
    BY <2>2
<1>9. hops = h
  <2>1. h \in 0 .. Cardinality(seen) /\ Hops(h)
    BY <1>2, <1>7, <1>8
  <2>2. ASSUME NEW k \in 0 .. Cardinality(seen), Hops(k) PROVE k = h
    <3>1. ASSUME k < h PROVE FALSE
      <4>1. k \in 0 .. h - 1
        BY <1>2, <3>1
      <4> QED
        BY <1>7, <2>2, <4>1
    <3>2. ASSUME h < k PROVE FALSE
      <4>1. h \in 0 .. k - 1
        BY <1>2, <3>2
      <4> QED
        BY <1>8, <2>2, <4>1
    <3> QED
      BY <1>2, <3>1, <3>2
  <2> HIDE DEF Hops
  <2> QED
    BY <2>1, <2>2 DEF hops
<1>10. p = [i \in 1 .. h + 1 |-> back[h + 1 - i]]
  BY <1>4, <1>9
<1>11. p \in Seq(UNION L) /\ Len(p) = h + 1
  <2>1. \A i \in 1 .. h + 1 : h + 1 - i \in 0 .. h
    BY <1>2
  <2>2. p \in [1 .. h + 1 -> UNION L]
    BY <1>1, <1>6, <1>10, <2>1
  <2> QED
    BY <1>2, <2>2
<1>12. p[1] = src /\ p[h + 1] = dst
  <2>1. 1 \in 1 .. h + 1 /\ h + 1 \in 1 .. h + 1 /\ h + 1 - 1 = h /\ (h + 1) - (h + 1) = 0
    BY <1>2
  <2>2. \A i \in 1 .. h + 1 : p[i] = back[h + 1 - i]
    BY <1>10
  <2> HIDE DEF h
  <2> QED
    BY <1>2, <1>3, <1>8, <2>1, <2>2 DEF h
<1>13. ASSUME NEW i \in 1 .. h PROVE {p[i], p[i + 1]} \in L
  <2>1. /\ i \in 1 .. h + 1 /\ i + 1 \in 1 .. h + 1
        /\ h - i \in 0 .. h - 1 /\ h - i \in 0 .. h /\ h - i \in Nat
        /\ h + 1 - i = (h - i) + 1 /\ h + 1 - (i + 1) = h - i
    BY <1>2
  <2>2. p[i] = back[(h - i) + 1] /\ p[i + 1] = back[h - i]
    BY <1>10, <2>1
  <2>3. p[i] = prev[back[h - i]]
    BY <1>3, <2>1, <2>2
  <2>4. back[h - i] \in seen \ {src}
    BY <1>6, <1>7, <2>1
  <2> QED
    BY <1>1, <2>2, <2>3, <2>4
<1> QED
  <2>0. \A n \in 0 .. h - 1 : dst \notin Near(src, L)[n]
    BY DEF Nearest
  <2> HIDE DEF h
  <2>1. Len(p) = h + 1 /\ Len(p) - 2 = h - 1 /\ Len(p) \in Nat \ {0} /\ Len(p) - 1 = h
    BY <1>2, <1>11
  <2>2. IsWalk(p, src, dst, L)
    BY <1>11, <1>12, <1>13, <2>1 DEF IsWalk
  <2> QED
    BY <2>0, <2>1, <2>2 DEF p, prev

\* Every search Explore has is one, with a rack less to look at after each turn
\* than it has seen.
LEMMA ExploreSearches ==
    ASSUME NEW L, IsFiniteSet(UNION L), NEW src \in UNION L, NEW dst,
           NEW n \in Nat, NEW s \in Explore(src, dst, L)[n]
    PROVE  /\ s \in Searches(L)
           /\ \E d : Searching(s, d, src, dst, L)
           /\ n + Len(s.queue) = Cardinality(DOMAIN s.prev)
<1> DEFINE Is(k, t) == /\ \E d : Searching(t, d, src, dst, L)
                       /\ k + Len(t.queue) = Cardinality(DOMAIN t.prev)
           S == {k \in Nat : \A t \in Explore(src, dst, L)[k] : Is(k, t)}
<1>1. 0 \in S
  <2>1. Explore(src, dst, L)[0] = {Start(src)}
    BY ExploreIs
  <2>2. Len(Start(src).queue) \in Nat
    BY DEF Start
  <2>3. 0 + Len(Start(src).queue) = Cardinality(DOMAIN Start(src).prev)
    <3>1. Len(Start(src).queue) = Cardinality(DOMAIN Start(src).prev)
      BY SearchStarts
    <3> QED
      BY <2>2, <3>1
  <2>4. Is(0, Start(src))
    BY <2>3, SearchStarts
  <2> HIDE DEF Is
  <2> QED
    BY <2>1, <2>4
<1>2. ASSUME NEW k \in Nat, k \in S PROVE k + 1 \in S
  <2>1. ASSUME NEW t \in Explore(src, dst, L)[k + 1] PROVE Is(k + 1, t)
    <3>1. PICK u \in Explore(src, dst, L)[k] : Goes(u, dst) /\ t \in Turns(u, L)
      BY ExploreIs
    <3>2. u \in Searches(L)
      BY <3>1, ExploreIs
    <3>3. Is(k, u)
      BY <1>2, <3>1
    <3>4. PICK d : Searching(u, d, src, dst, L)
      BY <3>3
    <3>5. k + Len(u.queue) = Cardinality(DOMAIN u.prev)
      BY <3>3
    <3>6. /\ \E e : Searching(t, e, src, dst, L)
          /\ (k + 1) + Len(t.queue) = Cardinality(DOMAIN t.prev)
      <4> HIDE DEF Is, S
      <4> QED
        BY <3>1, <3>2, <3>4, <3>5, SearchTurns, ZenonT(60)
    <3> QED
      BY <3>6
  <2> HIDE DEF Is
  <2> QED
    BY <2>1
<1>3. n \in S
  <2> HIDE DEF S
  <2> QED BY <1>1, <1>2, NatByStep
<1> QED
  BY <1>3, ExploreIs

\* A search that never finds dst comes to its end.
LEMMA SearchEnds ==
    ASSUME NEW L, IsFiniteSet(UNION L), NEW src \in UNION L, NEW dst,
           \A n \in 0 .. Cardinality(UNION L) : \A s \in Explore(src, dst, L)[n] :
               ~Finds(s, dst)
    PROVE  \E n \in Nat : \E s \in Explore(src, dst, L)[n] : s.queue = <<>>
<1> DEFINE N     == Cardinality(UNION L)
           after == Explore(src, dst, L)
           Ends  == \E n \in Nat : \E s \in after[n] : s.queue = <<>>
           S     == {n \in Nat : n <= N => Ends \/ after[n] # {}}
<1>1. N \in Nat
  BY FS_CardinalityType
<1>2. 0 \in S
  BY ExploreIs
<1>3. ASSUME NEW n \in Nat, n \in S PROVE n + 1 \in S
  <2>1. SUFFICES ASSUME n + 1 <= N, ~Ends PROVE after[n + 1] # {}
    OBVIOUS
  <2>2. n <= N /\ n \in 0 .. N
    BY <1>1, <2>1
  <2>3. PICK s : s \in after[n]
    BY <1>3, <2>1, <2>2
  <2>4. Goes(s, dst) /\ s.queue # <<>> /\ s \in Searches(L)
    BY <2>1, <2>2, <2>3, ExploreIs DEF Goes, Finds
  <2>5. PICK t : t \in Turns(s, L)
    BY <2>4, TurnIs
  <2>6. t \in after[n + 1]
    BY <2>3, <2>4, <2>5, ExploreIs
  <2> QED
    BY <2>6
<1>4. Ends \/ after[N] # {}
  <2>1. N \in S
    <3> HIDE DEF S, N
    <3> QED BY <1>1, <1>2, <1>3, NatByStep
  <2> HIDE DEF N, Ends, after
  <2> QED
    BY <1>1, <2>1
<1>5. ASSUME NEW s \in after[N] PROVE s.queue = <<>>
  <2>1. s \in Searches(L) /\ N + Len(s.queue) = Cardinality(DOMAIN s.prev)
    <3> HIDE DEF N
    <3> QED BY <1>1, ExploreSearches
  <2>2. s.queue \in Seq(UNION L) /\ DOMAIN s.prev \subseteq UNION L
    BY <2>1 DEF Searches
  <2>3. Cardinality(DOMAIN s.prev) \in Nat /\ Cardinality(DOMAIN s.prev) <= N
    BY <2>2, FS_Subset, FS_CardinalityType
  <2>4. Len(s.queue) = 0
    <3>1. Len(s.queue) \in Nat
      BY <2>2
    <3> HIDE DEF N
    <3> QED
      BY <1>1, <2>1, <2>3, <3>1
  <2> QED
    BY <2>2, <2>4
<1> QED
  BY <1>1, <1>4, <1>5

\* ... having seen all that can be reached from src.
LEMMA SearchMisses ==
    ASSUME NEW L, NEW s, NEW d, NEW src, NEW dst,
           Searching(s, d, src, dst, L), s.queue = <<>>, NEW n \in Nat
    PROVE  dst \notin Near(src, L)[n]
<1> DEFINE seen == DOMAIN s.prev
<1>1. src \in seen
  BY DEF Searching, Reached
<1>2. \A r \in seen : r # dst /\ Adjacent(r, L) \subseteq seen
  BY DEF Searching, LookedAt
<1>3. \A a \in seen, b \in UNION L : {a, b} \in L => b \in seen
  BY <1>2 DEF Adjacent
<1>4. Near(src, L)[n] \subseteq seen
  BY <1>1, <1>3, NearStays
<1> QED
  BY <1>2, <1>4

\* _shortest_path, on any graph: each path it may return is one of links from src
\* to dst, none is shorter, and a search without a path has no way to dst.
LEMMA SearchRight ==
    ASSUME NEW L, IsFiniteSet(UNION L), NEW src, NEW dst
    PROVE  /\ SearchIsRight(src, dst, L)
           /\ \A p \in shortest_path(src, dst, L) : IsWalk(p, src, dst, L)
<1> DEFINE N     == Cardinality(UNION L)
           after == Explore(src, dst, L)
           found == shortest_path(src, dst, L)
<1>1. N \in Nat
  BY FS_CardinalityType
<1>2. CASE {src, dst} \subseteq UNION L
  <2>1. found = {PathTo(dst, src, s.prev) :
                     s \in {t \in UNION {after[k] : k \in 0 .. N} : Finds(t, dst)}}
    BY <1>2 DEF shortest_path
  <2>2. ASSUME NEW p \in found
        PROVE  /\ IsWalk(p, src, dst, L)
               /\ \A n \in 0 .. Len(p) - 2 : dst \notin Within(n, src, L)
    <3>1. PICK k \in 0 .. N : \E t \in after[k] : Finds(t, dst) /\ p = PathTo(dst, src, t.prev)
      BY <2>1
    <3>0. PICK s \in after[k] : Finds(s, dst) /\ p = PathTo(dst, src, s.prev)
      BY <3>1
    <3>2. PICK d : Searching(s, d, src, dst, L)
      <4>1. k \in Nat
        BY <1>1
      <4> QED
        BY <1>2, <3>0, <4>1, ExploreSearches
    <3>3. dst \in DOMAIN s.prev
      BY <3>0, <3>2 DEF Finds, Searching, Outwards
    <3>4. Reached(s, d, src, L) /\ Nearest(s, d, src, L)
      BY <3>2 DEF Searching
    <3>5. /\ IsWalk(PathTo(dst, src, s.prev), src, dst, L)
          /\ \A n \in 0 .. Len(PathTo(dst, src, s.prev)) - 2 : dst \notin Near(src, L)[n]
      BY <3>3, <3>4, PathIs
    <3> QED
      BY <3>0, <3>5 DEF Within
  <2>3. ASSUME found = {} PROVE dst \notin Within(N, src, L)
    <3>1. \A n \in 0 .. N : \A s \in after[n] : ~Finds(s, dst)
      BY <2>1, <2>3
    <3>2. PICK n \in Nat : \E t \in after[n] : t.queue = <<>>
      BY <1>2, <3>1, SearchEnds
    <3>4. PICK s \in after[n] : s.queue = <<>>
      BY <3>2
    <3>3. PICK d : Searching(s, d, src, dst, L)
      BY <1>2, <3>4, ExploreSearches
    <3> QED
      BY <1>1, <3>4, <3>3, SearchMisses DEF Within
  <2> HIDE DEF found
  <2> QED
    BY <2>2, <2>3 DEF SearchIsRight, found, IsWalk
<1>3. CASE ~({src, dst} \subseteq UNION L)
  <2>1. found = {}
    BY <1>3 DEF shortest_path
  <2>2. ASSUME src \in UNION L PROVE dst \notin Within(N, src, L)
    <3>1. Near(src, L)[N] \subseteq UNION L
      BY <1>1, <2>2, NearStays
    <3> QED
      BY <1>3, <2>2, <3>1 DEF Within
  <2> HIDE DEF found
  <2> QED
    BY <2>1, <2>2 DEF SearchIsRight, found
<1> QED
  BY <1>2, <1>3

----------------------------------------------------------------------------
(* The links known.                                                        *)

USE NetworkAssumption

LinksKnown == DOMAIN links \subseteq Topology

\* No more racks than there are.
LEMMA RacksFinite ==
    ASSUME LinksKnown
    PROVE  IsFiniteSet(UNION DOMAIN links)
<1>1. UNION DOMAIN links \subseteq Racks
  BY DEF LinksKnown
<1> QED
  BY <1>1, FS_Subset

LEMMA LinksNext == LinksKnown /\ [Next]_vars => LinksKnown'
<1> SUFFICES ASSUME LinksKnown, [Next]_vars PROVE LinksKnown'
  OBVIOUS
<1> USE DEF LinksKnown
<1>1. CASE UNCHANGED links
  BY <1>1
<1>2. CASE UpdateEstimates
  <2>1. CASE Scrape
    BY <2>1 DEF Scrape
  <2>2. CASE UNCHANGED links
    BY <2>2
  <2> QED
    BY <1>2, <2>1, <2>2
    DEF UpdateEstimates, Refresh, cache, EmptyScrape, Fail, FailDropsData
<1>3. CASE Stay \/ Pass \/ (\E t \in Managed : Judge(t)) \/ UNCHANGED vars
           \/ \E m \in Moves : Aborted(m) \/ \E t \in Managed : Migrate(t, m)
  BY <1>1, <1>3 DEF Stay, Pass, Judge, Aborted, Migrate, cache, vars
<1> QED
  BY <1>2, <1>3 DEF Next

\* estimate: whatever links the scrapes report and in whatever order, each path it
\* may use is a shortest one between the two sites, and it goes without only where
\* there is none.
THEOREM ShortestPath == Spec => []PathIsShortest
<1>1. Init => LinksKnown
  BY DEF Init, LinksKnown
<1>2. LinksKnown => PathIsShortest
  BY RacksFinite, SearchRight DEF PathIsShortest
<1> QED
  BY <1>1, <1>2, LinksNext, PTL DEF Spec

----------------------------------------------------------------------------
(* The veto.                                                               *)

\* The graph in force is marked as good only by the last query, and queries are
\* stamped; what this tick estimated from it is not older than the Ttl.
Current ==
    /\ now \in Nat
    /\ fetched \in {Never} \cup Nat
    /\ ok \in BOOLEAN
    /\ ok => answered = fetched /\ fetched \in Nat
    /\ DOMAIN est = Managed
    /\ pc = "pick" => \A s \in Managed : est[s].ok => now - answered < Ttl
    /\ verdict.allowed \/ (pc = "pick" => now - answered < Ttl)

\* Only a good graph yields an estimate.
LEMMA EstimatesAre ==
    ASSUME NEW s, NEW util, NEW e \in Estimates(s, util, FALSE)
    PROVE  ~e.ok
  BY DEF Estimates, NoEst

\* After the refresh of a tick, a good graph is one that was given within the Ttl.
LEMMA RefreshIsCurrent ==
    ASSUME Current, Ttl > 0, Refresh, UNCHANGED now
    PROVE  /\ fetched' \in {Never} \cup Nat
           /\ ok' \in BOOLEAN
           /\ ok' => answered' = fetched' /\ fetched' \in Nat
           /\ ok' => now - answered' < Ttl
<1>1. CASE Cached /\ UNCHANGED cache
  BY <1>1 DEF Current, Cached, cache
<1>2. CASE ~Cached /\ Stamp /\ (Scrape \/ EmptyScrape)
  <2>1. /\ ok' = TRUE \/ ok' = ok
        /\ answered' = now /\ fetched' = now
    BY <1>2 DEF Stamp, Scrape, EmptyScrape
  <2>2. ok' \in BOOLEAN /\ now \in Nat
    BY <2>1 DEF Current
  <2> QED
    BY <2>1, <2>2
<1>3. CASE ~Cached /\ Stamp /\ Fail
  BY <1>3 DEF Current, Stamp, Fail, FailDropsData
<1> QED
  BY <1>1, <1>2, <1>3 DEF Refresh

LEMMA CurrentNext == Ttl > 0 /\ Current /\ [Next]_vars => Current'
<1> SUFFICES ASSUME Ttl > 0, Current, [Next]_vars PROVE Current'
  OBVIOUS
<1> USE DEF Current
<1>1. CASE UNCHANGED vars
  BY <1>1 DEF vars
<1>2. CASE UpdateEstimates
  <2>1. /\ Refresh /\ UNCHANGED now
        /\ verdict' = NoVerdict
        /\ DOMAIN est' = Managed
        /\ \A s \in Managed : est'[s] \in Estimates(s, links', ok')
    BY <1>2 DEF UpdateEstimates
  <2>2. ASSUME NEW s \in Managed, est'[s].ok
        PROVE  now - answered' < Ttl
    <3>1. ok' # FALSE
      BY <2>1, <2>2, EstimatesAre
    <3>2. ok' \in BOOLEAN
      BY <2>1, RefreshIsCurrent
    <3> QED
      BY <2>1, <3>1, <3>2, RefreshIsCurrent
  <2> QED
    BY <2>1, <2>2, RefreshIsCurrent DEF NoVerdict
<1>3. ASSUME NEW t \in Managed, Judge(t) PROVE Current'
  BY <1>3 DEF Judge, cache
<1>4. CASE \E m \in Moves : Aborted(m) \/ \E t \in Managed : Migrate(t, m)
  BY <1>4 DEF Aborted, Migrate, cache
<1>5. CASE Stay \/ Pass
  BY <1>5 DEF Stay, Pass, cache
<1> QED
  BY <1>1, <1>2, <1>3, <1>4, <1>5 DEF Next

\* _downtime_ok: a veto is given only while the API's last answer is younger than
\* the Ttl, and never on the data of before a query that failed.
THEOREM CurrentVeto == Ttl > 0 => (Spec => []VetoIsCurrent)
<1> SUFFICES ASSUME Ttl > 0 PROVE Spec => []VetoIsCurrent
  OBVIOUS
<1>1. ASSUME Init PROVE Current
  <2>1. ok = FALSE /\ now = 0 /\ fetched = Never /\ pc = "sleep" /\ verdict.allowed = TRUE
    BY <1>1 DEF Init, NoVerdict
  <2>2. DOMAIN est = Managed
    BY <1>1 DEF Init
  <2> QED
    BY <2>1, <2>2 DEF Current
<1>2. Current => VetoIsCurrent
  BY DEF Current, VetoIsCurrent
<1> QED
  BY <1>1, <1>2, CurrentNext, PTL DEF Spec

----------------------------------------------------------------------------
(* Calibration.                                                            *)

\* An average lies between what it averages, rounding included.
LEMMA Average ==
    ASSUME NEW old \in Nat, NEW x \in Nat, NEW lo \in Nat, NEW hi \in Nat,
           lo <= old, lo <= x, old <= hi, x <= hi
    PROVE  LET y == (6 * old + 4 * x) \div 10 IN y \in Nat /\ lo <= y /\ y <= hi
  OBVIOUS

LEMMA EwmaIs ==
    ASSUME NEW old \in Unset, NEW x \in Nat
    PROVE  /\ Ewma(old, x) \in Nat
           /\ old = None => Ewma(old, x) = x
           /\ \A lo, hi \in Nat :
                 old # None /\ lo <= old /\ lo <= x /\ old <= hi /\ x <= hi
                     => lo <= Ewma(old, x) /\ Ewma(old, x) <= hi
<1>1. CASE old = None
  BY <1>1 DEF Ewma
<1>2. CASE old # None
  <2>1. old \in Nat
    BY <1>2 DEF Unset
  <2>2. Ewma(old, x) = (6 * old + 4 * x) \div 10
    BY <1>2 DEF Ewma
  <2> QED
    BY <1>2, <2>1, <2>2, Average
<1> QED
  BY <1>1, <1>2

\* What has been averaged over some measurements lies between two of them.
Between(x, S) ==
    IF x = None THEN S = {} ELSE x \in Nat /\ \E lo, hi \in S : lo <= x /\ x <= hi

LEMMA EwmaBetween ==
    ASSUME NEW S \in SUBSET Nat, NEW old \in Unset, Between(old, S), NEW x \in Nat
    PROVE  Between(Ewma(old, x), S \cup {x})
<1>1. Ewma(old, x) \in Nat /\ Ewma(old, x) # None
  BY EwmaIs, NetworkAssumption
<1>2. CASE old = None
  <2>1. Ewma(old, x) = x /\ x \in S \cup {x} /\ x <= x
    BY <1>2 DEF Ewma
  <2> QED
    BY <1>1, <2>1 DEF Between
<1>3. CASE old # None
  <2>1. PICK lo \in S, hi \in S : lo <= old /\ old <= hi
    BY <1>3 DEF Between
  <2>2. old \in Nat /\ lo \in Nat /\ hi \in Nat
    BY <1>3 DEF Unset
  <2> DEFINE least == IF lo <= x THEN lo ELSE x
             most  == IF x <= hi THEN hi ELSE x
  <2>3. /\ least \in S \cup {x} /\ least \in Nat /\ least <= old /\ least <= x
        /\ most \in S \cup {x} /\ most \in Nat /\ old <= most /\ x <= most
    BY <2>1, <2>2
  <2> HIDE DEF least, most
  <2>4. least <= Ewma(old, x) /\ Ewma(old, x) <= most
    BY <1>3, <2>3, EwmaIs
  <2> QED
    BY <1>1, <2>3, <2>4 DEF Between
<1> QED
  BY <1>2, <1>3

\* What is learned: two averages of what was measured, and a rate no slower than
\* the slowest throughput of a large transfer.
Learned ==
    /\ completed \subseteq Moves
    /\ rate \in Unset /\ setup \in Unset /\ orch \in Unset
    /\ Between(orch, Orchestrations)
    /\ Between(setup, Setups)
    /\ rate # None => rate \in Nat \ {0} /\ \E r \in Throughputs : r <= rate

LEMMA MoveIs ==
    ASSUME NEW m \in Moves
    PROVE  /\ m.size \in Nat \ {0} /\ m.seconds \in Nat \ {0} /\ m.downtime \in Nat
           /\ 10 * m.size >= m.seconds
  BY NetworkAssumption

\* Division, as inequalities.
LEMMA Division ==
    ASSUME NEW a \in Nat, NEW b \in Nat \ {0}
    PROVE  /\ a \div b \in Nat
           /\ (a \div b) * b <= a /\ a < (a \div b) * b + b
  OBVIOUS

\* A larger divisor makes no larger quotient.
LEMMA DivisorOrder ==
    ASSUME NEW a \in Nat, NEW b \in Nat \ {0}, NEW c \in Nat \ {0}, b <= c
    PROVE  a \div c <= a \div b
<1> DEFINE p == a \div b
           q == a \div c
<1>1. /\ p \in Nat /\ p * b <= a /\ a < p * b + b
      /\ q \in Nat /\ q * c <= a
  BY Division
<1> HIDE DEF p, q
<1>2. SUFFICES ASSUME q >= p + 1 PROVE FALSE
  BY <1>1 DEF p, q
<1>3. q * c >= q * b
  BY <1>1
<1>4. q * b >= (p + 1) * b
  BY <1>1, <1>2
<1>5. (p + 1) * b = p * b + b
  BY <1>1
<1>6. q * c \in Nat /\ q * b \in Nat /\ p * b \in Nat
  BY <1>1
<1> QED
  BY <1>1, <1>3, <1>4, <1>5, <1>6

\* What is left of a transfer after its setup is never slower than all of it.
LEMMA WireRateIs ==
    ASSUME Learned, NEW m \in Moves
    PROVE  /\ WireRate(m) \in Nat \ {0} /\ (10 * m.size) \div m.seconds \in Nat \ {0}
           /\ (10 * m.size) \div m.seconds <= WireRate(m)
<1>1. /\ m.size \in Nat \ {0} /\ m.seconds \in Nat \ {0}
      /\ 10 * m.size >= m.seconds /\ 10 * m.size \in Nat
  BY MoveIs
<1>2. Known(setup) \in Nat
  BY DEF Known, Unset, Learned
<1>3. WireTime(m) \in Nat \ {0} /\ WireTime(m) <= m.seconds
  BY <1>1, <1>2 DEF WireTime, WireTimeFloored
<1>4. (10 * m.size) \div m.seconds <= WireRate(m) /\ WireRate(m) \in Nat
  BY <1>1, <1>3, DivisorOrder, Division DEF WireRate
<1>5. (10 * m.size) \div m.seconds # 0
  <2> DEFINE a == 10 * m.size
             b == m.seconds
             q == a \div b
  <2>1. a \in Nat /\ b \in Nat \ {0} /\ a >= b
    BY <1>1
  <2> HIDE DEF a, b
  <2>2. q \in Nat /\ a < q * b + b
    BY <2>1, Division
  <2> HIDE DEF q
  <2>3. q = 0 => q * b = 0
    BY <2>1
  <2>4. q # 0
    BY <2>1, <2>2, <2>3
  <2> QED
    BY <2>4 DEF a, b, q
<1>6. (10 * m.size) \div m.seconds \in Nat
  BY <1>1, Division
<1> HIDE DEF WireRate
<1> QED
  BY <1>4, <1>5, <1>6

\* What one more migration adds to what was measured.
LEMMA OneMore ==
    ASSUME NEW m \in Moves, completed' = completed \cup {m}
    PROVE  /\ Orchestrations' = Orchestrations \cup
                 (IF Teaches(m) /\ Sane(m) THEN {m.downtime - m.seconds} ELSE {})
           /\ Setups' = Setups \cup
                 (IF Teaches(m) /\ ~(m.size >= MinRateSize) THEN {m.seconds} ELSE {})
           /\ Throughputs' = Throughputs \cup
                 (IF Teaches(m) /\ m.size >= MinRateSize
                  THEN {(10 * m.size) \div m.seconds} ELSE {})
<1> USE DEF Teaches, TeachesDataplane, Sane, Dataplane, Large
<1>1. Dataplane' = Dataplane \cup (IF Teaches(m) THEN {m} ELSE {})
  OBVIOUS
<1>2. Large' = Large \cup (IF Teaches(m) /\ m.size >= MinRateSize THEN {m} ELSE {})
  OBVIOUS
<1>3. Dataplane' \ Large' = (Dataplane \ Large) \cup
          (IF Teaches(m) /\ ~(m.size >= MinRateSize) THEN {m} ELSE {})
  OBVIOUS
<1>4. {d \in Dataplane' : d.downtime >= d.seconds} = {d \in Dataplane : d.downtime >= d.seconds}
          \cup (IF Teaches(m) /\ Sane(m) THEN {m} ELSE {})
  BY <1>1
<1> HIDE DEF Teaches, TeachesDataplane, Sane, Dataplane, Large
<1>5. Orchestrations' = Orchestrations \cup
          (IF Teaches(m) /\ Sane(m) THEN {m.downtime - m.seconds} ELSE {})
  BY <1>4 DEF Orchestrations
<1>6. Setups' = Setups \cup
          (IF Teaches(m) /\ ~(m.size >= MinRateSize) THEN {m.seconds} ELSE {})
  BY <1>3 DEF Setups
<1>7. Throughputs' = Throughputs \cup
          (IF Teaches(m) /\ m.size >= MinRateSize
           THEN {(10 * m.size) \div m.seconds} ELSE {})
  BY <1>2 DEF Throughputs
<1> QED
  BY <1>5, <1>6, <1>7

LEMMA MeasuredAreNumbers ==
    ASSUME Learned
    PROVE  Orchestrations \subseteq Nat /\ Setups \subseteq Nat
           /\ Throughputs \subseteq Nat \ {0}
<1>1. \A m \in completed : m \in Moves
  BY DEF Learned
<1>2. ASSUME NEW m \in completed, m.downtime >= m.seconds
      PROVE  m.downtime - m.seconds \in Nat
  BY <1>1, <1>2, MoveIs
<1>3. Orchestrations \subseteq Nat
  BY <1>2 DEF Orchestrations, Dataplane
<1>4. Setups \subseteq Nat
  BY <1>1, MoveIs DEF Setups, Dataplane
<1>5. Throughputs \subseteq Nat \ {0}
  BY <1>1, WireRateIs DEF Throughputs, Large, Dataplane
<1> QED
  BY <1>3, <1>4, <1>5

LEMMA LearnedNext == Learned /\ [Next]_vars => Learned'
<1> SUFFICES ASSUME Learned, [Next]_vars PROVE Learned'
  OBVIOUS
<1>1. CASE UNCHANGED <<rate, setup, orch, completed>>
  BY <1>1 DEF Learned, Orchestrations, Setups, Throughputs, Large, Dataplane
<1>2. ASSUME NEW t \in Managed, NEW m \in Moves, Migrate(t, m)
      PROVE  Learned'
  <2>1. Calibrate(m) /\ completed' = completed \cup {m}
    BY <1>2 DEF Migrate
  <2>2. m.seconds \in Nat /\ (Sane(m) => m.downtime - m.seconds \in Nat)
    BY MoveIs DEF Sane
  <2>3. /\ Orchestrations \subseteq Nat /\ Setups \subseteq Nat
        /\ Throughputs \subseteq Nat \ {0}
    BY MeasuredAreNumbers
  <2>4. orch' \in Unset /\ Between(orch', Orchestrations')
    <3>1. CASE Teaches(m) /\ Sane(m)
      <4> DEFINE x == m.downtime - m.seconds
      <4>1. orch' = Ewma(orch, x) /\ Orchestrations' = Orchestrations \cup {x}
        BY <2>1, <3>1, OneMore DEF Calibrate
      <4>2. x \in Nat
        BY <2>2, <3>1
      <4> HIDE DEF x
      <4>3. Between(Ewma(orch, x), Orchestrations \cup {x}) /\ Ewma(orch, x) \in Nat
        BY <2>3, <4>2, EwmaBetween, EwmaIs DEF Learned
      <4> QED
        BY <4>1, <4>3 DEF Unset
    <3>2. CASE ~(Teaches(m) /\ Sane(m))
      <4>1. orch' = orch /\ Orchestrations' = Orchestrations
        BY <2>1, <3>2, OneMore DEF Calibrate
      <4> QED
        BY <4>1 DEF Learned
    <3> QED
      BY <3>1, <3>2
  <2>5. setup' \in Unset /\ Between(setup', Setups')
    <3>1. CASE Teaches(m) /\ ~(m.size >= MinRateSize)
      <4>1. setup' = Ewma(setup, m.seconds) /\ Setups' = Setups \cup {m.seconds}
        BY <2>1, <3>1, OneMore DEF Calibrate
      <4>2. /\ Between(Ewma(setup, m.seconds), Setups \cup {m.seconds})
            /\ Ewma(setup, m.seconds) \in Nat
        BY <2>2, <2>3, EwmaBetween, EwmaIs DEF Learned
      <4> QED
        BY <4>1, <4>2 DEF Unset
    <3>2. CASE ~(Teaches(m) /\ ~(m.size >= MinRateSize))
      <4>1. setup' = setup /\ Setups' = Setups
        BY <2>1, <3>2, OneMore DEF Calibrate
      <4> QED
        BY <4>1 DEF Learned
    <3> QED
      BY <3>1, <3>2
  <2>6. /\ rate' \in Unset
        /\ rate' # None => rate' \in Nat \ {0} /\ \E r \in Throughputs' : r <= rate'
    <3>1. CASE Teaches(m) /\ m.size >= MinRateSize
      <4> DEFINE x == WireRate(m)
                 y == (10 * m.size) \div m.seconds
      <4>1. rate' = Ewma(rate, x) /\ Throughputs' = Throughputs \cup {y}
        BY <2>1, <3>1, OneMore DEF Calibrate
      <4>2. x \in Nat \ {0} /\ y \in Nat \ {0} /\ y <= x
        BY WireRateIs
      <4> HIDE DEF x, y
      <4>3. CASE rate = None
        BY <4>1, <4>2, <4>3 DEF Ewma, Unset
      <4>4. CASE rate # None
        <5>1. rate \in Nat \ {0}
          BY <4>4 DEF Learned
        <5>2. PICK r \in Throughputs : r <= rate
          BY <4>4 DEF Learned
        <5>3. r \in Nat \ {0}
          BY <2>3
        <5> DEFINE least == IF r <= y THEN r ELSE y
                   most  == IF rate <= x THEN x ELSE rate
        <5>4. /\ least \in Throughputs' /\ least \in Nat \ {0} /\ most \in Nat
              /\ least <= rate /\ least <= x /\ rate <= most /\ x <= most
          BY <4>1, <4>2, <5>1, <5>2, <5>3
        <5> HIDE DEF least, most
        <5>5. least <= Ewma(rate, x) /\ Ewma(rate, x) \in Nat
          BY <4>2, <4>4, <5>1, <5>4, EwmaIs DEF Unset
        <5> QED
          BY <4>1, <5>4, <5>5 DEF Unset
      <4> QED
        BY <4>3, <4>4
    <3>2. CASE ~(Teaches(m) /\ m.size >= MinRateSize)
      <4>1. rate' = rate /\ Throughputs' = Throughputs
        BY <2>1, <3>2, OneMore DEF Calibrate
      <4> QED
        BY <4>1 DEF Learned
    <3> QED
      BY <3>1, <3>2
  <2>7. completed' \subseteq Moves
    BY <2>1 DEF Learned
  <2> QED
    BY <2>4, <2>5, <2>6, <2>7 DEF Learned
<1>3. CASE UpdateEstimates \/ Stay \/ Pass \/ (\E t \in Managed : Judge(t))
           \/ (\E m \in Moves : Aborted(m)) \/ UNCHANGED vars
  BY <1>1, <1>3 DEF UpdateEstimates, Stay, Pass, Judge, Aborted, measured, vars
<1> QED
  BY <1>2, <1>3 DEF Next

----------------------------------------------------------------------------
(* Types.                                                                  *)

\* A set of naturals has a least member.
LEMMA LeastIs ==
    ASSUME NEW S \in SUBSET Nat, S # {}
    PROVE  Least(S) \in S /\ \A y \in S : Least(S) <= y
<1> DEFINE less == OpToRel(<, Nat)
<1>1. IsWellFoundedOn(less, Nat)
  BY NatLessThanWellFounded
<1> HIDE DEF less
<1>2. PICK x \in S : \A y \in S : ~ (<<y, x>> \in less)
  BY <1>1, WFMin, ZenonT(60)
<1>3. \A y \in S : x <= y
  <2>1. ASSUME NEW y \in S, y < x PROVE FALSE
    <3>1. <<y, x>> \in less
      BY <2>1 DEF less, OpToRel
    <3> QED
      BY <1>2, <3>1
  <2> QED
    BY <2>1
<1> QED
  BY <1>2, <1>3 DEF Least

\* The least headroom over the links of a path between two sites.
LEMMA HeadroomIs ==
    ASSUME NEW util, DOMAIN util \subseteq Topology, \A l \in DOMAIN util : util[l] \in Utils,
           NEW src, NEW dst, src # dst, NEW p, IsWalk(p, src, dst, DOMAIN util)
    PROVE  Headroom(p, util) \in Nat
<1> DEFINE free == {Capacity - util[{p[i], p[i + 1]}] : i \in 1 .. Len(p) - 1}
<1>1. /\ Len(p) \in Nat \ {0} /\ p[1] = src /\ p[Len(p)] = dst
      /\ \A i \in 1 .. Len(p) - 1 : {p[i], p[i + 1]} \in DOMAIN util
  BY DEF IsWalk
<1>2. Len(p) # 1
  BY <1>1
<1>3. 1 \in 1 .. Len(p) - 1
  BY <1>1, <1>2
<1>4. free # {}
  BY <1>3
<1>5. \A l \in DOMAIN util : Capacity - util[l] \in Nat
  <2>1. Capacity \in Nat /\ \A x \in Utils : x \in Nat /\ x <= Capacity
    OBVIOUS
  <2> SUFFICES ASSUME NEW l \in DOMAIN util PROVE Capacity - util[l] \in Nat
    OBVIOUS
  <2>2. util[l] \in Utils
    OBVIOUS
  <2>3. util[l] \in Nat /\ util[l] <= Capacity
    BY <2>1, <2>2
  <2> QED
    BY <2>1, <2>3
<1>6. free \subseteq Nat
  BY <1>1, <1>5
<1> HIDE DEF free
<1>7. Least(free) \in Nat
  BY <1>4, <1>6, LeastIs
<1> QED
  BY <1>7 DEF Headroom, free

AnEstimate == [ok : BOOLEAN, headroom : Nat, rate : Nat, downtime : Nat]

LEMMA EstimateIs ==
    ASSUME TypeOK, NEW h \in Nat
    PROVE  /\ AssumedRate(h) \in Nat
           /\ FixedCost + TransferTime(AssumedRate(h)) \in Nat
<1>1. Usable(h) \in Nat
  <2>1. Efficiency \in Nat
    OBVIOUS
  <2> QED
    BY <2>1 DEF Usable
<1>2. AssumedRate(h) \in Nat
  BY <1>1 DEF AssumedRate, TypeOK, Unset
<1>3. FixedCost \in Nat
  BY DEF FixedCost, Known, TypeOK, Unset
<1>4. ASSUME NEW r \in Nat PROVE TransferTime(r) \in Nat
  BY DEF TransferTime, TypeOK
<1> QED
  BY <1>2, <1>3, <1>4

LEMMA EstimatesType ==
    ASSUME TypeOK, NEW s \in Managed, NEW good,
           NEW util, DOMAIN util \subseteq Topology, \A l \in DOMAIN util : util[l] \in Utils,
           NEW e \in Estimates(s, util, good)
    PROVE  e \in AnEstimate
<1>1. CASE e = NoEst
  BY <1>1 DEF NoEst, AnEstimate
<1>2. CASE e # NoEst
  <2>1. /\ s # active
        /\ e \in {EstimateAlong(p, util) : p \in shortest_path(active, s, DOMAIN util)}
    BY <1>2 DEF Estimates
  <2>2. PICK p \in shortest_path(active, s, DOMAIN util) : e = EstimateAlong(p, util)
    BY <2>1
  <2>3. IsFiniteSet(UNION DOMAIN util)
    <3>1. UNION DOMAIN util \subseteq Racks
      OBVIOUS
    <3> QED
      BY <3>1, FS_Subset
  <2>4. IsWalk(p, active, s, DOMAIN util)
    BY <2>2, <2>3, SearchRight
  <2>5. Headroom(p, util) \in Nat
    BY <2>1, <2>4, HeadroomIs
  <2> QED
    BY <2>2, <2>5, EstimateIs DEF EstimateAlong, AnEstimate
<1> QED
  BY <1>1, <1>2

LEMMA TypeNext == TypeOK /\ [Next]_vars => TypeOK'
<1> SUFFICES ASSUME TypeOK, [Next]_vars PROVE TypeOK'
  OBVIOUS
<1> USE DEF TypeOK
<1>1. CASE UNCHANGED vars
  BY <1>1 DEF vars
<1>2. CASE UpdateEstimates
  <2>1. /\ Refresh /\ UNCHANGED <<now, active, moves, size, rate, setup, orch, completed>>
        /\ verdict' = NoVerdict /\ pc' = "pick"
        /\ est' \in [Managed -> UNION {Estimates(s, links', ok') : s \in Managed}]
        /\ \A s \in Managed : est'[s] \in Estimates(s, links', ok')
    BY <1>2 DEF UpdateEstimates, measured
  <2>2. /\ DOMAIN links' \subseteq Topology
        /\ \A l \in DOMAIN links' : links'[l] \in Utils
        /\ ok' \in BOOLEAN
        /\ fetched' \in {Never} \cup 0 .. MaxTime
        /\ answered' \in {Never} \cup 0 .. MaxTime
    <3>1. CASE Cached /\ UNCHANGED cache
      BY <3>1 DEF cache
    <3>2. CASE Stamp /\ Scrape
      BY <3>2 DEF Stamp, Scrape
    <3>3. CASE Stamp /\ (EmptyScrape \/ Fail)
      BY <3>3 DEF Stamp, EmptyScrape, Fail, FailDropsData
    <3> QED
      BY <2>1, <3>1, <3>2, <3>3 DEF Refresh
  <2>3. \A s \in Managed : est'[s] \in AnEstimate
    BY <2>1, <2>2, EstimatesType
  <2>4. est' \in [Managed -> AnEstimate]
    BY <2>1, <2>3
  <2> QED
    BY <2>1, <2>2, <2>4 DEF AnEstimate, NoVerdict
<1>3. ASSUME NEW t \in Managed, Judge(t) PROVE TypeOK'
  <2>1. verdict'.allowed = (~est[t].ok \/ est[t].downtime <= Budget)
    BY <1>3 DEF Judge
  <2>2. verdict'.allowed \in BOOLEAN
    BY <2>1
  <2> QED
    BY <1>3, <2>2 DEF Judge, cache, measured
<1>4. ASSUME NEW m \in Moves, Aborted(m) PROVE TypeOK'
  <2>1. m.size \in Nat
    OBVIOUS
  <2> QED
    BY <1>4, <2>1 DEF Aborted, cache
<1>5. ASSUME NEW m \in Moves, NEW t \in Managed, Migrate(t, m) PROVE TypeOK'
  <2>1. m.size \in Nat /\ m.seconds \in Nat /\ m.downtime \in Nat
    OBVIOUS
  <2>2. WireRate(m) \in Nat
    <3>1. m.size \in Nat \ {0} /\ m.seconds \in Nat \ {0}
      OBVIOUS
    <3>2. WireTime(m) \in Nat \ {0}
      BY <3>1 DEF WireTime, WireTimeFloored, Known, Unset
    <3> QED
      BY <3>1, <3>2 DEF WireRate
  <2>3. orch' \in Unset
    <3>1. CASE Teaches(m) /\ Sane(m)
      <4>1. m.downtime - m.seconds \in Nat /\ orch' = Ewma(orch, m.downtime - m.seconds)
        BY <1>5, <2>1, <3>1 DEF Migrate, Calibrate, Sane
      <4> QED
        BY <4>1, EwmaIs DEF Unset
    <3>2. CASE ~(Teaches(m) /\ Sane(m))
      BY <1>5, <3>2 DEF Migrate, Calibrate
    <3> QED
      BY <3>1, <3>2
  <2>4. rate' \in Unset /\ setup' \in Unset
    <3>1. \/ rate' = rate \/ rate' = Ewma(rate, WireRate(m))
      BY <1>5 DEF Migrate, Calibrate
    <3>2. \/ setup' = setup \/ setup' = Ewma(setup, m.seconds)
      BY <1>5 DEF Migrate, Calibrate
    <3>3. Ewma(rate, WireRate(m)) \in Nat /\ Ewma(setup, m.seconds) \in Nat
      BY <2>1, <2>2, EwmaIs
    <3> QED
      BY <3>1, <3>2, <3>3 DEF Unset
  <2>5. completed' \subseteq Moves /\ size' \in Nat
    BY <1>5, <2>1 DEF Migrate
  <2> QED
    BY <1>5, <2>3, <2>4, <2>5 DEF Migrate, cache
<1>6. CASE Stay
  BY <1>6 DEF Stay, cache, measured
<1>7. CASE Pass
  <2>1. MaxTime \in Nat /\ now' = now + 1 /\ now < MaxTime
    BY <1>7 DEF Pass
  <2>2. now' \in 0 .. MaxTime
    BY <2>1
  <2> QED
    BY <1>7, <2>2 DEF Pass, cache, measured
<1> QED
  BY <1>1, <1>2, <1>3, <1>4, <1>5, <1>6, <1>7 DEF Next

\* The estimates and what is learned are numbers: a path between two sites has a
\* link, and its least headroom is one of its links'.
THEOREM TypeCorrect == Spec => []TypeOK
<1>1. Init => TypeOK
  <2> SUFFICES ASSUME Init PROVE TypeOK
    OBVIOUS
  <2>1. links = <<>> /\ DOMAIN links = {}
    BY DEF Init
  <2>2. est \in [Managed -> AnEstimate]
    BY DEF Init, NoEst, AnEstimate
  <2>3. MaxTime \in Nat /\ MaxMoves \in Nat /\ DefaultSize \in Nat
    OBVIOUS
  <2>4. /\ now \in 0 .. MaxTime /\ moves \in 0 .. MaxMoves /\ size \in Nat
        /\ fetched = Never /\ answered = Never
    BY <2>3 DEF Init
  <2>5. DOMAIN links \subseteq Topology /\ \A l \in DOMAIN links : links[l] \in Utils
    BY <2>1
  <2> QED
    BY <2>2, <2>4, <2>5 DEF Init, TypeOK, NoVerdict, Unset, AnEstimate
<1> QED
  BY <1>1, TypeNext, PTL DEF Spec

----------------------------------------------------------------------------
(* Predictions.                                                            *)

\* A transfer along a path with more left, or at a higher rate, takes no longer.
LEMMA FasterIsShorter ==
    ASSUME size \in Nat, NEW r \in Nat \ {0}, NEW q \in Nat \ {0}, r <= q
    PROVE  TransferTime(q) <= TransferTime(r)
<1>1. 10 * size \in Nat
  OBVIOUS
<1>2. TransferTime(q) = (10 * size) \div q /\ TransferTime(r) = (10 * size) \div r
  BY DEF TransferTime
<1> QED
  BY <1>1, <1>2, DivisorOrder

\* What the candidates were priced at, until something more is measured.
Priced ==
    pc = "pick" => \A t \in Managed : est[t].ok =>
        est[t].downtime = FixedCost + TransferTime(AssumedRate(est[t].headroom))

LEMMA PricedNext == Priced /\ [Next]_vars => Priced'
<1> SUFFICES ASSUME Priced, [Next]_vars PROVE Priced'
  OBVIOUS
<1> USE DEF Priced
<1>1. CASE UNCHANGED vars
  BY <1>1 DEF vars, FixedCost, TransferTime, AssumedRate, Known, Usable
<1>2. CASE UpdateEstimates
  <2>1. /\ UNCHANGED <<size, rate, setup, orch>>
        /\ \A s \in Managed : est'[s] \in Estimates(s, links', ok')
    BY <1>2 DEF UpdateEstimates, measured
  <2>2. ASSUME NEW t \in Managed, est'[t].ok
        PROVE  est'[t].downtime = FixedCost + TransferTime(AssumedRate(est'[t].headroom))
    <3>1. est'[t] # NoEst
      BY <2>2 DEF NoEst
    <3>2. PICK p : est'[t] = EstimateAlong(p, links')
      BY <2>1, <3>1 DEF Estimates
    <3> QED
      BY <3>2 DEF EstimateAlong
  <2>3. FixedCost' = FixedCost
    BY <2>1 DEF FixedCost, Known
  <2>4. \A h : TransferTime(AssumedRate(h))' = TransferTime(AssumedRate(h))
    BY <2>1 DEF TransferTime, AssumedRate, Usable
  <2> QED
    BY <2>1, <2>2, <2>3 DEF TransferTime, AssumedRate, Usable
<1>3. ASSUME NEW t \in Managed, Judge(t) PROVE Priced'
  BY <1>3 DEF Judge, measured, FixedCost, TransferTime, AssumedRate, Known, Usable
<1>4. CASE Stay \/ Pass \/ \E m \in Moves : Aborted(m) \/ \E t \in Managed : Migrate(t, m)
  BY <1>4 DEF Stay, Pass, Aborted, Migrate
<1> QED
  BY <1>1, <1>2, <1>3, <1>4 DEF Next

\* The fixed cost of a prediction lies between two that were paid.
LEMMA FixedCostIs ==
    ASSUME Learned
    PROVE  \E lo, hi \in FixedCosts : /\ lo \in Nat /\ hi \in Nat
                                      /\ lo <= FixedCost /\ FixedCost <= hi
<1>1. /\ Orchestrations \subseteq Nat /\ Setups \subseteq Nat /\ Overhead \in Nat
      /\ None \notin Nat /\ orch \in Unset /\ setup \in Unset
  BY MeasuredAreNumbers, NetworkAssumption DEF Learned
<1>2. ASSUME NEW S \in SUBSET Nat, NEW x \in Unset, Between(x, S)
      PROVE  /\ Known(x) \in Nat /\ (x = None <=> S = {})
             /\ \E lo, hi \in OrNothing(S) : lo <= Known(x) /\ Known(x) <= hi
  BY <1>1, <1>2 DEF Between, OrNothing, Known, Unset
<1>3. CASE orch = None /\ setup = None
  <2>1. FixedCosts = {Overhead} /\ FixedCost = Overhead
    BY <1>3 DEF Learned, Between, FixedCosts, FixedCost
  <2> QED
    BY <1>1, <2>1
<1>4. CASE ~(orch = None /\ setup = None)
  <2>1. Orchestrations \cup Setups # {}
    BY <1>1, <1>2, <1>4 DEF Learned
  <2>2. FixedCost = Known(orch) + Known(setup)
    BY <1>4 DEF FixedCost
  <2>3. FixedCosts = {o + s : o \in OrNothing(Orchestrations), s \in OrNothing(Setups)}
    BY <2>1 DEF FixedCosts
  <2>4. /\ Known(orch) \in Nat /\ Known(setup) \in Nat
        /\ OrNothing(Orchestrations) \subseteq Nat /\ OrNothing(Setups) \subseteq Nat
    BY <1>1, <1>2 DEF Learned, OrNothing
  <2>5. PICK o1 \in OrNothing(Orchestrations), o2 \in OrNothing(Orchestrations) :
            o1 <= Known(orch) /\ Known(orch) <= o2
    BY <1>1, <1>2 DEF Learned
  <2>6. PICK s1 \in OrNothing(Setups), s2 \in OrNothing(Setups) :
            s1 <= Known(setup) /\ Known(setup) <= s2
    BY <1>1, <1>2 DEF Learned
  <2>7. o1 + s1 \in FixedCosts /\ o2 + s2 \in FixedCosts
    BY <2>3
  <2>8. o1 \in Nat /\ o2 \in Nat /\ s1 \in Nat /\ s2 \in Nat
    BY <2>4
  <2>9. /\ o1 + s1 \in Nat /\ o2 + s2 \in Nat
        /\ o1 + s1 <= FixedCost /\ FixedCost <= o2 + s2
    BY <2>2, <2>4, <2>5, <2>6, <2>8
  <2> QED
    BY <2>7, <2>9
<1> QED
  BY <1>3, <1>4

\* The time of a transfer lies between what the path allows and the slower of that
\* and the slowest throughput measured.
LEMMA TransferTimeIs ==
    ASSUME Learned, size \in Nat, NEW h \in Nat
    PROVE  /\ TransferTime(AssumedRate(h)) \in Nat
           /\ TransferTime(Usable(h)) \in Nat
           /\ TransferTime(Usable(h)) <= TransferTime(AssumedRate(h))
           /\ \E r \in Throughputs \cup {Usable(h)} :
                 /\ TransferTime(r) \in Nat
                 /\ TransferTime(AssumedRate(h)) <= TransferTime(r)
<1>1. Usable(h) \in Nat
  BY NetworkAssumption DEF Usable
<1>2. \A r \in Nat : TransferTime(r) \in Nat
  BY DEF TransferTime
<1>3. CASE AssumedRate(h) = Usable(h)
  BY <1>1, <1>2, <1>3
<1>4. CASE AssumedRate(h) # Usable(h)
  <2>1. rate # None /\ rate < Usable(h) /\ AssumedRate(h) = rate
    BY <1>4 DEF AssumedRate
  <2>2. rate \in Nat \ {0}
    BY <2>1 DEF Learned
  <2>3. PICK r \in Throughputs : r <= rate
    BY <2>1 DEF Learned
  <2>4. r \in Nat \ {0}
    BY MeasuredAreNumbers
  <2>5. Usable(h) \in Nat \ {0} /\ rate <= Usable(h)
    BY <1>1, <2>1, <2>2
  <2>6. TransferTime(Usable(h)) <= TransferTime(rate)
    BY <2>2, <2>5, FasterIsShorter
  <2>7. TransferTime(rate) <= TransferTime(r)
    BY <2>2, <2>3, <2>4, FasterIsShorter
  <2> QED
    BY <1>1, <1>2, <2>1, <2>2, <2>4, <2>6, <2>7
<1> QED
  BY <1>3, <1>4

\* _calibrate and _predict_downtime: however migrations follow each other, what a
\* candidate is predicted to cost is neither more than what migrations cost, at the
\* worst of their throughputs or of what the path has left, nor less than the least
\* they cost and the time the path needs.
THEOREM MeasuredPrediction == Spec => []PredictionIsMeasured
<1>1. Init => Learned /\ Priced
  BY DEF Init, Learned, Priced, Between, Unset, Orchestrations, Setups, Dataplane, Large
<1>2. ASSUME TypeOK, Learned, Priced PROVE PredictionIsMeasured
  <2> SUFFICES ASSUME NEW t \in Managed, pc = "pick", est[t].ok
               PROVE  LET path == Usable(est[t].headroom) IN
                      /\ \E c \in FixedCosts : c + TransferTime(path) <= est[t].downtime
                      /\ \E c \in FixedCosts, r \in Throughputs \cup {path} :
                            est[t].downtime <= c + TransferTime(r)
    BY DEF PredictionIsMeasured
  <2> DEFINE h == est[t].headroom
  <2>1. size \in Nat /\ h \in Nat /\ FixedCost \in Nat
    BY <1>2, EstimateIs DEF TypeOK, FixedCost, Known, Unset
  <2>2. est[t].downtime = FixedCost + TransferTime(AssumedRate(h))
    BY <1>2 DEF Priced
  <2> HIDE DEF h
  <2>3. PICK lo \in FixedCosts, hi \in FixedCosts :
            lo \in Nat /\ hi \in Nat /\ lo <= FixedCost /\ FixedCost <= hi
    BY <1>2, FixedCostIs
  <2>4. /\ TransferTime(AssumedRate(h)) \in Nat
        /\ TransferTime(Usable(h)) \in Nat
        /\ TransferTime(Usable(h)) <= TransferTime(AssumedRate(h))
    BY <1>2, <2>1, TransferTimeIs
  <2>5. PICK r \in Throughputs \cup {Usable(h)} :
            /\ TransferTime(r) \in Nat
            /\ TransferTime(AssumedRate(h)) <= TransferTime(r)
    BY <1>2, <2>1, TransferTimeIs
  <2>6. lo + TransferTime(Usable(h)) <= est[t].downtime
    BY <2>1, <2>2, <2>3, <2>4
  <2>7. est[t].downtime <= hi + TransferTime(r)
    BY <2>1, <2>2, <2>3, <2>4, <2>5
  <2> QED
    BY <2>3, <2>5, <2>6, <2>7 DEF h
<1> QED
  BY <1>1, <1>2, LearnedNext, PricedNext, TypeCorrect, PTL DEF Spec

=============================================================================
