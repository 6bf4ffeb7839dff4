----------------------------- MODULE PoolProofs -----------------------------
(***************************************************************************)
(* Theorems about the two programs that vouch for the carbon prices of a   *)
(* pool (Pool), for any workers, traces, speeds and clocks: they agree on  *)
(* every set of ads a collector can hold; what the dashboard says of the   *)
(* age of the ads is so in real time; and a pool that passes the check is  *)
(* at one position of the trace, up to the allowances, although the ads    *)
(* change between the queries.  They rest on one invariant: a sample       *)
(* carries the worker's clock at the moment it was taken, and the pair of  *)
(* clocks of an ad misses that worker's offset by at most the time an      *)
(* update travels.                                                         *)
(***************************************************************************)
EXTENDS Pool, FiniteSetTheorems, WellFoundedInduction, TLAPS

USE PoolAssumption

-----------------------------------------------------------------------------
(* Lemmas about finite sets of numbers                                     *)

\* A function on a finite set takes a largest value: otherwise the sets of
\* elements above one another would descend for ever.
LEMMA LargestValue ==
    ASSUME NEW S, IsFiniteSet(S), S # {}, NEW f \in [S -> Int]
    PROVE  \E x \in S : \A y \in S : f[x] >= f[y]
<1> DEFINE above(x) == {y \in S : f[y] > f[x]}
           all == {above(x) : x \in S}
<1>1. IsWellFoundedOn(StrictSubsetOrdering(S), SUBSET S)
    BY FS_StrictSubsetOrderingWellFounded, FS_FiniteSubsetsOfFinite
<1>2. all \subseteq SUBSET S /\ all # {}
    <2>1. PICK x : x \in S
        OBVIOUS
    <2>2. above(x) \in all
        BY <2>1
    <2> QED BY <2>2
<1>3. PICK least \in all : \A u \in all : <<u, least>> \notin StrictSubsetOrdering(S)
    <2> HIDE DEF all
    <2> QED BY <1>1, <1>2, WFMin
<1>4. PICK x \in S : least = above(x)
    BY <1>3
<1>5. ASSUME NEW y \in S, f[y] > f[x]
      PROVE  FALSE
    <2>1. above(y) \subseteq above(x)
        BY <1>5
    <2>2. y \in above(x) /\ y \notin above(y)
        BY <1>5
    <2>3. <<above(y), least>> \in StrictSubsetOrdering(S)
        BY <2>1, <2>2, <1>4 DEF StrictSubsetOrdering
    <2> QED BY <2>3, <1>3
<1>6. \A y \in S : f[x] >= f[y]
    BY <1>5
<1> QED BY <1>6

\* The largest of the values exceeds a number just when one of them does.
LEMMA MaxExceeds ==
    ASSUME NEW S, IsFiniteSet(S), S # {}, NEW f \in [S -> Int], NEW k \in Int
    PROVE  Max({f[x] : x \in S}) > k <=> \E x \in S : f[x] > k
<1> DEFINE T == {f[x] : x \in S}
<1>1. PICK x \in S : \A y \in S : f[x] >= f[y]
    BY LargestValue
<1>2. f[x] \in T /\ \A v \in T : f[x] >= v
    BY <1>1
<1>3. Max(T) \in T /\ \A v \in T : Max(T) >= v
    <2> HIDE DEF T
    <2> QED BY <1>2, Zenon DEF Max
<1>4. PICK y \in S : Max(T) = f[y]
    BY <1>3
<1>5. \A z \in S : Max(T) >= f[z]
    BY <1>3
<1> HIDE DEF T
<1>6. Max(T) > k <=> \E z \in S : f[z] > k
    BY <1>4, <1>5
<1> QED BY <1>6 DEF T

\* Two elements that differ make a set larger than one, and nothing else does.
LEMMA MoreThanOne ==
    ASSUME NEW S, IsFiniteSet(S)
    PROVE  Cardinality(S) > 1 <=> \E x, y \in S : x # y
<1>1. ASSUME NEW x \in S, NEW y \in S, x # y
      PROVE  Cardinality(S) > 1
    <2>1. IsFiniteSet({x}) /\ Cardinality({x}) = 1
        BY FS_Singleton
    <2>2. /\ IsFiniteSet({x} \cup {y})
          /\ Cardinality({x} \cup {y})
                = IF y \in {x} THEN Cardinality({x}) ELSE Cardinality({x}) + 1
        BY <2>1, FS_AddElement, Zenon
    <2>3. Cardinality({x} \cup {y}) = 2
        BY <2>1, <2>2, <1>1
    <2>4. {x} \cup {y} \in SUBSET S
        OBVIOUS
    <2>5. Cardinality({x} \cup {y}) <= Cardinality(S)
        BY <2>4, FS_Subset
    <2>6. Cardinality(S) \in Nat
        BY FS_CardinalityType
    <2> QED BY <2>3, <2>5, <2>6
<1>2. ASSUME ~ \E x, y \in S : x # y
      PROVE  ~ Cardinality(S) > 1
    <2>1. CASE S = {}
        BY <2>1, FS_EmptySet
    <2>2. CASE S # {}
        <3>1. PICK x : S = {x}
            BY <2>2, <1>2
        <3> QED BY <3>1, FS_Singleton
    <2> QED BY <2>1, <2>2
<1> QED BY <1>1, <1>2

\* So the values of a function on a finite set are more than one just when it
\* tells two elements apart.
LEMMA MoreThanOneValue ==
    ASSUME NEW S, IsFiniteSet(S), NEW f, f = [x \in S |-> f[x]]
    PROVE  Cardinality({f[x] : x \in S}) > 1 <=> \E x, y \in S : f[x] # f[y]
<1> DEFINE T == {f[x] : x \in S}
<1>1. f \in Surjection(S, T)
    BY DEF Surjection
<1>2. IsFiniteSet(T)
    BY <1>1, FS_Surjection
<1>3. Cardinality(T) > 1 <=> \E u, v \in T : u # v
    BY <1>2, MoreThanOne
<1>4. (\E u, v \in T : u # v) <=> \E x, y \in S : f[x] # f[y]
    BY Zenon
<1> QED BY <1>3, <1>4

\* A product by a speed keeps an order...
LEMMA TimesKeepsOrder ==
    ASSUME NEW a \in Int, NEW b \in Int, NEW k \in Nat, a <= b
    PROVE  a * k <= b * k
OBVIOUS

\* ... and distributes over a sum.
LEMMA TimesOverSum ==
    ASSUME NEW a \in Int, NEW b \in Int, NEW k \in Nat
    PROVE  (a + b) * k = a * k + b * k
OBVIOUS

-----------------------------------------------------------------------------
(* Distances on a timeline that wraps                                      *)

\* The smaller of two numbers is one of them and below both.
LEMMA MinOfTwoIs ==
    ASSUME NEW x \in Int, NEW y \in Int
    PROVE  /\ Min({x, y}) = x \/ Min({x, y}) = y
           /\ Min({x, y}) <= x /\ Min({x, y}) <= y
<1>1. \E z \in {x, y} : \A w \in {x, y} : z =< w
    <2>1. CASE x =< y
        BY <2>1
    <2>2. CASE ~(x =< y)
        BY <2>2
    <2> QED BY <2>1, <2>2
<1>2. Min({x, y}) \in {x, y} /\ \A w \in {x, y} : Min({x, y}) =< w
    BY <1>1, Zenon DEF Min
<1> QED BY <1>2

\* The larger of two numbers is above both.
LEMMA MaxOfTwoIs ==
    ASSUME NEW x \in Int, NEW y \in Int
    PROVE  Max({x, y}) \in Int /\ x <= Max({x, y}) /\ y <= Max({x, y})
<1>1. \E z \in {x, y} : \A w \in {x, y} : z >= w
    <2>1. CASE x >= y
        BY <2>1
    <2>2. CASE ~(x >= y)
        BY <2>2
    <2> QED BY <2>1, <2>2
<1>2. Max({x, y}) \in {x, y} /\ \A w \in {x, y} : Max({x, y}) >= w
    BY <1>1, Zenon DEF Max
<1> QED BY <1>2

\* A number is so many turns of the circle and a rest.
LEMMA TurnsAndRest ==
    ASSUME NEW x \in Int, NEW span \in Nat \ {0}
    PROVE  /\ x % span \in 0 .. span - 1
           /\ \E q \in Int : x = (q * span) + (x % span)
<1>1. x % span \in 0 .. span - 1
    OBVIOUS
<1>2. x = ((x \div span) * span) + (x % span)
    OBVIOUS
<1>3. x \div span \in Int
    OBVIOUS
<1> QED BY <1>1, <1>2, <1>3

\* The distance is the rest, or what is left of the circle, whichever is less.
LEMMA DeltaIsShorterWay ==
    ASSUME NEW a \in Int, NEW b \in Int, NEW span \in Nat \ {0}
    PROVE  LET r == (a - b) % span
               delta == circular_delta(a, b, span)
           IN  /\ delta \in Int
               /\ delta = r \/ delta = span - r
               /\ delta <= r /\ delta <= span - r
<1> DEFINE r == (a - b) % span
           left == span - r
<1>1. circular_delta(a, b, span) = Min({r, left})
    BY Zenon DEF circular_delta
<1>2. r \in Int /\ left \in Int
    OBVIOUS
<1>3. /\ Min({r, left}) = r \/ Min({r, left}) = left
      /\ Min({r, left}) <= r /\ Min({r, left}) <= left
    <2> HIDE DEF r, left
    <2> QED BY <1>2, MinOfTwoIs
<1>4. left = span - r
    OBVIOUS
<1> HIDE DEF r, left
<1>5. circular_delta(a, b, span) \in Int
    BY <1>1, <1>2, <1>3
<1> QED BY <1>1, <1>3, <1>4, <1>5 DEF r

\* Two positions are as far apart as their difference is from some whole number
\* of turns...
LEMMA DeltaIsNear ==
    ASSUME NEW a \in Int, NEW b \in Int, NEW span \in Nat \ {0}
    PROVE  LET delta == circular_delta(a, b, span)
           IN  \E k \in Int : -delta <= (a - b) - k * span /\ (a - b) - k * span <= delta
<1> DEFINE x == a - b
           r == x % span
           delta == circular_delta(a, b, span)
<1>0. x \in Int
    OBVIOUS
<1>1. PICK q \in Int : x = (q * span) + r
    <2> HIDE DEF x
    <2> QED BY <1>0, TurnsAndRest
<1>2. r \in 0 .. span - 1
    <2> HIDE DEF x
    <2> QED BY <1>0, TurnsAndRest
<1>3. delta = r \/ delta = span - r
    BY DeltaIsShorterWay
<1>4. q * span \in Int /\ (q + 1) * span = (q * span) + span
    OBVIOUS
<1> HIDE DEF x, r, delta
<1>5. CASE delta = r
    <2>1. -delta <= x - q * span /\ x - q * span <= delta
        BY <1>0, <1>1, <1>2, <1>4, <1>5
    <2> QED BY <2>1 DEF x, delta
<1>6. CASE delta = span - r
    <2>1. -delta <= x - (q + 1) * span /\ x - (q + 1) * span <= delta
        BY <1>0, <1>1, <1>2, <1>4, <1>6
    <2>2. q + 1 \in Int
        OBVIOUS
    <2> QED BY <2>1, <2>2 DEF x, delta
<1> QED BY <1>3, <1>5, <1>6

\* ... and no farther than it is from any.
LEMMA DeltaIsLeast ==
    ASSUME NEW a \in Int, NEW b \in Int, NEW span \in Nat \ {0}, NEW k \in Int,
           NEW e \in Int, -e <= (a - b) - k * span, (a - b) - k * span <= e
    PROVE  circular_delta(a, b, span) <= e
<1> DEFINE x == a - b
           r == x % span
           delta == circular_delta(a, b, span)
<1>0. x \in Int
    OBVIOUS
<1>1. PICK q \in Int : x = (q * span) + r
    <2> HIDE DEF x
    <2> QED BY <1>0, TurnsAndRest
<1>2. r \in 0 .. span - 1
    <2> HIDE DEF x
    <2> QED BY <1>0, TurnsAndRest
<1>3. delta \in Int /\ delta <= r /\ delta <= span - r
    BY DeltaIsShorterWay
<1>4. -e <= x - k * span /\ x - k * span <= e
    OBVIOUS
<1> DEFINE turns == q - k
<1>5. x - k * span = (turns * span) + r /\ turns \in Int /\ turns * span \in Int
    BY <1>1, <1>2
<1> HIDE DEF x, r, delta, turns
<1>6. CASE turns >= 0
    <2>1. 0 * span <= turns * span
        BY <1>5, <1>6, TimesKeepsOrder
    <2> QED BY <1>2, <1>3, <1>4, <1>5, <2>1 DEF delta
<1>7. CASE turns <= -1
    <2>1. turns * span <= (-1) * span
        BY <1>5, <1>7, TimesKeepsOrder
    <2> QED BY <1>2, <1>3, <1>4, <1>5, <2>1 DEF delta
<1> QED BY <1>5, <1>6, <1>7

-----------------------------------------------------------------------------
(* The two programs agree                                                  *)

\* What a publisher printed is well formed, and carries the worker's clock at
\* the moment it was taken.
Sampled(p) ==
    /\ p.accel \in Nat \ {0} /\ p.span \in Nat \ {0} /\ p.position \in Int
    /\ p.taken \in Nat /\ p.taken <= now
    /\ p.offset \in Int
    /\ p.sampled = p.taken + p.offset

\* The pair of clocks of an ad, where it has one, misses the offset of the
\* worker by at most the time an update travels, and always the same way.
Heard(a) ==
    /\ a.offset \in Int
    /\ a.clocks # None =>
          a.clocks \in Int /\ a.offset - Transit <= a.clocks /\ a.clocks <= a.offset

Offsets ==
    /\ now \in Nat
    /\ \A n \in Nodes : deployed[n] \in Deployment
    /\ offset \in [Nodes -> Int]

Printouts ==
    /\ DOMAIN cron = Nodes
    /\ \A n \in Nodes : cron[n] # None => Sampled(cron[n])

Collected ==
    /\ DOMAIN ad = Nodes
    /\ \A n \in Nodes : ad[n] # None => Sampled(ad[n].printed) /\ Heard(ad[n])

\* The rows a check has had are samples too.
Checking ==
    check.at = "rows" =>
        /\ DOMAIN check.row \in SUBSET Nodes
        /\ \A n \in DOMAIN check.row : Sampled(check.row[n])

\* The inductive invariant.
PoolInv == Offsets /\ Printouts /\ Collected /\ Checking

\* The first of some nodes, by name, is one of them.
LEMMA LeastIsMember ==
    ASSUME NEW rows \in SUBSET Nodes, rows # {}
    PROVE  Min(rows) \in rows
<1>1. IsFiniteSet(rows)
    BY FS_Subset
<1> DEFINE minus == [n \in rows |-> -n]
<1>2. minus \in [rows -> Int]
    OBVIOUS
<1>3. PICK x \in rows : \A y \in rows : minus[x] >= minus[y]
    BY <1>1, <1>2, LargestValue
<1>4. \A y \in rows : x =< y
    BY <1>3
<1> QED BY <1>4, Zenon DEF Min

\* Every node's distance from what its sample time implies is a number.
LEMMA OutOfStepIsInt ==
    ASSUME NEW rows \in SUBSET Nodes, NEW row, DOMAIN row = rows, rows # {},
           \A n \in rows : Sampled(row[n])
    PROVE  \A n \in rows : OutOfStep(n, row) \in Int
<1> DEFINE f == Min(rows)
<1>1. f \in rows
    BY LeastIsMember
<1>2. ASSUME NEW n \in rows
      PROVE  OutOfStep(n, row) \in Int
    <2> DEFINE a == row[n].position - row[f].position
               b == (row[n].sampled - row[f].sampled) * row[f].accel
    <2>1. Sampled(row[n]) /\ Sampled(row[f])
        BY <1>1
    <2>2. row[n].sampled - row[f].sampled \in Int /\ row[f].accel \in Int
        BY <2>1 DEF Sampled
    <2>3. a \in Int /\ b \in Int /\ row[f].span \in Nat \ {0}
        BY <2>1, <2>2 DEF Sampled
    <2>4. OutOfStep(n, row) = circular_delta(a, b, row[f].span)
        BY DEF OutOfStep
    <2> QED BY <2>3, <2>4, DeltaIsShorterWay
<1> QED BY <1>2

\* The parts of the two verdicts, for a pool that can be checked throughout and
\* runs at one period and one speed: someone is out of step, for both or neither.
LEMMA SameStep ==
    ASSUME NEW rows \in SUBSET Nodes, NEW row, row = [n \in rows |-> row[n]],
           rows # {}, \A n \in rows : Sampled(row[n]),
           \A n, m \in rows : row[n].accel = row[m].accel
    PROVE  Max({OutOfStep(n, row) : n \in rows}) > row[Min(rows)].accel * Allowance
             <=> \E n \in rows : OutOfStep(n, row) > row[n].accel * Allowance
<1> DEFINE off == [n \in rows |-> OutOfStep(n, row)]
           k == row[Min(rows)].accel * Allowance
<1>1. \A n \in rows : OutOfStep(n, row) \in Int
    BY OutOfStepIsInt, Zenon
<1>2. off \in [rows -> Int]
    BY <1>1
<1>3. Min(rows) \in rows
    BY LeastIsMember
<1>4. k \in Int
    BY <1>3 DEF Sampled
<1>5. IsFiniteSet(rows)
    BY FS_Subset
<1>6. Max({off[n] : n \in rows}) > k <=> \E n \in rows : off[n] > k
    <2> HIDE DEF off, k
    <2> QED BY <1>2, <1>4, <1>5, MaxExceeds
<1>7. {off[n] : n \in rows} = {OutOfStep(n, row) : n \in rows}
    BY Zenon
<1>8. \A n \in rows : row[n].accel * Allowance = k
    BY <1>3
<1>9. \A n \in rows : off[n] = OutOfStep(n, row)
    OBVIOUS
<1> HIDE DEF off
<1> QED BY <1>6, <1>7, <1>8, <1>9

\* The copies of the collector that can be checked, as both programs read them.
LEMMA RowsAreSampled ==
    ASSUME PoolInv
    PROVE  LET rows == Checkable(ad)
               row == [n \in rows |-> ad[n].printed]
           IN  /\ rows \in SUBSET Nodes /\ rows \subseteq Ranking(ad)
               /\ IsFiniteSet(rows)
               /\ \A n \in rows : Sampled(row[n]) /\ Heard(ad[n])
<1>1. Checkable(ad) \in SUBSET Nodes /\ Checkable(ad) \subseteq Ranking(ad)
    BY DEF Checkable, Ranking
<1>2. IsFiniteSet(Checkable(ad))
    BY <1>1, FS_Subset
<1>3. \A n \in Checkable(ad) : ad[n] # None
    BY DEF Checkable, Ranking
<1>4. \A n \in Checkable(ad) : Sampled(ad[n].printed) /\ Heard(ad[n])
    BY <1>1, <1>3 DEF PoolInv, Collected
<1> QED BY <1>1, <1>2, <1>4

\* On well-formed ads the script and the dashboard reach the same verdict.
THEOREM SameVerdict == PoolInv => BothSaySame
<1> DEFINE R == Ranking(ad)
           rows == Checkable(ad)
           row == [n \in rows |-> ad[n].printed]
           spans == {row[n].span : n \in rows}
           accels == {row[n].accel : n \in rows}
           differ == Cardinality(spans) > 1 \/ Cardinality(accels) > 1
           far == Max({OutOfStep(n, row) : n \in rows}) > row[Min(rows)].accel * Allowance
           unmeasured == \E n \in rows : ad[n].clocks = None
           skewed == \E n \in rows : ClockSkewed(ad[n].clocks)
           problem == R \ rows # {} \/ differ \/ far \/ unmeasured \/ skewed
           bad == replay_coherence(ad) = "bad"
           failed == coherence_failed(R, row, ad)
<1> SUFFICES ASSUME PoolInv
             PROVE  failed <=> bad
    BY DEF BothSaySame
<1>1. /\ rows \in SUBSET Nodes /\ rows \subseteq R /\ IsFiniteSet(rows)
      /\ \A n \in rows : Sampled(row[n]) /\ Heard(ad[n])
    BY RowsAreSampled
<1>2. bad <=> R # {} /\ problem
    BY Zenon DEF replay_coherence, clock_offset
<1>3. DOMAIN row = rows /\ row = [n \in rows |-> row[n]]
    OBVIOUS
<1>4. failed <=> 
        /\ R # {}
        /\ \/ ~ R \subseteq rows
           \/ \E n, m \in rows : row[n].span # row[m].span \/ row[n].accel # row[m].accel
           \/ \E n \in rows : OutOfStep(n, row) > row[n].accel * Allowance
           \/ rows # {} /\ \E n \in R : ad[n].clocks # None /\ ClockSkewed(ad[n].clocks)
           \/ \E n \in rows : n \notin R \/ ad[n].clocks = None
    <2> HIDE DEF row, R, rows
    <2> QED BY <1>3, Zenon DEF coherence_failed, R
<1>5. differ <=> \E n, m \in rows : row[n].span # row[m].span \/ row[n].accel # row[m].accel
    <2> DEFINE span == [n \in rows |-> row[n].span]
               accel == [n \in rows |-> row[n].accel]
    <2>1. Cardinality({span[n] : n \in rows}) > 1 <=> \E n, m \in rows : span[n] # span[m]
        <3>1. span = [n \in rows |-> span[n]]
            OBVIOUS
        <3> HIDE DEF span
        <3> QED BY <1>1, <3>1, MoreThanOneValue
    <2>2. Cardinality({accel[n] : n \in rows}) > 1 <=> \E n, m \in rows : accel[n] # accel[m]
        <3>1. accel = [n \in rows |-> accel[n]]
            OBVIOUS
        <3> HIDE DEF accel
        <3> QED BY <1>1, <3>1, MoreThanOneValue
    <2>3. {span[n] : n \in rows} = spans /\ {accel[n] : n \in rows} = accels
        BY Zenon
    <2>4. \A n \in rows : span[n] = row[n].span /\ accel[n] = row[n].accel
        OBVIOUS
    <2>5. Cardinality(spans) > 1 <=> \E n, m \in rows : row[n].span # row[m].span
        <3> HIDE DEF row, span, spans
        <3> QED BY <2>1, <2>3, <2>4
    <2>6. Cardinality(accels) > 1 <=> \E n, m \in rows : row[n].accel # row[m].accel
        <3> HIDE DEF row, accel, accels
        <3> QED BY <2>2, <2>3, <2>4
    <2> HIDE DEF row, spans, accels
    <2> QED BY <2>5, <2>6, Zenon
<1> HIDE DEF row, R, rows, bad, failed
<1>6. CASE R = {}
    BY <1>2, <1>4, <1>6
<1>7. CASE R # {} /\ R \ rows # {}
    BY <1>2, <1>4, <1>7
<1>8. CASE R # {} /\ R \ rows = {} /\ differ
    <2> HIDE DEF differ, far, unmeasured, skewed
    <2> QED BY <1>2, <1>4, <1>5, <1>8
<1>9. CASE R # {} /\ R \ rows = {} /\ ~differ
    <2>1. R = rows /\ rows # {}
        BY <1>1, <1>9
    <2>2. \A n, m \in rows : row[n].accel = row[m].accel
        <3> HIDE DEF differ
        <3> QED BY <1>5, <1>9
    <2>3. far <=> \E n \in rows : OutOfStep(n, row) > row[n].accel * Allowance
        BY <1>1, <1>3, <2>1, <2>2, SameStep
    <2> HIDE DEF differ, far
    <2> QED BY <1>2, <1>4, <1>5, <1>9, <2>1, <2>3
<1> QED BY <1>6, <1>7, <1>8, <1>9

-----------------------------------------------------------------------------
(* The invariant                                                           *)

LEMMA InitPool == Init => PoolInv
<1> SUFFICES ASSUME Init PROVE PoolInv
    OBVIOUS
<1>1. \A n \in Nodes : deployed[n] \in Deployment
    BY DEF Init
<1>2. Offsets
    <2>1. \A n \in Nodes : deployed[n].clock \in Int
        BY <1>1 DEF Deployment
    <2> QED BY <1>1, <2>1 DEF Init, Offsets
<1>3. Printouts /\ Collected
    BY DEF Init, Printouts, Collected
<1>4. Checking
    BY DEF Init, Idle, Checking
<1> QED BY <1>2, <1>3, <1>4 DEF PoolInv

\* What main() prints is a sample of now.
LEMMA PrintedIsSampled ==
    ASSUME Offsets, NEW n \in Nodes
    PROVE  Sampled(Printed(n))
<1> DEFINE d == deployed[n]
           p == Printed(n)
<1>1. d \in Deployment /\ offset[n] \in Int /\ now \in Nat
    BY DEF Offsets
<1>2. Clock(n) \in Int /\ Clock(n) = now + offset[n]
    BY <1>1 DEF Clock
<1>3. replay_position(d, Clock(n)) \in Int
    <2>1. d.accel \in Int /\ d.start \in Int /\ d.span \in Nat \ {0}
        BY <1>1 DEF Deployment
    <2>2. Clock(n) * d.accel \in Int
        BY <1>2, <2>1
    <2>3. (Clock(n) * d.accel) % d.span \in Int
        BY <2>1, <2>2
    <2> QED BY <2>1, <2>3 DEF replay_position
<1>4. /\ p.accel = d.accel /\ p.span = d.span /\ p.sampled = Clock(n)
      /\ p.position = replay_position(d, Clock(n))
      /\ p.taken = now /\ p.offset = offset[n]
    BY DEF Printed
<1>5. p.accel \in Nat \ {0} /\ p.span \in Nat \ {0}
    BY <1>1, <1>4 DEF Deployment
<1> QED BY <1>1, <1>2, <1>3, <1>4, <1>5 DEF Sampled

\* An ad whose update took no longer than Transit has a pair of clocks that is
\* near the offset of the worker.
LEMMA ArrivedIsHeard ==
    ASSUME Offsets, NEW n \in Nodes, NEW delay \in 0 .. Transit,
           UpdateArrives(n, delay)
    PROVE  ad'[n] # None /\ DOMAIN ad = Nodes => Heard(ad'[n]) /\ ad'[n].printed = cron[n]
<1> DEFINE pair == (now - delay + offset[n]) - now
           new == [printed |-> cron[n], offset |-> offset[n],
                   clocks |-> IF deployed[n].stamped THEN pair ELSE None]
<1>1. DOMAIN ad = Nodes => ad'[n] = new
    BY DEF UpdateArrives
<1>2. pair \in Int /\ offset[n] - Transit <= pair /\ pair <= offset[n]
    BY DEF Offsets
<1>3. new.offset = offset[n] /\ offset[n] \in Int /\ new.printed = cron[n]
    BY DEF Offsets
<1>4. new.clocks # None => new.clocks = pair
    BY Zenon
<1>5. Heard(new)
    <2> HIDE DEF pair, new
    <2> QED BY <1>2, <1>3, <1>4 DEF Heard
<1> HIDE DEF new
<1> QED BY <1>1, <1>3, <1>5

\* A sample stays well formed as time passes.
LEMMA SampledKeeps ==
    ASSUME Offsets, now' = now \/ now' = now + 1
    PROVE  \A p : Sampled(p) => Sampled(p)'
BY DEF Sampled, Offsets

LEMMA StepPool == PoolInv /\ [Next]_vars => PoolInv'
<1> SUFFICES ASSUME PoolInv, [Next]_vars
             PROVE  PoolInv'
    OBVIOUS
<1> USE DEF PoolInv
<1>1. ASSUME NEW n \in Nodes, CronRuns(n)
      PROVE  PoolInv'
    <2>0. check' = check
        BY <1>1 DEF CronRuns
    <2>1. Offsets' /\ ad' = ad /\ now' = now /\ DOMAIN cron' = Nodes
        BY <1>1 DEF CronRuns, Offsets, Printouts
    <2>2. \A p : Sampled(p) => Sampled(p)'
        BY <2>1, SampledKeeps
    <2>3. cron'[n] = Printed(n) /\ \A m \in Nodes \ {n} : cron'[m] = cron[m]
        BY <1>1 DEF CronRuns, Printouts
    <2>4. Sampled(Printed(n))
        BY PrintedIsSampled
    <2>5. PICK p : p = Printed(n)
        OBVIOUS
    <2>6. Sampled(p)'
        BY <2>2, <2>4, <2>5
    <2>7. Printouts'
        BY <2>1, <2>2, <2>3, <2>5, <2>6 DEF Printouts
    <2>8. Collected'
        BY <2>1, <2>2 DEF Collected, Heard
    <2>9. Checking'
        BY <2>0, <2>2 DEF Checking
    <2> QED BY <2>1, <2>7, <2>8, <2>9
<1>2. ASSUME NEW n \in Nodes, NEW delay \in 0 .. Transit, UpdateArrives(n, delay)
      PROVE  PoolInv'
    <2>0. check' = check
        BY <1>2 DEF UpdateArrives
    <2>1. Offsets' /\ cron' = cron /\ now' = now /\ DOMAIN ad' = Nodes
        BY <1>2 DEF UpdateArrives, Offsets, Collected
    <2>2. \A p : Sampled(p) => Sampled(p)'
        BY <2>1, SampledKeeps
    <2>3. \A m \in Nodes \ {n} : ad'[m] = ad[m]
        BY <1>2 DEF UpdateArrives, Collected
    <2>4. Sampled(cron[n])
        BY <1>2 DEF UpdateArrives, Printouts
    <2>5. ad'[n] # None => Heard(ad'[n]) /\ ad'[n].printed = cron[n]
        BY <1>2, ArrivedIsHeard DEF Collected
    <2>6. Collected'
        BY <2>1, <2>2, <2>3, <2>4, <2>5 DEF Collected, Heard
    <2>7. Printouts'
        BY <2>1, <2>2 DEF Printouts
    <2>8. Checking'
        BY <2>0, <2>2 DEF Checking
    <2> QED BY <2>1, <2>6, <2>7, <2>8
<1>3. ASSUME NEW n \in Nodes, ClockPutRight(n)
      PROVE  PoolInv'
    <2>0. /\ offset' = [offset EXCEPT ![n] = 0]
          /\ cron' = cron /\ now' = now /\ ad' = ad /\ deployed' = deployed
          /\ check' = check
        BY <1>3, Zenon DEF ClockPutRight
    <2>1. Offsets'
        BY <2>0 DEF Offsets
    <2>2. \A p : Sampled(p) => Sampled(p)'
        BY <2>0, SampledKeeps
    <2> QED BY <2>0, <2>1, <2>2 DEF Printouts, Collected, Heard, Checking
<1>4. ASSUME UNCHANGED <<deployed, offset, cron, ad, check>>, now' = now \/ now' = now + 1
      PROVE  PoolInv'
    <2>1. Offsets'
        BY <1>4 DEF Offsets
    <2>2. \A p : Sampled(p) => Sampled(p)'
        BY <1>4, SampledKeeps
    <2> QED BY <1>4, <2>1, <2>2 DEF Printouts, Collected, Heard, Checking
<1>5. ASSUME NEW n \in Nodes, Inject(n) \/ Clear(n)
      PROVE  PoolInv'
    BY <1>5, <1>4 DEF Inject, Clear
<1>6. ASSUME CheckRuns
      PROVE  PoolInv'
    <2>0. UNCHANGED <<now, deployed, offset, cron, ad>>
        BY <1>6 DEF CheckRuns, QueryRanking, QueryRows, QueryClocks
    <2>1. Offsets'
        BY <2>0 DEF Offsets
    <2>2. \A p : Sampled(p) => Sampled(p)'
        BY <2>0, SampledKeeps
    <2>3. Printouts' /\ Collected'
        BY <2>0, <2>2 DEF Printouts, Collected, Heard
    <2>4. ASSUME QueryRanking \/ QueryClocks
          PROVE  Checking'
        BY <2>4 DEF QueryRanking, QueryClocks, Idle, Checking
    <2>5. ASSUME QueryRows
          PROVE  Checking'
        <3>1. PICK row : row = [n \in Checkable(ad) |-> ad[n].printed]
            OBVIOUS
        <3>2. check'.row = row
            BY <2>5, <3>1 DEF QueryRows
        <3>3. DOMAIN row \in SUBSET Nodes /\ \A n \in DOMAIN row : Sampled(row[n])
            BY <3>1, RowsAreSampled
        <3>4. \A n \in DOMAIN row : Sampled(row[n])'
            BY <2>2, <3>3
        <3> QED BY <3>2, <3>3, <3>4 DEF Checking
    <2> QED BY <1>6, <2>1, <2>3, <2>4, <2>5 DEF CheckRuns
<1>7. ASSUME Tick \/ UNCHANGED vars
      PROVE  PoolInv'
    BY <1>7, <1>4 DEF Tick, vars
<1> QED BY <1>1, <1>2, <1>3, <1>5, <1>6, <1>7 DEF Next

-----------------------------------------------------------------------------
(* The theorems                                                            *)

\* In every reachable state samples carry the worker's clock of their moment
\* and the pairs of clocks are off by at most the time of an update.
THEOREM PoolInvariant == Spec => []PoolInv
<1> QED BY InitPool, StepPool, PTL DEF Spec

\* check_pool_match.py and the dashboard never disagree on the ads of the
\* collector, whatever it holds (BothSaySame): "change one, change both".
THEOREM ProgramsAgree == Spec => []BothSaySame
<1> QED BY PoolInvariant, SameVerdict, PTL

\* A site of an ad that is neither stale nor unmeasured was read at most a row
\* of the trace ago, but for the time an update travels; one called stale was
\* read longer ago.
LEMMA AgeIsReal ==
    ASSUME NEW a, NEW k \in Nat, NEW t \in Nat, t <= now, now \in Nat,
           NEW sampled \in Int, NEW clocks \in Int, NEW off \in Int,
           sampled = t + off, off - Transit <= clocks, clocks <= off,
           a = now - (sampled - clocks)
    PROVE  /\ a * k <= Row => (now - t) * k <= Row + Transit * k
           /\ a * k > Row => (now - t) * k > Row
<1>1. a \in Int /\ a <= now - t /\ now - t <= a + Transit /\ now - t \in Int
    OBVIOUS
<1>2. a * k <= (now - t) * k
    BY <1>1, TimesKeepsOrder
<1>3. (now - t) * k <= (a + Transit) * k
    <2>1. a + Transit \in Int
        BY <1>1
    <2> QED BY <1>1, <2>1, TimesKeepsOrder
<1>4. (a + Transit) * k = a * k + Transit * k
    BY <1>1, TimesOverSum
<1>5. a * k \in Int /\ (now - t) * k \in Int /\ Transit * k \in Int
    BY <1>1
<1> QED BY <1>2, <1>3, <1>4, <1>5

\* What it takes for the dashboard to call the ads fresh or stale: every site
\* that ranks can be checked, and its clock was measured.
LEMMA FreshIsMeasured ==
    ASSUME replay_coherence(ad) \in {"ok", "warn"}
    PROVE  /\ Ranking(ad) \subseteq Checkable(ad)
           /\ \A n \in Checkable(ad) : clock_offset(n, ad) # None
           /\ replay_coherence(ad) = "warn"
                <=> \E n \in Checkable(ad) : Age(n, ad) * ad[n].printed.accel > Row
<1> DEFINE rows == Checkable(ad)
           row == [n \in rows |-> ad[n].printed]
           stale == \E n \in rows : Age(n, ad) * row[n].accel > Row
<1>1. Ranking(ad) \ rows = {} /\ ~ \E n \in rows : clock_offset(n, ad) = None
    BY Zenon DEF replay_coherence
<1>2. replay_coherence(ad) = "warn" <=> stale
    BY Zenon DEF replay_coherence
<1> QED BY <1>1, <1>2, Zenon

\* The age the dashboard computes is the age of the price.
LEMMA FreshWord == PoolInv => FreshIsFresh
<1> DEFINE Old(n) == (now - ad[n].printed.taken) * ad[n].printed.accel
           Straight == \A n \in Ranking(ad) : SameClock(n, ad[n].printed)
           travel(n) == Transit * ad[n].printed.accel
           late(n) == Age(n, ad) * ad[n].printed.accel
           verdict == replay_coherence(ad)
<1> SUFFICES ASSUME PoolInv, Straight, verdict \in {"ok", "warn"}
             PROVE  /\ verdict = "ok" => \A n \in Ranking(ad) : Old(n) <= Row + travel(n)
                    /\ verdict = "warn" => \E n \in Ranking(ad) : Old(n) > Row
    BY Zenon DEF FreshIsFresh
<1>1. /\ Ranking(ad) = Checkable(ad)
      /\ \A n \in Ranking(ad) : ad[n].clocks # None
      /\ verdict = "warn" <=> \E n \in Ranking(ad) : late(n) > Row
    <2>1. Ranking(ad) = Checkable(ad)
        BY FreshIsMeasured, RowsAreSampled
    <2> QED BY <2>1, FreshIsMeasured, Zenon DEF clock_offset
<1>2. ASSUME NEW n \in Ranking(ad)
      PROVE  /\ late(n) \in Int
             /\ late(n) <= Row => Old(n) <= Row + travel(n)
             /\ late(n) > Row => Old(n) > Row
    <2> DEFINE p == ad[n].printed
               c == ad[n].clocks
    <2>1. Sampled(p) /\ Heard(ad[n]) /\ c # None
        BY <1>1, RowsAreSampled
    <2>2. /\ p.accel \in Nat /\ p.taken \in Nat /\ p.taken <= now
          /\ p.sampled \in Int /\ p.offset \in Int
          /\ p.sampled = p.taken + p.offset
        BY <2>1 DEF Sampled
    <2>3. ad[n].offset = p.offset
        BY Zenon DEF SameClock
    <2>4. c \in Int /\ p.offset - Transit <= c /\ c <= p.offset
        BY <2>1, <2>3 DEF Heard
    <2>5. now \in Nat
        BY DEF PoolInv, Offsets
    <2>6. Age(n, ad) = now - (p.sampled - c)
        BY DEF Age, clock_offset
    <2> DEFINE a == Age(n, ad)
    <2>7. a \in Int /\ a * p.accel \in Int
        <3>1. a \in Int
            BY <2>2, <2>4, <2>5, <2>6
        <3> HIDE DEF a
        <3> QED BY <3>1, <2>2
    <2>8. /\ a * p.accel <= Row => (now - p.taken) * p.accel <= Row + Transit * p.accel
          /\ a * p.accel > Row => (now - p.taken) * p.accel > Row
        <3> HIDE DEF a, p, c
        <3> QED BY <2>2, <2>4, <2>5, <2>6, AgeIsReal DEF a
    <2> QED BY <2>7, <2>8
<1> HIDE DEF Old, late, travel, verdict
<1>3. \A n \in Ranking(ad) : verdict = "ok" => late(n) <= Row
    <2>1. \A n \in Ranking(ad) : ~ late(n) > Row => late(n) <= Row
        BY <1>2
    <2> QED BY <1>1, <2>1
<1> QED BY <1>1, <1>2, <1>3

\* In every reachable state, what the dashboard calls fresh was read at most a
\* row of the trace and an update ago, and what it calls stale was read longer
\* ago (FreshIsFresh), with workers' clocks that are slow, fast or put right.
THEOREM FreshAds == Spec => []FreshIsFresh
<1> QED BY PoolInvariant, FreshWord, PTL

\* Two rows that are in step with a third, of one span and one speed, read by
\* clocks that were measured and not found skewed, are displaced by no more
\* than the allowances add up to.
LEMMA InStepIsComparable ==
    ASSUME NEW span \in Nat \ {0}, NEW accel \in Nat \ {0},
           NEW pn \in Int, NEW pm \in Int, NEW pf \in Int,
           NEW sf \in Int, NEW tn \in Nat, NEW tm \in Nat,
           NEW on \in Int, NEW om \in Int, 
           -Allowance <= on, on <= Allowance + Transit,
           -Allowance <= om, om <= Allowance + Transit,
           circular_delta(pn - pf, ((tn + on) - sf) * accel, span) <= accel * Allowance,
           circular_delta(pm - pf, ((tm + om) - sf) * accel, span) <= accel * Allowance
    PROVE  circular_delta(pn - pm, (tn - tm) * accel, span)
              <= (4 * Allowance + Transit) * accel
<1> DEFINE bn == ((tn + on) - sf) * accel
           bm == ((tm + om) - sf) * accel
           b == (tn - tm) * accel
           apart == (on - om) * accel
           e == accel * Allowance
           dn == circular_delta(pn - pf, bn, span)
           dm == circular_delta(pm - pf, bm, span)
<1>1. bn \in Int /\ bm \in Int /\ b \in Int /\ apart \in Int /\ e \in Int
    OBVIOUS
<1>2. bn - bm = b + apart
    OBVIOUS
<1>3. /\ apart <= (2 * Allowance + Transit) * accel
      /\ -(2 * Allowance + Transit) * accel <= apart
    <2>1. on - om <= 2 * Allowance + Transit /\ -(2 * Allowance + Transit) <= on - om
        OBVIOUS
    <2>2. on - om \in Int /\ 2 * Allowance + Transit \in Int /\ -(2 * Allowance + Transit) \in Int
        OBVIOUS
    <2> QED BY <2>1, <2>2, TimesKeepsOrder
<1>4. /\ (4 * Allowance + Transit) * accel = 2 * e + (2 * Allowance + Transit) * accel
      /\ -(2 * Allowance + Transit) * accel = -((2 * Allowance + Transit) * accel)
      /\ (2 * Allowance + Transit) * accel \in Int
    OBVIOUS
<1>5. dn \in Int /\ dm \in Int /\ dn <= e /\ dm <= e
    <2> HIDE DEF bn, bm
    <2> QED BY <1>1, DeltaIsShorterWay DEF bn, bm
<1>6. PICK kn \in Int : -dn <= ((pn - pf) - bn) - kn * span
                        /\ ((pn - pf) - bn) - kn * span <= dn
    <2>1. pn - pf \in Int
        OBVIOUS
    <2> DEFINE p == pn - pf
    <2> HIDE DEF bn, p
    <2>2. \E k \in Int : -circular_delta(p, bn, span) <= (p - bn) - k * span
                        /\ (p - bn) - k * span <= circular_delta(p, bn, span)
        BY <1>1, <2>1, DeltaIsNear DEF p
    <2> QED BY <2>2 DEF p
<1>7. PICK km \in Int : -dm <= ((pm - pf) - bm) - km * span
                        /\ ((pm - pf) - bm) - km * span <= dm
    <2>1. pm - pf \in Int
        OBVIOUS
    <2> DEFINE p == pm - pf
    <2> HIDE DEF bm, p
    <2>2. \E k \in Int : -circular_delta(p, bm, span) <= (p - bm) - k * span
                        /\ (p - bm) - k * span <= circular_delta(p, bm, span)
        BY <1>1, <2>1, DeltaIsNear DEF p
    <2> QED BY <2>2 DEF p
<1>8. (kn - km) * span = kn * span - km * span /\ kn * span \in Int /\ km * span \in Int
    OBVIOUS
<1> DEFINE bound == (4 * Allowance + Transit) * accel
<1>9. /\ -bound <= ((pn - pm) - b) - (kn - km) * span
      /\ ((pn - pm) - b) - (kn - km) * span <= bound
    <2> DEFINE wide == (2 * Allowance + Transit) * accel
    <2>1. bound = 2 * e + wide /\ wide \in Int /\ apart <= wide /\ -wide <= apart
        BY <1>3, <1>4
    <2>2. (pn - pm) - b = (((pn - pf) - bn) - ((pm - pf) - bm)) + apart
        <3> HIDE DEF bn, bm, b, apart
        <3> QED BY <1>1, <1>2
    <2> HIDE DEF bn, bm, b, apart, e, dn, dm, bound, wide
    <2> QED BY <1>1, <1>5, <1>6, <1>7, <1>8, <2>1, <2>2
<1>10. bound \in Int /\ kn - km \in Int /\ pn - pm \in Int
    OBVIOUS
<1> HIDE DEF b, bound
<1>11. circular_delta(pn - pm, b, span) <= bound
    BY <1>1, <1>9, <1>10, DeltaIsLeast
<1> QED BY <1>11 DEF b, bound

\* A site whose row was looked at, and whose clock the last answer vouches for,
\* has its clock within the allowances.
LEMMA PassedClock ==
    ASSUME PoolInv, check.at = "rows", ~Verdict, check.ranking # {},
           NEW n \in DOMAIN check.row, SameClock(n, check.row[n])
    PROVE  LET off == check.row[n].offset
           IN  off \in Int /\ -Allowance <= off /\ off <= Allowance + Transit
<1> DEFINE c == ad[n].clocks
<1>1. n \in Ranking(ad) /\ c # None
    BY Zenon DEF Verdict, coherence_failed
<1>2. ~ClockSkewed(c)
    <2>1. DOMAIN check.row # {}
        OBVIOUS
    <2> QED BY <1>1, <2>1, Zenon DEF Verdict, coherence_failed
<1>3. Heard(ad[n])
    BY <1>1 DEF Ranking, PoolInv, Collected
<1>4. /\ ad[n].offset = check.row[n].offset /\ ad[n].offset \in Int
      /\ c \in Int /\ ad[n].offset - Transit <= c /\ c <= ad[n].offset
    BY <1>1, <1>3, Zenon DEF SameClock, Heard
<1>5. -Allowance <= c /\ c <= Allowance
    <2>1. ~ Max({c, -c}) > Allowance
        BY <1>2, Zenon DEF ClockSkewed, Abs
    <2>2. -c \in Int
        BY <1>4
    <2> HIDE DEF c
    <2>3. c <= Max({c, -c}) /\ -c <= Max({c, -c}) /\ Max({c, -c}) \in Int
        BY <1>4, <2>2, MaxOfTwoIs
    <2> QED BY <1>4, <2>1, <2>3
<1> HIDE DEF c
<1> QED BY <1>4, <1>5

\* What a check passes is comparable.
LEMMA PassedRows ==
    ASSUME PoolInv, check.at = "rows", ~Verdict, check.ranking # {},
           NEW n \in DOMAIN check.row, NEW m \in DOMAIN check.row,
           SameClock(n, check.row[n]), SameClock(m, check.row[m])
    PROVE  Comparable(check.row[n], check.row[m])
<1> DEFINE row == check.row
           f == Min(DOMAIN row)
           span == row[m].span
           accel == row[m].accel
<1>1. /\ DOMAIN row \in SUBSET Nodes
      /\ \A i \in DOMAIN row : Sampled(row[i])
    BY DEF PoolInv, Checking
<1>2. f \in DOMAIN row
    BY <1>1, LeastIsMember
<1>3. \A i \in DOMAIN row : row[i].span = span /\ row[i].accel = accel
    BY Zenon DEF Verdict, coherence_failed
<1>4. \A i \in DOMAIN row : OutOfStep(i, row) <= accel * Allowance
    <2>1. \A i \in DOMAIN row : ~ OutOfStep(i, row) > row[i].accel * Allowance
        BY Zenon DEF Verdict, coherence_failed
    <2>2. \A i \in DOMAIN row : OutOfStep(i, row) \in Int
        BY <1>1, OutOfStepIsInt
    <2>3. accel * Allowance \in Int
        BY <1>1 DEF Sampled
    <2>4. \A i \in DOMAIN row : ~ OutOfStep(i, row) > accel * Allowance
        BY <1>3, <2>1, Zenon
    <2> HIDE DEF row, accel
    <2> QED BY <2>2, <2>3, <2>4
<1>5. \A i \in DOMAIN row :
         OutOfStep(i, row) = circular_delta(row[i].position - row[f].position,
                                 (row[i].sampled - row[f].sampled) * accel, span)
    BY <1>2, <1>3, Zenon DEF OutOfStep
<1>6. span \in Nat \ {0} /\ accel \in Nat \ {0}
    BY <1>1 DEF Sampled
<1>7. \A i \in DOMAIN row :
         /\ row[i].position \in Int /\ row[i].taken \in Nat /\ row[i].offset \in Int
         /\ row[i].sampled = row[i].taken + row[i].offset
    BY <1>1 DEF Sampled
<1>8. row[f].sampled \in Int
    BY <1>2, <1>7
<1>9. /\ -Allowance <= row[n].offset /\ row[n].offset <= Allowance + Transit
      /\ -Allowance <= row[m].offset /\ row[m].offset <= Allowance + Transit
    BY PassedClock
<1>10. Displaced(row[n], row[m])
         = circular_delta(row[n].position - row[m].position,
                          (row[n].taken - row[m].taken) * accel, span)
    BY Zenon DEF Displaced
<1>11. ASSUME NEW i \in {n, m}
       PROVE  circular_delta(row[i].position - row[f].position,
                 ((row[i].taken + row[i].offset) - row[f].sampled) * accel, span)
              <= accel * Allowance
    BY <1>4, <1>5, <1>7, <1>11, Zenon
<1> HIDE DEF row, f, span, accel
<1>12. circular_delta(row[n].position - row[m].position,
                      (row[n].taken - row[m].taken) * accel, span)
         <= (4 * Allowance + Transit) * accel
    BY <1>2, <1>6, <1>7, <1>8, <1>9, <1>11, InStepIsComparable DEF row
<1> QED BY <1>10, <1>12, Zenon DEF Comparable, accel, row

\* Whatever happens between the queries of check_pool_match.py, a pool it finds
\* no fault in has its sites at one position of the trace, up to the allowances
\* (PassedIsComparable).
THEOREM PassedPool == Spec => PassedIsComparable
<1>1. PoolInv /\ [Next]_vars =>
        [QueryClocks /\ ~Verdict /\ check.ranking # {}
         => \A n, m \in DOMAIN check.row :
               SameClock(n, check.row[n]) /\ SameClock(m, check.row[m])
               => Comparable(check.row[n], check.row[m])]_vars
    BY PassedRows DEF QueryClocks
<1> QED BY <1>1, PoolInvariant, PTL DEF Spec, PassedIsComparable

=============================================================================
