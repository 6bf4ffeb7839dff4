-------------------------------- MODULE Pool --------------------------------
(***************************************************************************)
(* The carbon price of a site on its way to the negotiator, and the two    *)
(* programs that vouch for it.  carbon_classad.py runs on every worker     *)
(* from STARTD_CRON and reads a replayed trace at a position that is a     *)
(* function of the worker's clock; the startd sends the result to the      *)
(* collector now and then, whose copy is what jobs are ranked by.          *)
(* check_pool_match.py (before a submission, in four queries) and the      *)
(* dashboard (in one) decide whether the copies are of one moment of the   *)
(* trace.  The dashboard can also inject a price, for a while.             *)
(*                                                                         *)
(* One unit of time stands for some seconds; `now' is the clock of the     *)
(* submit node, on which collector, dashboard and check run.               *)
(***************************************************************************)
EXTENDS Integers, FiniteSets, FiniteSetsExt

CONSTANTS
    Nodes,         \* the workers, as numbers: their order is that of their names
    Pools,         \* what may be installed on them (see Deployment)
    Allowance,     \* CLOCK_SKEW_ALLOWANCE_S
    Transit,       \* an update takes at most this long to reach the collector
    Row,           \* one row of the trace lasts this much replayed time
    Hold,          \* how long an injected price is to last
    MaxTime,       \* bound: the time an instance follows
    None           \* nothing there

\* carbon_classad.py on one node: the trace it has (where it starts, its span,
\* from where and up to where the node's own zone is covered), its speed, whether
\* it publishes how to check it (an older one does not), whether the startd's ads
\* carry the pair of clocks, how far its clock is from the submit node's, and (bound) how
\* many prices are injected there.
Deployment == [start : Nat, span : Nat \ {0}, first : Nat, last : Nat, accel : Nat \ {0},
               checkable : BOOLEAN, stamped : BOOLEAN, clock : Int,
               injections : Nat]

ASSUME PoolAssumption ==
    /\ Nodes \subseteq Nat /\ IsFiniteSet(Nodes)
    /\ \A pool \in Pools : \A n \in Nodes : pool[n] \in Deployment
    /\ {Allowance, Transit, Row, Hold, MaxTime} \subseteq Nat

VARIABLES
    now,        \* the submit node's clock
    deployed,   \* what runs on each worker
    offset,     \* its clock minus the submit node's
    stepped,    \* when it was put right, or 0
    override,   \* OVERRIDE_FILE: the expiry of the injected price, or None
    injections, \* how many more are made
    cron,       \* what STARTD_CRON last printed on each worker
    ad,         \* the collector's copy of each worker's ad
    check       \* a run of check_pool_match.py: the answers it has had so far

vars == <<now, deployed, offset, stepped, override, injections, cron, ad, check>>

Idle == [at |-> "idle"]

Init ==
    /\ now = 0
    /\ deployed \in Pools
    /\ offset = [n \in Nodes |-> deployed[n].clock]
    /\ stepped = [n \in Nodes |-> 0]
    /\ override = [n \in Nodes |-> None]
    /\ injections = [n \in Nodes |-> deployed[n].injections]
    /\ cron = [n \in Nodes |-> None]
    /\ ad = [n \in Nodes |-> None]
    /\ check = Idle

-----------------------------------------------------------------------------
(* The worker                                                              *)

Clock(n) == now + offset[n]

\* Where the replay stands by a clock: the same for every zone.
replay_position(d, stamp) == d.start + ((stamp * d.accel) % d.span)

\* An override counts whatever its expiry...
read_override_forever(n) == override[n] # None

\* ... until the worker's own clock passes it.
read_override(n) == override[n] # None /\ Clock(n) < override[n]

\* The value is absent outside the zone's own coverage, never its first or last row.
covers(d, position) == position - d.start \in d.first .. d.last

\* What main() prints now.  `taken' and `offset' are for the properties: when,
\* on the submit node's clock, and by how far the worker's was off.
Printed(n) ==
    LET d == deployed[n]
        position == replay_position(d, Clock(n))
        injected == read_override(n)
    IN [priced |-> injected \/ covers(d, position), injected |-> injected,
        checkable |-> d.checkable, accel |-> d.accel, span |-> d.span,
        sampled |-> Clock(n), position |-> position,
        taken |-> now, offset |-> offset[n]]

\* STARTD_CRON: the new output replaces all of the last one.
CronRuns(n) ==
    /\ cron' = [cron EXCEPT ![n] = Printed(n)]
    /\ UNCHANGED <<now, deployed, offset, stepped, override, injections, ad, check>>

\* The startd's ad, sent `delay' ago, arrives: it is stamped with both clocks,
\* MyCurrentTime when it was sent and LastHeardFrom now.  (One that is lost is
\* one that never does this.)
UpdateArrives(n, delay) ==
    /\ cron[n] # None /\ cron[n].taken <= now - delay
    /\ stepped[n] <= now - delay
    /\ ad' = [ad EXCEPT ![n] =
                 [printed |-> cron[n], offset |-> offset[n],
                  clocks |-> IF deployed[n].stamped
                             THEN (now - delay + offset[n]) - now ELSE None]]
    /\ UNCHANGED <<now, deployed, offset, stepped, override, injections, cron, check>>

\* "Fix time sync on that node": its clock jumps to the submit node's.
ClockPutRight(n) ==
    /\ offset[n] # 0 /\ now > 0
    /\ offset' = [offset EXCEPT ![n] = 0]
    /\ stepped' = [stepped EXCEPT ![n] = now]
    /\ UNCHANGED <<now, deployed, override, injections, cron, ad, check>>

-----------------------------------------------------------------------------
(* The dashboard's inject and clear                                        *)

Behind(x) == IF x < 0 THEN -x ELSE 0

\* Actions.inject, of a site the last poll showed: the file on the worker gets
\* an expiry by the dashboard's clock.
Inject(n) ==
    /\ ad[n] # None
    /\ injections[n] > 0
    /\ now + Hold + Behind(offset[n]) <= MaxTime     \* bound: it lapses in time
    /\ override' = [override EXCEPT ![n] = now + Hold]
    /\ injections' = [injections EXCEPT ![n] = @ - 1]
    /\ UNCHANGED <<now, deployed, offset, stepped, cron, ad, check>>

Clear(n) ==
    /\ ad[n] # None /\ override[n] # None
    /\ override' = [override EXCEPT ![n] = None]
    /\ UNCHANGED <<now, deployed, offset, stepped, injections, cron, ad, check>>

-----------------------------------------------------------------------------
(* check_pool_match.py                                                     *)

\* Those with a CarbonIntensity: they compete for jobs on it.
Ranking(ads) == {n \in Nodes : ads[n] # None /\ ads[n].printed.priced}

\* Those with a position, a span, a speed and a sample time.
Checkable(ads) == {n \in Ranking(ads) : ads[n].printed.checkable}

\* Distance on a timeline that wraps.
circular_delta(a, b, span) == LET gap == (a - b) % span IN Min({gap, span - gap})

Abs(x) == Max({x, -x})

\* How far n's position is from what its own sample time implies, by the row
\* that comes first.
OutOfStep(n, row) ==
    LET first == row[Min(DOMAIN row)]
    IN circular_delta(row[n].position - first.position,
                      (row[n].sampled - first.sampled) * first.accel, first.span)

\* A clock taken for skewed only when it runs ahead...
ClockSkewed_ahead(clocks) == clocks > Allowance

\* ... or by how far it is off, either way.
ClockSkewed(clocks) == Abs(clocks) > Allowance

\* check_replay_coherence, from the answers to its three queries: who ranks,
\* the rows of those that can be checked, and the ads with the clocks.
coherence_failed(ranking, row, ads) ==
    /\ ranking # {}
    /\ \/ ~ ranking \subseteq DOMAIN row
       \/ \E n, m \in DOMAIN row :
             row[n].span # row[m].span \/ row[n].accel # row[m].accel
       \/ \E n \in DOMAIN row : OutOfStep(n, row) > row[n].accel * Allowance
       \/ DOMAIN row # {} /\ \E n \in Ranking(ads) :
             ads[n].clocks # None /\ ClockSkewed(ads[n].clocks)
       \/ \E n \in DOMAIN row :
             n \notin Ranking(ads) \/ ads[n].clocks = None

QueryRanking ==
    /\ check.at = "idle"
    /\ check' = [at |-> "ranking", ranking |-> Ranking(ad)]
    /\ UNCHANGED <<now, deployed, offset, stepped, override, injections, cron, ad>>

QueryRows ==
    /\ check.at = "ranking"
    /\ check' = [at |-> "rows", ranking |-> check.ranking,
                 row |-> [n \in Checkable(ad) |-> ad[n].printed]]
    /\ UNCHANGED <<now, deployed, offset, stepped, override, injections, cron, ad>>

\* The clocks, and with them the verdict, which the exit code carries and
\* nothing remembers.
QueryClocks ==
    /\ check.at = "rows"
    /\ check' = Idle
    /\ UNCHANGED <<now, deployed, offset, stepped, override, injections, cron, ad>>

Verdict == coherence_failed(check.ranking, check.row, ad)

-----------------------------------------------------------------------------
(* The dashboard's replay_coherence, from the ads of one query             *)

\* A clock that cannot be measured read as right...
clock_offset_zero(n, ads) == IF ads[n].clocks = None THEN 0 ELSE ads[n].clocks

\* ... or as unmeasurable.
clock_offset(n, ads) == ads[n].clocks

\* The age of an ad by the dashboard's clock alone...
Age_oneclock(n, ads) == now - ads[n].printed.sampled

\* ... or with the sample time brought to it.
Age(n, ads) == now - (ads[n].printed.sampled - clock_offset(n, ads))

replay_coherence(ads) ==
    LET rows == Checkable(ads)
        row == [n \in rows |-> ads[n].printed]
        blind == Ranking(ads) \ rows
        Many(S) == Cardinality(S) > 1
        allowance == row[Min(rows)].accel * Allowance
        problem ==
            \/ blind # {}
            \/ Many({row[n].span : n \in rows}) \/ Many({row[n].accel : n \in rows})
            \/ Max({OutOfStep(n, row) : n \in rows}) > allowance
            \/ \E n \in rows : clock_offset(n, ads) = None
            \/ \E n \in rows : ClockSkewed(clock_offset(n, ads))
        stale == \E n \in rows : Age(n, ads) * row[n].accel > Row
    IN IF Ranking(ads) = {} THEN "none"
       ELSE IF problem THEN "bad"
       ELSE IF Cardinality(rows) < 2 THEN "thin"
       ELSE IF stale THEN "warn" ELSE "ok"

-----------------------------------------------------------------------------

Tick ==
    /\ now < MaxTime
    /\ now' = now + 1
    /\ UNCHANGED <<deployed, offset, stepped, override, injections, cron, ad, check>>

CheckRuns == QueryRanking \/ QueryRows \/ QueryClocks

Next ==
    \/ \E n \in Nodes : CronRuns(n) \/ ClockPutRight(n) \/ Inject(n) \/ Clear(n)
    \/ \E n \in Nodes, delay \in 0 .. Transit : UpdateArrives(n, delay)
    \/ CheckRuns
    \/ Tick

\* Cron and updates keep coming and time passes; nothing is promised of the
\* operator or of the check.
Fairness ==
    /\ WF_vars(Tick)
    /\ \A n \in Nodes : WF_vars(CronRuns(n)) /\ WF_vars(UpdateArrives(n, 0))

Spec == Init /\ [][Next]_vars /\ Fairness

-----------------------------------------------------------------------------
(* What may be relied on                                                   *)

\* How far apart two positions are, in replayed time, beyond what the time
\* between the two samples accounts for.
Displaced(p, q) ==
    circular_delta(p.position - q.position, (p.taken - q.taken) * q.accel, q.span)

\* What the allowances add up to, for two nodes each compared with a third.
Comparable(p, q) == Displaced(p, q) <= (4 * Allowance + Transit) * q.accel

\* The clock that was measured is the one the position was read by: it was not
\* put right in between, which neither program can see.
SameClock(n, p) == ad[n].offset = p.offset

\* If check_pool_match.py finds no fault in a pool that ranks on carbon, the
\* positions of any two sites it looked at are the same function of time, up to
\* the allowances: in spite of the ads that change between its queries, of slow
\* and fast clocks, of older publishers and of traces that differ.
\* (check_replay_coherence: a node's own sample time vouches for its formula
\* only, and the clock has to be measured.)
PassedIsComparable ==
    [][ QueryClocks /\ ~Verdict /\ check.ranking # {}
        => \A n, m \in DOMAIN check.row :
              SameClock(n, check.row[n]) /\ SameClock(m, check.row[m])
              => Comparable(check.row[n], check.row[m]) ]_vars

\* The two programs, written twice, say the same of the same ads ("change one,
\* change both").
BothSaySame ==
    coherence_failed(Ranking(ad), [n \in Checkable(ad) |-> ad[n].printed], ad)
        <=> replay_coherence(ad) = "bad"

\* When the dashboard shows a coherent pool of fresh ads, every price that jobs
\* are ranked by was read at most one row of the trace ago, in real time, but
\* for the time an update travels; and when it calls the ads stale one of them
\* is.  (The sample time is in the worker's clock: a slow one must not make a
\* healthy ad stale, nor a fast one a stale ad healthy.)
FreshIsFresh ==
    LET Old(n) == (now - ad[n].printed.taken) * ad[n].printed.accel
        straight == \A n \in Ranking(ad) : SameClock(n, ad[n].printed)
        travel(n) == Transit * ad[n].printed.accel
    IN /\ replay_coherence(ad) = "ok" /\ straight
          => \A n \in Ranking(ad) : Old(n) <= Row + travel(n)
       /\ replay_coherence(ad) = "warn" /\ straight
          => \E n \in Ranking(ad) : Old(n) > Row

\* An injected price lapses by itself: whatever the worker's clock, the pool
\* comes back to ranking the site by its trace, if only by the next cron and
\* the next update after the expiry.
InjectionLapses ==
    \A n \in Nodes : []<>(ad[n] # None /\ ~ad[n].printed.injected)
=============================================================================
