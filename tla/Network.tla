------------------------------ MODULE Network -------------------------------
(***************************************************************************)
(* The network model behind the migration veto (fabric_metrics.py and the  *)
(* calibration of engine.py): a cached link graph from the metrics API,    *)
(* the estimate along a shortest path, the downtime predicted from what    *)
(* earlier migrations measured, and the veto.                              *)
(*                                                                         *)
(* Rates are in tenths of a capacity unit and durations in whole units;    *)
(* the code's floats and roundings become integer division.  A link keeps  *)
(* the most loaded of its readings; that merge is part of a scrape.        *)
(***************************************************************************)
EXTENDS Integers, PathSearch

CONSTANTS
    Racks,          \* managed sites and transit racks
    Managed,
    Topology,       \* the links the API may report, pairs of racks
    Capacity,
    Utils,          \* utilisations a scrape may report
    Efficiency,     \* tenths of the headroom one transfer gets
    Ttl,
    DefaultSize,    \* net_cfg.default_checkpoint_mb
    MinRateSize,    \* MIN_RATE_CALIBRATION_BYTES
    Overhead,       \* net_cfg.overhead_s
    Budget,         \* net_cfg.max_downtime_s
    Moves,          \* completed migrations: method, size, seconds, downtime
    None,
    MaxTime,        \* bound on the clock
    MaxMoves        \* bound on the migrations

Never == -1

ASSUME NetworkAssumption ==
    /\ IsFiniteSet(Racks)
    /\ Managed \subseteq Racks
    /\ Topology \subseteq {l \in SUBSET Racks : Cardinality(l) = 2}
    /\ Utils \subseteq 0 .. Capacity
    /\ {Capacity, Efficiency, Ttl, Overhead, Budget, MaxTime, MaxMoves} \subseteq Nat
    /\ {DefaultSize, MinRateSize} \subseteq Nat \ {0}
    /\ Moves \subseteq [method : {"dataplane", "relay"}, size : Nat \ {0},
                        seconds : Nat \ {0}, downtime : Nat]
    /\ \A m \in Moves : 10 * m.size >= m.seconds       \* rates round to no less than one
    /\ None \notin Nat

VARIABLES
    now,
    links,      \* _links: utilisation of each known link
    ok,         \* _ok
    fetched,    \* _fetched_at
    active,
    size,       \* checkpoint_bytes, or the default
    est,        \* _net_est
    rate,       \* _measured_rate_bps
    setup,      \* _measured_setup_s
    orch,       \* _measured_orchestration_s
    verdict,    \* the last answer of _downtime_ok
    moves,
    pc,
    \* What really happened, for the properties only.
    answered,   \* when it last answered
    completed   \* migrations completed, as they were timed

vars == <<now, links, ok, fetched, active, size, est, rate, setup, orch,
          verdict, moves, pc, answered, completed>>
cache    == <<links, ok, fetched, answered>>
measured == <<size, rate, setup, orch, completed>>

Unset  == Nat \cup {None}
NoEst  == [ok |-> FALSE, headroom |-> 0, rate |-> 0, downtime |-> 0]
NoVerdict == [allowed |-> TRUE, est |-> NoEst]

TypeOK ==
    /\ now \in 0 .. MaxTime
    /\ DOMAIN links \subseteq Topology
    /\ \A l \in DOMAIN links : links[l] \in Utils
    /\ ok \in BOOLEAN
    /\ fetched \in {Never} \cup 0 .. MaxTime
    /\ active \in Managed
    /\ est \in [Managed -> [ok : BOOLEAN, headroom : Nat, rate : Nat,
                            downtime : Nat]]
    /\ size \in Nat
    /\ rate \in Unset /\ setup \in Unset /\ orch \in Unset
    /\ verdict.allowed \in BOOLEAN
    /\ moves \in 0 .. MaxMoves
    /\ pc \in {"sleep", "pick"}
    /\ answered \in {Never} \cup 0 .. MaxTime
    /\ completed \subseteq Moves

Init ==
    /\ now = 0
    /\ links = <<>>
    /\ ok = FALSE
    /\ fetched = Never
    /\ active \in Managed
    /\ size = DefaultSize
    /\ est = [s \in Managed |-> NoEst]
    /\ rate = None /\ setup = None /\ orch = None
    /\ verdict = NoVerdict
    /\ moves = 0
    /\ pc = "sleep"
    /\ answered = Never
    /\ completed = {}

----------------------------------------------------------------------------
(* estimate                                                                *)

Least(S) == CHOOSE x \in S : \A y \in S : x <= y

Headroom(p, util) ==
    Least({Capacity - util[{p[i], p[i + 1]}] : i \in 1 .. Len(p) - 1})

\* What a transfer gets of a headroom, in tenths.
Usable(h) == Efficiency * h

\* A measured rate caps what the headroom allows, never raises it.
AssumedRate(h) == IF rate # None /\ rate < Usable(h) THEN rate ELSE Usable(h)

\* Without a rate there is no transfer time, and _predict_downtime counts a
\* missing time as none.
TransferTime(r) == IF r > 0 THEN (10 * size) \div r ELSE 0

Known(x) == IF x = None THEN 0 ELSE x
FixedCost == IF orch = None /\ setup = None THEN Overhead
             ELSE Known(orch) + Known(setup)

EstimateAlong(p, util) ==
    LET h == Headroom(p, util)
    IN  [ok |-> TRUE, headroom |-> h, rate |-> AssumedRate(h),
         downtime |-> FixedCost + TransferTime(AssumedRate(h))]

\* Every estimate of s the search can lead to.
Estimates(s, util, good) ==
    LET paths == shortest_path(active, s, DOMAIN util)
    IN  IF s = active \/ ~good \/ paths = {} THEN {NoEst}
        ELSE {EstimateAlong(p, util) : p \in paths}

----------------------------------------------------------------------------
(* _refresh, as called by the estimates of a tick                          *)

Cached == fetched # Never /\ now - fetched < Ttl

Scrape ==
    /\ \E known \in SUBSET Topology : \E util \in [known -> Utils] :
          /\ known # {}
          /\ links' = util
    /\ ok' = TRUE
    /\ answered' = now

\* An answer without links leaves the graph of an earlier one in force.
EmptyScrape == answered' = now /\ UNCHANGED <<links, ok>>

FailKeepsData == UNCHANGED <<links, ok, answered>>
FailDropsData == ok' = FALSE /\ UNCHANGED <<links, answered>>
Fail == FailDropsData

\* After a failure too: the API is left alone for a whole Ttl.
Stamp == fetched' = now

Refresh ==
    \/ Cached /\ UNCHANGED cache
    \/ /\ ~Cached
       /\ Scrape \/ EmptyScrape \/ Fail
       /\ Stamp

\* _update_net_estimates: one refresh, then an estimate per candidate.
UpdateEstimates ==
    /\ pc = "sleep"
    /\ Refresh
    /\ \E util \in {links'}, good \in {ok'} :
          est' \in {e \in [Managed -> UNION {Estimates(s, util, good) : s \in Managed}] :
                      \A s \in Managed : e[s] \in Estimates(s, util, good)}
    /\ verdict' = NoVerdict
    /\ pc' = "pick"
    /\ UNCHANGED <<now, active, moves, measured>>

----------------------------------------------------------------------------
(* The veto, and what a completed migration teaches                        *)

\* _downtime_ok: fail open without data.
Judge(t) ==
    /\ pc = "pick"
    /\ t # active
    /\ verdict' = [allowed |-> ~est[t].ok \/ est[t].downtime <= Budget,
                   est |-> est[t]]
    /\ UNCHANGED <<now, cache, active, moves, measured, est, pc>>

Ewma(old, x) == IF old = None THEN x ELSE (6 * old + 4 * x) \div 10

\* Transfer time left after the setup small transfers took, which may be more
\* than a large one took altogether: then it is the least the model knows.
WireTimeLeft(m) == m.seconds - Known(setup)
WireTimeFloored(m) ==
    IF m.seconds > Known(setup) THEN m.seconds - Known(setup) ELSE 1
WireTime(m) == WireTimeFloored(m)

WireRate(m) == (10 * m.size) \div WireTime(m)

TeachesAny(m) == TRUE
TeachesDataplane(m) == m.method = "dataplane"
Teaches(m) == TeachesDataplane(m)

\* A downtime below the transfer it contains is no measurement.
Sane(m) == m.downtime >= m.seconds

Calibrate(m) ==
    /\ orch' = IF Teaches(m) /\ Sane(m)
               THEN Ewma(orch, m.downtime - m.seconds) ELSE orch
    /\ IF Teaches(m) /\ m.size >= MinRateSize
       THEN rate' = Ewma(rate, WireRate(m)) /\ UNCHANGED setup
       ELSE UNCHANGED rate /\ setup' = IF Teaches(m) THEN Ewma(setup, m.seconds)
                                       ELSE setup

\* A migration policy chose, or the operator's, which no veto stops.
Migrate(t, m) ==
    /\ pc = "pick"
    /\ t # active
    /\ moves < MaxMoves
    /\ moves' = moves + 1
    /\ active' = t
    /\ size' = m.size
    /\ Calibrate(m)
    /\ completed' = completed \cup {m}
    /\ pc' = "sleep"
    /\ UNCHANGED <<now, cache, est, verdict>>

\* A migration that ended at its source: its transfer may have gone through.
Aborted(m) ==
    /\ pc = "pick"
    /\ moves < MaxMoves
    /\ moves' = moves + 1
    /\ size' \in {size, m.size}
    /\ pc' = "sleep"
    /\ UNCHANGED <<now, cache, active, rate, setup, orch, completed, est,
                   verdict>>

Stay ==
    /\ pc = "pick"
    /\ pc' = "sleep"
    /\ UNCHANGED <<now, cache, active, moves, measured, est, verdict>>

Pass ==
    /\ pc = "sleep"
    /\ now < MaxTime
    /\ now' = now + 1
    /\ UNCHANGED <<cache, active, moves, measured, est, verdict, pc>>

Next ==
    \/ UpdateEstimates \/ Stay \/ Pass
    \/ \E m \in Moves : Aborted(m) \/ \E t \in Managed : Migrate(t, m)
    \/ \E t \in Managed : Judge(t)

Spec == Init /\ [][Next]_vars

----------------------------------------------------------------------------
(* Properties                                                              *)

\* _shortest_path, on every link graph a scrape leaves: an estimate is made
\* along a shortest path, in whatever order the API listed the links, and is
\* missing only if there is none.
PathIsShortest ==
    \A s \in Managed \ {active} : SearchIsRight(active, s, DOMAIN links)

\* _downtime_ok: fail open on no data, so a veto is given only while the API's
\* last answer is younger than the Ttl, never after a query that failed.
VetoIsCurrent == pc = "pick" /\ ~verdict.allowed => now - answered < Ttl

\* What the dataplane migrations cost: outside the transfer, in the transfers too
\* small to measure a bandwidth, and what the large ones achieved end to end.
Dataplane == {m \in completed : m.method = "dataplane"}
Large     == {m \in Dataplane : m.size >= MinRateSize}

Orchestrations ==
    {m.downtime - m.seconds : m \in {d \in Dataplane : d.downtime >= d.seconds}}
Setups      == {m.seconds : m \in Dataplane \ Large}
Throughputs == {(10 * m.size) \div m.seconds : m \in Large}

OrNothing(costs) == IF costs = {} THEN {0} ELSE costs
FixedCosts ==
    IF Orchestrations \cup Setups = {} THEN {Overhead}
    ELSE {o + s : o \in OrNothing(Orchestrations), s \in OrNothing(Setups)}

\* _calibrate and _predict_downtime: whatever sizes, setups and rates migrations
\* had and however they are averaged, a predicted downtime is no more than what
\* migrations really cost, at the worst throughput they had or at what the path
\* has left, and it is never below the least of that cost and the time the path
\* needs, even when a setup longer than the transfer makes a rate of nothing.
PredictionIsMeasured ==
    \A t \in Managed : pc = "pick" /\ est[t].ok =>
        LET path == Usable(est[t].headroom) IN
        /\ \E c \in FixedCosts : c + TransferTime(path) <= est[t].downtime
        /\ \E c \in FixedCosts, r \in Throughputs \cup {path} :
              est[t].downtime <= c + TransferTime(r)

=============================================================================
