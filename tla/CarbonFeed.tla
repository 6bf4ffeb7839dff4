----------------------------- MODULE CarbonFeed -----------------------------
(***************************************************************************)
(* Where the orchestrator's carbon readings come from (carbon.py): the     *)
(* choice main.py makes before anything runs, a replayed trace that        *)
(* answers for the zones it has values of, and a live feed whose answers   *)
(* are kept for a while and given again without being asked for.           *)
(*                                                                         *)
(* Every site is a zone of its own.  A reading carries the time it was     *)
(* taken, which the code does not keep past the provider.                  *)
(***************************************************************************)
EXTENDS Integers

CONSTANTS
    Sites,
    Levels,         \* intensities a feed may report
    Ttl,            \* ElectricityMapsProvider.ttl
    MaxTime         \* bound on the clock

ASSUME FeedAssumption ==
    /\ Levels \subseteq Nat \ {0}
    /\ Ttl \in Nat \ {0}
    /\ MaxTime \in Nat

VARIABLES
    now,
    source,     \* the provider build_provider made
    cache       \* _cache: the last answer of the live feed for each zone

Never   == -1
Missing == [g |-> 0, at |-> Never]
Time    == 0 .. MaxTime
Readings == {Missing} \cup [g : Levels, at : Time]

\* What a trace file may hold of each zone: no row, rows without a usable value,
\* or measured history.  No row for any is also a file that is not there, or
\* that is not configured.
TraceFiles == [Sites -> {"absent", "unusable", "measured"}]

\* plan_carbon_source: the trace, if every configured zone has a row in it; the
\* live feed, if there is a token for it; otherwise nothing.
Kind(trace, token) ==
    IF \A s \in Sites : trace[s] # "absent" THEN "trace"
    ELSE IF token THEN "live" ELSE "none"

\* TraceProvider._load: the zones with at least one usable row.
Series(kind, trace) ==
    IF kind = "trace" THEN {s \in Sites : trace[s] = "measured"} ELSE {}

\* main refuses to run without a source, and a trace with no usable row at all
\* cannot be loaded.
Sources ==
    {LET kind == Kind(trace, token)
     IN  [kind |-> kind, series |-> Series(kind, trace)] :
        trace \in TraceFiles, token \in BOOLEAN}

Starts(src) == src.kind = "live" \/ (src.kind = "trace" /\ src.series # {})

FeedInit ==
    /\ now = 0
    /\ source \in {src \in Sources : Starts(src)}
    /\ cache = [s \in Sites |-> Missing]

\* A reading taken now, at any level the zone has been measured at or between.
Taken == [g : Levels, at : {now}]

\* A cached answer is given for Ttl after it was fetched.
Hit(s) == cache[s] # Missing /\ now - cache[s].at < Ttl

\* ElectricityMapsProvider.get_intensity; a request that fails raises.
LiveAnswers(s) == IF Hit(s) THEN {cache[s]} ELSE Taken \cup {Missing}

\* TraceProvider.get_intensity; a zone without a series raises, at every tick.
TraceAnswers(s) == IF s \in source.series THEN Taken ELSE {Missing}

\* The outcomes of get_intensity, Missing where it raises.
get_intensity(s) ==
    IF source.kind = "live" THEN LiveAnswers(s) ELSE TraceAnswers(s)

\* Every zone was read, with these outcomes.
FeedRead(got) ==
    /\ cache' = [s \in Sites |->
                    IF source.kind = "live" /\ got[s] # Missing THEN got[s] ELSE cache[s]]
    /\ UNCHANGED <<now, source>>
=============================================================================
