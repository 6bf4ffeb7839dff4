----------------------------- MODULE Accounting -----------------------------
(***************************************************************************)
(* The numbers behind "CO2 saved" (engine.py, power.py): how a tick reads  *)
(* the carbon feed, carries readings over, integrates both counters and    *)
(* decides by policy that a move pays.                                     *)
(*                                                                         *)
(* One clock stands for wall and simulated time (an acceleration of one);  *)
(* it moves while the loop sleeps and while a migration is in progress.  A *)
(* node draws one unit of power whenever its sample is recent enough, so a *)
(* counter grows by time times intensity.  Which trainer runs where is     *)
(* Engine's subject: here liveness, migration and reconciliation have only *)
(* the outcomes the accounting sees.  A veto may refuse any candidate.     *)
(***************************************************************************)
EXTENDS CarbonFeed, FiniteSets

CONSTANTS
    NoSite,
    Baseline,       \* start_site: what the savings are measured against
    MinGain,        \* policy.improvement_g
    Dwell,          \* policy.min_dwell_min
    MaxStale,       \* policy.carbon_max_stale_s
    MaxPowerAge     \* power_max_age_s

ASSUME AccountingAssumption ==
    /\ Baseline \in Sites
    /\ NoSite \notin Sites
    /\ MinGain \in Nat \ {0}
    /\ {Dwell, MaxStale, MaxPowerAge} \subseteq Nat

VARIABLES
    samples,    \* when each site's power.json was written
    intensities,\* _intensities: reading and the time it was taken
    seen,       \* _intensity_seen
    fresh,      \* _fresh_sites
    reading,    \* what this tick read, not yet installed
    active,
    status,
    down,       \* health = "down"
    forced,     \* _force_target
    target,
    pc,
    lastMove,   \* last_move_sim_t
    lastTick,   \* _last_tick_sim_t
    emissions,
    baseline,
    \* What really happened, for the properties only.
    ticked,     \* when the last tick accounted
    charged,    \* time the counters have charged for
    ended       \* when the last migration ended, either way

world    == <<now, source, samples>>
feed     == <<cache, intensities, seen, fresh, reading>>
job      == <<active, status, down, lastMove>>
counters == <<lastTick, emissions, baseline>>
history  == <<ticked, charged, ended>>
vars == <<world, feed, job, counters, history, forced, target, pc>>

Stamp    == Time \cup {Never}

TypeOK ==
    /\ now \in Time
    /\ cache \in [Sites -> Readings]
    /\ samples \in [Sites -> Stamp]
    /\ intensities \in [Sites -> Readings]
    /\ reading \in [Sites -> Readings]
    /\ seen \in [Sites -> Stamp]
    /\ fresh \subseteq Sites
    /\ active \in Sites
    /\ status \in {"running", "migrating", "stopped", "completed"}
    /\ down \in BOOLEAN
    /\ forced \in Sites \cup {NoSite}
    /\ target \in Sites \cup {NoSite}
    /\ pc \in {"sleep", "account", "pick", "moving", "retry"}
    /\ lastMove \in Time
    /\ lastTick \in Stamp
    /\ emissions \in Nat
    /\ baseline \in Nat
    /\ ticked \in Stamp
    /\ charged \in Time
    /\ ended \in Stamp

\* The job starts where reconciliation found or put it.
Init ==
    /\ FeedInit
    /\ samples = [s \in Sites |-> Never]
    /\ intensities = [s \in Sites |-> Missing]
    /\ reading = intensities
    /\ seen = [s \in Sites |-> Never]
    /\ fresh = {}
    /\ active \in Sites
    /\ status = "running"
    /\ down = FALSE
    /\ forced = NoSite
    /\ target = NoSite
    /\ pc = "sleep"
    /\ lastMove = 0
    /\ lastTick = Never
    /\ emissions = 0
    /\ baseline = 0
    /\ ticked = Never
    /\ charged = 0
    /\ ended = Never

----------------------------------------------------------------------------
(* Time, and the sampler of the trainer that runs meanwhile.               *)

Running == status = "running" /\ ~down

Pass ==
    /\ pc \in {"sleep", "moving"}
    /\ now < MaxTime
    /\ now' = now + 1
    /\ \/ UNCHANGED samples
       \/ Running /\ samples' = [samples EXCEPT ![active] = now']
    /\ UNCHANGED <<source, feed, job, counters, ticked, charged, ended, forced,
                   target, pc>>

----------------------------------------------------------------------------
(* _read_intensities                                                       *)

\* The reading of s, when the provider gave got: what it gave, or the reading
\* before, for a while.
CarriedOver(s) == intensities[s] # Missing /\ now - seen[s] <= MaxStale

Reading(s, got) ==
    IF got[s] # Missing THEN got[s]
    ELSE IF CarriedOver(s) THEN intensities[s] ELSE Missing

StampedWhenUsed(s, ok) == IF s \in ok \/ CarriedOver(s) THEN now ELSE seen[s]
StampedWhenRead(s, ok) == IF s \in ok THEN now ELSE seen[s]
Stamped(s, ok) == StampedWhenRead(s, ok)

Fresh(ok) == ok

\* The set of fresh sites is published here, the readings only by Account.
ReadIntensities ==
    /\ pc = "sleep"
    /\ \E got \in [Sites -> Readings] :
          LET ok == {s \in Sites : got[s] # Missing}
          IN  /\ \A s \in Sites : got[s] \in get_intensity(s)
              /\ FeedRead(got)
              /\ reading' = [s \in Sites |-> Reading(s, got)]
              /\ seen' = [s \in Sites |-> Stamped(s, ok)]
              /\ fresh' = Fresh(ok)
    /\ pc' = "account"
    /\ UNCHANGED <<samples, intensities, job, counters, history, forced, target>>

----------------------------------------------------------------------------
(* _integrate_emissions, after _check_liveness had its say                 *)

\* What liveness makes of a job that should be running: nothing, finished,
\* advancing again, or not restartable.
Liveness ==
    \/ UNCHANGED <<status, down>>
    \/ /\ status = "running"
       /\ \/ status' = "completed" /\ down' = FALSE
          \/ status' = "running" /\ down' \in BOOLEAN

\* get_kw: the site's draw is known.
Powered(s) == samples[s] # Never /\ now - samples[s] <= MaxPowerAge

CountableByActive == active \in fresh /\ Powered(active)

Countable ==
    /\ {active, Baseline} \subseteq fresh
    /\ Powered(active)
    /\ Powered(Baseline)

Counts == lastTick # Never /\ ~down' /\ status' # "completed" /\ Countable

\* A paused tick moves lastTick as well: what it leaves out is never made up.
AdvanceIfCounted == lastTick' = IF Counts \/ lastTick = Never THEN now ELSE lastTick
Advance == lastTick' = now

Account ==
    /\ pc = "account"
    /\ Liveness
    /\ intensities' = reading
    /\ Advance
    /\ LET dt == IF Counts THEN now - lastTick ELSE 0
       IN  /\ emissions' = emissions + dt * reading[active].g
           /\ baseline' = baseline + dt * reading[Baseline].g
           /\ charged' = charged + dt
    /\ ticked' = now
    /\ pc' = "pick"
    /\ UNCHANGED <<world, cache, seen, fresh, reading, active, lastMove,
                   ended, forced, target>>

----------------------------------------------------------------------------
(* _pick_target and the outcomes of _migrate                               *)

\* force_migration, on the HTTP thread.
ForceMigration(s) ==
    /\ status = "running"
    /\ s # active
    /\ forced' = s
    /\ UNCHANGED <<world, feed, job, counters, history, target, pc>>

PickNone ==
    /\ pc = "pick"
    /\ forced = NoSite \/ status # "running"
    /\ forced' = NoSite
    /\ pc' = "retry"
    /\ UNCHANGED <<world, feed, job, counters, history, target>>

Depart(t) ==
    /\ target' = t
    /\ status' = "migrating"
    /\ pc' = "moving"
    /\ UNCHANGED <<world, feed, active, down, lastMove, counters, history>>

PickForced ==
    /\ pc = "pick"
    /\ status = "running"
    /\ forced # NoSite
    /\ Depart(forced)
    /\ forced' = NoSite

Settled == now - lastMove >= Dwell

\* A move pays on a reading of this tick at both ends.
Pays(t) ==
    /\ {active, t} \subseteq fresh
    /\ intensities[active].g - intensities[t].g >= MinGain

PickPolicy(t) ==
    /\ pc = "pick"
    /\ status = "running"
    /\ forced = NoSite
    /\ Settled
    /\ Pays(t)
    /\ Depart(t)
    /\ UNCHANGED forced

Arrive == active' = target /\ target' = NoSite

MoveSucceeds ==
    /\ pc = "moving"
    /\ Arrive
    /\ lastMove' = now
    /\ status' = "running"
    /\ down' = FALSE
    /\ ended' = now
    /\ pc' = "sleep"
    /\ UNCHANGED <<world, feed, counters, ticked, charged, forced>>

AbortAtOnce == UNCHANGED lastMove
AbortBacksOff == lastMove' = now
BackOff == AbortBacksOff

\* _abort_migration: resumed at the source, or stopped and reported.
MoveFails ==
    /\ pc = "moving"
    /\ BackOff
    /\ ended' = now
    /\ \/ status' = "running" /\ down' = FALSE
       \/ status' = "stopped" /\ down' = TRUE
    /\ target' = NoSite
    /\ pc' = "sleep"
    /\ UNCHANGED <<world, feed, active, counters, ticked, charged, forced>>

\* The loop's reconciliation of a job that is down: it stays blocked, is found
\* finished and promoted, or runs again, here or where it was found.
Retry ==
    /\ pc = "retry"
    /\ \/ UNCHANGED job
       \/ /\ down
          /\ status # "running"
          /\ status' = "running"
          /\ down' = FALSE
          /\ active' \in Sites
          /\ lastMove' \in {lastMove, now}
    /\ pc' = "sleep"
    /\ UNCHANGED <<world, feed, counters, history, forced, target>>

Next ==
    \/ Pass \/ ReadIntensities \/ Account \/ PickNone \/ PickForced
    \/ MoveSucceeds \/ MoveFails \/ Retry
    \/ \E s \in Sites : ForceMigration(s) \/ PickPolicy(s)

Spec == Init /\ [][Next]_vars

----------------------------------------------------------------------------
(* Properties                                                              *)

\* _read_intensities: a reading that is shown or compared was taken at most
\* MaxStale before the tick that installed it, however often it was carried
\* over; with a live feed, add the time its provider keeps an answer, which the
\* engine takes for a new one.
ReadingsAreRecent ==
    \A s \in Sites : intensities[s] # Missing =>
        ticked - intensities[s].at
            <= MaxStale + (IF source.kind = "live" THEN Ttl - 1 ELSE 0)

\* _integrate_emissions: one tick charges for the time since the tick before
\* it, so an outage or a stopped job is never charged when it ends.
ChargesOneInterval == [][charged' - charged <= now - ticked]_vars

\* Both counters charge the same time at measured intensities: a gap in one
\* feed never shows as a saving, or as a loss.
SavingsAreMeasured ==
    \A lo, hi \in Levels :
        (\A l \in Levels : lo <= l /\ l <= hi) =>
            /\ baseline - emissions <= (hi - lo) * charged
            /\ emissions - baseline <= (hi - lo) * charged

\* The job is not bounced: policy leaves a dwell between the end of one
\* migration, completed or aborted, and the next.
MovesAreSpaced ==
    [][\A t \in Sites : PickPolicy(t) => ended = Never \/ now - ended >= Dwell]_vars

\* state(): but for the moments between the two lock sections of one tick, no
\* reading that was carried over is shown under the label of a fresh one.
StaleIsLabelled ==
    pc # "account" =>
        \A s \in fresh : ticked - intensities[s].at < (IF source.kind = "live" THEN Ttl ELSE 1)

=============================================================================
