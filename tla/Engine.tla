------------------------------- MODULE Engine -------------------------------
(***************************************************************************)
(* The migration engine of carbon_chaser/engine.py driving the workers     *)
(* through SshExecutor (carbon_chaser/executor.py): startup                *)
(* reconciliation, the tick loop, the migration with its abort path, the   *)
(* reconcile retry, the dashboard's force-migrate thread, crashes of the   *)
(* orchestrator, and the workers it can or cannot reach.                   *)
(*                                                                         *)
(* One engine thread runs the control points of pc in program order; every *)
(* executor call is one step whose outcome depends on the worker, so       *)
(* outages, trainer deaths and the HTTP thread interleave between any two  *)
(* calls.  Abstracted: carbon, dwell and the downtime veto (PickPolicy may *)
(* choose any other site), the wall clock (a stall window or a retry       *)
(* interval may or may not have elapsed), and the training step, of which  *)
(* only equality and order matter.                                         *)
(***************************************************************************)
EXTENDS Integers, FiniteSets

CONSTANTS
    Sites,          \* the managed sites
    Order,          \* position of each site in the configured list
    StartSite,      \* start_site of the configuration
    NoSite,         \* None
    MaxStep,        \* bound on the steps a progress file may show
    FaultKinds,     \* the kinds of fault the environment may inject
    MaxFaults,      \* bound on the number of injected faults
    Histories,      \* what may have run on the slice before this process
    RetryEnabled,   \* FALSE models a reconcile_retry_s that never elapses
    ForceStart      \* the --force-start flag

NoStep == -1        \* no progress file, or it could not be read
Unset  == -2        \* _stall_ref is None

AllFaults == {"outage", "wedge", "launch", "late", "transfer", "trainer",
              "finish", "disk", "crash"}
AllHistories == {"cold", "warm", "fresh_host", "split"}

ASSUME EngineAssumption ==
    /\ IsFiniteSet(Sites)
    /\ Order \in [Sites -> Nat]
    /\ \A s, t \in Sites : Order[s] = Order[t] => s = t
    /\ StartSite \in Sites
    /\ NoSite \notin Sites
    /\ MaxStep \in Nat
    /\ MaxFaults \in Nat
    /\ FaultKinds \subseteq AllFaults
    /\ Histories \subseteq AllHistories
    /\ RetryEnabled \in BOOLEAN
    /\ ForceStart \in BOOLEAN

VARIABLES
    \* the workers
    up,         \* sites the control node can reach
    running,    \* sites whose trainer process holds train.lock
    launched,   \* sites with a launch given up on that has yet to take it
    prog,       \* step in progress.json
    finished,   \* sites whose progress.json says done
    ckpt,       \* sites holding a live checkpoint file
    marker,     \* job/active_site on each worker
    faults,     \* faults injected so far
    \* the control node's disk
    stateFile,  \* runs/engine_state.json
    \* the engine object
    pc,         \* control point of the engine thread
    active,     \* active_site
    status,
    health,
    stallRef,   \* step part of _stall_ref
    force,      \* _force_target
    blockedBy,  \* "blocked_by" of the last migration record
    req,        \* site a force_migration call has checked and not yet set
    \* locals of the call in progress
    origin,     \* who is waiting for the evidence to be written
    todo,       \* sites a loop has still to visit
    alive,      \* step of each trainer reconciliation saw (NoStep: none)
    unknown,    \* sites whose is_running was None
    suspects,   \* "risky"
    target      \* target of the migration, or the trainer to keep

workers == <<up, running, launched, prog, finished, ckpt, marker, faults>>
locals  == <<origin, todo, alive, unknown, suspects, target>>
vars == <<up, running, launched, prog, finished, ckpt, marker, faults,
          stateFile, pc, active, status, health, stallRef, force, blockedBy,
          req, origin, todo, alive, unknown, suspects, target>>

Steps == NoStep .. MaxStep
MaybeSite == Sites \cup {NoSite}

ReconcilePcs == {"probe", "history", "risk", "decide", "converge", "adopt",
                 "launch"}
TickPcs      == {"tick", "stallProbe", "stallStop", "stallStart", "pick",
                 "retry"}
MigratePcs   == {"mstop", "mguard", "mtransfer", "mstart", "astop", "aresume"}
EvidencePcs  == {"persist", "mark", "cleared"}

TypeOK ==
    /\ up \subseteq Sites
    /\ running \subseteq Sites
    /\ launched \subseteq Sites
    /\ prog \in [Sites -> Steps]
    /\ finished \subseteq Sites
    /\ ckpt \subseteq Sites
    /\ marker \in [Sites -> MaybeSite]
    /\ faults \in 0 .. MaxFaults
    /\ stateFile \in MaybeSite
    /\ pc \in ReconcilePcs \cup TickPcs \cup MigratePcs \cup EvidencePcs
    /\ active \in Sites
    /\ status \in {"starting", "running", "migrating", "stopped", "completed"}
    /\ health \in {"ok", "stalled", "down"}
    /\ stallRef \in {Unset} \cup Steps
    /\ force \in MaybeSite
    /\ blockedBy \in MaybeSite
    /\ req \in MaybeSite
    /\ origin \in {"boot", "retry", "migrate"}
    /\ todo \subseteq Sites
    /\ alive \in [Sites -> Steps]
    /\ unknown \subseteq Sites
    /\ suspects \subseteq Sites
    /\ target \in MaybeSite

----------------------------------------------------------------------------
(* The executor: what one call may do and what it may report.              *)

Fault(kind) ==
    /\ kind \in FaultKinds
    /\ faults < MaxFaults
    /\ faults' = faults + 1

\* SshExecutor.stop: True once the lock was seen free, which is weaker than
\* "no trainer": one still booting has not taken the lock, and outlives a
\* pkill that got lost.  An unreachable site, a trainer that survives SIGKILL
\* long enough, and an outage between the kill and the probe report False.
StopAt(s, confirmed) ==
    \/ /\ confirmed
       /\ s \in up
       /\ running' = running \ {s}
       /\ launched' \in {launched, launched \ {s}}
       /\ UNCHANGED <<up, faults>>
    \/ /\ ~confirmed
       /\ s \notin up
       /\ UNCHANGED <<up, running, launched, faults>>
    \/ /\ ~confirmed
       /\ s \in up \cap running
       /\ Fault("wedge")
       /\ UNCHANGED <<up, running, launched>>
    \/ /\ ~confirmed
       /\ s \in up
       /\ Fault("outage")
       /\ up' = up \ {s}
       /\ running' = running \ {s}
       /\ UNCHANGED launched

\* SshExecutor.start: launch, then poll the lock; raises (~ok) when the lock
\* is never seen held, which is weaker than "did not start": the trainer may
\* have taken it behind the last poll (launch), or may take it only after
\* later calls to the site (late).
StartAt(s, ok) ==
    \/ /\ ok
       /\ s \in up
       /\ running' = running \cup {s}
       /\ UNCHANGED <<up, launched, faults>>
    \/ /\ ~ok
       /\ s \notin up
       /\ UNCHANGED <<up, running, launched, faults>>
    \/ /\ ~ok
       /\ s \in up \ running
       /\ Fault("launch")
       /\ running' \in {running, running \cup {s}}
       /\ UNCHANGED <<up, launched>>
    \/ /\ ~ok
       /\ s \in up \ running
       /\ Fault("late")
       /\ launched' = launched \cup {s}
       /\ UNCHANGED <<up, running>>
    \/ /\ ~ok
       /\ s \in up
       /\ Fault("outage")
       /\ up' = up \ {s}
       /\ running' = running \cup {s}
       /\ UNCHANGED launched

\* get_progress: None when the worker cannot be asked or has no file.
Progress(s) == IF s \in up THEN prog[s] ELSE NoStep
Done(s) == s \in up /\ s \in finished

----------------------------------------------------------------------------
(* Reconciliation's judgements.                                            *)

\* The loops visit the managed sites in list order.
IsNext(s) == s \in todo /\ \A t \in todo : Order[s] <= Order[t]

\* _discover_history: the last readable marker in list order overrides the
\* state file.
Readable == {s \in Sites \ unknown : s \in up /\ marker[s] # NoSite}
IsLastActive(last) ==
    IF Readable = {}
    THEN last = stateFile
    ELSE \E s \in Readable : /\ \A t \in Readable : Order[t] <= Order[s]
                             /\ last = marker[s]
PriorRun ==
    \/ stateFile # NoSite
    \/ Readable # {}
    \/ \E s \in (Sites \ unknown) \cap up : prog[s] # NoStep \/ s \in ckpt

\* Sites that may hide a trainer.
Risky(last) ==
    IF last \in unknown THEN {last}
    ELSE IF last = NoSite /\ PriorRun THEN unknown
    ELSE {}

\* _best_resume_site: most advanced readable progress, first in list order
\* among equals, else the site already configured.
Resumable == {s \in Sites : Progress(s) # NoStep}
IsBestResumeSite(s) ==
    IF Resumable = {}
    THEN s = active
    ELSE /\ s \in Resumable
         /\ \A t \in Resumable :
               \/ Progress(t) < Progress(s)
               \/ Progress(t) = Progress(s) /\ Order[s] <= Order[t]

\* keep = max(alive, key=alive.get)
AliveSites == {s \in Sites : alive[s] # NoStep}
IsKept(s) ==
    /\ s \in AliveSites
    /\ \A t \in AliveSites :
          \/ alive[t] < alive[s]
          \/ alive[t] = alive[s] /\ Order[s] <= Order[t]

Cleared == suspects = {} \/ ForceStart

----------------------------------------------------------------------------
(* Initial states: a slice nothing ever ran on; one whose last run this    *)
(* control node recorded; the same seen from a new control node; and one   *)
(* with a trainer left at two sites.                                       *)

NoneAlive == [s \in Sites |-> NoStep]

EngineInit ==
    /\ pc = "probe"
    /\ active = StartSite
    /\ status = "starting"
    /\ health = "ok"
    /\ stallRef = Unset
    /\ force = NoSite
    /\ blockedBy = NoSite
    /\ req = NoSite
    /\ origin = "boot"
    /\ todo = Sites
    /\ alive = NoneAlive
    /\ unknown = {}
    /\ suspects = {}
    /\ target = NoSite

Cold ==
    /\ running = {}
    /\ marker = [s \in Sites |-> NoSite]
    /\ stateFile = NoSite
    /\ prog = NoneAlive
    /\ ckpt = {}

RanAt(h) ==
    /\ marker = [s \in Sites |-> h]
    /\ prog = [s \in Sites |-> IF s = h THEN 0 ELSE NoStep]
    /\ ckpt = {h}

HistoryInit(kind) ==
    \/ kind = "cold" /\ Cold
    \/ /\ kind = "warm"
       /\ \E h \in Sites : /\ RanAt(h)
                          /\ stateFile = h
                          /\ running \in {{}, {h}}
    \/ /\ kind = "fresh_host"
       /\ \E h \in Sites : /\ RanAt(h)
                          /\ stateFile = NoSite
                          /\ running \in {{}, {h}}
    \/ /\ kind = "split"
       /\ \E h, g \in Sites : /\ RanAt(h)
                             /\ stateFile = h
                             /\ running = {h, g}

Init ==
    /\ \E kind \in Histories : HistoryInit(kind)
    /\ up \in IF "outage" \in FaultKinds THEN SUBSET Sites ELSE {Sites}
    /\ launched = {}
    /\ finished = {}
    /\ faults = 0
    /\ EngineInit

----------------------------------------------------------------------------
(* _reconcile_on_start                                                     *)

Probe(s) ==
    /\ pc = "probe"
    /\ IsNext(s)
    /\ unknown' = IF s \in up THEN unknown ELSE unknown \cup {s}
    /\ alive' = IF s \in up \cap running
                THEN [alive EXCEPT ![s] = IF prog[s] = NoStep THEN 0
                                                              ELSE prog[s]]
                ELSE alive
    /\ todo' = todo \ {s}
    /\ pc' = IF todo' = {} THEN "history" ELSE "probe"
    /\ UNCHANGED <<workers, stateFile, active, status, health, stallRef,
                   force, blockedBy, req, origin, suspects, target>>

DiscoverHistory ==
    /\ pc = "history"
    /\ \E last \in MaybeSite :
          /\ IsLastActive(last)
          /\ suspects' = Risky(last)
    /\ todo' = suspects'
    /\ pc' = IF suspects' = {} THEN "decide" ELSE "risk"
    /\ UNCHANGED <<workers, stateFile, active, status, health, stallRef,
                   force, blockedBy, req, origin, alive, unknown, target>>

StopSuspect(s) ==
    /\ pc = "risk"
    /\ IsNext(s)
    /\ \E confirmed \in BOOLEAN :
          /\ StopAt(s, confirmed)
          /\ suspects' = IF confirmed THEN suspects \ {s} ELSE suspects
    /\ todo' = todo \ {s}
    /\ pc' = IF todo' = {} THEN "decide" ELSE "risk"
    /\ UNCHANGED <<prog, finished, ckpt, marker, stateFile, active, status,
                   health, stallRef, force, blockedBy, req, origin, alive,
                   unknown, target>>

\* Returning from reconciliation forgets its locals.
ForgetLocals ==
    /\ alive' = NoneAlive
    /\ unknown' = {}
    /\ suspects' = {}
    /\ target' = NoSite

Refuse ==
    /\ pc = "decide"
    /\ ~Cleared
    /\ status' = "stopped"
    /\ health' = "down"
    /\ pc' = "tick"
    /\ ForgetLocals
    /\ UNCHANGED <<workers, stateFile, active, stallRef, force, blockedBy,
                   req, origin, todo>>

ResumeFinished(s) ==
    /\ pc = "decide"
    /\ Cleared
    /\ AliveSites = {}
    /\ IsBestResumeSite(s)
    /\ Done(s)
    /\ active' = s
    /\ status' = "completed"
    /\ health' = "ok"
    /\ pc' = "cleared"
    /\ ForgetLocals
    /\ UNCHANGED <<workers, stateFile, stallRef, force, blockedBy, req,
                   origin, todo>>

ResumeAt(s) ==
    /\ pc = "decide"
    /\ Cleared
    /\ AliveSites = {}
    /\ IsBestResumeSite(s)
    /\ ~Done(s)
    /\ active' = s
    /\ pc' = "launch"
    /\ ForgetLocals
    /\ UNCHANGED <<workers, stateFile, status, health, stallRef, force,
                   blockedBy, req, origin, todo>>

\* executor.start at the resume site; _try_reconcile turns a raise into down.
Launch ==
    /\ pc = "launch"
    /\ \E ok \in BOOLEAN :
          /\ StartAt(active, ok)
          /\ status' = IF ok THEN status ELSE "stopped"
          /\ health' = IF ok THEN health ELSE "down"
          /\ pc' = IF ok THEN "persist" ELSE "tick"
    /\ UNCHANGED <<prog, finished, ckpt, marker, stateFile, active, stallRef,
                   force, blockedBy, req, locals>>

FoundAliveNamedIfMany(s) ==
    /\ pc = "decide"
    /\ Cleared
    /\ IsKept(s)
    /\ target' = IF AliveSites = {s} THEN target ELSE s
    /\ todo' = AliveSites \ {s}
    /\ pc' = IF todo' = {} THEN "adopt" ELSE "converge"
    /\ UNCHANGED <<workers, stateFile, active, status, health, stallRef,
                   force, blockedBy, req, origin, alive, unknown, suspects>>

FoundAlive(s) ==
    /\ pc = "decide"
    /\ Cleared
    /\ IsKept(s)
    /\ target' = s
    /\ todo' = AliveSites \ {s}
    /\ pc' = IF todo' = {} THEN "adopt" ELSE "converge"
    /\ UNCHANGED <<workers, stateFile, active, status, health, stallRef,
                   force, blockedBy, req, origin, alive, unknown, suspects>>

\* A second trainer that cannot be stopped is reported as a stall.
AfterExtraStopSilently(confirmed) == health
AfterExtraStop(confirmed) == IF confirmed THEN health ELSE "stalled"

Converge(s) ==
    /\ pc = "converge"
    /\ IsNext(s)
    /\ \E confirmed \in BOOLEAN :
          /\ StopAt(s, confirmed)
          /\ health' = AfterExtraStop(confirmed)
    /\ todo' = todo \ {s}
    /\ pc' = IF todo' = {} THEN "adopt" ELSE "converge"
    /\ UNCHANGED <<prog, finished, ckpt, marker, stateFile, active, status,
                   stallRef, force, blockedBy, req, origin, alive, unknown,
                   suspects, target>>

Adopt ==
    /\ pc = "adopt"
    /\ active' = target
    /\ pc' = "persist"
    /\ ForgetLocals
    /\ UNCHANGED <<workers, stateFile, status, health, stallRef, force,
                   blockedBy, req, origin, todo>>

----------------------------------------------------------------------------
(* Durable evidence, and the return to the loop.                           *)

PersistOnce ==
    /\ pc = "persist"
    /\ stateFile' = IF stateFile = NoSite THEN active ELSE stateFile
    /\ todo' = Sites
    /\ pc' = "mark"
    /\ UNCHANGED <<workers, active, status, health, stallRef, force,
                   blockedBy, req, origin, alive, unknown, suspects, target>>

Persist ==
    /\ pc = "persist"
    /\ \/ stateFile' = active /\ UNCHANGED faults
       \/ Fault("disk") /\ UNCHANGED stateFile
    /\ todo' = Sites
    /\ pc' = "mark"
    /\ UNCHANGED <<up, running, launched, prog, finished, ckpt, marker,
                   active, status, health, stallRef, force, blockedBy, req,
                   origin, alive, unknown, suspects, target>>

\* _migrate returns to the loop, reconciliation to its caller.
AfterMark == IF origin = "migrate" THEN "retry" ELSE "cleared"

Mark(s) ==
    /\ pc = "mark"
    /\ IsNext(s)
    /\ marker' = IF s \in up THEN [marker EXCEPT ![s] = active] ELSE marker
    /\ todo' = todo \ {s}
    /\ pc' = IF todo' = {} THEN AfterMark ELSE "mark"
    /\ UNCHANGED <<up, running, launched, prog, finished, ckpt, faults,
                   stateFile, active, status, health, stallRef, force,
                   blockedBy, req, origin, alive, unknown, suspects, target>>

\* Only the first call of run() spares a completed run the promotion.
Promote(from) ==
    IF origin = "boot" /\ from = "completed" THEN from ELSE "running"

\* _try_reconcile returned True to run().
ReconcileCleared ==
    /\ pc = "cleared"
    /\ health' = IF health = "down" THEN "ok" ELSE health
    /\ status' = Promote(status)
    /\ pc' = "tick"
    /\ UNCHANGED <<workers, stateFile, active, stallRef, force, blockedBy,
                   req, locals>>

----------------------------------------------------------------------------
(* _tick: get_progress and _check_liveness                                 *)

Advanced == Progress(active) # NoStep /\ Progress(active) # stallRef

TickBlocked ==
    /\ pc = "tick"
    /\ status # "running"
    /\ pc' = "pick"
    /\ UNCHANGED <<workers, stateFile, active, status, health, stallRef,
                   force, blockedBy, req, locals>>

TickCompleted ==
    /\ pc = "tick"
    /\ status = "running"
    /\ Done(active)
    /\ status' = "completed"
    /\ health' = "ok"
    /\ pc' = "pick"
    /\ UNCHANGED <<workers, stateFile, active, stallRef, force, blockedBy,
                   req, locals>>

TickAdvanced ==
    /\ pc = "tick"
    /\ status = "running"
    /\ ~Done(active)
    /\ Advanced
    /\ stallRef' = Progress(active)
    /\ health' = "ok"
    /\ pc' = "pick"
    /\ UNCHANGED <<workers, stateFile, active, status, force, blockedBy, req,
                   locals>>

\* No news, and the stall window has not elapsed (it has just been opened
\* when stallRef was unset).
TickWaiting ==
    /\ pc = "tick"
    /\ status = "running"
    /\ ~Done(active)
    /\ ~Advanced
    /\ stallRef' = IF stallRef = Unset THEN NoStep ELSE stallRef
    /\ pc' = "pick"
    /\ UNCHANGED <<workers, stateFile, active, status, health, force,
                   blockedBy, req, locals>>

TickStalled ==
    /\ pc = "tick"
    /\ status = "running"
    /\ ~Done(active)
    /\ ~Advanced
    /\ stallRef # Unset
    /\ health' = "stalled"
    /\ pc' = "stallProbe"
    /\ UNCHANGED <<workers, stateFile, active, status, stallRef, force,
                   blockedBy, req, locals>>

StallVerdictNoRestart ==
    IF active \in up \cap running THEN "stallStop" ELSE "pick"

\* Where is_running sends the stall handler: unknown starts nothing, a
\* wedged trainer must be stopped first, a dead one may be restarted.
StallVerdict ==
    IF active \notin up THEN "pick"
    ELSE IF active \in running THEN "stallStop"
    ELSE "stallStart"

StallProbe ==
    /\ pc = "stallProbe"
    /\ pc' = StallVerdict
    /\ UNCHANGED <<workers, stateFile, active, status, health, stallRef,
                   force, blockedBy, req, locals>>

StallStop ==
    /\ pc = "stallStop"
    /\ \E confirmed \in BOOLEAN :
          /\ StopAt(active, confirmed)
          /\ pc' = IF confirmed THEN "stallStart" ELSE "pick"
    /\ UNCHANGED <<prog, finished, ckpt, marker, stateFile, active, status,
                   health, stallRef, force, blockedBy, req, locals>>

StallStart ==
    /\ pc = "stallStart"
    /\ \E ok \in BOOLEAN :
          /\ StartAt(active, ok)
          /\ health' = IF ok THEN health ELSE "down"
    /\ pc' = "pick"
    /\ UNCHANGED <<prog, finished, ckpt, marker, stateFile, active, status,
                   stallRef, force, blockedBy, req, locals>>

----------------------------------------------------------------------------
(* _pick_target, and the retry at the end of a loop iteration              *)

PickBlocked ==
    /\ pc = "pick"
    /\ status # "running"
    /\ force' = NoSite
    /\ pc' = "retry"
    /\ UNCHANGED <<workers, stateFile, active, status, health, stallRef,
                   blockedBy, req, locals>>

BeginMigration(t) ==
    /\ target' = t
    /\ status' = "migrating"
    /\ pc' = "mstop"
    /\ UNCHANGED <<workers, stateFile, active, health, stallRef, blockedBy,
                   req, origin, todo, alive, unknown, suspects>>

PickForcedAnyStatus ==
    /\ pc = "pick"
    /\ force # NoSite
    /\ force' = NoSite
    /\ BeginMigration(force)

PickForced ==
    /\ pc = "pick"
    /\ status = "running"
    /\ force # NoSite
    /\ force' = NoSite
    /\ BeginMigration(force)

PickPolicy(t) ==
    /\ pc = "pick"
    /\ status = "running"
    /\ force = NoSite
    /\ t # active
    /\ UNCHANGED force
    /\ BeginMigration(t)

PickNone ==
    /\ pc = "pick"
    /\ status = "running"
    /\ force = NoSite
    /\ pc' = "retry"
    /\ UNCHANGED <<workers, stateFile, active, status, health, stallRef,
                   force, blockedBy, req, locals>>

RetryDueSwapped == status # "running" /\ health # "down"
RetryDue == status # "running" /\ health = "down"

RetryReconcile ==
    /\ pc = "retry"
    /\ RetryEnabled
    /\ RetryDue
    /\ origin' = "retry"
    /\ todo' = Sites
    /\ pc' = "probe"
    /\ UNCHANGED <<workers, stateFile, active, status, health, stallRef,
                   force, blockedBy, req, alive, unknown, suspects, target>>

LoopAgain ==
    /\ pc = "retry"
    /\ pc' = "tick"
    /\ UNCHANGED <<workers, stateFile, active, status, health, stallRef,
                   force, blockedBy, req, locals>>

----------------------------------------------------------------------------
(* _migrate                                                                *)

AfterAnySourceStop(confirmed) == "mguard"
AfterSourceStop(confirmed) == IF confirmed THEN "mguard" ELSE "astop"

MigrateStop ==
    /\ pc = "mstop"
    /\ \E confirmed \in BOOLEAN :
          /\ StopAt(active, confirmed)
          /\ pc' = AfterSourceStop(confirmed)
    /\ UNCHANGED <<prog, finished, ckpt, marker, stateFile, active, status,
                   health, stallRef, force, blockedBy, req, locals>>

\* _overwrite_would_lose_progress: the target is further along; whether its
\* file is also newer is left open.
TargetAhead ==
    /\ Progress(active) # NoStep
    /\ Progress(target) > Progress(active)

MigrateGuard ==
    /\ pc = "mguard"
    /\ \/ pc' = "mtransfer"
       \/ TargetAhead /\ pc' = "astop"
    /\ UNCHANGED <<workers, stateFile, active, status, health, stallRef,
                   force, blockedBy, req, locals>>

CanTransfer == {active, target} \subseteq up /\ active \in ckpt

MigrateTransfer ==
    /\ pc = "mtransfer"
    /\ \/ /\ CanTransfer
          /\ ckpt' = ckpt \cup {target}
          /\ pc' = "mstart"
          /\ UNCHANGED faults
       \/ /\ ~CanTransfer
          /\ pc' = "astop"
          /\ UNCHANGED <<ckpt, faults>>
       \/ /\ CanTransfer
          /\ Fault("transfer")
          /\ pc' = "astop"
          /\ UNCHANGED ckpt
    /\ UNCHANGED <<up, running, launched, prog, finished, marker, stateFile,
                   active, status, health, stallRef, force, blockedBy, req,
                   locals>>

MigrateStart ==
    /\ pc = "mstart"
    /\ \/ /\ StartAt(target, TRUE)
          /\ active' = target
          /\ status' = "running"
          /\ health' = "ok"
          /\ stallRef' = Unset
          /\ blockedBy' = NoSite
          /\ origin' = "migrate"
          /\ target' = NoSite
          /\ pc' = "persist"
       \/ /\ StartAt(target, FALSE)
          /\ pc' = "astop"
          /\ UNCHANGED <<active, status, health, stallRef, blockedBy, origin,
                         target>>
    /\ UNCHANGED <<prog, finished, ckpt, marker, stateFile, force, req, todo,
                   alive, unknown, suspects>>

----------------------------------------------------------------------------
(* _abort_migration                                                        *)

AbortBlockedSilently ==
    /\ blockedBy' = target
    /\ UNCHANGED <<status, health>>

\* The target may still run a trainer: start nothing, and say so.
AbortBlocked ==
    /\ blockedBy' = target
    /\ status' = "stopped"
    /\ health' = "down"

AbortStop ==
    /\ pc = "astop"
    /\ \/ /\ StopAt(target, TRUE)
          /\ pc' = "aresume"
          /\ UNCHANGED <<status, health, blockedBy, target>>
       \/ /\ StopAt(target, FALSE)
          /\ AbortBlocked
          /\ target' = NoSite
          /\ pc' = "retry"
    /\ UNCHANGED <<prog, finished, ckpt, marker, stateFile, active, stallRef,
                   force, req, origin, todo, alive, unknown, suspects>>

ResumeHealthAlwaysOk(ok) == "ok"
ResumeHealth(ok) == IF ok THEN "ok" ELSE "down"

AbortResume ==
    /\ pc = "aresume"
    /\ \E ok \in BOOLEAN :
          /\ StartAt(active, ok)
          /\ status' = IF ok THEN "running" ELSE "stopped"
          /\ health' = ResumeHealth(ok)
          /\ pc' = IF ok THEN "persist" ELSE "mark"
          /\ todo' = IF ok THEN {} ELSE Sites
    /\ stallRef' = Unset
    /\ blockedBy' = NoSite
    /\ origin' = "migrate"
    /\ target' = NoSite
    /\ UNCHANGED <<prog, finished, ckpt, marker, stateFile, active, force,
                   req, alive, unknown, suspects>>

----------------------------------------------------------------------------
(* force_migration on the dashboard's HTTP thread: a check, then a write,  *)
(* with no lock around the two.                                            *)

RequestCheck(s) ==
    /\ req = NoSite
    /\ status = "running"
    /\ s # active
    /\ req' = s
    /\ UNCHANGED <<workers, stateFile, pc, active, status, health, stallRef,
                   force, blockedBy, locals>>

RequestSet ==
    /\ req # NoSite
    /\ force' = req
    /\ req' = NoSite
    /\ UNCHANGED <<workers, stateFile, pc, active, status, health, stallRef,
                   blockedBy, locals>>

----------------------------------------------------------------------------
(* The environment: trainers, the network, and the orchestrator's host.    *)

\* A trainer writes progress (done: False) and a checkpoint.
TrainerAdvance(s) ==
    /\ s \in running
    /\ \E v \in 0 .. MaxStep :
          /\ v # prog[s] \/ s \in finished
          /\ prog' = [prog EXCEPT ![s] = v]
    /\ ckpt' = ckpt \cup {s}
    /\ finished' = finished \ {s}
    /\ UNCHANGED <<up, running, launched, marker, faults, stateFile, pc,
                   active, status, health, stallRef, force, blockedBy, req,
                   locals>>

\* A trainer launched by hand with --target-steps reaches its target.
TrainerFinish(s) ==
    /\ s \in running
    /\ prog[s] # NoStep
    /\ Fault("finish")
    /\ running' = running \ {s}
    /\ finished' = finished \cup {s}
    /\ ckpt' = ckpt \cup {s}
    /\ UNCHANGED <<up, launched, prog, marker, stateFile, pc, active, status,
                   health, stallRef, force, blockedBy, req, locals>>

\* A launch the engine gave up on takes the lock at last, or finds it held.
LateStart(s) ==
    /\ s \in launched
    /\ launched' = launched \ {s}
    /\ running' = running \cup {s}
    /\ UNCHANGED <<up, prog, finished, ckpt, marker, faults, stateFile, pc,
                   active, status, health, stallRef, force, blockedBy, req,
                   locals>>

\* OOM kill, reboot, operator kill.
TrainerDies(s) ==
    /\ s \in running
    /\ Fault("trainer")
    /\ running' = running \ {s}
    /\ UNCHANGED <<up, launched, prog, finished, ckpt, marker, stateFile, pc,
                   active, status, health, stallRef, force, blockedBy, req,
                   locals>>

SiteLost(s) ==
    /\ s \in up
    /\ Fault("outage")
    /\ up' = up \ {s}
    /\ UNCHANGED <<running, launched, prog, finished, ckpt, marker, stateFile,
                   pc, active, status, health, stallRef, force, blockedBy,
                   req, locals>>

SiteBack(s) ==
    /\ s \in Sites \ up
    /\ up' = up \cup {s}
    /\ UNCHANGED <<running, launched, prog, finished, ckpt, marker, faults,
                   stateFile, pc, active, status, health, stallRef, force,
                   blockedBy, req, locals>>

\* The orchestrator dies and a new process starts on the same disk.
Crash ==
    /\ Fault("crash")
    /\ pc' = "probe"
    /\ active' = StartSite
    /\ status' = "starting"
    /\ health' = "ok"
    /\ stallRef' = Unset
    /\ force' = NoSite
    /\ blockedBy' = NoSite
    /\ req' = NoSite
    /\ origin' = "boot"
    /\ todo' = Sites
    /\ ForgetLocals
    /\ UNCHANGED <<up, running, launched, prog, finished, ckpt, marker,
                   stateFile>>

----------------------------------------------------------------------------
Reconcile ==
    \/ \E s \in Sites : \/ Probe(s) \/ StopSuspect(s) \/ Converge(s)
                        \/ ResumeFinished(s) \/ ResumeAt(s) \/ FoundAlive(s)
                        \/ Mark(s)
    \/ DiscoverHistory \/ Refuse \/ Launch \/ Adopt \/ Persist
    \/ ReconcileCleared

Tick ==
    \/ TickBlocked \/ TickCompleted \/ TickAdvanced \/ TickWaiting
    \/ TickStalled \/ StallProbe \/ StallStop \/ StallStart
    \/ PickBlocked \/ PickForced \/ PickNone
    \/ \E t \in Sites : PickPolicy(t)
    \/ RetryReconcile \/ LoopAgain

Migrate ==
    \/ MigrateStop \/ MigrateGuard \/ MigrateTransfer \/ MigrateStart
    \/ AbortStop \/ AbortResume

EngineThread == Reconcile \/ Tick \/ Migrate

HttpThread == RequestSet \/ \E s \in Sites : RequestCheck(s)

Environment ==
    \/ \E s \in Sites : \/ TrainerAdvance(s) \/ TrainerFinish(s)
                        \/ TrainerDies(s) \/ LateStart(s) \/ SiteLost(s)
                        \/ SiteBack(s)
    \/ Crash

Next == EngineThread \/ HttpThread \/ Environment

Spec == Init /\ [][Next]_vars

\* The engine thread never stops taking steps while its process lives; a stall
\* window or a retry interval that keeps being open does elapse; a lost site
\* comes back.  Nothing is assumed of the operator, the trainers or the
\* faults, which MaxFaults makes finite in number.
Fairness ==
    /\ WF_vars(EngineThread)
    /\ SF_vars(TickStalled)
    /\ SF_vars(RetryReconcile)
    /\ \A s \in Sites : WF_vars(SiteBack(s))

FairSpec == Spec /\ Fairness

----------------------------------------------------------------------------
(* Safety                                                                  *)

\* One trainer, always (README-legacy.md): no two sites run a trainer at the
\* same time, so the checkpoint lineage never forks.  With the late fault it does
\* fork: an abort takes a free lock for a stopped target (see README).
AtMostOneTrainer == \A s, t \in running : s = t

\* _migrate: from the confirmed stop until the target is asked to start, no
\* trainer runs at the source, so the checkpoint being copied is at rest.
SourceStoppedFirst ==
    pc \in {"mguard", "mtransfer", "mstart"} => active \notin running

\* _tick starts nothing and migrates nothing unless the engine is running: a
\* refusal or a finished run is never undone from inside a tick.
BlockedTickStartsNothing ==
    [][status # "running" /\ pc \in TickPcs
        => running' \subseteq running /\ status' # "migrating"]_vars

\* _migrate's own promise: when it returns, either the job runs (or has
\* finished) at active_site, or health says it does not.
MigrationEndsHonestly ==
    pc = "mark" /\ origin = "migrate" /\ health = "ok"
        => active \in running \cup finished

\* _reconcile_on_start: of the workers that answered, only the kept one still has
\* a trainer, or health says that a second one could not be stopped.
SplitStoppedOrReported ==
    pc = "adopt" =>
        \/ health = "stalled"
        \/ \A s, t \in running \ unknown : s = t

\* While the engine idles over a running job, its state file names the site,
\* so the next orchestrator on this host looks for the trainer there.
StateFileNamesActive ==
    pc = "tick" /\ status = "running" => stateFile = active

----------------------------------------------------------------------------
(* Liveness                                                                *)

\* A migration always ends, one way or the other.
MigrationEnds == status = "migrating" ~> status # "migrating"

\* Once faults stop, the engine keeps returning to a state in which the job
\* runs where it says, or is known to have finished.
JobKeepsRunning == []<>(status = "completed" \/ active \in running)

\* A blocked engine is released without an operator once sites are back.
BlockIsReleased == status = "stopped" ~> status \in {"running", "completed"}

----------------------------------------------------------------------------
(* What the documentation and the tests say, and the code does not meet (see README). *)

\* README-legacy.md: an aborted migration does not resume at the source until
\* the target is confirmed stopped.  No trainer is started anywhere while the
\* one that blocked the abort still runs.
AbortHoldsUntilTargetClear ==
    [][blockedBy # NoSite /\ blockedBy \in running
        => running' \subseteq running]_vars

\* tests/test_migration_recovery.py: a completed run is not promoted back to
\* "running".  No later step of the same process takes the engine out of
\* "completed"; run() does, when a blocked engine finds the run finished.
CompletedStaysCompleted ==
    [][status = "completed" /\ status' # "completed" => status' = "starting"]_vars

=============================================================================
