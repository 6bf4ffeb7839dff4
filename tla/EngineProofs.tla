---------------------------- MODULE EngineProofs ----------------------------
(***************************************************************************)
(* What holds of Engine for every set of sites, every order, every bound   *)
(* on faults and every step bound.                                         *)
(***************************************************************************)
EXTENDS Engine, FiniteSetTheorems, TLAPS

USE DEF NoStep, Unset

----------------------------------------------------------------------------
(* What one executor call may do to the set of running trainers.           *)

\* A stop never starts a trainer, and a confirmed one leaves none at s.
LEMMA StopShrinks ==
    ASSUME NEW s, NEW c, StopAt(s, c)
    PROVE  /\ running' \subseteq running
           /\ c => running' = running \ {s}
BY DEF StopAt, Fault

\* A start adds a trainer at s and nowhere else, whether or not it raises.
LEMMA StartGrows ==
    ASSUME NEW s, NEW ok, StartAt(s, ok)
    PROVE  running' \subseteq running \cup {s}
BY DEF StartAt, Fault

\* An executor call keeps its variables in their types.
LEMMA CallTypes ==
    ASSUME TypeOK, NEW s \in Sites, NEW c \in BOOLEAN,
           StopAt(s, c) \/ StartAt(s, c)
    PROVE  /\ up' \subseteq Sites
           /\ running' \subseteq Sites
           /\ launched' \subseteq Sites
           /\ faults' \in 0 .. MaxFaults
BY EngineAssumption DEF TypeOK, StopAt, StartAt, Fault, EngineAssumption

----------------------------------------------------------------------------
(* Type correctness.  TypeOK alone is not inductive: Adopt and MigrateStart *)
(* make target the active site, so target must be a site at the control    *)
(* points where one has been chosen.                                       *)

TargetChosen ==
    pc \in {"converge", "adopt"} \cup MigratePcs => target \in Sites

Typed == TypeOK /\ TargetChosen

LEMMA TypeInit == Init => Typed
<1> SUFFICES ASSUME Init PROVE Typed
  OBVIOUS
<1> USE EngineAssumption DEF EngineAssumption
<1>1. PICK kind \in Histories : HistoryInit(kind)
  BY DEF Init
<1>2. /\ running \subseteq Sites
      /\ marker \in [Sites -> MaybeSite]
      /\ stateFile \in MaybeSite
      /\ prog \in [Sites -> Steps]
      /\ ckpt \subseteq Sites
  <2>1. kind \in {"cold", "warm", "fresh_host", "split"}
    BY <1>1 DEF AllHistories
  <2>2. CASE kind = "cold"
    BY <1>1, <2>2 DEF HistoryInit, Cold, NoneAlive, MaybeSite, Steps
  <2>3. CASE kind = "warm"
    BY <1>1, <2>3 DEF HistoryInit, RanAt, MaybeSite, Steps
  <2>4. CASE kind = "fresh_host"
    BY <1>1, <2>4 DEF HistoryInit, RanAt, MaybeSite, Steps
  <2>5. CASE kind = "split"
    BY <1>1, <2>5 DEF HistoryInit, RanAt, MaybeSite, Steps
  <2>6. QED
    BY <2>1, <2>2, <2>3, <2>4, <2>5
<1>3. QED
  BY <1>2 DEF Init, EngineInit, Typed, TargetChosen, TypeOK, NoneAlive,
              MaybeSite, Steps, ReconcilePcs, MigratePcs

\* A step of any action keeps the types.
LEMMA TypeNext == Typed /\ [Next]_vars => Typed'
<1> SUFFICES ASSUME Typed, [Next]_vars PROVE Typed'
  OBVIOUS
<1> USE EngineAssumption DEF EngineAssumption, Typed, TypeOK, TargetChosen,
   workers, locals, MaybeSite,
            ReconcilePcs, TickPcs, MigratePcs, EvidencePcs
<1>1. ASSUME NEW s \in Sites, Probe(s) PROVE Typed'
  BY <1>1 DEF Probe, Steps
<1>2. ASSUME NEW s \in Sites, StopSuspect(s) PROVE Typed'
  BY <1>2, CallTypes DEF StopSuspect
<1>3. ASSUME NEW s \in Sites, Converge(s) PROVE Typed'
  BY <1>3, CallTypes DEF Converge, AfterExtraStop
<1>4. ASSUME NEW s \in Sites, ResumeFinished(s) PROVE Typed'
  BY <1>4 DEF ResumeFinished, IsBestResumeSite, Resumable, ForgetLocals,
     NoneAlive, Steps
<1>5. ASSUME NEW s \in Sites, ResumeAt(s) PROVE Typed'
  BY <1>5 DEF ResumeAt, IsBestResumeSite, Resumable, ForgetLocals, NoneAlive,
     Steps
<1>6. ASSUME NEW s \in Sites, FoundAlive(s) PROVE Typed'
  BY <1>6 DEF FoundAlive, IsKept, AliveSites
<1>7. ASSUME NEW s \in Sites, Mark(s) PROVE Typed'
  BY <1>7 DEF Mark, AfterMark
<1>8. CASE DiscoverHistory
  BY <1>8 DEF DiscoverHistory, Risky
<1>9. CASE Refuse
  BY <1>9 DEF Refuse, ForgetLocals, NoneAlive, Steps
<1>10. CASE Launch
  BY <1>10, CallTypes DEF Launch
<1>11. CASE Adopt
  BY <1>11 DEF Adopt, ForgetLocals, NoneAlive, Steps
<1>12. CASE Persist
  BY <1>12 DEF Persist, Fault
<1>13. CASE ReconcileCleared
  BY <1>13 DEF ReconcileCleared, Promote
<1>14. CASE TickBlocked
  BY <1>14 DEF TickBlocked
<1>15. CASE TickCompleted
  BY <1>15 DEF TickCompleted
<1>16. CASE TickAdvanced
  BY <1>16 DEF TickAdvanced, Advanced, Progress
<1>17. CASE TickWaiting
  BY <1>17 DEF TickWaiting, Steps
<1>18. CASE TickStalled
  BY <1>18 DEF TickStalled
<1>19. CASE StallProbe
  BY <1>19 DEF StallProbe, StallVerdict
<1>20. CASE StallStop
  BY <1>20, CallTypes DEF StallStop
<1>21. CASE StallStart
  BY <1>21, CallTypes DEF StallStart
<1>22. CASE PickBlocked
  BY <1>22 DEF PickBlocked
<1>23. CASE PickForced
  BY <1>23 DEF PickForced, BeginMigration
<1>24. CASE PickNone
  BY <1>24 DEF PickNone
<1>25. ASSUME NEW s \in Sites, PickPolicy(s) PROVE Typed'
  BY <1>25 DEF PickPolicy, BeginMigration
<1>26. CASE RetryReconcile
  BY <1>26 DEF RetryReconcile
<1>27. CASE LoopAgain
  BY <1>27 DEF LoopAgain
<1>28. CASE MigrateStop
  BY <1>28, CallTypes DEF MigrateStop, AfterSourceStop
<1>29. CASE MigrateGuard
  BY <1>29 DEF MigrateGuard
<1>30. CASE MigrateTransfer
  BY <1>30 DEF MigrateTransfer, Fault
<1>31. CASE MigrateStart
  BY <1>31, CallTypes, ZenonT(60) DEF MigrateStart
<1>32. CASE AbortStop
  <2>1. target \in Sites
    BY <1>32 DEF AbortStop
  <2>2. /\ up' \subseteq Sites
        /\ running' \subseteq Sites
        /\ launched' \subseteq Sites
        /\ faults' \in 0 .. MaxFaults
    BY <1>32, <2>1, CallTypes DEF AbortStop
  <2>3. CASE pc' = "aresume" /\ UNCHANGED <<status, health, blockedBy, target>>
    BY <1>32, <2>1, <2>2, <2>3 DEF AbortStop
  <2>4. CASE pc' = "retry" /\ AbortBlocked /\ target' = NoSite
    BY <1>32, <2>1, <2>2, <2>4 DEF AbortStop, AbortBlocked
  <2>5. QED
    BY <1>32, <2>3, <2>4 DEF AbortStop
<1>33. CASE AbortResume
  BY <1>33, CallTypes DEF AbortResume, ResumeHealth
<1>34. CASE RequestSet
  BY <1>34 DEF RequestSet
<1>35. ASSUME NEW s \in Sites, RequestCheck(s) PROVE Typed'
  BY <1>35 DEF RequestCheck
<1>36. ASSUME NEW s \in Sites, TrainerAdvance(s) PROVE Typed'
  BY <1>36 DEF TrainerAdvance, Steps
<1>37. ASSUME NEW s \in Sites, TrainerFinish(s) PROVE Typed'
  BY <1>37 DEF TrainerFinish, Fault
<1>38. ASSUME NEW s \in Sites, TrainerDies(s) PROVE Typed'
  BY <1>38 DEF TrainerDies, Fault
<1>39. ASSUME NEW s \in Sites, SiteLost(s) PROVE Typed'
  BY <1>39 DEF SiteLost, Fault
<1>40. ASSUME NEW s \in Sites, SiteBack(s) PROVE Typed'
  BY <1>40 DEF SiteBack
<1>41. CASE Crash
  BY <1>41 DEF Crash, Fault, ForgetLocals, NoneAlive, Steps
<1>42. ASSUME NEW s \in Sites, LateStart(s) PROVE Typed'
  BY <1>42 DEF LateStart
<1>43. CASE UNCHANGED vars
  BY <1>43 DEF vars
<1>44. QED
  BY <1>1, <1>2, <1>3, <1>4, <1>5, <1>6, <1>7, <1>8, <1>9, <1>10, <1>11,
     <1>12, <1>13, <1>14, <1>15, <1>16, <1>17, <1>18, <1>19, <1>20, <1>21,
     <1>22, <1>23, <1>24, <1>25, <1>26, <1>27, <1>28, <1>29, <1>30, <1>31,
     <1>32, <1>33, <1>34, <1>35, <1>36, <1>37, <1>38, <1>39, <1>40, <1>41,
     <1>42, <1>43
     DEF Next, EngineThread, Reconcile, Tick, Migrate, HttpThread, Environment

\* Every variable keeps its type, on every slice and under every fault.
THEOREM TypeCorrect == Spec => []TypeOK
<1>1. Typed => TypeOK
  BY DEF Typed
<1>2. QED
  BY <1>1, TypeInit, TypeNext, PTL DEF Spec

----------------------------------------------------------------------------
(* From here on a step is one of four kinds: an action that leaves pc and  *)
(* starts nothing (the environment and the HTTP thread), a late start, an  *)
(* action of the engine thread, or a crash.                                *)

\* What the environment and the HTTP thread may do between two steps of the
\* engine: no trainer is started and no local of the engine changes.
Outside ==
    \/ \E s \in Sites : \/ TrainerAdvance(s) \/ TrainerFinish(s)
                        \/ TrainerDies(s) \/ SiteLost(s) \/ SiteBack(s)
                        \/ RequestCheck(s)
    \/ RequestSet
    \/ UNCHANGED vars

LEMMA OutsideFrame ==
    ASSUME Outside
    PROVE  /\ running' \subseteq running
           /\ UNCHANGED <<pc, active, status, stateFile, marker, todo, alive,
                          unknown, suspects, target>>
<1> USE DEF workers, locals
<1>1. ASSUME NEW s \in Sites, TrainerAdvance(s) \/ SiteLost(s) \/ SiteBack(s)
      PROVE  /\ running' = running
             /\ UNCHANGED <<pc, active, status, stateFile, marker, todo,
                            alive, unknown, suspects, target>>
  BY <1>1 DEF TrainerAdvance, SiteLost, SiteBack
<1>2. ASSUME NEW s \in Sites, TrainerFinish(s) \/ TrainerDies(s)
      PROVE  /\ running' = running \ {s}
             /\ UNCHANGED <<pc, active, status, stateFile, marker, todo,
                            alive, unknown, suspects, target>>
  BY <1>2 DEF TrainerFinish, TrainerDies
<1>3. ASSUME RequestSet \/ UNCHANGED vars \/ \E s \in Sites : RequestCheck(s)
      PROVE  /\ running' = running
             /\ UNCHANGED <<pc, active, status, stateFile, marker, todo,
                            alive, unknown, suspects, target>>
  BY <1>3 DEF RequestSet, RequestCheck, vars
<1>4. QED
  BY <1>1, <1>2, <1>3 DEF Outside

\* A trainer whose launch the engine gave up on takes the lock.
Late == \E s \in Sites : LateStart(s)

LEMMA LateFrame ==
    ASSUME Late
    PROVE  /\ running \subseteq running'
           /\ UNCHANGED <<up, prog, finished, stateFile, pc, active, status,
                          health, origin, todo, unknown, suspects>>
BY DEF Late, LateStart, locals

LEMMA StepKinds ==
    ASSUME [Next]_vars
    PROVE  Reconcile \/ Tick \/ Migrate \/ Crash \/ Outside \/ Late
BY DEF Next, EngineThread, HttpThread, Environment, Outside, Late

\* No launch outlives the five seconds that start() watches it, as long as the
\* ssh that issues it keeps its time.
Prompt == "late" \notin FaultKinds

NothingLate == Prompt => launched = {}

LEMMA CallsLaunchNothing ==
    ASSUME Prompt, NEW s, NEW c, StopAt(s, c) \/ StartAt(s, c)
    PROVE  launched' \subseteq launched
BY DEF Prompt, StopAt, StartAt, Fault

LEMMA NothingLateNext == NothingLate /\ [Next]_vars => NothingLate'
<1> SUFFICES ASSUME NothingLate, [Next]_vars, Prompt PROVE launched' = {}
  BY DEF NothingLate
<1>0. launched = {}
  BY DEF NothingLate
<1> USE <1>0, CallsLaunchNothing DEF workers
<1>1. CASE Outside
  BY <1>1 DEF Outside, TrainerAdvance, TrainerFinish, TrainerDies,
     SiteLost, SiteBack, RequestCheck, RequestSet, vars
<1>2. CASE Crash \/ Late
  BY <1>2 DEF Crash, Late, LateStart
<1>3. CASE Reconcile
  <2>1. CASE Launch \/ \E s \in Sites : StopSuspect(s) \/ Converge(s)
    BY <2>1 DEF Launch, StopSuspect, Converge
  <2> QED
    BY <1>3, <2>1 DEF Reconcile, Probe, ResumeFinished, ResumeAt, FoundAlive,
       Mark, DiscoverHistory, Refuse, Adopt, Persist, ReconcileCleared
<1>4. CASE Tick
  <2>1. CASE StallStop \/ StallStart
    BY <2>1 DEF StallStop, StallStart
  <2> QED
    BY <1>4, <2>1 DEF Tick, TickBlocked, TickCompleted, TickAdvanced,
       TickWaiting, TickStalled, StallProbe, PickBlocked, PickForced, PickNone,
       PickPolicy, BeginMigration, RetryReconcile, LoopAgain
<1>5. CASE Migrate
  <2>1. CASE MigrateGuard \/ MigrateTransfer
    BY <2>1 DEF MigrateGuard, MigrateTransfer
  <2>2. CASE MigrateStop \/ MigrateStart
    BY <2>2 DEF MigrateStop, MigrateStart
  <2>3. CASE AbortStop \/ AbortResume
    BY <2>3 DEF AbortStop, AbortResume
  <2> QED
    BY <1>5, <2>1, <2>2, <2>3 DEF Migrate
<1> QED
  BY <1>1, <1>2, <1>3, <1>4, <1>5, StepKinds

LEMMA NothingLateInit == Init => NothingLate
BY DEF Init, NothingLate

\* With prompt launches a trainer only starts where the engine starts it.
LEMMA PromptSteps ==
    ASSUME [Next]_vars, NothingLate, Prompt
    PROVE  Reconcile \/ Tick \/ Migrate \/ Crash \/ Outside
<1>1. ~Late
  BY DEF NothingLate, Late, LateStart
<1> QED
  BY <1>1, StepKinds

----------------------------------------------------------------------------
(* The source is at rest while its checkpoint is copied.                   *)

\* No step of the engine loses the source's stop before the target is asked
\* to start.
LEMMA SourceStoppedNext ==
    ASSUME Prompt, NothingLate, SourceStoppedFirst, [Next]_vars
    PROVE  SourceStoppedFirst'
<1> USE DEF SourceStoppedFirst, workers, locals
<1>1. CASE Outside
  BY <1>1, OutsideFrame
<1>2. CASE Crash
  BY <1>2 DEF Crash
<1>3. CASE Reconcile
  <2>1. ASSUME NEW s \in Sites, Probe(s) PROVE SourceStoppedFirst'
    BY <2>1 DEF Probe
  <2>2. ASSUME NEW s \in Sites, StopSuspect(s) PROVE SourceStoppedFirst'
    BY <2>2, StopShrinks DEF StopSuspect
  <2>3. ASSUME NEW s \in Sites, Converge(s) PROVE SourceStoppedFirst'
    BY <2>3, StopShrinks DEF Converge, AfterExtraStop
  <2>4. ASSUME NEW s \in Sites, ResumeFinished(s) PROVE SourceStoppedFirst'
    BY <2>4 DEF ResumeFinished, ForgetLocals
  <2>5. ASSUME NEW s \in Sites, ResumeAt(s) PROVE SourceStoppedFirst'
    BY <2>5 DEF ResumeAt, ForgetLocals
  <2>6. ASSUME NEW s \in Sites, FoundAlive(s) PROVE SourceStoppedFirst'
    BY <2>6 DEF FoundAlive
  <2>7. ASSUME NEW s \in Sites, Mark(s) PROVE SourceStoppedFirst'
    BY <2>7 DEF Mark, AfterMark
  <2>8. CASE DiscoverHistory
    BY <2>8 DEF DiscoverHistory
  <2>9. CASE Refuse
    BY <2>9 DEF Refuse, ForgetLocals
  <2>10. CASE Launch
    BY <2>10, StartGrows DEF Launch
  <2>11. CASE Adopt
    BY <2>11 DEF Adopt, ForgetLocals
  <2>12. CASE Persist
    BY <2>12 DEF Persist, Fault
  <2>13. CASE ReconcileCleared
    BY <2>13 DEF ReconcileCleared, Promote
  <2>14. QED
    BY <1>3, <2>1, <2>2, <2>3, <2>4, <2>5, <2>6, <2>7, <2>8, <2>9, <2>10,
       <2>11, <2>12, <2>13 DEF Reconcile
<1>4. CASE Tick
  <2>1. CASE TickBlocked
    BY <2>1 DEF TickBlocked
  <2>2. CASE TickCompleted
    BY <2>2 DEF TickCompleted
  <2>3. CASE TickAdvanced
    BY <2>3 DEF TickAdvanced
  <2>4. CASE TickWaiting
    BY <2>4 DEF TickWaiting
  <2>5. CASE TickStalled
    BY <2>5 DEF TickStalled
  <2>6. CASE StallProbe
    BY <2>6 DEF StallProbe, StallVerdict
  <2>7. CASE StallStop
    BY <2>7, StopShrinks DEF StallStop
  <2>8. CASE StallStart
    BY <2>8, StartGrows DEF StallStart
  <2>9. CASE PickBlocked
    BY <2>9 DEF PickBlocked
  <2>10. CASE PickForced
    BY <2>10 DEF PickForced, BeginMigration
  <2>11. CASE PickNone
    BY <2>11 DEF PickNone
  <2>12. ASSUME NEW s \in Sites, PickPolicy(s) PROVE SourceStoppedFirst'
    BY <2>12 DEF PickPolicy, BeginMigration
  <2>13. CASE RetryReconcile
    BY <2>13 DEF RetryReconcile, RetryDue
  <2>14. CASE LoopAgain
    BY <2>14 DEF LoopAgain
  <2>15. QED
    BY <1>4, <2>1, <2>2, <2>3, <2>4, <2>5, <2>6, <2>7, <2>8, <2>9, <2>10,
       <2>11, <2>12, <2>13, <2>14 DEF Tick
<1>5. CASE Migrate
  <2>1. CASE MigrateStop
    BY <2>1, StopShrinks DEF MigrateStop, AfterSourceStop
  <2>2. CASE MigrateGuard
    BY <2>2 DEF MigrateGuard
  <2>3. CASE MigrateTransfer
    BY <2>3 DEF MigrateTransfer, Fault
  <2>4. CASE MigrateStart
    BY <2>4, StartGrows DEF MigrateStart
  <2>5. CASE AbortStop
    BY <2>5, StopShrinks DEF AbortStop, AbortBlocked
  <2>6. CASE AbortResume
    BY <2>6, StartGrows DEF AbortResume
  <2>7. QED
    BY <1>5, <2>1, <2>2, <2>3, <2>4, <2>5, <2>6 DEF Migrate
<1>6. QED
  BY <1>1, <1>2, <1>3, <1>4, <1>5, PromptSteps

\* From a confirmed stop until the target is asked to start, no trainer runs
\* at the source: whatever else fails, and however the operator interferes.
THEOREM SourceStopped ==
    ASSUME Prompt
    PROVE  Spec => []SourceStoppedFirst
<1>1. Init => SourceStoppedFirst
  BY DEF Init, EngineInit, SourceStoppedFirst
<1>2. SourceStoppedFirst /\ NothingLate /\ [Next]_vars => SourceStoppedFirst'
  BY SourceStoppedNext
<1> QED
  BY <1>1, <1>2, NothingLateInit, NothingLateNext, PTL DEF Spec

----------------------------------------------------------------------------
(* One trainer.  Exclusivity rests on what reconciliation can know, and    *)
(* holds in the two situations below; outside them (a new process that     *)
(* cannot reach every worker) TLC exhibits two trainers.                   *)

\* One process that starts after a clean run and never reconciles again.
SingleProcess ==
    /\ RetryEnabled = FALSE
    /\ ForceStart = FALSE
    /\ {"crash", "late"} \cap FaultKinds = {}
    /\ Histories \subseteq {"cold", "warm"}

\* Any number of processes, whose workers all answer, always.
AlwaysReachable ==
    /\ {"outage", "late"} \cap FaultKinds = {}
    /\ Histories \subseteq {"cold", "warm", "fresh_host"}

LocatingPcs == {"probe", "history", "risk", "decide"}

\* The first reconciliation's evidence names the only trainer there can be.
Evidence ==
    SingleProcess /\ pc \in {"probe", "history"} =>
        /\ running \subseteq {stateFile}
        /\ \A s \in Sites : marker[s] \in {stateFile, NoSite}

NothingHidden ==
    AlwaysReachable => up = Sites /\ unknown = {} /\ suspects = {}

\* What reconciliation has seen, and has still to see, covers every trainer.
Located ==
    /\ pc = "history" => todo = {}
    /\ pc \in {"probe", "history"} =>
          running \subseteq todo \cup unknown \cup AliveSites
    /\ pc \in {"risk", "decide"} => running \subseteq suspects \cup AliveSites
    /\ pc \in LocatingPcs => \A s \in AliveSites : running \subseteq {s}
    /\ pc \notin LocatingPcs \cup {"converge", "adopt"} => AliveSites = {}

\* Where the only trainer can be, at each control point outside it.
Placed ==
    /\ pc \in {"converge", "adopt"} => running \subseteq {target}
    /\ pc \in {"launch", "mguard", "mtransfer", "mstart"} => running = {}
    /\ pc \in EvidencePcs \cup {"mstop", "aresume"} =>
          running \subseteq {active}
    /\ pc = "astop" =>
          running \subseteq {active} \/ running \subseteq {target}
    /\ pc \in TickPcs /\ status # "stopped" => running \subseteq {active}
    /\ pc \in {"stallProbe", "stallStop", "stallStart"} => status = "running"

Exclusive ==
    /\ AtMostOneTrainer
    /\ Evidence
    /\ Located
    /\ Placed

LEMMA NothingHiddenInit == Init => NothingHidden
BY DEF NothingHidden, AlwaysReachable, Init, EngineInit

\* Without outages no call hides a worker.
LEMMA CallsHideNothing ==
    ASSUME "outage" \notin FaultKinds,
           NEW s, NEW c, StopAt(s, c) \/ StartAt(s, c)
    PROVE  up' = up
BY DEF StopAt, StartAt, Fault

LEMMA NothingHiddenNext ==
    Typed /\ NothingHidden /\ [Next]_vars => NothingHidden'
<1> SUFFICES ASSUME Typed, NothingHidden, [Next]_vars, AlwaysReachable
             PROVE  up' = Sites /\ unknown' = {} /\ suspects' = {}
  BY DEF NothingHidden
<1>1. /\ up = Sites /\ unknown = {} /\ suspects = {}
      /\ "outage" \notin FaultKinds
  BY DEF NothingHidden, AlwaysReachable
<1> USE <1>1 DEF workers, locals
<1>2. CASE Outside
  <2>1. CASE \E s \in Sites : TrainerAdvance(s) \/ TrainerFinish(s)
                              \/ TrainerDies(s) \/ RequestCheck(s)
    BY <2>1 DEF TrainerAdvance, TrainerFinish, TrainerDies, RequestCheck
  <2>2. CASE \E s \in Sites : SiteLost(s) \/ SiteBack(s)
    BY <2>2 DEF SiteLost, SiteBack, Fault
  <2>3. CASE RequestSet \/ UNCHANGED vars
    BY <2>3 DEF RequestSet, vars
  <2>4. QED
    BY <1>2, <2>1, <2>2, <2>3 DEF Outside
<1>3. CASE Crash
  BY <1>3 DEF Crash, ForgetLocals
<1>4. CASE Reconcile
  <2>1. ASSUME NEW s \in Sites, Probe(s) 
             PROVE  up' = Sites /\ unknown' = {} /\ suspects' = {}
    BY <2>1 DEF Probe
  <2>2. ASSUME NEW s \in Sites, StopSuspect(s) 
             PROVE  up' = Sites /\ unknown' = {} /\ suspects' = {}
    BY <2>2, CallsHideNothing DEF StopSuspect
  <2>3. ASSUME NEW s \in Sites, Converge(s) 
             PROVE  up' = Sites /\ unknown' = {} /\ suspects' = {}
    BY <2>3, CallsHideNothing DEF Converge
  <2>4. ASSUME NEW s \in Sites, ResumeFinished(s) 
             PROVE  up' = Sites /\ unknown' = {} /\ suspects' = {}
    BY <2>4 DEF ResumeFinished, ForgetLocals
  <2>5. ASSUME NEW s \in Sites, ResumeAt(s) 
             PROVE  up' = Sites /\ unknown' = {} /\ suspects' = {}
    BY <2>5 DEF ResumeAt, ForgetLocals
  <2>6. ASSUME NEW s \in Sites, FoundAlive(s) 
             PROVE  up' = Sites /\ unknown' = {} /\ suspects' = {}
    BY <2>6 DEF FoundAlive
  <2>7. ASSUME NEW s \in Sites, Mark(s) 
             PROVE  up' = Sites /\ unknown' = {} /\ suspects' = {}
    BY <2>7 DEF Mark
  <2>8. CASE DiscoverHistory
    BY <2>8 DEF DiscoverHistory, Risky
  <2>9. CASE Refuse
    BY <2>9 DEF Refuse, ForgetLocals
  <2>10. CASE Launch
    BY <2>10, CallsHideNothing DEF Launch
  <2>11. CASE Adopt
    BY <2>11 DEF Adopt, ForgetLocals
  <2>12. CASE Persist
    BY <2>12 DEF Persist
  <2>13. CASE ReconcileCleared
    BY <2>13 DEF ReconcileCleared
  <2>14. QED
    BY <1>4, <2>1, <2>2, <2>3, <2>4, <2>5, <2>6, <2>7, <2>8, <2>9, <2>10, <2>11, <2>12, <2>13
       DEF Reconcile
<1>5. CASE Tick
  <2>1. CASE TickBlocked
    BY <2>1 DEF TickBlocked
  <2>2. CASE TickCompleted
    BY <2>2 DEF TickCompleted
  <2>3. CASE TickAdvanced
    BY <2>3 DEF TickAdvanced
  <2>4. CASE TickWaiting
    BY <2>4 DEF TickWaiting
  <2>5. CASE TickStalled
    BY <2>5 DEF TickStalled
  <2>6. CASE StallProbe
    BY <2>6 DEF StallProbe
  <2>7. CASE StallStop
    BY <2>7, CallsHideNothing DEF StallStop
  <2>8. CASE StallStart
    BY <2>8, CallsHideNothing DEF StallStart
  <2>9. CASE PickBlocked
    BY <2>9 DEF PickBlocked
  <2>10. CASE PickForced
    BY <2>10 DEF PickForced, BeginMigration
  <2>11. CASE PickNone
    BY <2>11 DEF PickNone
  <2>12. ASSUME NEW s \in Sites, PickPolicy(s) 
             PROVE  up' = Sites /\ unknown' = {} /\ suspects' = {}
    BY <2>12 DEF PickPolicy, BeginMigration
  <2>13. CASE RetryReconcile
    BY <2>13 DEF RetryReconcile
  <2>14. CASE LoopAgain
    BY <2>14 DEF LoopAgain
  <2>15. QED
    BY <1>5, <2>1, <2>2, <2>3, <2>4, <2>5, <2>6, <2>7, <2>8, <2>9, <2>10, <2>11, <2>12, <2>13, <2>14
       DEF Tick
<1>6. CASE Migrate
  <2>1. CASE MigrateStop
    BY <2>1, CallsHideNothing DEF MigrateStop
  <2>2. CASE MigrateGuard
    BY <2>2 DEF MigrateGuard
  <2>3. CASE MigrateTransfer
    BY <2>3 DEF MigrateTransfer
  <2>4. CASE MigrateStart
    BY <2>4, CallsHideNothing DEF MigrateStart
  <2>5. CASE AbortStop
    BY <2>5, CallsHideNothing DEF AbortStop
  <2>6. CASE AbortResume
    BY <2>6, CallsHideNothing DEF AbortResume
  <2>7. QED
    BY <1>6, <2>1, <2>2, <2>3, <2>4, <2>5, <2>6
       DEF Migrate
<1>7. CASE Late
  BY <1>7, LateFrame
<1>8. QED
  BY <1>2, <1>3, <1>4, <1>5, <1>6, <1>7, StepKinds

LEMMA AliveFacts ==
    /\ alive = NoneAlive => AliveSites = {}
    /\ alive' = NoneAlive => AliveSites' = {}
    /\ alive' = alive => AliveSites' = AliveSites
BY DEF AliveSites, NoneAlive

LEMMA ExclusiveInit ==
    ASSUME SingleProcess \/ AlwaysReachable, Init
    PROVE  Exclusive
<1>1. pc = "probe" /\ todo = Sites /\ AliveSites = {}
  BY AliveFacts DEF Init, EngineInit
<1>2. PICK kind \in Histories : HistoryInit(kind)
  BY DEF Init
<1>3. kind \in {"cold", "warm", "fresh_host"}
  BY DEF SingleProcess, AlwaysReachable
<1>4. AtMostOneTrainer /\ running \subseteq Sites
  BY <1>2, <1>3 DEF HistoryInit, Cold, RanAt, AtMostOneTrainer
<1>5. Evidence
  <2>1. SUFFICES ASSUME kind \in {"cold", "warm"}
                 PROVE  /\ running \subseteq {stateFile}
                        /\ \A s \in Sites : marker[s] \in {stateFile, NoSite}
    BY DEF Evidence, SingleProcess
  <2>2. QED
    BY <1>2, <2>1 DEF HistoryInit, Cold, RanAt
<1>6. Located /\ Placed
  BY <1>1, <1>4 DEF Located, Placed, LocatingPcs, EvidencePcs, TickPcs
<1>7. QED
  BY <1>4, <1>5, <1>6 DEF Exclusive

\* A start is decided only where no trainer is left.
LEMMA NoTrainerLeft ==
    ASSUME SingleProcess \/ AlwaysReachable, NothingHidden, Located,
           pc = "decide", Cleared, AliveSites = {}
    PROVE  running = {}
<1>1. suspects = {}
  BY DEF NothingHidden, SingleProcess, Cleared
<1>2. QED
  BY <1>1 DEF Located

\* Nothing reconciliation has not seen can be left out: with the suspects
\* stopped, the trainers seen are all there are.
LEMMA ExclusiveNext ==
    ASSUME SingleProcess \/ AlwaysReachable,
           Typed, NothingLate, NothingHidden, Exclusive, [Next]_vars
    PROVE  Exclusive'
<1> USE AliveFacts
        DEF Exclusive, AtMostOneTrainer, Evidence, Located, Placed,
            LocatingPcs, EvidencePcs, TickPcs, workers, locals
<1>1. CASE Outside
  BY <1>1, OutsideFrame
<1>2. CASE Crash
  <2>1. /\ AlwaysReachable /\ ~SingleProcess
        /\ running' = running /\ running \subseteq Sites
        /\ pc' = "probe" /\ todo' = Sites /\ AliveSites' = {}
    BY <1>2 DEF Crash, Fault, ForgetLocals, SingleProcess, Typed, TypeOK
  <2>2. QED
    BY <2>1
<1>3. CASE Reconcile
  <2>1. ASSUME NEW s \in Sites, Probe(s) PROVE Exclusive'
    <3>1. /\ running' = running
          /\ UNCHANGED <<stateFile, marker, active, status, target>>
      BY <2>1 DEF Probe
    <3>2. /\ pc' \in {"probe", "history"}
          /\ pc' = "history" => todo' = {}
          /\ todo' = todo \ {s}
      BY <2>1 DEF Probe
    <3>3. CASE s \in up \cap running
      <4>1. alive'[s] # NoStep /\ \A t \in Sites \ {s} : alive'[t] = alive[t]
        BY <2>1, <3>3 DEF Probe, Typed, TypeOK
      <4>2. AliveSites' = AliveSites \cup {s}
        BY <4>1 DEF AliveSites
      <4>3. running = {s}
        BY <3>3
      <4>4. QED
        BY <2>1, <3>1, <3>2, <4>2, <4>3 DEF Probe
    <3>4. CASE s \notin running
      <4>1. alive' = alive /\ unknown \subseteq unknown'
        BY <2>1, <3>4 DEF Probe
      <4>2. QED
        BY <2>1, <3>1, <3>2, <3>4, <4>1 DEF Probe
    <3>5. CASE s \in running \ up
      <4>1. alive' = alive /\ unknown' = unknown \cup {s}
        BY <2>1, <3>5 DEF Probe
      <4>2. QED
        BY <2>1, <3>1, <3>2, <4>1 DEF Probe
    <3>6. QED
      BY <3>3, <3>4, <3>5
  <2>2. ASSUME NEW s \in Sites, StopSuspect(s) PROVE Exclusive'
    BY <2>2, StopShrinks DEF StopSuspect
  <2>3. ASSUME NEW s \in Sites, Converge(s) PROVE Exclusive'
    BY <2>3, StopShrinks DEF Converge, AfterExtraStop
  <2>4. ASSUME NEW s \in Sites, ResumeFinished(s) PROVE Exclusive'
    <3>1. running = {}
      BY <2>4, NoTrainerLeft DEF ResumeFinished
    <3>2. QED
      BY <2>4, <3>1 DEF ResumeFinished, ForgetLocals
  <2>5. ASSUME NEW s \in Sites, ResumeAt(s) PROVE Exclusive'
    <3>1. running = {}
      BY <2>5, NoTrainerLeft DEF ResumeAt
    <3>2. QED
      BY <2>5, <3>1 DEF ResumeAt, ForgetLocals
  <2>6. ASSUME NEW s \in Sites, FoundAlive(s) PROVE Exclusive'
    <3>1. s \in AliveSites
      BY <2>6 DEF FoundAlive, IsKept
    <3>2. QED
      BY <2>6, <3>1 DEF FoundAlive
  <2>7. ASSUME NEW s \in Sites, Mark(s) PROVE Exclusive'
    BY <2>7 DEF Mark, AfterMark
  <2>8. CASE DiscoverHistory
    <3>1. /\ running' = running /\ running \subseteq Sites
          /\ running \subseteq unknown \cup AliveSites
          /\ AliveSites' = AliveSites
          /\ pc' \in {"risk", "decide"}
      BY <2>8 DEF DiscoverHistory, Typed, TypeOK
    <3>2. running \subseteq suspects' \cup AliveSites
      <4>1. CASE AlwaysReachable
        BY <3>1, <4>1 DEF NothingHidden
      <4>2. CASE SingleProcess
        <5>1. PICK last \in MaybeSite :
                 IsLastActive(last) /\ suspects' = Risky(last)
          BY <2>8 DEF DiscoverHistory
        <5>2. CASE running = {}
          BY <5>2
        <5>3. CASE running # {}
          <6>1. running = {stateFile}
            BY <2>8, <4>2, <5>3 DEF DiscoverHistory
          <6>2. last = stateFile
            BY <2>8, <4>2, <5>1 DEF DiscoverHistory, IsLastActive, Readable
          <6>3. stateFile \in unknown => suspects' = {stateFile}
            BY <5>1, <6>2 DEF Risky
          <6>4. QED
            BY <3>1, <6>1, <6>3
        <5>4. QED
          BY <5>2, <5>3
      <4>3. QED
        BY <4>1, <4>2
    <3>3. QED
      BY <2>8, <3>1, <3>2 DEF DiscoverHistory
  <2>9. CASE Refuse
    BY <2>9 DEF Refuse, ForgetLocals
  <2>10. CASE Launch
    BY <2>10, StartGrows DEF Launch
  <2>11. CASE Adopt
    BY <2>11 DEF Adopt, ForgetLocals
  <2>12. CASE Persist
    BY <2>12 DEF Persist, Fault
  <2>13. CASE ReconcileCleared
    BY <2>13 DEF ReconcileCleared, Promote
  <2>14. QED
    BY <1>3, <2>1, <2>2, <2>3, <2>4, <2>5, <2>6, <2>7, <2>8, <2>9, <2>10, <2>11, <2>12, <2>13
       DEF Reconcile
<1>4. CASE Tick
  <2>1. CASE TickBlocked
    BY <2>1 DEF TickBlocked
  <2>2. CASE TickCompleted
    BY <2>2 DEF TickCompleted
  <2>3. CASE TickAdvanced
    BY <2>3 DEF TickAdvanced
  <2>4. CASE TickWaiting
    BY <2>4 DEF TickWaiting
  <2>5. CASE TickStalled
    BY <2>5 DEF TickStalled
  <2>6. CASE StallProbe
    BY <2>6 DEF StallProbe, StallVerdict
  <2>7. CASE StallStop
    BY <2>7, StopShrinks DEF StallStop
  <2>8. CASE StallStart
    BY <2>8, StartGrows DEF StallStart
  <2>9. CASE PickBlocked
    BY <2>9 DEF PickBlocked
  <2>10. CASE PickForced
    BY <2>10 DEF PickForced, BeginMigration
  <2>11. CASE PickNone
    BY <2>11 DEF PickNone
  <2>12. ASSUME NEW s \in Sites, PickPolicy(s) PROVE Exclusive'
    BY <2>12 DEF PickPolicy, BeginMigration
  <2>13. CASE RetryReconcile
    BY <2>13 DEF RetryReconcile, RetryDue, SingleProcess, Typed, TypeOK
  <2>14. CASE LoopAgain
    BY <2>14 DEF LoopAgain
  <2>15. QED
    BY <1>4, <2>1, <2>2, <2>3, <2>4, <2>5, <2>6, <2>7, <2>8, <2>9, <2>10, <2>11, <2>12, <2>13, <2>14
       DEF Tick
<1>5. CASE Migrate
  <2>1. CASE MigrateStop
    BY <2>1, StopShrinks DEF MigrateStop, AfterSourceStop
  <2>2. CASE MigrateGuard
    BY <2>2 DEF MigrateGuard
  <2>3. CASE MigrateTransfer
    BY <2>3 DEF MigrateTransfer, Fault
  <2>4. CASE MigrateStart
    <3>1. running' \subseteq {target} /\ alive' = alive
      BY <2>4, StartGrows DEF MigrateStart
    <3>2. \/ pc' = "persist" /\ active' = target
          \/ pc' = "astop" /\ UNCHANGED <<active, target>>
      BY <2>4 DEF MigrateStart
    <3>3. QED
      BY <2>4, <3>1, <3>2 DEF MigrateStart
  <2>5. CASE AbortStop
    <3>1. CASE StopAt(target, TRUE) /\ pc' = "aresume"
      <4>1. running' = running \ {target}
        BY <3>1, StopShrinks
      <4>2. QED
        BY <2>5, <3>1, <4>1 DEF AbortStop
    <3>2. CASE StopAt(target, FALSE) /\ AbortBlocked /\ pc' = "retry"
      <4>1. running' \subseteq running
        BY <3>2, StopShrinks
      <4>2. QED
        BY <2>5, <3>2, <4>1 DEF AbortStop, AbortBlocked
    <3>3. QED
      BY <2>5, <3>1, <3>2 DEF AbortStop
  <2>6. CASE AbortResume
    BY <2>6, StartGrows DEF AbortResume
  <2>7. QED
    BY <1>5, <2>1, <2>2, <2>3, <2>4, <2>5, <2>6
       DEF Migrate
<1>6. Prompt
  BY DEF Prompt, SingleProcess, AlwaysReachable
<1>7. QED
  BY <1>1, <1>2, <1>3, <1>4, <1>5, <1>6, PromptSteps

\* In both situations no two trainers ever run, whatever the workers, the
\* transfers, the disk and the operator do.
THEOREM OneTrainer ==
    ASSUME SingleProcess \/ AlwaysReachable
    PROVE  Spec => []AtMostOneTrainer
<1> DEFINE Inv == Typed /\ NothingLate /\ NothingHidden /\ Exclusive
<1>1. Init => Inv
  BY TypeInit, NothingLateInit, NothingHiddenInit, ExclusiveInit
<1>2. Inv /\ [Next]_vars => Inv'
  BY TypeNext, NothingLateNext, NothingHiddenNext, ExclusiveNext
<1>3. Inv => AtMostOneTrainer
  BY DEF Exclusive
<1>4. QED
  BY <1>1, <1>2, <1>3, PTL DEF Spec

----------------------------------------------------------------------------
(* A blocked tick.                                                         *)

\* status means what _tick reads into it: a stall is only handled, and a
\* migration only under way, where the code says so.
StatusHonest ==
    /\ pc \in {"stallProbe", "stallStop", "stallStart"} => status = "running"
    /\ pc \notin MigratePcs => status # "migrating"

LEMMA StatusNext == StatusHonest /\ [Next]_vars => StatusHonest'
<1> SUFFICES ASSUME StatusHonest, [Next]_vars PROVE StatusHonest'
  OBVIOUS
<1> USE DEF StatusHonest, MigratePcs, workers, locals
<1>1. CASE Outside
  BY <1>1, OutsideFrame
<1>2. CASE Crash
  BY <1>2 DEF Crash
<1>3. CASE Reconcile
  <2>1. ASSUME NEW s \in Sites, Probe(s) PROVE StatusHonest'
    BY <2>1 DEF Probe
  <2>2. ASSUME NEW s \in Sites, StopSuspect(s) PROVE StatusHonest'
    BY <2>2 DEF StopSuspect
  <2>3. ASSUME NEW s \in Sites, Converge(s) PROVE StatusHonest'
    BY <2>3 DEF Converge, AfterExtraStop
  <2>4. ASSUME NEW s \in Sites, ResumeFinished(s) PROVE StatusHonest'
    BY <2>4 DEF ResumeFinished, ForgetLocals
  <2>5. ASSUME NEW s \in Sites, ResumeAt(s) PROVE StatusHonest'
    BY <2>5 DEF ResumeAt, ForgetLocals
  <2>6. ASSUME NEW s \in Sites, FoundAlive(s) PROVE StatusHonest'
    BY <2>6 DEF FoundAlive
  <2>7. ASSUME NEW s \in Sites, Mark(s) PROVE StatusHonest'
    BY <2>7 DEF Mark, AfterMark
  <2>8. CASE DiscoverHistory
    BY <2>8 DEF DiscoverHistory
  <2>9. CASE Refuse
    BY <2>9 DEF Refuse, ForgetLocals
  <2>10. CASE Launch
    BY <2>10 DEF Launch
  <2>11. CASE Adopt
    BY <2>11 DEF Adopt, ForgetLocals
  <2>12. CASE Persist
    BY <2>12 DEF Persist, Fault
  <2>13. CASE ReconcileCleared
    BY <2>13 DEF ReconcileCleared, Promote
  <2>14. QED
    BY <1>3, <2>1, <2>2, <2>3, <2>4, <2>5, <2>6, <2>7, <2>8, <2>9, <2>10, <2>11, <2>12, <2>13
       DEF Reconcile
<1>4. CASE Tick
  <2>1. CASE TickBlocked
    BY <2>1 DEF TickBlocked
  <2>2. CASE TickCompleted
    BY <2>2 DEF TickCompleted
  <2>3. CASE TickAdvanced
    BY <2>3 DEF TickAdvanced
  <2>4. CASE TickWaiting
    BY <2>4 DEF TickWaiting
  <2>5. CASE TickStalled
    BY <2>5 DEF TickStalled
  <2>6. CASE StallProbe
    BY <2>6 DEF StallProbe, StallVerdict
  <2>7. CASE StallStop
    BY <2>7 DEF StallStop
  <2>8. CASE StallStart
    BY <2>8 DEF StallStart
  <2>9. CASE PickBlocked
    BY <2>9 DEF PickBlocked
  <2>10. CASE PickForced
    BY <2>10 DEF PickForced, BeginMigration
  <2>11. CASE PickNone
    BY <2>11 DEF PickNone
  <2>12. ASSUME NEW s \in Sites, PickPolicy(s) PROVE StatusHonest'
    BY <2>12 DEF PickPolicy, BeginMigration
  <2>13. CASE RetryReconcile
    BY <2>13 DEF RetryReconcile, RetryDue
  <2>14. CASE LoopAgain
    BY <2>14 DEF LoopAgain
  <2>15. QED
    BY <1>4, <2>1, <2>2, <2>3, <2>4, <2>5, <2>6, <2>7, <2>8, <2>9, <2>10, <2>11, <2>12, <2>13, <2>14
       DEF Tick
<1>5. CASE Migrate
  <2>1. CASE MigrateStop
    BY <2>1 DEF MigrateStop, AfterSourceStop
  <2>2. CASE MigrateGuard
    BY <2>2 DEF MigrateGuard
  <2>3. CASE MigrateTransfer
    BY <2>3 DEF MigrateTransfer, Fault
  <2>4. CASE MigrateStart
    BY <2>4 DEF MigrateStart
  <2>5. CASE AbortStop
    BY <2>5 DEF AbortStop, AbortBlocked
  <2>6. CASE AbortResume
    BY <2>6 DEF AbortResume
  <2>7. QED
    BY <1>5, <2>1, <2>2, <2>3, <2>4, <2>5, <2>6
       DEF Migrate
<1>6. CASE Late
  BY <1>6, LateFrame
<1>7. QED
  BY <1>1, <1>2, <1>3, <1>4, <1>5, <1>6, StepKinds

LEMMA BlockedStep ==
    ASSUME Prompt, NothingLate, StatusHonest, [Next]_vars,
           status # "running", pc \in TickPcs
    PROVE  running' \subseteq running /\ status' # "migrating"
<1> USE DEF StatusHonest, TickPcs, MigratePcs, workers, locals
<1>1. CASE Outside
  BY <1>1, OutsideFrame
<1>2. CASE Crash
  BY <1>2 DEF Crash
<1>3. CASE Reconcile
  BY <1>3 DEF Reconcile, Probe, StopSuspect, Converge, ResumeFinished,
              ResumeAt, FoundAlive, Mark, DiscoverHistory, Refuse, Launch,
              Adopt, Persist, ReconcileCleared
<1>4. CASE Migrate
  BY <1>4 DEF Migrate, MigrateStop, MigrateGuard, MigrateTransfer,
              MigrateStart, AbortStop, AbortResume
<1>5. CASE Tick
  <2>1. CASE TickBlocked
    BY <2>1 DEF TickBlocked
  <2>2. CASE TickCompleted
    BY <2>2 DEF TickCompleted
  <2>3. CASE TickAdvanced
    BY <2>3 DEF TickAdvanced
  <2>4. CASE TickWaiting
    BY <2>4 DEF TickWaiting
  <2>5. CASE TickStalled
    BY <2>5 DEF TickStalled
  <2>6. CASE StallProbe
    BY <2>6 DEF StallProbe, StallVerdict
  <2>7. CASE StallStop
    BY <2>7 DEF StallStop
  <2>8. CASE StallStart
    BY <2>8 DEF StallStart
  <2>9. CASE PickBlocked
    BY <2>9 DEF PickBlocked
  <2>10. CASE PickForced
    BY <2>10 DEF PickForced, BeginMigration
  <2>11. CASE PickNone
    BY <2>11 DEF PickNone
  <2>12. ASSUME NEW s \in Sites, PickPolicy(s)
             PROVE  running' \subseteq running /\ status' # "migrating"
    BY <2>12 DEF PickPolicy, BeginMigration
  <2>13. CASE RetryReconcile
    BY <2>13 DEF RetryReconcile, RetryDue
  <2>14. CASE LoopAgain
    BY <2>14 DEF LoopAgain
  <2>15. QED
    BY <1>5, <2>1, <2>2, <2>3, <2>4, <2>5, <2>6, <2>7, <2>8, <2>9, <2>10, <2>11, <2>12, <2>13, <2>14
       DEF Tick
<1>6. QED
  BY <1>1, <1>2, <1>3, <1>4, <1>5, PromptSteps

\* A tick of a stopped, finished or not yet cleared engine starts no trainer
\* and begins no migration, whatever interleaves with it.
THEOREM BlockedTick ==
    ASSUME Prompt
    PROVE  Spec => BlockedTickStartsNothing
<1>1. Init => StatusHonest
  BY DEF Init, EngineInit, StatusHonest
<1>2. StatusHonest /\ NothingLate /\ [Next]_vars
      => [status # "running" /\ pc \in TickPcs
            => running' \subseteq running /\ status' # "migrating"]_vars
  BY BlockedStep
<1>3. QED
  BY <1>1, <1>2, StatusNext, NothingLateInit, NothingLateNext, PTL
     DEF Spec, BlockedTickStartsNothing

----------------------------------------------------------------------------
(* A split that reconciliation finds.                                      *)

\* Every trainer at a worker that answered has been seen or has still to be
\* looked for; once one is kept, it is that one or has still to be stopped,
\* unless one could not be stopped and health says so.
Accounted ==
    /\ pc = "probe" => running \subseteq todo \cup unknown \cup AliveSites
    /\ pc \in {"history", "risk", "decide"} =>
          running \subseteq unknown \cup AliveSites
    /\ pc = "converge" =>
          health = "stalled" \/ running \subseteq unknown \cup todo \cup {target}
    /\ pc = "adopt" =>
          health = "stalled" \/ running \subseteq unknown \cup {target}

SeekingPcs == LocatingPcs \cup {"converge", "adopt"}

\* Only these steps lead to, or stay within, the search for trainers.
LEMMA SeekingSteps ==
    ASSUME Prompt, NothingLate, [Next]_vars, pc' \in SeekingPcs
    PROVE  \/ Outside \/ Crash \/ RetryReconcile \/ DiscoverHistory
           \/ \E s \in Sites : \/ Probe(s) \/ StopSuspect(s) \/ FoundAlive(s)
                               \/ Converge(s)
<1> USE DEF SeekingPcs, LocatingPcs
<1>1. CASE Reconcile
  BY <1>1 DEF Reconcile, ResumeFinished, ResumeAt, Mark, AfterMark, Refuse,
              Launch, Adopt, Persist, ReconcileCleared
<1>2. CASE Tick
  BY <1>2 DEF Tick, TickBlocked, TickCompleted, TickAdvanced, TickWaiting,
              TickStalled, StallProbe, StallVerdict, StallStop, StallStart,
              PickBlocked, PickForced, PickNone, PickPolicy, BeginMigration,
              LoopAgain
<1>3. CASE Migrate
  BY <1>3 DEF Migrate, MigrateStop, AfterSourceStop, MigrateGuard,
              MigrateTransfer, MigrateStart, AbortStop, AbortResume
<1> QED
  BY <1>1, <1>2, <1>3, PromptSteps

LEMMA AccountedNext ==
    ASSUME Prompt, NothingLate, Typed, Accounted, [Next]_vars
    PROVE  Accounted'
<1> SUFFICES ASSUME pc' \in SeekingPcs PROVE Accounted'
  BY DEF Accounted, SeekingPcs, LocatingPcs
<1> USE AliveFacts DEF Accounted, SeekingPcs, LocatingPcs, workers, locals
<1>1. CASE Outside
  <2>1. health' = health
    BY <1>1 DEF Outside, TrainerAdvance, TrainerFinish, TrainerDies, SiteLost,
                SiteBack, RequestCheck, RequestSet, vars
  <2> QED
    BY <1>1, <2>1, OutsideFrame
<1>2. CASE Crash \/ RetryReconcile
  BY <1>2 DEF Crash, RetryReconcile, Typed, TypeOK
<1>3. ASSUME NEW s \in Sites, Probe(s) PROVE Accounted'
  <2>1. /\ pc = "probe" /\ pc' \in {"probe", "history"} /\ running' = running
        /\ todo' = todo \ {s} /\ (pc' = "history" => todo' = {})
    BY <1>3 DEF Probe
  <2>2. AliveSites \subseteq AliveSites' /\ unknown \subseteq unknown'
    <3>1. \A t \in Sites : t # s => alive'[t] = alive[t]
      BY <1>3 DEF Probe, Typed, TypeOK
    <3>2. alive[s] # NoStep => alive'[s] # NoStep
      BY <1>3 DEF Probe, Typed, TypeOK
    <3> QED
      BY <1>3, <3>1, <3>2 DEF Probe, AliveSites
  <2>3. s \in running => s \in unknown' \cup AliveSites'
    <3>1. s \in running /\ s \in up => alive'[s] # NoStep
      BY <1>3 DEF Probe, Typed, TypeOK
    <3>2. s \notin up => s \in unknown'
      BY <1>3 DEF Probe
    <3> QED
      BY <3>1, <3>2 DEF AliveSites
  <2> QED
    BY <2>1, <2>2, <2>3
<1>4. CASE DiscoverHistory
  BY <1>4 DEF DiscoverHistory
<1>5. ASSUME NEW s \in Sites, StopSuspect(s) PROVE Accounted'
  BY <1>5, StopShrinks DEF StopSuspect
<1>6. ASSUME NEW s \in Sites, FoundAlive(s) PROVE Accounted'
  BY <1>6 DEF FoundAlive
<1>7. ASSUME NEW s \in Sites, Converge(s) PROVE Accounted'
  <2>1. PICK confirmed \in BOOLEAN :
            StopAt(s, confirmed) /\ health' = AfterExtraStop(confirmed)
    BY <1>7 DEF Converge
  <2>2. /\ pc = "converge" /\ pc' \in {"converge", "adopt"}
        /\ todo' = todo \ {s} /\ (pc' = "adopt" => todo' = {})
        /\ unknown' = unknown /\ target' = target
    BY <1>7 DEF Converge
  <2>3. confirmed => running' = running \ {s} /\ health' = health
    BY <2>1, StopShrinks DEF AfterExtraStop
  <2>4. ~confirmed => health' = "stalled"
    BY <2>1 DEF AfterExtraStop
  <2> QED
    BY <2>2, <2>3, <2>4
<1> QED
  BY <1>1, <1>2, <1>3, <1>4, <1>5, <1>6, <1>7, SeekingSteps

\* However many trainers reconciliation finds, of those at workers that answered
\* only the kept one is left when it adopts it, or health reports a stall.
THEOREM SplitResolved ==
    ASSUME Prompt
    PROVE  Spec => []SplitStoppedOrReported
<1>1. Init => Accounted
  <2>1. Init => Typed
    BY TypeInit
  <2> QED
    BY <2>1 DEF Init, EngineInit, Accounted, Typed, TypeOK
<1>2. Accounted => SplitStoppedOrReported
  BY DEF Accounted, SplitStoppedOrReported
<1>3. Typed /\ NothingLate /\ Accounted /\ [Next]_vars => Accounted'
  BY AccountedNext
<1> QED
  BY <1>1, <1>2, <1>3, TypeInit, TypeNext, NothingLateInit, NothingLateNext, PTL
     DEF Spec

----------------------------------------------------------------------------
(* How a migration ends.                                                   *)

\* From the start that was confirmed to the end of the bookkeeping, the job runs
\* at active_site or has finished there, unless health is down.  Only a trainer
\* that dies meanwhile, of which the engine cannot know, is excepted.
Underway ==
    "trainer" \notin FaultKinds /\ pc \in {"persist", "mark"}
    /\ origin = "migrate" /\ health = "ok"
        => active \in running \cup finished

\* A reconciliation is the first one of a process, or a retry.
Origins ==
    pc \in ReconcilePcs => origin = "boot" \/ (origin = "retry" /\ RetryEnabled)

LEMMA OriginsNext == Origins /\ [Next]_vars => Origins'
<1> SUFFICES ASSUME Origins, [Next]_vars, pc' \in ReconcilePcs
             PROVE  origin' = "boot" \/ (origin' = "retry" /\ RetryEnabled)
  BY DEF Origins
<1> USE DEF Origins, ReconcilePcs, locals
<1>1. CASE Outside
  <2>1. origin' = origin
    BY <1>1 DEF Outside, TrainerAdvance, TrainerFinish, TrainerDies, SiteLost,
                SiteBack, RequestCheck, RequestSet, vars
  <2> QED
    BY <1>1, <2>1, OutsideFrame
<1>2. CASE Crash
  BY <1>2 DEF Crash
<1>3. CASE Reconcile
  BY <1>3 DEF Reconcile, Probe, StopSuspect, Converge, ResumeFinished, ResumeAt,
     FoundAlive, Mark, AfterMark, DiscoverHistory, Refuse, Launch, Adopt,
     Persist, ReconcileCleared
<1>4. CASE Tick
  BY <1>4 DEF Tick, TickBlocked, TickCompleted, TickAdvanced, TickWaiting,
              TickStalled, StallProbe, StallVerdict, StallStop, StallStart,
              PickBlocked, PickForced, PickNone, PickPolicy, BeginMigration,
              RetryReconcile, LoopAgain
<1>5. CASE Migrate
  BY <1>5 DEF Migrate, MigrateStop, AfterSourceStop, MigrateGuard,
     MigrateTransfer, MigrateStart, AbortStop, AbortResume
<1>6. CASE Late
  BY <1>6, LateFrame
<1> QED
  BY <1>1, <1>2, <1>3, <1>4, <1>5, <1>6, StepKinds

\* What the environment does to the job of the active site.
LEMMA OutsideKeepsJob ==
    ASSUME Outside, "trainer" \notin FaultKinds
    PROVE  /\ running \cup finished \subseteq running' \cup finished'
           /\ UNCHANGED <<health, origin>>
<1> USE DEF locals
<1>1. ASSUME NEW s \in Sites, TrainerAdvance(s)
      PROVE  /\ running \cup finished \subseteq running' \cup finished'
             /\ UNCHANGED <<health, origin>>
  BY <1>1 DEF TrainerAdvance
<1>2. ASSUME NEW s \in Sites, TrainerFinish(s)
      PROVE  /\ running \cup finished \subseteq running' \cup finished'
             /\ UNCHANGED <<health, origin>>
  BY <1>2 DEF TrainerFinish
<1>3. ASSUME NEW s \in Sites, SiteLost(s) \/ SiteBack(s) \/ RequestCheck(s)
      PROVE  /\ running \cup finished \subseteq running' \cup finished'
             /\ UNCHANGED <<health, origin>>
  BY <1>3 DEF SiteLost, SiteBack, RequestCheck, workers
<1>4. CASE RequestSet \/ UNCHANGED vars
  BY <1>4 DEF RequestSet, vars, workers
<1>5. \A s \in Sites : ~TrainerDies(s)
  BY DEF TrainerDies, Fault
<1> QED
  BY <1>1, <1>2, <1>3, <1>4, <1>5 DEF Outside

\* A confirmed start leaves a trainer at the site.
LEMMA StartedRuns ==
    ASSUME NEW s, NEW ok, StartAt(s, ok), ok
    PROVE  s \in running'
BY DEF StartAt

LEMMA UnderwayNext == Origins /\ Underway /\ [Next]_vars => Underway'
<1> SUFFICES ASSUME Origins, Underway, [Next]_vars, "trainer" \notin FaultKinds,
                    pc' \in {"persist", "mark"}, origin' = "migrate", health' = "ok"
             PROVE  active' \in running' \cup finished'
  BY DEF Underway
<1> USE DEF Underway, workers, locals
<1>1. CASE Outside
  BY <1>1, OutsideFrame, OutsideKeepsJob
<1>2. CASE Crash
  BY <1>2 DEF Crash
<1>3. CASE Reconcile
  <2>1. CASE Launch \/ Adopt
    <3>1. pc \in ReconcilePcs /\ origin' = origin
      BY <2>1 DEF Launch, Adopt, ReconcilePcs
    <3> QED
      BY <3>1 DEF Origins
  <2>2. CASE Persist \/ \E s \in Sites : Mark(s)
    BY <2>2 DEF Persist, Mark, AfterMark
  <2> QED
    BY <1>3, <2>1, <2>2 DEF Reconcile, Probe, StopSuspect, Converge,
       ResumeFinished, ResumeAt, FoundAlive, DiscoverHistory, Refuse,
       ReconcileCleared
<1>4. CASE Tick
  BY <1>4 DEF Tick, TickBlocked, TickCompleted, TickAdvanced, TickWaiting,
              TickStalled, StallProbe, StallVerdict, StallStop, StallStart,
              PickBlocked, PickForced, PickNone, PickPolicy, BeginMigration,
              RetryReconcile, LoopAgain
<1>5. CASE Migrate
  <2>1. CASE MigrateStart
    BY <2>1, StartedRuns DEF MigrateStart
  <2>2. CASE AbortResume
    BY <2>2, StartedRuns DEF AbortResume, ResumeHealth
  <2> QED
    BY <1>5, <2>1, <2>2 DEF Migrate, MigrateStop, AfterSourceStop, MigrateGuard,
       MigrateTransfer, AbortStop
<1>6. CASE Late
  BY <1>6, LateFrame
<1> QED
  BY <1>1, <1>2, <1>3, <1>4, <1>5, <1>6, StepKinds

\* When a migration returns, the job runs (or has finished) at active_site, or
\* health says that it does not: however the calls fail, and whatever the
\* operator asks for meanwhile.
THEOREM MigrationHonest ==
    ASSUME "trainer" \notin FaultKinds
    PROVE  Spec => []MigrationEndsHonestly
<1>1. Init => Origins /\ Underway
  BY DEF Init, EngineInit, Origins, Underway
<1>2. Underway => MigrationEndsHonestly
  BY DEF Underway, MigrationEndsHonestly
<1> QED
  BY <1>1, <1>2, OriginsNext, UnderwayNext, PTL DEF Spec

----------------------------------------------------------------------------
(* The state file.                                                         *)

\* A run that nobody finished is not found finished.
Unfinished == "finish" \notin FaultKinds => finished = {}

LEMMA UnfinishedNext == Unfinished /\ [Next]_vars => Unfinished'
<1> SUFFICES ASSUME Unfinished, [Next]_vars, "finish" \notin FaultKinds
             PROVE  finished' = {}
  BY DEF Unfinished
<1> USE DEF Unfinished, workers
<1>1. CASE Outside
  BY <1>1 DEF Outside, TrainerAdvance, TrainerFinish, Fault, TrainerDies,
     SiteLost, SiteBack, RequestCheck, RequestSet, vars
<1>2. CASE Crash
  BY <1>2 DEF Crash
<1>3. CASE Reconcile
  BY <1>3 DEF Reconcile, Probe, StopSuspect, Converge, ResumeFinished, ResumeAt,
     FoundAlive, Mark, DiscoverHistory, Refuse, Launch, Adopt, Persist,
     ReconcileCleared
<1>4. CASE Tick
  BY <1>4 DEF Tick, TickBlocked, TickCompleted, TickAdvanced, TickWaiting,
              TickStalled, StallProbe, StallStop, StallStart, PickBlocked,
              PickForced, PickNone, PickPolicy, BeginMigration, RetryReconcile,
              LoopAgain
<1>5. CASE Migrate
  BY <1>5 DEF Migrate, MigrateStop, MigrateGuard, MigrateTransfer, MigrateStart,
     AbortStop, AbortResume
<1>6. CASE Late
  BY <1>6, LateFrame
<1> QED
  BY <1>1, <1>2, <1>3, <1>4, <1>5, <1>6, StepKinds

\* The disk works, and no retry finds a run that somebody finished: that one is
\* promoted to running with nothing written.
Recorded ==
    /\ "disk" \notin FaultKinds
    /\ RetryEnabled = FALSE \/ "finish" \notin FaultKinds

\* The state file names the active site from the moment it is written until the
\* next migration has moved the job and writes it again.
Named ==
    /\ pc \in TickPcs /\ status = "running" => stateFile = active
    /\ pc \in MigratePcs \cup {"mark"} => stateFile = active
    /\ pc = "cleared" =>
          stateFile = active \/ (status = "completed" /\ origin = "boot")

LEMMA NamedNext ==
    ASSUME Recorded, Origins, Unfinished, Named, [Next]_vars
    PROVE  Named'
<1> USE DEF Named, TickPcs, MigratePcs, workers, locals
<1>1. CASE Outside
  <2>1. origin' = origin
    BY <1>1 DEF Outside, TrainerAdvance, TrainerFinish, TrainerDies, SiteLost,
                SiteBack, RequestCheck, RequestSet, vars
  <2> QED
    BY <1>1, <2>1, OutsideFrame
<1>2. CASE Crash
  BY <1>2 DEF Crash
<1>3. CASE Reconcile
  <2>1. ASSUME NEW s \in Sites, ResumeFinished(s) PROVE Named'
    <3>1. finished # {} /\ pc \in ReconcilePcs
      BY <2>1 DEF ResumeFinished, Done, ReconcilePcs
    <3>2. origin = "boot"
      BY <3>1 DEF Unfinished, Recorded, Origins
    <3> QED
      BY <2>1, <3>2 DEF ResumeFinished
  <2>2. CASE Persist
    BY <2>2 DEF Persist, Recorded, Fault
  <2>3. CASE ReconcileCleared
    BY <2>3 DEF ReconcileCleared, Promote
  <2>4. ASSUME NEW s \in Sites, Mark(s) PROVE Named'
    BY <2>4 DEF Mark, AfterMark
  <2>5. CASE Launch \/ Refuse
    BY <2>5 DEF Launch, Refuse
  <2>6. ASSUME NEW s \in Sites, \/ Probe(s) \/ StopSuspect(s) \/ Converge(s)
                                \/ ResumeAt(s) \/ FoundAlive(s)
        PROVE  Named'
    BY <2>6 DEF Probe, StopSuspect, Converge, ResumeAt, FoundAlive
  <2>7. CASE DiscoverHistory \/ Adopt
    BY <2>7 DEF DiscoverHistory, Adopt
  <2> QED
    BY <1>3, <2>1, <2>2, <2>3, <2>4, <2>5, <2>6, <2>7 DEF Reconcile
<1>4. CASE Tick
  <2>1. UNCHANGED <<stateFile, active>>
    BY <1>4 DEF Tick, TickBlocked, TickCompleted, TickAdvanced, TickWaiting,
              TickStalled, StallProbe, StallStop, StallStart, PickBlocked,
              PickForced, PickNone, PickPolicy, BeginMigration, RetryReconcile,
              LoopAgain
  <2>2. /\ pc \in TickPcs
        /\ pc' \in TickPcs \cup {"mstop", "probe"}
        /\ status' = "running" \/ pc' = "mstop" => status = "running"
    BY <1>4 DEF Tick, TickBlocked, TickCompleted, TickAdvanced, TickWaiting,
              TickStalled, StallProbe, StallVerdict, StallStop, StallStart,
              PickBlocked, PickForced, PickNone, PickPolicy, BeginMigration,
              RetryReconcile, LoopAgain
  <2> QED
    BY <2>1, <2>2
<1>5. CASE Migrate
  <2>1. CASE MigrateStart
    BY <2>1 DEF MigrateStart
  <2>2. CASE AbortStop
    BY <2>2 DEF AbortStop, AbortBlocked
  <2>3. CASE AbortResume
    BY <2>3 DEF AbortResume
  <2>4. CASE MigrateStop \/ MigrateGuard \/ MigrateTransfer
    BY <2>4 DEF MigrateStop, AfterSourceStop, MigrateGuard, MigrateTransfer
  <2> QED
    BY <1>5, <2>1, <2>2, <2>3, <2>4 DEF Migrate
<1>6. CASE Late
  BY <1>6, LateFrame
<1> QED
  BY <1>1, <1>2, <1>3, <1>4, <1>5, <1>6, StepKinds

\* While the engine idles over a running job, engine_state.json names the site,
\* across migrations, aborts and crashes, as long as the disk takes the writes
\* and no retry promotes a finished run.
THEOREM StateFileTrue ==
    ASSUME Recorded
    PROVE  Spec => []StateFileNamesActive
<1>1. Init => Origins /\ Unfinished /\ Named
  BY DEF Init, EngineInit, Origins, Unfinished, Named, TickPcs, MigratePcs
<1>2. Origins /\ Unfinished /\ Named /\ [Next]_vars => Named'
  BY NamedNext
<1>3. Named => StateFileNamesActive
  BY DEF Named, StateFileNamesActive, TickPcs
<1> QED
  BY <1>1, <1>2, <1>3, OriginsNext, UnfinishedNext, PTL DEF Spec

----------------------------------------------------------------------------
(* An iteration of the loop is short.                                      *)

NSites == Cardinality(Sites)

\* The steps from a control point to the next iteration, the longest way: `later' is
\* what comes after the evidence of a move is written, `visits' the sites a loop
\* has still to visit.
Left(at, later, visits) ==
    CASE at = "cleared"             -> 1
      [] at = "mark"                -> later + visits + 1
      [] at = "persist"             -> later + NSites + 2
      [] at \in {"launch", "adopt"} -> NSites + 3
      [] at = "converge"            -> NSites + 3 + visits
      [] at = "decide"              -> 2 * NSites + 4
      [] at = "risk"                -> 2 * NSites + 4 + visits
      [] at = "history"             -> 3 * NSites + 5
      [] at = "probe"               -> 3 * NSites + 5 + visits
      [] at = "retry"               -> 4 * NSites + 6
      [] at = "aresume"             -> 5 * NSites + 8
      [] at = "astop"               -> 5 * NSites + 9
      [] at = "mstart"              -> 5 * NSites + 10
      [] at = "mtransfer"           -> 5 * NSites + 11
      [] at = "mguard"              -> 5 * NSites + 12
      [] at = "mstop"               -> 5 * NSites + 13
      [] at = "pick"                -> 5 * NSites + 14
      [] at = "stallStart"          -> 5 * NSites + 15
      [] at = "stallStop"           -> 5 * NSites + 16
      [] at = "stallProbe"          -> 5 * NSites + 17
      [] at = "tick"                -> 5 * NSites + 18

\* _migrate returns to a loop that may still retry, reconciliation does not.
Later == IF origin = "migrate" THEN 4 * NSites + 5 ELSE 0
StepsLeft == Left(pc, Later, Cardinality(todo))

\* Every step of the engine thread brings the next iteration closer, and no worker,
\* operator or HTTP request puts it off; a crash begins again.
IterationIsBounded ==
    [][ IF EngineThread THEN pc' = "tick" \/ StepsLeft' < StepsLeft
        ELSE Crash \/ StepsLeft' = StepsLeft ]_vars

LEMMA LeftIs ==
    \A l, v : /\ Left("cleared", l, v) = 1
              /\ Left("mark", l, v) = l + v + 1
              /\ Left("persist", l, v) = l + NSites + 2
              /\ Left("launch", l, v) = NSites + 3
              /\ Left("adopt", l, v) = NSites + 3
              /\ Left("converge", l, v) = NSites + 3 + v
              /\ Left("decide", l, v) = 2 * NSites + 4
              /\ Left("risk", l, v) = 2 * NSites + 4 + v
              /\ Left("history", l, v) = 3 * NSites + 5
              /\ Left("probe", l, v) = 3 * NSites + 5 + v
              /\ Left("retry", l, v) = 4 * NSites + 6
              /\ Left("aresume", l, v) = 5 * NSites + 8
              /\ Left("astop", l, v) = 5 * NSites + 9
              /\ Left("mstart", l, v) = 5 * NSites + 10
              /\ Left("mtransfer", l, v) = 5 * NSites + 11
              /\ Left("mguard", l, v) = 5 * NSites + 12
              /\ Left("mstop", l, v) = 5 * NSites + 13
              /\ Left("pick", l, v) = 5 * NSites + 14
              /\ Left("stallStart", l, v) = 5 * NSites + 15
              /\ Left("stallStop", l, v) = 5 * NSites + 16
              /\ Left("stallProbe", l, v) = 5 * NSites + 17
              /\ Left("tick", l, v) = 5 * NSites + 18
  BY DEF Left

LEMMA VisitsAre ==
    /\ NSites \in Nat
    /\ \A S \in SUBSET Sites :
          /\ Cardinality(S) \in Nat /\ Cardinality(S) <= NSites
          /\ \A s \in S : /\ Cardinality(S) > 0
                          /\ Cardinality(S \ {s}) = Cardinality(S) - 1
<1>1. IsFiniteSet(Sites)
  BY EngineAssumption
<1>2. NSites \in Nat
  BY <1>1, FS_CardinalityType DEF NSites
<1>3. ASSUME NEW S \in SUBSET Sites
      PROVE  IsFiniteSet(S) /\ Cardinality(S) \in Nat /\ Cardinality(S) <= NSites
  BY <1>1, FS_Subset, FS_CardinalityType DEF NSites
<1>4. ASSUME NEW S \in SUBSET Sites, NEW s \in S
      PROVE  Cardinality(S) > 0 /\ Cardinality(S \ {s}) = Cardinality(S) - 1
  <2>1. Cardinality(S \ {s}) = Cardinality(S) - 1
    BY <1>3, FS_RemoveElement
  <2>2. Cardinality(S \ {s}) \in Nat /\ Cardinality(S) \in Nat
    BY <1>3
  <2> QED
    BY <2>1, <2>2
<1> QED
  BY <1>2, <1>3, <1>4

Closer == pc' = "tick" \/ StepsLeft' < StepsLeft

LEMMA TickCloser ==
    ASSUME Typed, Tick
    PROVE  Closer
<1>1. NSites \in Nat
  BY VisitsAre
<1>2. CASE RetryReconcile
  <2>1. pc = "retry" /\ pc' = "probe" /\ todo' = Sites
    BY <1>2 DEF RetryReconcile
  <2>2. StepsLeft = 4 * NSites + 6 /\ StepsLeft' = 3 * NSites + 5 + NSites
    BY <2>1, LeftIs DEF StepsLeft, NSites
  <2> QED
    BY <1>1, <2>2 DEF Closer
<1>3. CASE LoopAgain
  BY <1>3 DEF LoopAgain, Closer
<1>4. CASE ~RetryReconcile /\ ~LoopAgain
  <2>1. \/ pc = "tick" /\ pc' \in {"pick", "stallProbe"}
        \/ pc = "stallProbe" /\ pc' \in {"pick", "stallStop", "stallStart"}
        \/ pc = "stallStop" /\ pc' \in {"pick", "stallStart"}
        \/ pc = "stallStart" /\ pc' = "pick"
        \/ pc = "pick" /\ pc' \in {"retry", "mstop"}
    BY <1>4 DEF Tick, TickBlocked, TickCompleted, TickAdvanced, TickWaiting,
                TickStalled, StallProbe, StallVerdict, StallStop, StallStart,
                PickBlocked, PickForced, PickNone, PickPolicy, BeginMigration
  <2> QED
    BY <1>1, <2>1, LeftIs DEF Closer, StepsLeft
<1> QED
  BY <1>2, <1>3, <1>4

LEMMA MigrateCloser ==
    ASSUME Migrate
    PROVE  Closer
<1>1. NSites \in Nat
  BY VisitsAre
<1>2. CASE MigrateStop \/ MigrateGuard \/ MigrateTransfer
  <2>1. \/ pc = "mstop" /\ pc' \in {"mguard", "astop"}
        \/ pc = "mguard" /\ pc' \in {"mtransfer", "astop"}
        \/ pc = "mtransfer" /\ pc' \in {"mstart", "astop"}
    BY <1>2 DEF MigrateStop, AfterSourceStop, MigrateGuard, MigrateTransfer
  <2> QED
    BY <1>1, <2>1, LeftIs DEF Closer, StepsLeft
<1>3. CASE MigrateStart
  <2>1. /\ pc = "mstart"
        /\ pc' = "astop" \/ (pc' = "persist" /\ origin' = "migrate")
    BY <1>3 DEF MigrateStart
  <2>2. /\ StepsLeft = 5 * NSites + 10
        /\ StepsLeft' \in {5 * NSites + 9, 4 * NSites + 5 + NSites + 2}
    BY <2>1, LeftIs DEF StepsLeft, Later
  <2> QED
    BY <1>1, <2>2 DEF Closer
<1>4. CASE AbortStop
  <2>1. pc = "astop" /\ pc' \in {"aresume", "retry"}
    BY <1>4 DEF AbortStop
  <2> QED
    BY <1>1, <2>1, LeftIs DEF Closer, StepsLeft
<1>5. CASE AbortResume
  <2>1. /\ pc = "aresume" /\ origin' = "migrate"
        /\ pc' = "persist" \/ (pc' = "mark" /\ todo' = Sites)
    BY <1>5 DEF AbortResume
  <2>2. /\ StepsLeft = 5 * NSites + 8
        /\ StepsLeft' \in {4 * NSites + 5 + NSites + 2, 4 * NSites + 5 + NSites + 1}
    BY <2>1, LeftIs DEF StepsLeft, Later, NSites
  <2> QED
    BY <1>1, <2>2 DEF Closer
<1> QED
  BY <1>2, <1>3, <1>4, <1>5 DEF Migrate

LEMMA ReconcileCloser ==
    ASSUME Typed, Origins, Reconcile
    PROVE  Closer
<1>0. /\ NSites \in Nat /\ Later \in Nat
      /\ todo \in SUBSET Sites /\ Cardinality(todo) \in Nat
  BY VisitsAre DEF Typed, TypeOK, Later
<1>1. ASSUME NEW s \in Sites, Probe(s) PROVE Closer
  <2>1. /\ pc = "probe" /\ s \in todo /\ todo' = todo \ {s}
        /\ pc' \in {"probe", "history"}
    BY <1>1 DEF Probe, IsNext
  <2>2. Cardinality(todo) > 0 /\ Cardinality(todo') = Cardinality(todo) - 1
    BY <1>0, <2>1, VisitsAre
  <2>3. /\ StepsLeft = 3 * NSites + 5 + Cardinality(todo)
        /\ StepsLeft' \in {3 * NSites + 5 + Cardinality(todo'), 3 * NSites + 5}
    BY <2>1, LeftIs DEF StepsLeft
  <2> QED
    BY <1>0, <2>2, <2>3 DEF Closer
<1>2. CASE DiscoverHistory
  <2>1. /\ pc = "history" /\ pc' \in {"decide", "risk"}
        /\ todo' \in SUBSET Sites
    <3>1. suspects' \subseteq Sites
      BY <1>2 DEF DiscoverHistory, Risky, Typed, TypeOK
    <3> QED
      BY <1>2, <3>1 DEF DiscoverHistory
  <2>2. /\ StepsLeft = 3 * NSites + 5
        /\ StepsLeft' \in {2 * NSites + 4, 2 * NSites + 4 + Cardinality(todo')}
        /\ Cardinality(todo') \in Nat /\ Cardinality(todo') <= NSites
    BY <2>1, LeftIs, VisitsAre DEF StepsLeft
  <2> QED
    BY <1>0, <2>2 DEF Closer
<1>3. ASSUME NEW s \in Sites, StopSuspect(s) PROVE Closer
  <2>1. /\ pc = "risk" /\ s \in todo /\ todo' = todo \ {s}
        /\ pc' \in {"risk", "decide"}
    BY <1>3 DEF StopSuspect, IsNext
  <2>2. Cardinality(todo) > 0 /\ Cardinality(todo') = Cardinality(todo) - 1
    BY <1>0, <2>1, VisitsAre
  <2>3. /\ StepsLeft = 2 * NSites + 4 + Cardinality(todo)
        /\ StepsLeft' \in {2 * NSites + 4 + Cardinality(todo'), 2 * NSites + 4}
    BY <2>1, LeftIs DEF StepsLeft
  <2> QED
    BY <1>0, <2>2, <2>3 DEF Closer
<1>4. ASSUME NEW s \in Sites, \/ ResumeFinished(s) \/ ResumeAt(s)
                              \/ FoundAlive(s)
      PROVE  Closer
  <2>1. /\ pc = "decide" /\ pc' \in {"cleared", "launch", "adopt", "converge"}
        /\ pc' = "converge" => todo' \in SUBSET Sites
    BY <1>4 DEF ResumeFinished, ResumeAt, FoundAlive, AliveSites
  <2>2. StepsLeft = 2 * NSites + 4
    BY <2>1, LeftIs DEF StepsLeft
  <2>3. CASE pc' = "converge"
    <3>1. /\ StepsLeft' = NSites + 3 + Cardinality(todo')
          /\ Cardinality(todo') \in Nat /\ Cardinality(todo') <= NSites
      BY <2>1, <2>3, LeftIs, VisitsAre DEF StepsLeft
    <3> QED
      BY <1>0, <2>2, <3>1 DEF Closer
  <2>4. CASE pc' # "converge"
    <3>1. StepsLeft' \in {1, NSites + 3}
      BY <2>1, <2>4, LeftIs DEF StepsLeft
    <3> QED
      BY <1>0, <2>2, <3>1 DEF Closer
  <2> QED
    BY <2>3, <2>4
<1>5. ASSUME NEW s \in Sites, Converge(s) PROVE Closer
  <2>1. /\ pc = "converge" /\ s \in todo /\ todo' = todo \ {s}
        /\ pc' \in {"converge", "adopt"}
    BY <1>5 DEF Converge, IsNext
  <2>2. Cardinality(todo) > 0 /\ Cardinality(todo') = Cardinality(todo) - 1
    BY <1>0, <2>1, VisitsAre
  <2>3. /\ StepsLeft = NSites + 3 + Cardinality(todo)
        /\ StepsLeft' \in {NSites + 3 + Cardinality(todo'), NSites + 3}
    BY <2>1, LeftIs DEF StepsLeft
  <2> QED
    BY <1>0, <2>2, <2>3 DEF Closer
<1>6. CASE Launch \/ Adopt
  <2>1. /\ pc \in {"launch", "adopt"} /\ origin # "migrate" /\ origin' = origin
        /\ pc' \in {"tick", "persist"}
    BY <1>6 DEF Launch, Adopt, Origins, ReconcilePcs, ForgetLocals, locals
  <2>2. /\ StepsLeft = NSites + 3
        /\ pc' = "persist" => StepsLeft' = 0 + NSites + 2
    BY <2>1, LeftIs DEF StepsLeft, Later
  <2> QED
    BY <1>0, <2>1, <2>2 DEF Closer
<1>7. CASE Persist
  <2>1. pc = "persist" /\ pc' = "mark" /\ todo' = Sites /\ Later' = Later
    BY <1>7 DEF Persist, Later
  <2>2. /\ StepsLeft = Later + NSites + 2
        /\ StepsLeft' = Later + NSites + 1
    BY <2>1, LeftIs DEF StepsLeft, NSites
  <2> QED
    BY <1>0, <2>2 DEF Closer
<1>8. ASSUME NEW s \in Sites, Mark(s) PROVE Closer
  <2>1. /\ pc = "mark" /\ s \in todo /\ todo' = todo \ {s} /\ Later' = Later
        /\ \/ pc' = "mark"
           \/ pc' = "retry" /\ Later = 4 * NSites + 5
           \/ pc' = "cleared"
    BY <1>8 DEF Mark, IsNext, AfterMark, Later
  <2>2. /\ StepsLeft = Later + Cardinality(todo) + 1 /\ Cardinality(todo) > 0
        /\ \/ StepsLeft' = Later + (Cardinality(todo) - 1) + 1
           \/ StepsLeft' = 4 * NSites + 6 /\ Later = 4 * NSites + 5
           \/ StepsLeft' = 1
    BY <1>0, <2>1, LeftIs, VisitsAre DEF StepsLeft
  <2> QED
    BY <1>0, <2>2 DEF Closer
<1>9. CASE Refuse \/ ReconcileCleared
  BY <1>9 DEF Refuse, ReconcileCleared, Closer
<1> QED
  BY <1>1, <1>2, <1>3, <1>4, <1>5, <1>6, <1>7, <1>8, <1>9 DEF Reconcile

\* An iteration of run() takes at most 5 * |Sites| + 18 steps of the engine thread,
\* its stall handling, its migration with the abort and its reconciliation included,
\* whatever fails meanwhile and for any sites (engine.py, run).
THEOREM IterationEnds == Spec => IterationIsBounded
<1>1. ASSUME Typed, Origins, [Next]_vars
      PROVE  [IF EngineThread THEN Closer
              ELSE Crash \/ StepsLeft' = StepsLeft]_vars
  <2>1. EngineThread => Closer
    BY <1>1, ReconcileCloser, TickCloser, MigrateCloser DEF EngineThread
  <2>2. Outside => StepsLeft' = StepsLeft
    <3>1. Outside => UNCHANGED <<pc, todo, origin>>
      BY DEF Outside, TrainerAdvance, TrainerFinish, TrainerDies, SiteLost,
             SiteBack, RequestCheck, RequestSet, vars, locals
    <3> QED
      BY <3>1 DEF StepsLeft, Later
  <2>3. Late => StepsLeft' = StepsLeft
    BY LateFrame DEF StepsLeft, Later
  <2> QED
    BY <1>1, <2>1, <2>2, <2>3, StepKinds DEF EngineThread
<1>2. Init => Origins
  BY DEF Init, EngineInit, Origins
<1>3. Typed /\ [Next]_vars => Typed'
  BY TypeNext
<1> QED
  BY <1>1, <1>2, <1>3, TypeInit, OriginsNext, PTL
     DEF Spec, IterationIsBounded, Closer

=============================================================================
