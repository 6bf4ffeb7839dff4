---------------------------- MODULE WorkerProofs ----------------------------
(***************************************************************************)
(* Proofs about Worker, for every number of trainers, probes, losses and   *)
(* steps: types, the exclusion that train.lock gives, what an orderly exit *)
(* leaves in checkpoint.pt, and what a confirmed stop means.               *)
(***************************************************************************)
EXTENDS Worker, TLAPS

----------------------------------------------------------------------------
(* The inductive invariant.                                                *)

\* TypeOK, with the loop counters still inside their loops.
Types ==
    /\ TypeOK
    /\ pc = "startProbe" => attempt < StartProbes
    /\ pc = "stopProbe" => attempt < StopProbes

\* Numbers are given out once, and a trainer counts from its resume on.
History ==
    /\ \A p \in Procs : p > launched => proc[p] = "unborn"
    /\ \A p \in mine : p <= launched /\ proc[p] # "unborn"
    /\ \A p \in Procs :
          proc[p] \in {"unborn", "booting", "loading"} => step[p] = NoFile

Writers == {"training", "checkpoint", "saving", "reporting"}

\* A trainer in its loop is never behind the checkpoint, and one that is about
\* to report has just saved, unless a transfer replaced the file under it.
Saved ==
    /\ \A p \in Procs : proc[p] \in Writers =>
          step[p] \in Nat /\ (p \notin overtaken => step[p] >= ckpt)
    /\ \A p \in Procs \ overtaken : proc[p] = "reporting" => ckpt = step[p]
    /\ \A p \in Procs : proc[p] = "dying" => p \in killed
    /\ ExitKeepsWork

\* While an overtaken trainer still writes, nobody has resumed since the transfer
\* and nobody else has reported.
Overtaking ==
    /\ \A p \in overtaken : step[p] # NoFile
    /\ \A p \in overtaken : proc[p] \in Writers =>
          ~matched /\ \A q \in Procs \ overtaken : step[q] = NoFile

\* What a restart would resume with is at least the last multiple of the
\* checkpoint interval that the running trainer has passed, but for the one it
\* is about to save.
Backed ==
    /\ \A p \in Procs \ overtaken : proc[p] \in {"training", "saving"} =>
          step[p] - (step[p] % CheckpointEvery) <= ResumesAtCheckpoint
    /\ \A p \in Procs \ overtaken : proc[p] = "checkpoint" =>
          step[p] <= ResumesAtCheckpoint + CheckpointEvery
    /\ ProgressIsBacked

\* Between a signal that arrived and the answer, no trainer of an earlier
\* start boots; a probe that found the lock free found all of them gone.
Stopping ==
    /\ seen # "unasked" => pc \in ProbePcs
    /\ answer = "stopped" => pc = "idle"
    /\ pc = "term" => ~signalled
    /\ signalled /\ pc \in {"stopProbe", "kill", "lastProbe"} =>
          \A p \in mine : /\ proc[p] # "booting"
                          /\ seen = "free" => proc[p] = "gone"
    /\ SignalledStopIsFinal

----------------------------------------------------------------------------
(* Types.                                                                  *)

LEMMA TypesInit == Init => Types
<1> SUFFICES ASSUME Init PROVE Types
  OBVIOUS
<1>1. /\ launched \in 0 .. MaxLaunches
      /\ losses \in 0 .. MaxLosses
      /\ arrivals \in 0 .. MaxArrivals
      /\ attempt \in 0 .. StartProbes
  BY WorkerAssumption DEF Init
<1>2. /\ proc \in [Procs -> Alive \cup {"unborn", "gone"}]
      /\ target \in [Procs -> Targets \cup {NoTarget}]
      /\ step \in [Procs -> {NoFile} \cup Nat]
      /\ progress \in [step : {NoFile} \cup Nat, done : BOOLEAN]
  BY DEF Init, NoProgress
<1> QED
  BY <1>1, <1>2 DEF Init, Types, TypeOK

LEMMA TypesNext == Types /\ [Next]_vars => Types'
<1> SUFFICES ASSUME Types, [Next]_vars PROVE Types'
  OBVIOUS
<1> USE WorkerAssumption DEF Types, TypeOK, trainers, files, call
<1>1. CASE UNCHANGED vars
  BY <1>1 DEF vars
<1>2. ASSUME NEW p \in Procs, Launch(p) PROVE Types'
  <2>1. proc' \in [Procs -> Alive \cup {"unborn", "gone"}]
    BY <1>2 DEF Launch, Boot, Alive
  <2>2. target' \in [Procs -> Targets \cup {NoTarget}]
    BY <1>2 DEF Launch, Boot
  <2>3. launched' \in 0 .. MaxLaunches /\ losses' \in 0 .. MaxLosses
    BY <1>2 DEF Launch, Boot, Lose
  <2> QED
    BY <1>2, <2>1, <2>2, <2>3 DEF Launch, Boot, Return
<1>3. CASE ProbeRuns
  BY <1>3 DEF ProbeRuns
<1>4. ASSUME NEW result \in {"free", "held", "none"}, StartAnswer(result)
      PROVE  Types'
  <2>1. /\ UNCHANGED <<trainers, files, signalled>>
        /\ seen' = "unasked" /\ probing' = FALSE
        /\ losses' \in 0 .. MaxLosses
    BY <1>4 DEF StartAnswer, Answered, Lose
  <2>2. attempt' = attempt + 1 /\ attempt' \in 0 .. StartProbes
    BY <1>4 DEF StartAnswer, NextAttempt, CountsEvery
  <2>3. \/ pc' = "startProbe" /\ attempt' < StartProbes /\ answer' = answer
        \/ pc' = "idle" /\ answer' \in {"started", "raised"}
    BY <1>4 DEF StartAnswer, Return
  <2> QED
    BY <2>1, <2>2, <2>3
<1>5. ASSUME NEW result \in {"free", "held", "none"}, StopAnswer(result)
      PROVE  Types'
  <2>1. /\ UNCHANGED <<trainers, files, signalled>>
        /\ seen' = "unasked" /\ probing' = FALSE
        /\ losses' \in 0 .. MaxLosses
    BY <1>5 DEF StopAnswer, Answered, Lose
  <2>2. attempt' = attempt + 1 /\ attempt' \in 0 .. StopProbes
    BY <1>5 DEF StopAnswer, NextAttempt, CountsEvery
  <2>3. \/ pc' = "stopProbe" /\ attempt' < StopProbes /\ answer' = answer
        \/ pc' = "kill" /\ answer' = answer
        \/ pc' = "idle" /\ answer' \in {"stopped", "unsure"}
    BY <1>5, <2>2 DEF StopAnswer, NextProbe, InTime, Return
  <2> QED
    BY <2>1, <2>2, <2>3
<1>6. ASSUME NEW result \in {"free", "held", "none"}, LastAnswer(result)
      PROVE  Types'
  <2>1. /\ UNCHANGED <<trainers, files, signalled>>
        /\ seen' = "unasked" /\ probing' = FALSE
        /\ losses' \in 0 .. MaxLosses
    BY <1>6 DEF LastAnswer, Answered, Lose
  <2> QED
    BY <1>6, <2>1 DEF LastAnswer, Return
<1>7. CASE Term
  <2>1. proc' \in [Procs -> Alive \cup {"unborn", "gone"}]
    BY <1>7 DEF Term, Terminate, Terminated, Alive, Holding
  <2>2. losses' \in 0 .. MaxLosses
    BY <1>7 DEF Term, Lose
  <2>3. flag' \subseteq Procs /\ killed' \subseteq Procs
    BY <1>7 DEF Term, Terminate
  <2>4. signalled' \in BOOLEAN
    BY <1>7 DEF Term
  <2>5. 0 \in 0 .. StopProbes /\ 0 < StopProbes
    OBVIOUS
  <2> QED
    BY <1>7, <2>1, <2>2, <2>3, <2>4, <2>5 DEF Term
<1>8. CASE Kill
  <2>1. proc' \in [Procs -> Alive \cup {"unborn", "gone"}]
    BY <1>8 DEF Kill, Shoot, Shot, Alive, Holding
  <2>2. losses' \in 0 .. MaxLosses
    BY <1>8 DEF Kill, Lose
  <2>3. flag' \subseteq Procs /\ killed' \subseteq Procs /\ signalled' \in BOOLEAN
    BY <1>8 DEF Kill, Shoot
  <2>4. UNCHANGED <<launched, target, step, mine, files, probing, attempt, seen,
                    answer>> /\ pc' = "lastProbe"
    BY <1>8 DEF Kill
  <2> QED
    BY <2>1, <2>2, <2>3, <2>4
<1>9. CASE CallStart \/ CallStop
  BY <1>9 DEF CallStart, CallStop
<1>10. ASSUME NEW p \in Procs, Trainer(p) \/ Dies(p) PROVE Types'
  <2>1. /\ proc' \in [Procs -> Alive \cup {"unborn", "gone"}]
        /\ UNCHANGED <<launched, flag, target, mine, probing, call>>
        /\ killed' \subseteq Procs
    BY <1>10 DEF Trainer, AcquireLock, Resume, TrainStep, Checkpoint, LeaveLoop,
       SaveFinal, ReportFinal, Expire, Dies, Becomes, AfterLoop, SavesFirst,
       Alive, Holding
  <2>2. CASE Resume(p)
    BY <2>1, <2>2 DEF Resume, ResumesAt, ResumesAtCheckpoint, NoFile
  <2>3. CASE TrainStep(p)
    <3>1. step' \in [Procs -> {NoFile} \cup Nat] /\ step'[p] \in Nat
      BY <2>3 DEF TrainStep, NoFile
    <3>2. progress' \in [step : {NoFile} \cup Nat, done : BOOLEAN]
      <4>1. progress' = progress \/ progress' = [step |-> step'[p], done |-> FALSE]
        BY <2>3, Zenon DEF TrainStep, Reports
      <4>2. progress \in [step : {NoFile} \cup Nat, done : BOOLEAN]
        OBVIOUS
      <4>3. ASSUME NEW n \in Nat
            PROVE  [step |-> n, done |-> FALSE]
                       \in [step : {NoFile} \cup Nat, done : BOOLEAN]
        OBVIOUS
      <4> QED
        BY <3>1, <4>1, <4>2, <4>3, Zenon
    <3>3. matched' \in BOOLEAN
      BY <2>3, Zenon DEF TrainStep, Reports
    <3>4. UNCHANGED <<ckpt, arrivals, overtaken>>
      BY <2>3 DEF TrainStep
    <3> QED
      BY <2>1, <3>1, <3>2, <3>3, <3>4
  <2>4. CASE Checkpoint(p) \/ SaveFinal(p)
    BY <2>1, <2>4 DEF Checkpoint, SaveFinal, Saves
  <2>5. CASE ReportFinal(p)
    BY <2>1, <2>5 DEF ReportFinal, Reached, Reports
  <2>6. CASE AcquireLock(p) \/ LeaveLoop(p) \/ Expire(p) \/ Dies(p)
    BY <2>1, <2>6 DEF AcquireLock, LeaveLoop, Expire, Dies
  <2> QED
    BY <1>10, <2>2, <2>3, <2>4, <2>5, <2>6 DEF Trainer
<1>11. ASSUME NEW p \in Procs, HandLaunch(p) PROVE Types'
  <2>1. proc' \in [Procs -> Alive \cup {"unborn", "gone"}]
    BY <1>11 DEF HandLaunch, Boot, Alive
  <2>2. target' \in [Procs -> Targets \cup {NoTarget}]
    BY <1>11 DEF HandLaunch, Boot
  <2> QED
    BY <1>11, <2>1, <2>2 DEF HandLaunch, Boot
<1>12. ASSUME NEW n \in 0 .. MaxStep, CommitArrives(n) PROVE Types'
  <2>1. n \in Nat /\ arrivals' \in 0 .. MaxArrivals
    BY <1>12 DEF CommitArrives
  <2> QED
    BY <1>12, <2>1 DEF CommitArrives
<1>13. CASE LateSignal
  <2>1. proc' \in [Procs -> Alive \cup {"unborn", "gone"}]
    BY <1>13 DEF LateSignal, Terminate, Terminated, Shoot, Shot, Alive, Holding
  <2>2. flag' \subseteq Procs /\ killed' \subseteq Procs
    BY <1>13 DEF LateSignal, Terminate, Shoot
  <2> QED
    BY <1>13, <2>1, <2>2 DEF LateSignal
<1> QED
  BY <1>1, <1>2, <1>3, <1>4, <1>5, <1>6, <1>7, <1>8, <1>9, <1>10, <1>11, <1>12,
     <1>13 DEF Next, Caller

----------------------------------------------------------------------------
(* What one step changes.                                                  *)

\* Only its own entries, and never back to a start.
LEMMA OwnEntries ==
    ASSUME TypeOK, NEW p \in Procs, Trainer(p) \/ Dies(p)
    PROVE  /\ UNCHANGED <<launched, flag, target, mine, probing, call>>
           /\ proc[p] \in Alive
           /\ proc'[p] \in Holding \cup {"gone"}
           /\ \A q \in Procs : q # p => proc'[q] = proc[q] /\ step'[q] = step[q]
           /\ \A q \in Procs : q # p => (q \in killed' <=> q \in killed)
<1> USE DEF TypeOK, Alive, Holding, Becomes, call
<1>1. CASE AcquireLock(p) \/ LeaveLoop(p) \/ Expire(p)
  BY <1>1 DEF AcquireLock, LeaveLoop, Expire, AfterLoop, SavesFirst
<1>2. CASE Resume(p) \/ TrainStep(p)
  BY <1>2 DEF Resume, TrainStep
<1>3. CASE Checkpoint(p) \/ SaveFinal(p) \/ ReportFinal(p)
  BY <1>3 DEF Checkpoint, SaveFinal, ReportFinal
<1>4. CASE Dies(p)
  BY <1>4 DEF Dies
<1> QED
  BY <1>1, <1>2, <1>3, <1>4 DEF Trainer

\* A launch, by start or by hand, takes the next number.
LEMMA NewEntry ==
    ASSUME TypeOK, NEW p \in Procs, Launch(p) \/ HandLaunch(p)
    PROVE  \/ UNCHANGED <<launched, proc, mine, step, killed, files>>
           \/ /\ p = launched + 1 /\ launched' = p
              /\ proc' = [proc EXCEPT ![p] = "booting"]
              /\ mine' \subseteq mine \cup {p}
              /\ UNCHANGED <<step, killed, files>>
  BY DEF Launch, HandLaunch, Boot, TypeOK

\* A signal, in time or late, leaves no trainer booting, and whoever it ends at
\* once or leaves to the kernel counts as killed.
LEMMA SignalEntries ==
    ASSUME TypeOK, Term \/ Kill \/ LateSignal
    PROVE  /\ UNCHANGED <<launched, step, mine, files, seen, answer>>
           /\ \/ UNCHANGED <<proc, killed, signalled>>
              \/ /\ signalled' \/ LateSignal
                 /\ proc' \in [Procs -> Alive \cup {"unborn", "gone"}]
                 /\ killed \subseteq killed'
                 /\ \A p \in Procs :
                       /\ proc'[p] # "booting"
                       /\ \/ proc'[p] = proc[p]
                          \/ proc[p] = "booting" /\ proc'[p] = "gone" /\ p \in killed'
                          \/ /\ proc[p] \in Holding
                             /\ proc'[p] = "dying" /\ p \in killed'
<1> USE DEF TypeOK, Alive, Holding, files
<1>1. CASE Term
  BY <1>1 DEF Term, Terminate, Terminated
<1>2. CASE Kill
  BY <1>2 DEF Kill, Shoot, Shot
<1>3. CASE LateSignal
  BY <1>3 DEF LateSignal, Terminate, Terminated, Shoot, Shot, call
<1> QED
  BY <1>1, <1>2, <1>3

\* The rest of the control node's steps leave the worker alone.
LEMMA OnlyAsks ==
    ASSUME ProbeRuns \/ CallStart \/ CallStop
           \/ \E result \in {"free", "held", "none"} :
                 StartAnswer(result) \/ StopAnswer(result) \/ LastAnswer(result)
    PROVE  UNCHANGED <<trainers, files>>
  BY DEF ProbeRuns, CallStart, CallStop, StartAnswer, StopAnswer, LastAnswer,
     Answered

\* The five kinds of steps.
LEMMA Steps ==
    ASSUME [Next]_vars
    PROVE  \/ UNCHANGED <<trainers, files>>
           \/ \E p \in Procs : Trainer(p) \/ Dies(p)
           \/ \E p \in Procs : Launch(p) \/ HandLaunch(p)
           \/ Term \/ Kill \/ LateSignal
           \/ \E n \in 0 .. MaxStep : CommitArrives(n)
  BY OnlyAsks DEF Next, Caller, vars

----------------------------------------------------------------------------
(* Numbers, the lock, and what an exit leaves behind.                      *)

LEMMA HistoryNext == TypeOK /\ History /\ [Next]_vars => History'
<1> SUFFICES ASSUME TypeOK, History, [Next]_vars PROVE History'
  OBVIOUS
<1> USE DEF History
<1>1. CASE UNCHANGED <<trainers, files>>
  BY <1>1 DEF trainers
<1>2. ASSUME NEW p \in Procs, Trainer(p) \/ Dies(p) PROVE History'
  <2>1. CASE Resume(p)
    BY <2>1, OwnEntries DEF Resume, Becomes, TypeOK
  <2>2. CASE AcquireLock(p) \/ TrainStep(p) \/ Checkpoint(p) \/ LeaveLoop(p)
             \/ SaveFinal(p) \/ ReportFinal(p) \/ Expire(p) \/ Dies(p)
    <3>1. proc[p] \in {"booting", "loading"} => step'[p] = step[p]
      BY <2>2 DEF AcquireLock, TrainStep, Checkpoint, LeaveLoop, SaveFinal,
         ReportFinal, Expire, Dies
    <3>2. proc'[p] = "loading" => proc[p] = "booting"
      BY <2>2 DEF AcquireLock, TrainStep, Checkpoint, LeaveLoop, SaveFinal,
         ReportFinal, Expire, Dies, Becomes, AfterLoop, SavesFirst, TypeOK
    <3>3. /\ launched' = launched /\ mine' = mine
          /\ \A q \in Procs : q # p => proc'[q] = proc[q] /\ step'[q] = step[q]
          /\ proc[p] \in Alive /\ proc'[p] \in Holding \cup {"gone"}
      BY <1>2, OwnEntries
    <3>4. p <= launched
      BY <3>3, WorkerAssumption DEF Alive, Holding, TypeOK, Procs
    <3>5. proc'[p] \in {"unborn", "booting", "loading"} => step'[p] = NoFile
      BY <3>1, <3>2, <3>3 DEF Holding
    <3>6. \A q \in Procs : q > launched' => proc'[q] = "unborn"
      BY <3>3, <3>4, WorkerAssumption DEF TypeOK, Procs
    <3>7. \A q \in mine' : q <= launched' /\ proc'[q] # "unborn"
      BY <3>3 DEF Holding, TypeOK
    <3> QED
      BY <3>3, <3>5, <3>6, <3>7
  <2> QED
    BY <1>2, <2>1, <2>2 DEF Trainer
<1>3. ASSUME NEW p \in Procs, Launch(p) \/ HandLaunch(p) PROVE History'
  <2>1. CASE UNCHANGED <<launched, proc, mine, step, killed, files>>
    BY <2>1
  <2>2. CASE /\ p = launched + 1 /\ launched' = p
             /\ proc' = [proc EXCEPT ![p] = "booting"]
             /\ mine' \subseteq mine \cup {p}
             /\ UNCHANGED <<step, killed, files>>
    <3>1. launched \in Nat /\ p \in Nat /\ mine \subseteq Procs /\ Procs \subseteq Nat
      BY WorkerAssumption DEF TypeOK, Procs
    <3>2. proc'[p] = "booting" /\ \A q \in Procs : q # p => proc'[q] = proc[q]
      BY <2>2 DEF TypeOK
    <3>3. \A q \in Procs : q > launched' => proc'[q] = "unborn"
      BY <2>2, <3>1, <3>2
    <3>4. \A q \in mine' : q <= launched' /\ proc'[q] # "unborn"
      BY <2>2, <3>1, <3>2
    <3>5. step[p] = NoFile
      BY <2>2, <3>1
    <3> QED
      BY <2>2, <3>2, <3>3, <3>4, <3>5
  <2> QED
    BY <1>3, <2>1, <2>2, NewEntry
<1>4. CASE Term \/ Kill \/ LateSignal
  BY <1>4, SignalEntries DEF TypeOK, Holding
<1>5. CASE \E n \in 0 .. MaxStep : CommitArrives(n)
  BY <1>5 DEF CommitArrives, trainers
<1> QED
  BY <1>1, <1>2, <1>3, <1>4, <1>5, Steps

LEMMA OneWriterNext == TypeOK /\ OneWriter /\ [Next]_vars => OneWriter'
<1> SUFFICES ASSUME TypeOK, OneWriter, [Next]_vars PROVE OneWriter'
  OBVIOUS
<1> USE DEF OneWriter, Holders
<1>1. CASE UNCHANGED <<trainers, files>>
  BY <1>1 DEF trainers
<1>2. ASSUME NEW p \in Procs, Trainer(p) \/ Dies(p) PROVE OneWriter'
  <2>1. proc'[p] \in Holding => proc[p] \in Holding \/ Holders = {}
    <3>1. CASE AcquireLock(p)
      BY <3>1 DEF AcquireLock, Becomes, Takes, TakesIfFree, TypeOK, Holding
    <3>2. proc[p] = "booting" /\ ~AcquireLock(p) => proc'[p] \notin Holding
      BY <1>2 DEF Trainer, Resume, TrainStep, Checkpoint, LeaveLoop, SaveFinal,
         ReportFinal, Expire, Dies, Becomes, TypeOK, Holding
    <3> QED
      BY <1>2, <3>1, <3>2, OwnEntries DEF Alive
  <2> QED
    BY <1>2, <2>1, OwnEntries
<1>3. ASSUME NEW p \in Procs, Launch(p) \/ HandLaunch(p) PROVE OneWriter'
  BY <1>3, NewEntry DEF TypeOK, Holding
<1>4. CASE Term \/ Kill \/ LateSignal
  BY <1>4, SignalEntries DEF TypeOK, Holding
<1>5. CASE \E n \in 0 .. MaxStep : CommitArrives(n)
  BY <1>5 DEF CommitArrives, trainers
<1> QED
  BY <1>1, <1>2, <1>3, <1>4, <1>5, Steps

LEMMA SavedNext ==
    TypeOK /\ History /\ OneWriter /\ Saved /\ Overtaking /\ [Next]_vars
        => Saved' /\ Overtaking'
<1> SUFFICES ASSUME TypeOK, History, OneWriter, Saved, Overtaking, [Next]_vars
             PROVE  Saved' /\ Overtaking'
  OBVIOUS
<1> USE DEF Saved, Overtaking, ExitKeepsWork, Writers
<1>0. /\ ckpt \in {-1} \cup Nat /\ overtaken \subseteq Procs
      /\ \A q \in Procs : step[q] \in {-1} \cup Nat
      /\ progress.step \in {-1} \cup Nat /\ NoFile = -1
  BY DEF TypeOK, NoFile
<1>1. CASE UNCHANGED <<trainers, files>>
  BY <1>1 DEF trainers, files
<1>2. ASSUME NEW p \in Procs, Trainer(p) \/ Dies(p)
      PROVE  Saved' /\ Overtaking'
  \* The other trainers do not hold the lock.
  <2>1. proc[p] \in Holding => \A q \in Procs : q # p => proc[q] \notin Holding
    BY DEF OneWriter, Holders
  <2>2. \A q \in Procs : q # p =>
            proc'[q] = proc[q] /\ step'[q] = step[q] /\ (q \in killed' <=> q \in killed)
    BY <1>2, OwnEntries
  <2>4. CASE AcquireLock(p)
    <3>1. /\ proc'[p] \in {"loading", "gone"} /\ step[p] = -1
          /\ UNCHANGED <<ckpt, progress, overtaken, matched, step, killed>>
      BY <2>4 DEF AcquireLock, Becomes, TypeOK, History, NoFile, files
    <3> QED
      BY <1>0, <2>2, <3>1
  <2>5. CASE Resume(p)
    <3>1. /\ proc[p] = "loading" /\ proc'[p] = "training"
          /\ step'[p] \in Nat /\ step'[p] >= ckpt
          /\ UNCHANGED <<ckpt, progress, overtaken, matched, killed>>
      BY <1>0, <2>5 DEF Resume, Becomes, TypeOK, ResumesAt, ResumesAtCheckpoint,
         NoFile, files
    <3>2. \A q \in Procs : q # p => proc'[q] \notin Writers
      BY <2>1, <2>2, <3>1 DEF Holding
    <3>3. p \notin overtaken
      BY <3>1 DEF History
    <3> QED
      BY <1>0, <2>2, <3>1, <3>2, <3>3
  <2>6. CASE TrainStep(p)
    <3>1. /\ proc[p] = "training" /\ proc'[p] \in {"training", "checkpoint"}
          /\ step'[p] = step[p] + 1
          /\ UNCHANGED <<ckpt, overtaken, killed>>
      BY <2>6 DEF TrainStep, Becomes, TypeOK
    <3>2. step'[p] \in Nat /\ (p \notin overtaken => step'[p] >= ckpt)
      BY <1>0, <3>1
    <3>3. \A q \in Procs : q # p => proc'[q] \notin Writers
      BY <2>1, <2>2, <3>1 DEF Holding
    <3>4. \/ progress' = progress /\ matched' = matched
          \/ progress' = [step |-> step'[p], done |-> FALSE]
      BY <2>6, Zenon DEF TrainStep, Reports
    <3>5. p \in overtaken => ~matched'
      <4>1. matched' = matched \/ matched' = (p \notin overtaken)
        BY <2>6, Zenon DEF TrainStep, Reports
      <4>2. p \in overtaken => ~matched
        BY <3>1
      <4> QED
        BY <4>1, <4>2, Zenon
    <3>6. matched' /\ progress'.done => ckpt' >= progress'.step
      <4>1. CASE progress' = progress /\ matched' = matched
        BY <3>1, <4>1
      <4>2. CASE progress' = [step |-> step'[p], done |-> FALSE]
        BY <4>2
      <4> QED
        BY <3>4, <4>1, <4>2
    <3>7. Saved'
      BY <1>0, <2>2, <3>1, <3>2, <3>3, <3>6
    <3> QED
      BY <2>2, <3>1, <3>2, <3>3, <3>5, <3>7, <1>0
  <2>7. CASE Checkpoint(p) \/ SaveFinal(p)
    <3>1. /\ proc[p] \in {"checkpoint", "saving"}
          /\ proc'[p] \in {"training", "reporting"}
          /\ ckpt' = step[p] /\ overtaken' = overtaken \ {p}
          /\ UNCHANGED <<step, killed, progress, matched>>
      BY <2>7 DEF Checkpoint, SaveFinal, Saves, Becomes, TypeOK
    <3>2. step[p] \in Nat /\ (p \notin overtaken => step[p] >= ckpt)
      BY <3>1
    <3>3. \A q \in Procs : q # p => proc'[q] \notin Writers /\ proc[q] # "reporting"
      BY <2>1, <2>2, <3>1 DEF Holding
    <3>4. \A q \in Procs \ overtaken' :
             proc'[q] = "gone" /\ q \notin killed' => ckpt' >= step'[q]
      <4>1. CASE p \in overtaken
        BY <1>0, <2>2, <3>1, <3>2, <4>1
      <4>2. CASE p \notin overtaken
        BY <1>0, <2>2, <3>1, <3>2, <4>2
      <4> QED
        BY <4>1, <4>2
    <3>5. matched' /\ progress'.done => ckpt' >= progress'.step
      BY <1>0, <3>1, <3>2
    <3>6. Saved'
      BY <1>0, <2>2, <3>1, <3>2, <3>3, <3>4, <3>5
    <3>7. \A q \in overtaken' : q \in overtaken /\ q # p /\ q \in Procs
      BY <1>0, <3>1
    <3>8. \A q \in overtaken' : step'[q] # NoFile /\ proc'[q] \notin Writers
      BY <3>1, <3>3, <3>7
    <3> QED
      BY <3>6, <3>8
  <2>8. CASE LeaveLoop(p)
    <3>1. /\ proc[p] = "training" /\ proc'[p] = "saving"
          /\ UNCHANGED <<ckpt, progress, overtaken, matched, step, killed>>
      BY <2>8 DEF LeaveLoop, Becomes, TypeOK, AfterLoop, SavesFirst, files
    <3> QED
      BY <1>0, <2>2, <3>1
  <2>9. CASE ReportFinal(p)
    <3>1. /\ proc[p] = "reporting" /\ proc'[p] = "gone"
          /\ UNCHANGED <<ckpt, overtaken, step, killed>>
          /\ progress'.step = step[p]
      BY <2>9 DEF ReportFinal, Becomes, Reports, TypeOK
    <3>2. \A q \in Procs : q # p => proc'[q] \notin Writers
      BY <2>1, <2>2, <3>1 DEF Holding
    <3>3. matched' => p \notin overtaken
      BY <2>9, Zenon DEF ReportFinal, Reports
    <3>4. p \notin overtaken => ckpt = step[p] /\ step[p] \in Nat
      BY <3>1
    <3>5. matched' /\ progress'.done => ckpt' >= progress'.step
      BY <3>1, <3>3, <3>4
    <3>6. \A q \in Procs \ overtaken' :
             proc'[q] = "gone" /\ q \notin killed' => ckpt' >= step'[q]
      BY <1>0, <2>2, <3>1, <3>4
    <3>7. Saved'
      BY <1>0, <2>2, <3>1, <3>2, <3>5, <3>6
    <3> QED
      BY <1>0, <2>2, <3>1, <3>2, <3>7
  <2>10. CASE Expire(p) \/ Dies(p)
    <3>1. /\ proc'[p] = "gone" /\ p \in killed'
          /\ UNCHANGED <<ckpt, progress, overtaken, matched, step>>
      BY <2>10 DEF Expire, Dies, Becomes, TypeOK, files
    <3> QED
      BY <1>0, <2>2, <3>1
  <2> QED
    BY <1>2, <2>4, <2>5, <2>6, <2>7, <2>8, <2>9, <2>10 DEF Trainer
<1>3. ASSUME NEW p \in Procs, Launch(p) \/ HandLaunch(p)
      PROVE  Saved' /\ Overtaking'
  <2>1. UNCHANGED <<ckpt, progress, overtaken, matched, step, killed>>
    BY <1>3, NewEntry DEF files
  <2>2. \A q \in Procs : proc'[q] = proc[q] \/ proc'[q] = "booting"
    BY <1>3, NewEntry DEF TypeOK
  <2> QED
    BY <1>0, <2>1, <2>2
<1>4. CASE Term \/ Kill \/ LateSignal
  <2>1. UNCHANGED <<ckpt, progress, overtaken, matched, step>>
    BY <1>4, SignalEntries DEF files
  <2>2. /\ killed \subseteq killed'
        /\ \A q \in Procs :
              \/ proc'[q] = proc[q]
              \/ proc'[q] \in {"gone", "dying"} /\ q \in killed'
    BY <1>4, SignalEntries
  <2> QED
    BY <1>0, <2>1, <2>2
<1>5. ASSUME NEW n \in 0 .. MaxStep, CommitArrives(n)
      PROVE  Saved' /\ Overtaking'
  <2>1. /\ overtaken' = {p \in Procs : step[p] # NoFile} /\ matched' = FALSE
        /\ UNCHANGED <<proc, step, killed>> /\ ckpt' \in Nat
    BY <1>5, WorkerAssumption DEF CommitArrives, trainers
  <2> QED
    BY <1>0, <2>1
<1> QED
  BY <1>1, <1>2, <1>3, <1>4, <1>5, Steps

\* A trainer that saves what it resumed with and trained itself takes the
\* checkpoint no step back.
LEMMA SavesForward ==
    ASSUME TypeOK, Saved, NEW p \in Procs \ overtaken, Trainer(p) \/ Dies(p)
    PROVE  ckpt' >= ckpt /\ overtaken' = overtaken
<1>1. ckpt \in {-1} \cup Nat
  BY DEF TypeOK, NoFile
<1>2. CASE Checkpoint(p) \/ SaveFinal(p)
  BY <1>1, <1>2 DEF Checkpoint, SaveFinal, Saves, Saved, Writers
<1>3. CASE UNCHANGED <<ckpt, overtaken>>
  BY <1>1, <1>3
<1> QED
  BY <1>2, <1>3 DEF Trainer, Dies, AcquireLock, Resume, TrainStep, LeaveLoop,
     ReportFinal, Expire, files

----------------------------------------------------------------------------
(* What progress.json promises.                                            *)

\* A number is so many intervals and a rest.
LEMMA WholeIntervals ==
    ASSUME NEW n \in Nat, NEW k \in Nat \ {0}
    PROVE  /\ n % k \in 0 .. k - 1
           /\ \E q \in Int : n = (q * k) + (n % k)
<1>1. n % k \in 0 .. k - 1
  OBVIOUS
<1>2. n = ((n \div k) * k) + (n % k) /\ n \div k \in Int
  OBVIOUS
<1> QED
  BY <1>1, <1>2

\* A step that ends no interval leaves the last end where it was.
LEMMA SameInterval ==
    ASSUME NEW n \in Nat, NEW k \in Nat \ {0}, (n + 1) % k # 0
    PROVE  (n + 1) % k = (n % k) + 1
<1> DEFINE r == n % k
           s == (n + 1) % k
<1>1. PICK q \in Int : n = (q * k) + r
  BY WholeIntervals
<1>2. /\ s \in 0 .. k - 1
      /\ \E t \in Int : n + 1 = (t * k) + s
  <2> DEFINE m == n + 1
  <2>1. m \in Nat
    OBVIOUS
  <2> HIDE DEF m
  <2>2. m % k \in 0 .. k - 1 /\ \E t \in Int : m = (t * k) + (m % k)
    BY <2>1, WholeIntervals
  <2> QED
    BY <2>2 DEF m
<1>3. PICK t \in Int : n + 1 = (t * k) + s
  BY <1>2
<1>4. r \in 0 .. k - 1 /\ s \in 1 .. k - 1
  <2>1. r \in 0 .. k - 1
    BY WholeIntervals
  <2>2. s # 0
    OBVIOUS
  <2> HIDE DEF r, s
  <2> QED
    BY <1>2, <2>1, <2>2
<1> DEFINE d == t - q
<1>5. d \in Int /\ d * k = (t * k) - (q * k) /\ q * k \in Int /\ t * k \in Int
  OBVIOUS
<1> HIDE DEF r, s, d
<1>6. d * k = (r + 1) - s
  BY <1>1, <1>3, <1>4, <1>5
<1>7. CASE d >= 1
  <2>1. d * k >= k
    BY <1>5, <1>7
  <2> QED
    BY <1>4, <1>6, <2>1
<1>8. CASE d <= -1
  <2>1. d * k <= -k
    BY <1>5, <1>8
  <2> QED
    BY <1>4, <1>6, <2>1
<1>9. CASE d = 0
  BY <1>4, <1>6, <1>9 DEF r, s
<1> QED
  BY <1>5, <1>7, <1>8, <1>9

\* A step of training goes at most one interval beyond the checkpoint.
LEMMA StepIsBacked ==
    ASSUME NEW n \in Nat, NEW k \in Nat \ {0}, NEW c \in Nat, n - (n % k) <= c
    PROVE  /\ n + 1 <= c + k
           /\ (n + 1) % k # 0 => (n + 1) - ((n + 1) % k) <= c
<1>1. n % k \in 0 .. k - 1
  BY WholeIntervals
<1>2. (n + 1) % k # 0 => (n + 1) % k = (n % k) + 1
  BY SameInterval
<1> DEFINE r == n % k
<1> HIDE DEF r
<1> QED
  BY <1>1, <1>2 DEF r

\* As long as the checkpoint goes forward.
LEMMA BackedForward ==
    ASSUME TypeOK, OneWriter, Saved, Backed, TypeOK',
           ckpt' >= ckpt, overtaken' = overtaken,
           \/ UNCHANGED <<trainers, files>>
           \/ \E p \in Procs \ overtaken : Trainer(p) \/ Dies(p)
           \/ \E p \in Procs : Launch(p) \/ HandLaunch(p)
           \/ Term \/ Kill \/ LateSignal
    PROVE  Backed'
<1> DEFINE C == ResumesAtCheckpoint
           K == CheckpointEvery
<1>1. C \in Nat /\ C' \in Nat /\ C <= C'
  BY DEF TypeOK, ResumesAtCheckpoint, NoFile
<1>2. K \in Nat \ {0}
  BY WorkerAssumption
<1>3. /\ ProgressIsBacked <=>
            (matched /\ progress.step # NoFile => progress.step <= C + K)
      /\ ProgressIsBacked' <=>
            (matched' /\ progress'.step # NoFile => progress'.step <= C' + K)
  BY Zenon DEF ProgressIsBacked, ResumesAtCheckpoint
<1>4. progress.step \in {-1} \cup Nat /\ \A q \in Procs : step[q] \in {-1} \cup Nat
  BY DEF TypeOK, NoFile
\* The entries of one trainer are what can break it.
<1>5. ASSUME NEW q \in Procs \ overtaken, proc'[q] = proc[q], step'[q] = step[q]
      PROVE  /\ proc'[q] \in {"training", "saving"} => step'[q] - (step'[q] % K) <= C'
             /\ proc'[q] = "checkpoint" => step'[q] <= C' + K
  <2>1. CASE proc[q] \in {"training", "saving"}
    <3>1. step[q] \in Nat /\ step[q] - (step[q] % K) <= C
      BY <2>1 DEF Saved, Writers, Backed
    <3>2. step[q] % K \in 0 .. K - 1
      BY <1>2, <3>1, WholeIntervals
    <3> HIDE DEF C, K
    <3>3. step[q] - (step[q] % K) <= C'
      BY <1>1, <1>2, <3>1, <3>2
    <3> QED
      BY <1>5, <2>1, <3>3
  <2>2. CASE proc[q] \notin {"training", "saving"}
    <3>1. proc[q] = "checkpoint" => step[q] <= C + K
      BY DEF Backed
    <3> HIDE DEF C, K
    <3> QED
      BY <1>1, <1>2, <1>4, <1>5, <2>2, <3>1
  <2> QED
    BY <2>1, <2>2
<1>6. progress' = progress /\ matched' = matched => ProgressIsBacked'
  <2>1. matched /\ progress.step # NoFile => progress.step <= C + K
    BY <1>3 DEF Backed
  <2> HIDE DEF C, K
  <2> QED
    BY <1>1, <1>2, <1>3, <1>4, <2>1
<1>7. CASE UNCHANGED <<trainers, files>>
  BY <1>5, <1>6, <1>7 DEF trainers, files, Backed
<1>8. ASSUME NEW p \in Procs, Launch(p) \/ HandLaunch(p)
      PROVE  Backed'
  <2>1. CASE UNCHANGED <<launched, proc, mine, step, killed, files>>
    BY <1>5, <1>6, <2>1 DEF files, Backed
  <2>2. CASE /\ proc' = [proc EXCEPT ![p] = "booting"]
             /\ UNCHANGED <<step, files>>
    <3>1. proc'[p] = "booting" /\ \A q \in Procs : q # p => proc'[q] = proc[q]
      BY <2>2 DEF TypeOK
    <3> QED
      BY <1>5, <1>6, <2>2, <3>1 DEF files, Backed
  <2> QED
    BY <1>8, <2>1, <2>2, NewEntry
<1>9. CASE Term \/ Kill \/ LateSignal
  <2>1. UNCHANGED <<step, files>>
    BY <1>9, SignalEntries
  <2>2. \A q \in Procs : proc'[q] = proc[q] \/ proc'[q] \in {"gone", "dying"}
    BY <1>9, SignalEntries
  <2> QED
    BY <1>5, <1>6, <2>1, <2>2 DEF files, Backed
<1>10. ASSUME NEW p \in Procs \ overtaken, Trainer(p) \/ Dies(p)
       PROVE  Backed'
  <2>1. \A q \in Procs : q # p => proc'[q] = proc[q] /\ step'[q] = step[q]
    BY <1>10, OwnEntries
  <2>2. SUFFICES
          /\ proc'[p] \in {"training", "saving"} => step'[p] - (step'[p] % K) <= C'
          /\ proc'[p] = "checkpoint" => step'[p] <= C' + K
          /\ ProgressIsBacked'
    BY <1>5, <2>1 DEF Backed
  <2>3. CASE AcquireLock(p) \/ Expire(p) \/ Dies(p)
    <3>1. /\ progress' = progress /\ matched' = matched
          /\ proc'[p] \in {"loading", "gone"}
      BY <2>3 DEF AcquireLock, Expire, Dies, Becomes, TypeOK, files
    <3> QED
      BY <1>6, <3>1
  <2>4. CASE Resume(p)
    <3>1. /\ progress' = progress /\ matched' = matched /\ ckpt' = ckpt
          /\ proc'[p] = "training" /\ step'[p] = C
      BY <2>4 DEF Resume, Becomes, TypeOK, files, ResumesAt
    <3>2. C' = C
      BY <3>1 DEF ResumesAtCheckpoint
    <3> HIDE DEF C, K
    <3>3. C % K \in 0 .. K - 1
      BY <1>1, <1>2, WholeIntervals
    <3> QED
      BY <1>1, <1>2, <1>6, <3>1, <3>2, <3>3
  <2>5. CASE TrainStep(p)
    <3>1. /\ step[p] \in Nat /\ step[p] - (step[p] % K) <= C
      BY <2>5 DEF TrainStep, Saved, Writers, Backed
    <3>2. /\ step'[p] = step[p] + 1 /\ ckpt' = ckpt
          /\ UNCHANGED <<progress, matched>> \/ progress'.step = step'[p]
          /\ proc'[p] = IF step'[p] % K = 0 THEN "checkpoint" ELSE "training"
      BY <2>5 DEF TrainStep, Becomes, TypeOK, Due, Reports
    <3>3. C' = C
      BY <3>2 DEF ResumesAtCheckpoint
    <3>4. /\ step'[p] <= C + K
          /\ step'[p] % K # 0 => step'[p] - (step'[p] % K) <= C
      <4> HIDE DEF C, K
      <4> QED
        BY <1>1, <1>2, <3>1, <3>2, StepIsBacked
    <3>5. ProgressIsBacked'
      BY <1>3, <1>6, <3>2, <3>3, <3>4
    <3> HIDE DEF C, K
    <3> QED
      BY <3>2, <3>3, <3>4, <3>5
  <2>6. CASE Checkpoint(p) \/ SaveFinal(p)
    <3>1. /\ step[p] \in Nat /\ step'[p] = step[p] /\ ckpt' = step[p]
          /\ progress' = progress /\ matched' = matched
          /\ proc'[p] \in {"training", "reporting"}
      BY <2>6 DEF Checkpoint, SaveFinal, Saves, Becomes, TypeOK, Saved, Writers
    <3>2. C' = step[p]
      BY <3>1 DEF ResumesAtCheckpoint, NoFile
    <3>3. step[p] % K \in 0 .. K - 1
      BY <1>2, <3>1, WholeIntervals
    <3> HIDE DEF C, K
    <3>4. step'[p] - (step'[p] % K) <= C'
      BY <1>2, <3>1, <3>2, <3>3
    <3> QED
      BY <1>6, <3>1, <3>4
  <2>7. CASE LeaveLoop(p)
    <3>1. /\ proc[p] = "training" /\ proc'[p] = "saving" /\ step'[p] = step[p]
          /\ progress' = progress /\ matched' = matched /\ ckpt' = ckpt
      BY <2>7 DEF LeaveLoop, Becomes, TypeOK, files, AfterLoop, SavesFirst
    <3>2. C' = C /\ step[p] - (step[p] % K) <= C
      BY <3>1 DEF ResumesAtCheckpoint, Backed
    <3> QED
      BY <1>6, <3>1, <3>2
  <2>8. CASE ReportFinal(p)
    <3>1. /\ proc'[p] = "gone" /\ progress'.step = step[p]
          /\ step[p] = ckpt /\ ckpt' = ckpt /\ step[p] \in Nat
      BY <2>8 DEF ReportFinal, Reports, Becomes, TypeOK, Saved, Writers
    <3>2. C' = step[p]
      BY <3>1 DEF ResumesAtCheckpoint, NoFile
    <3>3. progress'.step <= C' + K
      BY <1>2, <3>1, <3>2
    <3> QED
      BY <1>3, <3>1, <3>3
  <2> QED
    BY <1>10, <2>3, <2>4, <2>5, <2>6, <2>7, <2>8 DEF Trainer
<1> QED
  BY <1>7, <1>8, <1>9, <1>10

\* A trainer whose steps a transfer replaced, and nobody has reported since.
LEMMA BackedOvertaken ==
    ASSUME TypeOK, History, OneWriter, Saved, Overtaking, Backed, TypeOK',
           NEW p \in overtaken, Trainer(p) \/ Dies(p)
    PROVE  Backed'
<1> DEFINE C == ResumesAtCheckpoint
           K == CheckpointEvery
<1>1. K \in Nat \ {0} /\ p \in Procs /\ step[p] \in Nat
  BY WorkerAssumption DEF TypeOK, Overtaking, NoFile
<1>2. \A q \in Procs : q # p => proc'[q] = proc[q] /\ step'[q] = step[q]
  BY <1>1, OwnEntries
<1>3. proc[p] \in Writers \/ proc[p] = "dying"
  BY <1>1, OwnEntries DEF History, Overtaking, Writers, Alive, Holding
<1>4. \A q \in Procs : q # p => proc'[q] \notin Writers
  BY <1>1, <1>2, <1>3 DEF OneWriter, Holders, Holding, Writers
<1>5. CASE Checkpoint(p) \/ SaveFinal(p)
  <2>1. /\ step' = step /\ ckpt' = step[p] /\ matched' = matched
        /\ proc'[p] \in {"training", "reporting"} /\ proc[p] \in Writers
    BY <1>1, <1>5 DEF Checkpoint, SaveFinal, Saves, Becomes, TypeOK, Writers
  <2>2. C' = step[p]
    BY <1>1, <2>1 DEF ResumesAtCheckpoint, NoFile
  <2>3. step[p] % K \in 0 .. K - 1
    BY <1>1, WholeIntervals
  <2>4. ~matched'
    BY <2>1 DEF Overtaking
  <2> HIDE DEF C, K
  <2>5. step'[p] - (step'[p] % K) <= C'
    BY <1>1, <2>1, <2>2, <2>3
  <2>6. ProgressIsBacked'
    BY <2>4 DEF ProgressIsBacked
  <2> QED
    BY <1>4, <2>1, <2>5, <2>6 DEF Backed, Writers, C, K
<1>6. CASE TrainStep(p) \/ LeaveLoop(p) \/ ReportFinal(p)
  <2>1. overtaken' = overtaken /\ ~matched'
    <3>1. proc[p] \in Writers
      BY <1>6 DEF TrainStep, LeaveLoop, ReportFinal, Writers
    <3>2. ~matched
      BY <3>1 DEF Overtaking
    <3>3. matched' => matched \/ p \notin overtaken
      <4>1. CASE TrainStep(p)
        BY <4>1, Zenon DEF TrainStep, Reports
      <4>2. CASE LeaveLoop(p)
        BY <4>2 DEF LeaveLoop, files
      <4>3. CASE ReportFinal(p)
        BY <4>3, Zenon DEF ReportFinal, Reports
      <4> QED
        BY <1>6, <4>1, <4>2, <4>3
    <3>4. overtaken' = overtaken
      BY <1>6 DEF TrainStep, LeaveLoop, ReportFinal, files
    <3> QED
      BY <3>2, <3>3, <3>4, Zenon
  <2> QED
    BY <1>4, <2>1 DEF Backed, ProgressIsBacked, Writers
<1>7. CASE AcquireLock(p) \/ Resume(p) \/ Expire(p) \/ Dies(p)
  <2>1. UNCHANGED files
    BY <1>7 DEF AcquireLock, Resume, Expire, Dies
  <2> QED
    BY <1>4, <2>1 DEF Backed, ProgressIsBacked, Writers, files
<1> QED
  BY <1>5, <1>6, <1>7 DEF Trainer

LEMMA BackedNext ==
    TypeOK /\ History /\ OneWriter /\ Saved /\ Overtaking /\ Backed /\ TypeOK'
           /\ [Next]_vars
        => Backed'
<1> SUFFICES ASSUME TypeOK, History, OneWriter, Saved, Overtaking, Backed,
                    TypeOK', [Next]_vars
             PROVE  Backed'
  OBVIOUS
<1>1. ckpt >= ckpt /\ overtaken \subseteq Procs
  BY DEF TypeOK, NoFile
<1>2. CASE UNCHANGED <<trainers, files>> \/ Term \/ Kill \/ LateSignal
           \/ \E p \in Procs : Launch(p) \/ HandLaunch(p)
  <2>1. ckpt' = ckpt /\ overtaken' = overtaken
    BY <1>2, NewEntry, SignalEntries DEF files
  <2> QED
    BY <1>1, <1>2, <2>1, BackedForward
<1>3. ASSUME NEW p \in Procs, Trainer(p) \/ Dies(p) PROVE Backed'
  <2>1. CASE p \in overtaken
    BY <1>3, <2>1, BackedOvertaken
  <2>2. CASE p \notin overtaken
    BY <1>3, <2>2, SavesForward, BackedForward
  <2> QED
    BY <2>1, <2>2
<1>4. ASSUME NEW n \in 0 .. MaxStep, CommitArrives(n) PROVE Backed'
  <2>1. /\ overtaken' = {p \in Procs : step[p] # NoFile} /\ ~matched'
        /\ UNCHANGED <<proc, step>>
    BY <1>4 DEF CommitArrives, trainers
  <2>2. \A p \in Procs \ overtaken' : proc'[p] \notin Writers
    BY <2>1 DEF Saved, NoFile
  <2> QED
    BY <2>1, <2>2 DEF Backed, ProgressIsBacked, Writers
<1> QED
  BY <1>2, <1>3, <1>4, Steps

----------------------------------------------------------------------------
(* What a confirmed stop means.                                            *)

LEMMA StoppingNext ==
    TypeOK /\ History /\ Stopping /\ [Next]_vars => Stopping'
<1> SUFFICES ASSUME TypeOK, History, Stopping, [Next]_vars PROVE Stopping'
  OBVIOUS
<1> USE DEF Stopping, SignalledStopIsFinal, ProbePcs
<1>1. CASE UNCHANGED vars
  BY <1>1 DEF vars, trainers, files, call
<1>2. ASSUME NEW p \in Procs, Trainer(p) \/ Dies(p) PROVE Stopping'
  <2>1. /\ UNCHANGED <<mine, pc, seen, answer, signalled>>
        /\ proc[p] # "gone" /\ proc'[p] # "booting"
        /\ \A q \in Procs : q # p => proc'[q] = proc[q]
    BY <1>2, OwnEntries DEF Alive, Holding, call
  <2>2. mine \subseteq Procs
    BY DEF TypeOK
  <2>3. \A q \in mine : /\ proc[q] # "booting" => proc'[q] # "booting"
                        /\ proc[q] = "gone" => proc'[q] = "gone"
    BY <2>1, <2>2
  <2> QED
    BY <2>1, <2>3
<1>3. ASSUME NEW p \in Procs, HandLaunch(p) PROVE Stopping'
  <2>1. p \notin mine
    BY <1>3, WorkerAssumption DEF HandLaunch, Boot, History, TypeOK, Procs
  <2> QED
    BY <1>3, <2>1 DEF HandLaunch, Boot, TypeOK, call
<1>4. ASSUME NEW p \in Procs, Launch(p) PROVE Stopping'
  <2>1. seen = "unasked" /\ answer # "stopped" /\ pc = "launch"
    BY <1>4 DEF Launch, TypeOK
  <2> QED
    BY <1>4, <2>1 DEF Launch, Return
<1>5. CASE Term \/ Kill
  <2>1. /\ pc \in {"term", "kill"} /\ pc' \in {"stopProbe", "lastProbe"}
        /\ seen = "unasked" /\ answer # "stopped"
    BY <1>5 DEF Term, Kill, TypeOK
  <2>2. CASE UNCHANGED <<proc, killed, signalled>>
    BY <2>1, <2>2, <1>5, SignalEntries
  <2> QED
    BY <1>5, <2>1, <2>2, SignalEntries DEF TypeOK, LateSignal, Term, Kill
<1>6. CASE ProbeRuns
  <2>1. Holders = {} => \A p \in mine : proc[p] \in {"booting", "gone"}
    BY DEF Holders, TypeOK, History, Alive
  <2> QED
    BY <1>6, <2>1 DEF ProbeRuns, trainers
<1>7. ASSUME NEW result \in {"free", "held", "none"},
             StartAnswer(result) \/ LastAnswer(result) \/ StopAnswer(result)
      PROVE  Stopping'
  <2>1. /\ UNCHANGED <<proc, mine, signalled>> /\ seen' = "unasked"
        /\ seen # "unasked" /\ (result = seen \/ result = "none")
    BY <1>7 DEF StartAnswer, StopAnswer, LastAnswer, Answered, trainers
  <2>2. CASE StartAnswer(result)
    BY <2>1, <2>2 DEF StartAnswer, Return
  <2>3. CASE StopAnswer(result)
    BY <2>1, <2>3 DEF StopAnswer, Return, Confirms, ConfirmsFree, NextProbe, InTime
  <2>4. CASE LastAnswer(result)
    BY <2>1, <2>4 DEF LastAnswer, Return, Confirms, ConfirmsFree
  <2> QED
    BY <1>7, <2>2, <2>3, <2>4
<1>8. CASE CallStart \/ CallStop
  BY <1>8 DEF CallStart, CallStop, trainers
<1>9. CASE LateSignal
  <2>1. UNCHANGED <<mine, pc, seen, answer, signalled>>
    BY <1>9 DEF LateSignal, call
  <2>2. \A p \in Procs :
            /\ proc[p] # "booting" => proc'[p] # "booting"
            /\ proc[p] = "gone" => proc'[p] = "gone"
    BY <1>9, SignalEntries DEF Holding
  <2>3. mine \subseteq Procs
    BY DEF TypeOK
  <2> QED
    BY <2>1, <2>2, <2>3
<1>10. ASSUME NEW n \in 0 .. MaxStep, CommitArrives(n) PROVE Stopping'
  BY <1>10 DEF CommitArrives, trainers, call
<1> QED
  BY <1>1, <1>2, <1>3, <1>4, <1>5, <1>6, <1>7, <1>8, <1>9, <1>10 DEF Next, Caller

----------------------------------------------------------------------------
(* The theorems.                                                           *)

Inv == Types /\ History /\ OneWriter /\ Saved /\ Overtaking /\ Backed /\ Stopping

LEMMA InvInit == Init => Inv
<1> SUFFICES ASSUME Init PROVE Inv
  OBVIOUS
<1>1. /\ mine = {} /\ ckpt = -1 /\ ~progress.done /\ ~signalled
      /\ seen = "unasked" /\ answer = "none" /\ pc = "idle"
  BY DEF Init, NoProgress, NoFile
<1>2. \A p \in Procs : proc[p] = "unborn" /\ step[p] = NoFile
  BY DEF Init
<1>3. Types
  BY TypesInit
<1>4. History
  BY <1>1, <1>2 DEF History
<1>5. OneWriter
  BY <1>2 DEF OneWriter, Holders, Holding
<1>6. Saved
  BY <1>1, <1>2 DEF Saved, Writers, ExitKeepsWork
<1>7. Stopping
  BY <1>1 DEF Stopping, SignalledStopIsFinal
<1>8. Backed
  BY <1>2 DEF Init, NoProgress, Backed, ProgressIsBacked
<1>9. Overtaking
  BY DEF Init, Overtaking
<1> QED
  BY <1>3, <1>4, <1>5, <1>6, <1>7, <1>8, <1>9 DEF Inv

LEMMA InvNext == Inv /\ [Next]_vars => Inv'
  BY TypesNext, HistoryNext, OneWriterNext, SavedNext, BackedNext,
     StoppingNext DEF Inv, Types

LEMMA Invariant == Spec => []Inv
  BY InvInit, InvNext, PTL DEF Spec

\* Every variable of Worker keeps its type; start and stop make no more probes
\* than their loops allow.
THEOREM TypeCorrect == Spec => []TypeOK
<1>1. Inv => TypeOK
  BY DEF Inv, Types
<1> QED
  BY <1>1, Invariant, PTL

\* train.lock: whatever is launched, probed, killed or lost, at most one trainer
\* of a worker is past acquire_lock.
THEOREM LockExcludes == Spec => []OneWriter
<1>1. Inv => OneWriter
  BY DEF Inv
<1> QED
  BY <1>1, Invariant, PTL

\* No trainer takes checkpoint.pt back to an earlier step, except one that a
\* transfer to its worker has overtaken.
THEOREM CheckpointOnlyAdvances == Spec => CheckpointAdvances
<1>1. Inv => [\A p \in Procs \ overtaken : Trainer(p) => ckpt' >= ckpt]_vars
  BY SavesForward DEF Inv, Types
<1> QED
  BY <1>1, Invariant, PTL DEF Spec, CheckpointAdvances

\* A trainer that left by itself, or reported done, left its last step in
\* checkpoint.pt, until a transfer replaces the file.
THEOREM ExitsAreSaved == Spec => []ExitKeepsWork
<1>1. Inv => ExitKeepsWork
  BY DEF Inv, Saved
<1> QED
  BY <1>1, Invariant, PTL

\* What a trainer reports in progress.json is never more than one checkpoint
\* interval beyond what a restart would resume with, as long as no transfer has
\* replaced checkpoint.pt since the report.
THEOREM PromisesAreBacked == Spec => []ProgressIsBacked
<1>1. Inv => ProgressIsBacked
  BY DEF Inv, Backed
<1> QED
  BY <1>1, Invariant, PTL

\* A stop that reached the worker and was confirmed leaves no trainer that an
\* earlier start launched.
THEOREM StopsForGood == Spec => []SignalledStopIsFinal
<1>1. Inv => SignalledStopIsFinal
  BY DEF Inv, Stopping
<1> QED
  BY <1>1, Invariant, PTL

----------------------------------------------------------------------------
(* A call is short.                                                        *)

\* A probe that was made and whose answer is still to arrive.
Asked == IF seen = "unasked" THEN 0 ELSE 1

\* The commands, probes and answers a call may still need.
StepsLeft ==
    CASE pc = "idle"       -> 0
      [] pc = "startProbe" -> 2 * (StartProbes - attempt) - Asked
      [] pc = "launch"     -> 2 * StartProbes + 1
      [] pc = "lastProbe"  -> 2 - Asked
      [] pc = "kill"       -> 3
      [] pc = "stopProbe"  -> 2 * (StopProbes - attempt) + 3 - Asked
      [] pc = "term"       -> 2 * StopProbes + 4

\* Every step of the caller brings the answer closer, and nothing the trainers, an
\* operator or a late signal do puts it off.
CallIsBounded ==
    [][/\ Caller => 0 <= StepsLeft' /\ StepsLeft' < StepsLeft
       /\ pc # "idle" => StepsLeft' <= StepsLeft]_vars

LEMMA AskedIs ==
    /\ Asked \in {0, 1} /\ (seen = "unasked" => Asked = 0)
    /\ (seen # "unasked" => Asked = 1)
    /\ Asked' \in {0, 1} /\ (seen' = "unasked" => Asked' = 0)
    /\ (seen' # "unasked" => Asked' = 1)
  BY DEF Asked

\* An answer ends the call, or the next probe or command follows.
LEMMA AnswerCloser ==
    ASSUME Types, NEW result \in {"free", "held", "none"},
           StartAnswer(result) \/ StopAnswer(result) \/ LastAnswer(result)
    PROVE  0 <= StepsLeft' /\ StepsLeft' < StepsLeft
<1>1. attempt \in Nat /\ StartProbes \in Nat \ {0} /\ StopProbes \in Nat \ {0}
  BY WorkerAssumption DEF Types, TypeOK
<1>2. Asked = 1 /\ Asked' = 0
  BY AskedIs DEF StartAnswer, StopAnswer, LastAnswer, Answered
<1>3. CASE StartAnswer(result)
  <2>1. pc = "startProbe" /\ attempt < StartProbes
    BY <1>3 DEF StartAnswer, Types
  <2>2. \/ pc' = "idle"
        \/ pc' = "startProbe" /\ attempt' = attempt + 1 /\ attempt' < StartProbes
    BY <1>3, <2>1 DEF StartAnswer, Return, NextAttempt, CountsEvery
  <2>3. StepsLeft = 2 * (StartProbes - attempt) - 1
    BY <1>2, <2>1 DEF StepsLeft
  <2>4. StepsLeft' = 0 \/ (/\ StepsLeft' = 2 * (StartProbes - (attempt + 1))
                           /\ attempt + 1 < StartProbes)
    BY <1>1, <1>2, <2>2 DEF StepsLeft
  <2> HIDE DEF StepsLeft
  <2> QED
    BY <1>1, <2>1, <2>3, <2>4
<1>4. CASE StopAnswer(result)
  <2>1. pc = "stopProbe" /\ attempt < StopProbes
    BY <1>4 DEF StopAnswer, Types
  <2>2. \/ pc' = "idle"
        \/ pc' = "kill"
        \/ pc' = "stopProbe" /\ attempt' = attempt + 1 /\ attempt' < StopProbes
    BY <1>4, <2>1 DEF StopAnswer, Return, NextAttempt, CountsEvery, NextProbe,
                      InTime
  <2>3. StepsLeft = 2 * (StopProbes - attempt) + 3 - 1
    BY <1>2, <2>1 DEF StepsLeft
  <2>4. StepsLeft' \in {0, 3} \/ (/\ StepsLeft' = 2 * (StopProbes - (attempt + 1)) + 3
                                 /\ attempt + 1 < StopProbes)
    BY <1>1, <1>2, <2>2 DEF StepsLeft
  <2> HIDE DEF StepsLeft
  <2> QED
    BY <1>1, <2>1, <2>3, <2>4
<1>5. CASE LastAnswer(result)
  <2>1. pc = "lastProbe" /\ pc' = "idle"
    BY <1>5 DEF LastAnswer, Return
  <2>2. StepsLeft = 1 /\ StepsLeft' = 0
    BY <1>2, <2>1 DEF StepsLeft
  <2> QED
    BY <2>2
<1> QED
  BY <1>3, <1>4, <1>5

\* A command is followed by its probes, a probe by its answer.
LEMMA CommandCloser ==
    ASSUME Types, Stopping,
           \/ \E p \in Procs : Launch(p)
           \/ ProbeRuns \/ Term \/ Kill
    PROVE  0 <= StepsLeft' /\ StepsLeft' < StepsLeft
<1>1. attempt \in Nat /\ StartProbes \in Nat \ {0} /\ StopProbes \in Nat \ {0}
  BY WorkerAssumption DEF Types, TypeOK
<1>2. ASSUME NEW p \in Procs, Launch(p)
      PROVE  0 <= StepsLeft' /\ StepsLeft' < StepsLeft
  <2>1. pc = "launch" /\ pc' \in {"startProbe", "idle"} /\ attempt' = 0
    BY <1>2 DEF Launch, Return
  <2>2. Asked' = 0
    BY <1>2, <2>1, AskedIs DEF Launch, Stopping, ProbePcs
  <2>3. StepsLeft = 2 * StartProbes + 1 /\ StepsLeft' \in {0, 2 * StartProbes}
    BY <1>1, <2>1, <2>2 DEF StepsLeft
  <2> QED
    BY <1>1, <2>3
<1>3. CASE ProbeRuns
  <2>1. pc \in ProbePcs /\ UNCHANGED <<pc, attempt>> /\ Asked = 0 /\ Asked' = 1
    BY <1>3, AskedIs DEF ProbeRuns
  <2>2. CASE pc = "startProbe"
    <3>1. /\ StepsLeft = 2 * (StartProbes - attempt) /\ attempt < StartProbes
          /\ StepsLeft' = 2 * (StartProbes - attempt) - 1
      BY <1>1, <2>1, <2>2 DEF StepsLeft, Types
    <3> QED
      BY <1>1, <3>1
  <2>3. CASE pc = "stopProbe"
    <3>1. /\ StepsLeft = 2 * (StopProbes - attempt) + 3 /\ attempt < StopProbes
          /\ StepsLeft' = 2 * (StopProbes - attempt) + 3 - 1
      BY <1>1, <2>1, <2>3 DEF StepsLeft, Types
    <3> QED
      BY <1>1, <3>1
  <2>4. CASE pc = "lastProbe"
    BY <2>1, <2>4 DEF StepsLeft
  <2> QED
    BY <2>1, <2>2, <2>3, <2>4 DEF ProbePcs
<1>4. CASE Term
  <2>1. pc = "term" /\ pc' = "stopProbe" /\ attempt' = 0
    BY <1>4 DEF Term
  <2>2. Asked' = 0
    BY <1>4, <2>1, AskedIs DEF Term, Stopping, ProbePcs
  <2>3. StepsLeft = 2 * StopProbes + 4 /\ StepsLeft' = 2 * StopProbes + 3
    BY <1>1, <2>1, <2>2 DEF StepsLeft
  <2> QED
    BY <1>1, <2>3
<1>5. CASE Kill
  <2>1. pc = "kill" /\ pc' = "lastProbe"
    BY <1>5 DEF Kill
  <2>2. StepsLeft = 3 /\ StepsLeft' \in {1, 2}
    BY <2>1, AskedIs DEF StepsLeft
  <2> QED
    BY <2>2
<1> QED
  BY <1>2, <1>3, <1>4, <1>5

LEMMA LeftType == Types => StepsLeft \in Int
<1> SUFFICES ASSUME Types PROVE StepsLeft \in Int
  OBVIOUS
<1>1. attempt \in Nat /\ StartProbes \in Nat /\ StopProbes \in Nat /\ Asked \in Int
  BY WorkerAssumption, AskedIs DEF Types, TypeOK
<1>2. pc \in {"idle", "launch", "startProbe", "term", "stopProbe", "kill", "lastProbe"}
  BY DEF Types, TypeOK
<1> QED
  BY <1>1, <1>2 DEF StepsLeft

\* A start returns or raises after at most 2 * StartProbes + 1 steps of its own and a
\* stop after at most 2 * StopProbes + 4, its escalation to SIGKILL included, whatever
\* is lost and whoever holds the lock (executor.py, SshExecutor.start and stop).
THEOREM CallsAreBounded == Spec => CallIsBounded
<1> DEFINE Closer == /\ Caller => 0 <= StepsLeft' /\ StepsLeft' < StepsLeft
                     /\ pc # "idle" => StepsLeft' <= StepsLeft
<1>1. ASSUME Inv, StepsLeft \in Int, (StepsLeft \in Int)', [Next]_vars
      PROVE  [Closer]_vars
  <2>0. Types /\ Stopping
    BY <1>1 DEF Inv
  <2>1. CASE Caller
    <3>1. 0 <= StepsLeft' /\ StepsLeft' < StepsLeft
      BY <2>0, <2>1, AnswerCloser, CommandCloser DEF Caller
    <3> HIDE DEF StepsLeft
    <3> QED
      BY <1>1, <3>1
  <2>2. CASE ~Caller /\ (CallStart \/ CallStop)
    BY <2>2 DEF CallStart, CallStop
  <2>3. ASSUME ~Caller, UNCHANGED <<pc, attempt, seen>> PROVE Closer
    <3>1. StepsLeft' = StepsLeft
      BY <2>3 DEF StepsLeft, Asked
    <3> HIDE DEF StepsLeft
    <3> QED
      BY <1>1, <2>3, <3>1
  <2>4. CASE LateSignal \/ \E p \in Procs : HandLaunch(p)
    BY <2>1, <2>3, <2>4 DEF LateSignal, HandLaunch, call
  <2>5. CASE \E p \in Procs : Trainer(p) \/ Dies(p)
    BY <2>0, <2>1, <2>3, <2>5, OwnEntries DEF Types, call
  <2>6. CASE \E n \in 0 .. MaxStep : CommitArrives(n)
    BY <2>1, <2>3, <2>6 DEF CommitArrives, call
  <2>7. CASE UNCHANGED vars
    BY <2>7
  <2> HIDE DEF Closer
  <2> QED
    BY <1>1, <2>1, <2>2, <2>4, <2>5, <2>6, <2>7 DEF Next
<1>2. Inv => StepsLeft \in Int
  BY LeftType DEF Inv
<1> QED
  BY <1>1, <1>2, Invariant, PTL DEF Spec, CallIsBounded

=============================================================================
