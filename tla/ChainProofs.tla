----------------------------- MODULE ChainProofs -----------------------------
(***************************************************************************)
(* Proofs about Chain, for any number of segments, sites, retries, blocks  *)
(* of steps and any time budget: the report is true of the model that was  *)
(* evaluated, a trainer is only signalled for a hang, and the workflow is, *)
(* step for step, the chained training run of TrainingRun.                 *)
(***************************************************************************)
EXTENDS Chain, TLAPS, FiniteSetTheorems, SequenceTheorems

USE SegmentsAssumption, MinutesAssumption, RetryAssumption, BlocksAssumption,
    NoneAssumption

----------------------------------------------------------------------------
(* The graph.                                                              *)

\* The kinds of jobs, and what tells two jobs apart.
LEMMA JobsAre ==
    /\ \A i \in Index : Train(i) \in Jobs /\ Predict(i) \in Jobs
    /\ Evaluate \in Jobs /\ Report \in Jobs
    /\ \A j \in Jobs : \/ \E i \in Index : j = Train(i) \/ j = Predict(i)
                       \/ j = Evaluate \/ j = Report
  BY DEF Jobs, TrainJobs, PredictJobs

LEMMA JobsDiffer ==
    /\ \A i, k : (Train(i) = Train(k) => i = k) /\ (Predict(i) = Predict(k) => i = k)
    /\ \A i, k : Train(i) # Predict(k)
    /\ \A i : Train(i) # Evaluate /\ Train(i) # Report
    /\ \A i : Predict(i) # Evaluate /\ Predict(i) # Report
    /\ Evaluate # Report
  BY DEF Train, Predict, Evaluate, Report

LEMMA JobFiles ==
    /\ \A i : /\ Outputs(Train(i)) = {<<"ckpt", i>>, <<"progress", i>>}
              /\ Outputs(Predict(i)) = {<<"prediction", i>>}
              /\ Inputs(Train(i)) = IF i = 1 THEN {} ELSE {<<"ckpt", i - 1>>}
              /\ Inputs(Predict(i)) = {<<"ckpt", i>>}
    /\ Outputs(Evaluate) = {<<"result", 0>>} /\ Outputs(Report) = {<<"report", 0>>}
    /\ Inputs(Evaluate) = {<<"ckpt", Segments>>}
    /\ Inputs(Report) = ({"progress", "prediction"} \X Index) \cup {<<"result", 0>>}
  BY DEF Outputs, Inputs, Train, Predict, Evaluate, Report

LEMMA ParentIs ==
    ASSUME NEW j \in Jobs, NEW k \in Jobs
    PROVE  k \in Parents[j] <=> \E f : f \in Outputs(k) /\ f \in Inputs(j)
  BY DEF Parents

\* The edges the planner infers, as far as they matter below.
LEMMA ParentsAre ==
    /\ \A i \in Index : i > 1 => Train(i - 1) \in Parents[Train(i)]
    /\ \A j \in Parents[Train(1)] : FALSE
    /\ \A i \in Index : /\ Train(i) \in Parents[Predict(i)]
                        /\ \A k \in Parents[Predict(i)] : k = Train(i)
    /\ Train(Segments) \in Parents[Evaluate]
    /\ \A i \in Index : Train(i) \in Parents[Report] /\ Predict(i) \in Parents[Report]
    /\ Evaluate \in Parents[Report]
<1>1. 1 \in Index /\ Segments \in Index
  BY DEF Index
<1>2. ASSUME NEW i \in Index, i > 1 PROVE Train(i - 1) \in Parents[Train(i)]
  <2>1. i - 1 \in Index
    BY <1>2 DEF Index
  <2>2. <<"ckpt", i - 1>> \in Outputs(Train(i - 1))
    BY JobFiles
  <2>3. <<"ckpt", i - 1>> \in Inputs(Train(i))
    BY <1>2, JobFiles DEF Index
  <2> QED
    BY <2>1, <2>2, <2>3, JobsAre, ParentIs
<1>3. ASSUME NEW j \in Parents[Train(1)] PROVE FALSE
  <2>1. j \in Jobs
    BY <1>1, JobsAre DEF Parents
  <2> QED
    BY <1>1, <1>3, <2>1, JobsAre, JobFiles, ParentIs
<1>4. ASSUME NEW i \in Index
      PROVE  Train(i) \in Parents[Predict(i)] /\ \A k \in Parents[Predict(i)] : k = Train(i)
  <2>1. Train(i) \in Parents[Predict(i)]
    BY JobsAre, JobFiles, ParentIs
  <2>2. ASSUME NEW k \in Parents[Predict(i)] PROVE k = Train(i)
    <3>1. k \in Jobs
      BY JobsAre DEF Parents
    <3>2. <<"ckpt", i>> \in Outputs(k)
      BY <3>1, JobsAre, JobFiles, ParentIs
    <3> QED
      BY <3>1, <3>2, JobsAre, JobFiles
  <2> QED
    BY <2>1, <2>2
<1>5. Train(Segments) \in Parents[Evaluate]
  <2>1. <<"ckpt", Segments>> \in Outputs(Train(Segments)) /\ <<"ckpt", Segments>> \in Inputs(Evaluate)
    BY JobFiles
  <2> QED
    BY <1>1, <2>1, JobsAre, ParentIs
<1>6. ASSUME NEW i \in Index
      PROVE  Train(i) \in Parents[Report] /\ Predict(i) \in Parents[Report]
  <2>1. <<"progress", i>> \in Inputs(Report) /\ <<"prediction", i>> \in Inputs(Report)
    BY JobFiles
  <2> QED
    BY <2>1, JobsAre, JobFiles, ParentIs
<1>7. Evaluate \in Parents[Report]
  BY JobsAre, JobFiles, ParentIs
<1> QED
  BY <1>2, <1>3, <1>4, <1>5, <1>6, <1>7

----------------------------------------------------------------------------
(* The inductive invariant.                                                *)

Started(j) == status[j] \in {"running", "done"}

\* What DAGMan keeps: a job that was started has its producers behind it, and
\* (but for the report) a site that runs it or ran it.
Scheduled ==
    /\ status \in [Jobs -> {"idle", "running", "done", "failed"}]
    /\ tries \in [Jobs -> 0 .. 1 + Retry]
    /\ host \in [Jobs -> Sites \cup {None}]
    /\ \A j \in Jobs : status[j] = "idle" => tries[j] < Attempts(j)
    /\ \A j \in Jobs : Started(j) /\ j # Report => host[j] \in Sites
    /\ \A i \in Index : Started(Train(i)) =>
           \A k \in 1 .. i - 1 : status[Train(k)] = "done"
    /\ \A j \in Jobs : status[j] # "idle" => \A p \in Parents[j] : status[p] = "done"

TrainerFields == {"phase", "model", "blocks", "clock", "due", "termed", "slack"}

\* What the process's clock accounts for: its own budget covers what is not
\* slack, and the signal comes only after twice that budget.
Budget ==
    /\ DOMAIN trainer = TrainerFields
    /\ trainer.phase \in {"none", "load", "train", "save"}
    /\ trainer.clock \in 0 .. KillAt
    /\ trainer.slack \in 0 .. trainer.clock
    /\ trainer.due \in Nat
    /\ trainer.termed \in BOOLEAN
    /\ trainer.phase \in {"none", "load"} =>
           trainer.slack = trainer.clock /\ ~trainer.termed
    /\ trainer.phase = "train" =>
           trainer.slack = IF trainer.clock <= trainer.due
                           THEN trainer.due - Minutes ELSE trainer.clock - Minutes
    /\ trainer.phase = "save" => trainer.slack >= trainer.clock - Minutes
    /\ trainer.termed => trainer.clock >= TermAt

----------------------------------------------------------------------------
(* The steps of Next, by what they change.                                 *)

\* A step of the running trainer that touches nothing outside its process.
InProcess(i) ==
    /\ status[Train(i)] = "running"
    /\ UNCHANGED <<status, tries, host, file>>
    /\ \/ trainer.phase = "load" /\ Resume(i, TRUE)
       \/ Step(i)
       \/ LeaveLoop(i)
       \/ Tick(i)
       \/ /\ trainer.phase \in {"train", "save"} /\ trainer.clock = TermAt
          /\ trainer' = [trainer EXCEPT !.termed = TRUE]

\* The attempt of segment i succeeds.
Completes(i) ==
    /\ Training(i, "save") /\ ~trainer.termed
    /\ file' = [file EXCEPT ![<<"ckpt", i>>] = Checkpoint(i),
                            ![<<"progress", i>>] = Progress(i)]
    /\ Succeeds(Train(i))
    /\ trainer' = NoTrainer
    /\ UNCHANGED host

LEMMA StepIs ==
    Next => \/ \E j \in Jobs : Match(j)
            \/ \E j \in Jobs : status[j] = "running" /\ AttemptFails(j)
            \/ \E i \in Index : InProcess(i) \/ Completes(i) \/ Predicts(i)
            \/ Evaluates \/ Reports
<1> SUFFICES ASSUME Next
             PROVE  \/ \E j \in Jobs : Match(j)
                    \/ \E j \in Jobs : status[j] = "running" /\ AttemptFails(j)
                    \/ \E i \in Index : InProcess(i) \/ Completes(i) \/ Predicts(i)
                    \/ Evaluates \/ Reports
  OBVIOUS
<1>1. CASE \E j \in Jobs : Match(j) \/ Fault(j) \/ Works(j)
  BY <1>1 DEF Fault, Works
<1>2. ASSUME NEW i \in Index, Trainer(i) \/ Kickstart(i)
      PROVE  InProcess(i) \/ Completes(i) \/ (status[Train(i)] = "running" /\ AttemptFails(Train(i)))
  <2>1. CASE Loaded(i)
    <3>1. PICK arrived \in BOOLEAN : Resume(i, arrived) \/ Refuse(i, arrived)
      BY <2>1 DEF Loaded
    <3>2. Training(i, "load")
      BY <2>1 DEF Loaded
    <3> QED
      BY <3>1, <3>2 DEF Resume, Refuse, InProcess, Training
  <2>2. CASE Step(i) \/ LeaveLoop(i)
    BY <2>2 DEF Step, LeaveLoop, InProcess, Training
  <2>3. CASE Exit(i)
    BY <2>3 DEF Exit, Completes, Training
  <2>4. CASE Tick(i)
    BY <2>4 DEF Tick, InProcess
  <2>5. CASE Terminate(i)
    BY <2>5 DEF Terminate, InProcess
  <2>6. CASE Kill(i)
    BY <2>6 DEF Kill
  <2> QED
    BY <1>2, <2>1, <2>2, <2>3, <2>4, <2>5, <2>6 DEF Trainer, Kickstart
<1> QED
  BY <1>1, <1>2, JobsAre DEF Next

----------------------------------------------------------------------------
(* The trainer's clock.                                                    *)

LEMMA Bounds ==
    /\ TermAt \in Nat /\ KillAt \in Nat
    /\ TermAt = 2 * Minutes /\ TermAt < KillAt
  BY DEF TermAt, KillAt

LEMMA BudgetNext == Budget /\ [Next]_vars => Budget'
<1> SUFFICES ASSUME Budget, [Next]_vars PROVE Budget'
  OBVIOUS
<1> USE DEF Budget, TrainerFields
<1>1. CASE UNCHANGED vars
  BY <1>1 DEF vars
<1>2. ASSUME trainer' = NoTrainer \/ trainer' = [NoTrainer EXCEPT !.phase = "load"]
      PROVE  Budget'
  <2>1. DOMAIN trainer' = TrainerFields
    BY <1>2 DEF NoTrainer
  <2>2. /\ trainer'.phase \in {"none", "load"}
        /\ trainer'.clock = 0 /\ trainer'.slack = 0 /\ trainer'.due = 0
    BY <1>2 DEF NoTrainer
  <2>3. trainer'.termed \in BOOLEAN /\ ~trainer'.termed
    <3>1. trainer'.termed = FALSE
      BY <1>2 DEF NoTrainer
    <3> QED
      BY <3>1, Zenon
  <2>4. 0 \in 0 .. KillAt /\ 0 \in 0 .. 0 /\ KillAt' = KillAt /\ TermAt' = TermAt
    BY Bounds DEF KillAt, TermAt
  <2> QED
    BY <2>1, <2>2, <2>3, <2>4
<1>3. ASSUME NEW j \in Jobs, Match(j) \/ AttemptFails(j) PROVE Budget'
  BY <1>2, <1>3 DEF Match, AttemptFails
<1>4. ASSUME NEW i \in Index, InProcess(i) PROVE Budget'
  <2>1. CASE trainer.phase = "load" /\ Resume(i, TRUE)
    BY <2>1, Bounds DEF Resume
  <2>2. CASE Step(i)
    BY <2>2 DEF Step
  <2>3. CASE LeaveLoop(i)
    BY <2>3 DEF LeaveLoop, Training
  <2>4. CASE Tick(i)
    BY <2>4, Bounds DEF Tick
  <2>5. CASE trainer.phase \in {"train", "save"} /\ trainer.clock = TermAt
               /\ trainer' = [trainer EXCEPT !.termed = TRUE]
    BY <2>5, Bounds
  <2> QED
    BY <1>4, <2>1, <2>2, <2>3, <2>4, <2>5 DEF InProcess
<1>5. ASSUME NEW i \in Index, Completes(i) PROVE Budget'
  BY <1>2, <1>5 DEF Completes
<1>6. CASE (\E i \in Index : Predicts(i)) \/ Evaluates \/ Reports
  BY <1>6 DEF Predicts, Evaluates, Reports, Produces
<1> QED
  BY <1>1, <1>3, <1>4, <1>5, <1>6, StepIs

\* segment_timeouts: whatever hangs or crawls, the trainer that is sent SIGTERM
\* has spent at least its whole budget again outside that budget.
THEOREM OnlyHangsAreSignalled == Spec => []TimeoutIsHang
<1>1. Init => Budget
  BY Bounds DEF Init, Budget, TrainerFields, NoTrainer
<1>2. Budget => TimeoutIsHang
  BY Bounds DEF Budget, TimeoutIsHang
<1> QED
  BY <1>1, <1>2, BudgetNext, PTL DEF Spec

----------------------------------------------------------------------------
(* The order of the jobs.                                                  *)

LEMMA AttemptsBound ==
    \A j : Attempts(j) \in 1 .. 1 + Retry
  BY DEF Attempts

\* A running job ends, one way or another, and nothing else moves.
LEMMA JobEnds ==
    ASSUME Scheduled, NEW j \in Jobs, status[j] = "running",
           NEW s \in {"idle", "done", "failed"}, NEW t \in 0 .. 1 + Retry,
           status' = [status EXCEPT ![j] = s],
           tries' = [tries EXCEPT ![j] = t],
           s = "idle" => t < Attempts(j),
           \/ UNCHANGED host
           \/ s # "done" /\ host' = [host EXCEPT ![j] = None]
    PROVE  Scheduled'
<1> USE DEF Scheduled
<1>1. \A k \in Jobs : status[k] = "done" => status'[k] = "done"
  OBVIOUS
<1>2. \A k \in Jobs : Started(k)' => Started(k) /\ (k # j \/ s = "done")
  BY DEF Started
<1>3. /\ status' \in [Jobs -> {"idle", "running", "done", "failed"}]
      /\ tries' \in [Jobs -> 0 .. 1 + Retry]
      /\ host' \in [Jobs -> Sites \cup {None}]
  OBVIOUS
<1>4. \A k \in Jobs : status'[k] = "idle" => tries'[k] < Attempts(k)
  OBVIOUS
<1>5. \A k \in Jobs : Started(k)' /\ k # Report => host'[k] \in Sites
  BY <1>2
<1>6. ASSUME NEW i \in Index, Started(Train(i))'
      PROVE  \A k \in 1 .. i - 1 : status'[Train(k)] = "done"
  <2>1. \A k \in 1 .. i - 1 : Train(k) \in Jobs
    BY JobsAre DEF Index
  <2> QED
    BY <1>1, <1>2, <1>6, <2>1, JobsAre
<1>7. ASSUME NEW k \in Jobs, status'[k] # "idle"
      PROVE  \A p \in Parents[k] : status'[p] = "done"
  <2>1. status[k] # "idle" /\ \A p \in Parents[k] : p \in Jobs
    BY <1>7 DEF Parents
  <2> QED
    BY <1>1, <2>1
<1> QED
  BY <1>3, <1>4, <1>5, <1>6, <1>7

LEMMA ScheduledNext == Scheduled /\ [Next]_vars => Scheduled'
<1> SUFFICES ASSUME Scheduled, [Next]_vars PROVE Scheduled'
  OBVIOUS
<1>1. CASE UNCHANGED vars
  BY <1>1 DEF vars, Scheduled, Started
<1>2. ASSUME NEW j \in Jobs, Match(j) PROVE Scheduled'
  <2> USE DEF Scheduled
  <2>1. /\ status[j] = "idle" /\ \A p \in Parents[j] : status[p] = "done"
        /\ status' = [status EXCEPT ![j] = "running"]
        /\ tries' = [tries EXCEPT ![j] = @ + 1]
    BY <1>2 DEF Match, Ready
  <2>2. host' \in [Jobs -> Sites \cup {None}]
        /\ (j # Report => host'[j] \in Sites) /\ \A k \in Jobs \ {j} : host'[k] = host[k]
    BY <1>2 DEF Match
  <2>3. tries' \in [Jobs -> 0 .. 1 + Retry]
    <3>1. tries[j] + 1 \in 0 .. 1 + Retry
      BY <2>1, AttemptsBound
    <3> QED
      BY <2>1, <3>1
  <2>4. \A k \in Jobs : status[k] = "done" => status'[k] = "done"
    BY <2>1
  <2>5. \A k \in Jobs : Started(k)' => k = j \/ Started(k)
    BY <2>1 DEF Started
  <2>6. ASSUME NEW k \in Jobs, status'[k] # "idle"
        PROVE  \A p \in Parents[k] : status'[p] = "done"
    <3>1. (k = j \/ status[k] # "idle") /\ \A p \in Parents[k] : p \in Jobs
      BY <2>1, <2>6 DEF Parents
    <3> QED
      BY <2>1, <2>4, <3>1
  <2>7. ASSUME NEW i \in Index, Started(Train(i))'
        PROVE  \A k \in 1 .. i - 1 : status'[Train(k)] = "done"
    <3>1. \A k \in 1 .. i - 1 : k \in Index /\ Train(k) \in Jobs
      BY JobsAre DEF Index
    <3>2. \A k \in 1 .. i - 1 : status[Train(k)] = "done"
      <4>1. CASE Started(Train(i))
        BY <4>1
      <4>2. CASE i > 1 /\ Train(i) = j
        <5>1. status[Train(i - 1)] = "done" /\ i - 1 \in Index
          BY <2>1, <4>2, ParentsAre DEF Index
        <5>2. \A k \in 1 .. i - 2 : status[Train(k)] = "done"
          BY <5>1, ParentsAre DEF Started, Index
        <5> QED
          BY <5>1, <5>2 DEF Index
      <4> QED
        BY <2>5, <2>7, <4>1, <4>2, JobsAre DEF Index
    <3> QED
      BY <2>4, <3>1, <3>2
  <2>8. \A k \in Jobs : status'[k] = "idle" => tries'[k] < Attempts(k)
    BY <2>1
  <2>9. status' \in [Jobs -> {"idle", "running", "done", "failed"}]
    BY <2>1
  <2>10. \A k \in Jobs : Started(k)' /\ k # Report => host'[k] \in Sites
    BY <2>2, <2>5
  <2> QED
    BY <2>2, <2>3, <2>6, <2>7, <2>8, <2>9, <2>10
<1>3. ASSUME NEW j \in Jobs, status[j] = "running", AttemptFails(j) PROVE Scheduled'
  <2> DEFINE s == IF tries[j] < Attempts(j) THEN "idle" ELSE "failed"
  <2>1. /\ status' = [status EXCEPT ![j] = s] /\ tries' = [tries EXCEPT ![j] = tries[j]]
        /\ host' = [host EXCEPT ![j] = None]
    BY <1>3 DEF AttemptFails, Scheduled
  <2>2. tries[j] \in 0 .. 1 + Retry /\ (s = "idle" => tries[j] < Attempts(j))
    BY DEF Scheduled
  <2>3. s \in {"idle", "done", "failed"} /\ s # "done"
    OBVIOUS
  <2> HIDE DEF s
  <2> QED
    BY <1>3, <2>1, <2>2, <2>3, JobEnds
<1>4. ASSUME NEW j \in Jobs, status[j] = "running", Succeeds(j), UNCHANGED host
      PROVE  Scheduled'
  <2>1. 0 \in 0 .. 1 + Retry
    OBVIOUS
  <2> QED
    BY <1>4, <2>1, JobEnds DEF Succeeds
<1>5. ASSUME NEW i \in Index, InProcess(i) PROVE Scheduled'
  BY <1>5 DEF InProcess, Scheduled, Started
<1>6. ASSUME NEW i \in Index, Completes(i) \/ Predicts(i) PROVE Scheduled'
  BY <1>4, <1>6, JobsAre DEF Completes, Training, Predicts, Produces
<1>7. CASE Evaluates \/ Reports
  BY <1>4, <1>7, JobsAre DEF Evaluates, Reports, Produces
<1> QED
  BY <1>1, <1>2, <1>3, <1>5, <1>6, <1>7, StepIs

LEMMA ScheduledInit == Init => Scheduled
<1> SUFFICES ASSUME Init PROVE Scheduled
  OBVIOUS
<1>1. \A j \in Jobs : status[j] = "idle" /\ ~Started(j)
  BY DEF Init, Started
<1>2. \A j \in Jobs : tries[j] < Attempts(j)
  BY AttemptsBound DEF Init
<1>3. \A i \in Index : ~Started(Train(i))
  BY <1>1, JobsAre
<1> QED
  BY <1>1, <1>2, <1>3 DEF Init, Scheduled

----------------------------------------------------------------------------
(* The files.                                                              *)

ckpt(i) == <<"ckpt", i>>
progress(i) == <<"progress", i>>
prediction(i) == <<"prediction", i>>
result == <<"result", 0>>
report == <<"report", 0>>

Model == [step : Nat, hosts : Seq(Sites)]

\* The running trainer goes on from the checkpoint of the segment before it.
Trained ==
    /\ trainer.model \in Model
    /\ trainer.blocks \in 0 .. BlocksPerRun
    /\ trainer.phase \in {"none", "load"} => trainer.blocks = 0
    /\ trainer.phase = "save" /\ ~trainer.termed => trainer.blocks > 0
    /\ \A i \in Index : status[Train(i)] = "running" /\ trainer.phase \in {"train", "save"} =>
           /\ trainer.model.step = Resumed(i).step + trainer.blocks
           /\ trainer.model.hosts = Resumed(i).hosts

\* A checkpoint that was staged out carries one host for each segment up to its
\* own, those of their progress files, and more steps than the one before it.
Handed(i) ==
    /\ file[ckpt(i)] \in Model
    /\ Len(file[ckpt(i)].hosts) = i
    /\ \A k \in 1 .. i : file[ckpt(i)].hosts[k] = file[progress(k)].host
    /\ file[ckpt(i)].step \in 1 .. i * BlocksPerRun
    /\ i > 1 => file[ckpt(i)].step > file[ckpt(i - 1)].step

\* What is staged out is there exactly when its job is done, and is of the run.
Kept ==
    /\ DOMAIN file = Files
    /\ \A i \in Index : IF status[Train(i)] = "done" THEN Handed(i)
                                                     ELSE file[ckpt(i)] = None
    /\ \A i \in Index : status[Predict(i)] = "done" =>
           file[prediction(i)].step = file[ckpt(i)].step
    /\ status[Evaluate] = "done" =>
           file[result].trained_steps = file[ckpt(Segments)].step
    /\ IF status[Report] = "done" THEN ReportIsTrue ELSE file[report] = None

Inv == Scheduled /\ Budget /\ Trained /\ Kept

LEMMA FilesAre ==
    /\ \A i \in Index : {ckpt(i), progress(i), prediction(i)} \subseteq Files
    /\ {result, report} \subseteq Files
  BY DEF Files, ckpt, progress, prediction, result, report

LEMMA FilesDiffer ==
    /\ \A i, k : /\ ckpt(i) = ckpt(k) => i = k
                 /\ progress(i) = progress(k) => i = k
                 /\ prediction(i) = prediction(k) => i = k
                 /\ ckpt(i) # progress(k) /\ ckpt(i) # prediction(k)
                 /\ progress(i) # prediction(k)
    /\ \A i : result \notin {ckpt(i), progress(i), prediction(i)}
    /\ \A i : report \notin {ckpt(i), progress(i), prediction(i)}
    /\ result # report
  BY DEF ckpt, progress, prediction, result, report

\* Whether the report is true depends on two files only.
LEMMA TrueReportKept ==
    ASSUME ReportIsTrue, file'[report] = file[report],
           file'[ckpt(Segments)] = file[ckpt(Segments)]
    PROVE  ReportIsTrue'
  BY DEF ReportIsTrue, report, ckpt

\* One segment trains at a time.
LEMMA OneTrains ==
    ASSUME Scheduled, NEW i \in Index, NEW k \in Index,
           status[Train(i)] = "running", status[Train(k)] = "running"
    PROVE  i = k
<1>1. ~ i < k
  BY DEF Scheduled, Started, Index
<1>2. ~ k < i
  BY DEF Scheduled, Started, Index
<1> QED
  BY <1>1, <1>2 DEF Index

\* The model a segment that is running was told to resume from.
LEMMA ResumedIs ==
    ASSUME Scheduled, Kept, NEW i \in Index, status[Train(i)] = "running"
    PROVE  /\ Resumed(i) \in Model
           /\ Len(Resumed(i).hosts) = i - 1
           /\ \A k \in 1 .. i - 1 : Resumed(i).hosts[k] = file[progress(k)].host
           /\ Resumed(i).step \in 0 .. (i - 1) * BlocksPerRun
           /\ i > 1 => Resumed(i).step = file[ckpt(i - 1)].step
<1>1. CASE i = 1
  BY <1>1 DEF Resumed, NoModel, Model
<1>2. CASE i > 1
  <2>1. i - 1 \in Index /\ status[Train(i - 1)] = "done"
    BY <1>2 DEF Index, Scheduled, Started
  <2>2. Handed(i - 1) /\ Resumed(i) = file[ckpt(i - 1)]
    BY <1>2, <2>1 DEF Kept, Resumed, ckpt
  <2>3. (i - 1) * BlocksPerRun \in Nat
    BY <2>1 DEF Index
  <2> QED
    BY <1>2, <2>2, <2>3 DEF Handed
<1> QED
  BY <1>1, <1>2 DEF Index

\* What the jobs that do not train leave alone.
LEMMA NoTraining ==
    ASSUME Scheduled, Kept, (\E i \in Index : Predicts(i)) \/ Evaluates \/ Reports
    PROVE  /\ \A i \in Index : status'[Train(i)] = status[Train(i)]
           /\ \A i \in Index : file'[ckpt(i)] = file[ckpt(i)]
           /\ \A i \in Index : file'[progress(i)] = file[progress(i)]
           /\ DOMAIN file' = Files /\ trainer' = trainer
<1>1. ASSUME NEW j \in Jobs, NEW f, NEW content, Produces(j, f, content),
             \A i \in Index : Train(i) # j /\ f \notin {ckpt(i), progress(i)}
      PROVE  /\ \A i \in Index : status'[Train(i)] = status[Train(i)]
             /\ \A i \in Index : file'[ckpt(i)] = file[ckpt(i)]
             /\ \A i \in Index : file'[progress(i)] = file[progress(i)]
             /\ DOMAIN file' = Files /\ trainer' = trainer
  BY <1>1, JobsAre, FilesAre DEF Produces, Succeeds, Scheduled, Kept
<1>2. ASSUME NEW i \in Index, Predicts(i)
      PROVE  \E content : Produces(Predict(i), prediction(i), content)
  BY <1>2 DEF Predicts, prediction
<1>3. Evaluates => \E content : Produces(Evaluate, result, content)
  BY DEF Evaluates, result
<1>4. Reports => \E content : Produces(Report, report, content)
  BY DEF Reports, report
<1> QED
  BY <1>1, <1>2, <1>3, <1>4, JobsAre, JobsDiffer, FilesDiffer

----------------------------------------------------------------------------
(* The trainer's model.                                                    *)

LEMMA TrainedNext == Inv /\ [Next]_vars => Trained'
<1> SUFFICES ASSUME Inv, [Next]_vars PROVE Trained'
  OBVIOUS
<1> USE DEF Inv
<1>1. CASE UNCHANGED vars
  BY <1>1 DEF vars, Trained, Resumed
<1>2. ASSUME trainer' = NoTrainer \/ trainer' = [NoTrainer EXCEPT !.phase = "load"]
      PROVE  Trained'
  <2>1. NoModel \in Model
    BY DEF NoModel, Model
  <2>2. /\ trainer'.phase \in {"none", "load"}
        /\ trainer'.model = NoModel /\ trainer'.blocks = 0
    BY <1>2 DEF NoTrainer
  <2> QED
    BY <2>1, <2>2 DEF Trained
<1>3. ASSUME NEW j \in Jobs, Match(j) \/ (status[j] = "running" /\ AttemptFails(j))
      PROVE  Trained'
  <2>1. CASE j \in TrainJobs
    BY <1>2, <1>3, <2>1 DEF Match, AttemptFails
  <2>2. CASE j \notin TrainJobs
    <3>1. trainer' = trainer /\ file' = file
      BY <1>3, <2>2 DEF Match, AttemptFails
    <3>2. \A i \in Index : status'[Train(i)] = status[Train(i)]
      BY <1>3, <2>2, JobsAre DEF Match, AttemptFails, Scheduled, TrainJobs
    <3> QED
      BY <3>1, <3>2 DEF Trained, Resumed
  <2> QED
    BY <2>1, <2>2
<1>4. ASSUME NEW i \in Index, InProcess(i) PROVE Trained'
  <2>1. status[Train(i)] = "running" /\ UNCHANGED <<status, file>>
    BY <1>4 DEF InProcess
  <2>2. \A k \in Index : Resumed(k)' = Resumed(k)
    BY <2>1 DEF Resumed
  <2>3. DOMAIN trainer = TrainerFields /\ trainer.termed \in BOOLEAN
    BY DEF Budget
  <2> USE DEF Trained, TrainerFields, Model
  <2>4. CASE trainer.phase = "load" /\ Resume(i, TRUE)
    <3>1. /\ trainer'.model = Resumed(i) /\ trainer'.phase = "train"
          /\ trainer'.blocks = trainer.blocks /\ trainer.blocks = 0
      BY <2>3, <2>4 DEF Resume
    <3>2. Resumed(i) \in Model
      BY <2>1, ResumedIs
    <3>3. \A k \in Index : status'[Train(k)] = "running" => k = i
      BY <2>1, OneTrains
    <3>4. Resumed(i).step = Resumed(i).step + 0 /\ 0 \in 0 .. BlocksPerRun
      BY <3>2
    <3> HIDE DEF Model
    <3> QED
      BY <2>2, <3>1, <3>2, <3>3, <3>4
  <2>5. CASE Step(i)
    <3>1. /\ trainer'.model.step = trainer.model.step + 1
          /\ trainer'.model.hosts = trainer.model.hosts
          /\ trainer'.model \in Model
          /\ trainer'.phase = "train" /\ trainer.phase = "train"
          /\ trainer'.blocks = trainer.blocks + 1
          /\ trainer.blocks < BlocksPerRun
      BY <2>3, <2>5 DEF Step, Training
    <3>2. \A k \in Index : status[Train(k)] = "running" =>
              /\ trainer.model.step = Resumed(k).step + trainer.blocks
              /\ trainer.model.hosts = Resumed(k).hosts
              /\ Resumed(k).step \in Nat
      BY <3>1, ResumedIs
    <3>3. \A k \in Index : status[Train(k)] = "running" =>
              trainer'.model.step = Resumed(k).step + trainer'.blocks
      BY <3>1, <3>2
    <3>4. trainer'.blocks \in 0 .. BlocksPerRun
      BY <3>1
    <3> HIDE DEF Model
    <3> QED
      BY <2>1, <2>2, <3>1, <3>2, <3>3, <3>4
  <2>6. CASE LeaveLoop(i)
    <3>1. /\ trainer'.model = trainer.model /\ trainer'.blocks = trainer.blocks
          /\ trainer.phase = "train" /\ trainer'.phase = "save"
          /\ trainer'.termed = trainer.termed
          /\ trainer.termed \/ trainer.blocks > 0
      BY <2>3, <2>6 DEF LeaveLoop, Training
    <3> QED
      BY <2>1, <2>2, <3>1
  <2>7. CASE Tick(i)
    <3>1. /\ trainer'.model = trainer.model /\ trainer'.blocks = trainer.blocks
          /\ trainer'.phase = trainer.phase /\ trainer'.termed = trainer.termed
      BY <2>3, <2>7 DEF Tick
    <3> QED
      BY <2>1, <2>2, <3>1
  <2>8. CASE /\ trainer.phase \in {"train", "save"} /\ trainer.clock = TermAt
             /\ trainer' = [trainer EXCEPT !.termed = TRUE]
    <3>1. /\ trainer'.model = trainer.model /\ trainer'.blocks = trainer.blocks
          /\ trainer'.phase = trainer.phase
      BY <2>3, <2>8
    <3>2. trainer'.termed
      BY <2>3, <2>8, Zenon
    <3> QED
      BY <2>1, <2>2, <3>1, <3>2
  <2> QED
    BY <1>4, <2>4, <2>5, <2>6, <2>7, <2>8 DEF InProcess
<1>5. ASSUME NEW i \in Index, Completes(i) PROVE Trained'
  BY <1>2, <1>5 DEF Completes
<1>6. CASE (\E i \in Index : Predicts(i)) \/ Evaluates \/ Reports
  <2>1. /\ \A i \in Index : status'[Train(i)] = status[Train(i)]
        /\ \A i \in Index : file'[ckpt(i)] = file[ckpt(i)]
        /\ trainer' = trainer
    BY <1>6, NoTraining
  <2>2. ASSUME NEW i \in Index PROVE Resumed(i)' = Resumed(i)
    <3>1. i # 1 => i - 1 \in Index
      BY DEF Index
    <3> QED
      BY <2>1, <3>1 DEF Resumed, ckpt
  <2> QED
    BY <2>1, <2>2 DEF Trained
<1> QED
  BY <1>1, <1>3, <1>4, <1>5, <1>6, StepIs

----------------------------------------------------------------------------
(* What is staged out.                                                     *)

\* Nothing before segment i is written again.
LEMMA HandedKept ==
    ASSUME NEW i \in Index, Handed(i),
           \A k \in 1 .. i : /\ file'[ckpt(k)] = file[ckpt(k)]
                             /\ file'[progress(k)] = file[progress(k)]
    PROVE  Handed(i)'
<1>1. i \in 1 .. i /\ (i > 1 => i - 1 \in 1 .. i)
  BY DEF Index
<1> QED
  BY <1>1 DEF Handed

\* A step that completes no job and writes no file.
LEMMA KeptSame ==
    ASSUME Kept, file' = file,
           \A j \in Jobs : status'[j] = "done" <=> status[j] = "done"
    PROVE  Kept'
<1>1. ReportIsTrue => ReportIsTrue'
  BY TrueReportKept
<1>2. \A i \in Index : Handed(i) => Handed(i)'
  BY DEF Handed
<1> QED
  BY <1>1, <1>2, JobsAre DEF Kept

LEMMA ClaimsAre ==
    ASSUME NEW segs, NEW res
    PROVE  /\ Claims(segs, res).steps = res.trained_steps
           /\ Claims(segs, res).sites = {segs[i].host : i \in 1 .. Len(segs)}
           /\ Claims(segs, res).migrations = migration_count(segs)
           /\ Claims(segs, res).restarts = observed_restart(segs)
           /\ Claims(segs, res).unbroken <=>
                  chain_is_checkable(segs) /\ observed_restart(segs) = {}
                    /\ steps_carry_over(segs)
  BY Zenon DEF Claims

\* The claims of a report that is made from a whole chain.
LEMMA TrueReport ==
    ASSUME \A i \in Index : Handed(i) /\ file[prediction(i)].step = file[ckpt(i)].step,
           file[result].trained_steps = file[ckpt(Segments)].step,
           file'[report] = Claims(load_segments, file[result]),
           file'[ckpt(Segments)] = file[ckpt(Segments)]
    PROVE  ReportIsTrue'
<1> DEFINE segs == load_segments
           final == file[ckpt(Segments)]
<1>1. Segments \in Index /\ Handed(Segments)
  BY DEF Index
<1>2. DOMAIN segs = 1 .. Segments /\ Len(segs) = Segments
  BY DEF load_segments, Index
<1>3. \A i \in 1 .. Segments : /\ segs[i].index = i
                               /\ segs[i].step = file[ckpt(i)].step
                               /\ segs[i].host = file[progress(i)].host
  BY DEF load_segments, segment_host, Index, prediction, progress
<1>4. /\ final \in Model /\ Len(final.hosts) = Segments
      /\ DOMAIN final.hosts = 1 .. Segments
      /\ \A i \in 1 .. Segments : final.hosts[i] = segs[i].host
  BY <1>1, <1>3 DEF Handed, Model
<1>5. \A i \in 1 .. Segments - 1 : segs[i + 1].step > segs[i].step
  <2> TAKE i \in 1 .. Segments - 1
  <2>1. i + 1 \in Index /\ i \in Index
    BY DEF Index
  <2>2. file[ckpt(i + 1)].step > file[ckpt(i)].step
    BY <2>1 DEF Handed
  <2> QED
    BY <1>3, <2>1, <2>2 DEF Index
<1>6. \A i \in 1 .. Segments : segs[i].step \in Nat
  BY <1>3 DEF Handed, Model, Index
<1> HIDE DEF segs, final
<1>7. migration_count(segs) = Cardinality({i \in 1 .. Len(final.hosts) - 1 :
                                             final.hosts[i] # final.hosts[i + 1]})
  <2>1. {i \in 1 .. Len(segs) - 1 : segs[i].host # segs[i + 1].host}
          = {i \in 1 .. Len(final.hosts) - 1 : final.hosts[i] # final.hosts[i + 1]}
    BY <1>2, <1>4
  <2> QED
    BY <2>1 DEF migration_count
<1>8. {segs[i].host : i \in 1 .. Len(segs)} = {final.hosts[i] : i \in DOMAIN final.hosts}
  BY <1>2, <1>4
<1>9. observed_restart(segs) = {} /\ steps_carry_over(segs)
  <2>1. \A k \in 1 .. Len(segs) - 1 : ~ segs[k + 1].step <= segs[k].step
    BY <1>2, <1>5, <1>6
  <2>2. steps_carry_over(segs)
    BY <1>2, <1>5 DEF steps_carry_over
  <2> QED
    BY <2>1, <2>2 DEF observed_restart
<1>10. chain_is_checkable(segs) <=> Segments >= 2
  BY <1>2, <1>3 DEF chain_is_checkable
<1>11. file'[report] = Claims(segs, file[result]) /\ file'[ckpt(Segments)] = final
       /\ file[result].trained_steps = final.step
  BY DEF segs, final
<1>12. /\ file'[report].steps = final.step
       /\ file'[report].sites = {segs[i].host : i \in 1 .. Len(segs)}
       /\ file'[report].migrations = migration_count(segs)
       /\ file'[report].restarts = observed_restart(segs)
  BY <1>11, ClaimsAre
<1>13. file'[report].unbroken <=> Segments >= 2 /\ Len(final.hosts) = Segments
  <2> DEFINE whole == chain_is_checkable(segs) /\ observed_restart(segs) = {}
                        /\ steps_carry_over(segs)
  <2>1. file'[report].unbroken <=> whole
    <3>1. Claims(segs, file[result]).unbroken <=> whole
      BY ClaimsAre, Zenon
    <3>2. file'[report].unbroken = Claims(segs, file[result]).unbroken
      BY <1>11
    <3> QED
      BY <3>1, <3>2, Zenon
  <2>2. whole <=> Segments >= 2
    BY <1>9, <1>10
  <2> HIDE DEF whole
  <2> QED
    BY <1>4, <2>1, <2>2, Zenon
<1>14. /\ file'[report].steps = file'[ckpt(Segments)].step
       /\ file'[report].sites = {file'[ckpt(Segments)].hosts[i] :
                                    i \in DOMAIN file'[ckpt(Segments)].hosts}
       /\ file'[report].migrations =
              Cardinality({i \in 1 .. Len(file'[ckpt(Segments)].hosts) - 1 :
                 file'[ckpt(Segments)].hosts[i] # file'[ckpt(Segments)].hosts[i + 1]})
       /\ file'[report].restarts = {}
       /\ Len(file'[ckpt(Segments)].hosts) = Len(final.hosts)
  BY <1>7, <1>8, <1>9, <1>11, <1>12
<1>15. file'[report].unbroken
           <=> Segments >= 2 /\ Len(file'[ckpt(Segments)].hosts) = Segments
  BY <1>13, <1>14, Zenon
<1> QED
  BY <1>14, <1>15, Zenon DEF ReportIsTrue, report, ckpt

LEMMA KeptNext == Inv /\ [Next]_vars => Kept'
<1> SUFFICES ASSUME Inv, [Next]_vars PROVE Kept'
  OBVIOUS
<1> USE DEF Inv
<1>1. CASE UNCHANGED vars
  BY <1>1, KeptSame DEF vars
<1>2. ASSUME NEW j \in Jobs, Match(j) \/ (status[j] = "running" /\ AttemptFails(j))
      PROVE  Kept'
  <2>1. file' = file /\ \A k \in Jobs : status'[k] = "done" <=> status[k] = "done"
    BY <1>2 DEF Match, Ready, AttemptFails, Scheduled
  <2> QED
    BY <2>1, KeptSame
<1>3. ASSUME NEW i \in Index, InProcess(i) PROVE Kept'
  <2>1. status' = status /\ file' = file
    BY <1>3 DEF InProcess
  <2> QED
    BY <2>1, KeptSame
<1>4. ASSUME NEW i \in Index, Completes(i) PROVE Kept'
  <2>1. /\ status[Train(i)] = "running"
        /\ status' = [status EXCEPT ![Train(i)] = "done"]
        /\ file' = [file EXCEPT ![ckpt(i)] = Checkpoint(i), ![progress(i)] = Progress(i)]
        /\ trainer.phase = "save" /\ ~trainer.termed
    BY <1>4 DEF Completes, Training, Succeeds, ckpt, progress
  <2>2. /\ \A k \in Index : status'[Train(k)] = "done" <=> k = i \/ status[Train(k)] = "done"
        /\ \A k \in Index : status'[Predict(k)] = status[Predict(k)]
        /\ status'[Evaluate] = status[Evaluate] /\ status'[Report] = status[Report]
    BY <2>1, JobsAre, JobsDiffer DEF Scheduled
  <2>3. /\ DOMAIN file' = Files
        /\ file'[ckpt(i)] = Checkpoint(i) /\ file'[progress(i)] = Progress(i)
        /\ \A k \in Index \ {i} : file'[ckpt(k)] = file[ckpt(k)]
                                    /\ file'[progress(k)] = file[progress(k)]
        /\ \A k \in Index : file'[prediction(k)] = file[prediction(k)]
        /\ file'[result] = file[result] /\ file'[report] = file[report]
    BY <2>1, FilesAre, FilesDiffer DEF Kept
  <2>4. Handed(i)'
    <3>1. /\ Resumed(i) \in Model /\ Len(Resumed(i).hosts) = i - 1
          /\ \A k \in 1 .. i - 1 : Resumed(i).hosts[k] = file[progress(k)].host
          /\ Resumed(i).step \in 0 .. (i - 1) * BlocksPerRun
          /\ i > 1 => Resumed(i).step = file[ckpt(i - 1)].step
      BY <2>1, ResumedIs
    <3>2. /\ trainer.model \in Model
          /\ trainer.model.step = Resumed(i).step + trainer.blocks
          /\ trainer.model.hosts = Resumed(i).hosts
          /\ trainer.blocks \in 1 .. BlocksPerRun
      BY <2>1 DEF Trained
    <3>3. host[Train(i)] \in Sites
      BY <2>1, JobsAre, JobsDiffer DEF Scheduled, Started
    <3> DEFINE c == Checkpoint(i)
    <3>4. /\ c.step = trainer.model.step
          /\ c.hosts = Append(Resumed(i).hosts, host[Train(i)])
          /\ c \in Model
      <4>1. Append(Resumed(i).hosts, host[Train(i)]) \in Seq(Sites)
        BY <3>1, <3>3, AppendProperties DEF Model
      <4>2. c = [trainer.model EXCEPT !.hosts = Append(Resumed(i).hosts, host[Train(i)])]
        BY <3>2 DEF Checkpoint
      <4> HIDE DEF c
      <4> QED
        BY <3>2, <4>1, <4>2 DEF Model
    <3>5. Progress(i).host = host[Train(i)]
      BY DEF Progress
    <3> HIDE DEF c
    <3>6. /\ Len(c.hosts) = i /\ c.hosts[i] = host[Train(i)]
          /\ \A k \in 1 .. i - 1 : c.hosts[k] = Resumed(i).hosts[k]
      <4> DEFINE hosts == Resumed(i).hosts
      <4>1. hosts \in Seq(Sites) /\ Len(hosts) = i - 1 /\ i - 1 + 1 = i
        BY <3>1 DEF Model, Index
      <4> HIDE DEF hosts
      <4>2. /\ Len(Append(hosts, host[Train(i)])) = i
            /\ Append(hosts, host[Train(i)])[i] = host[Train(i)]
            /\ \A k \in 1 .. i - 1 : Append(hosts, host[Train(i)])[k] = hosts[k]
        BY <3>3, <4>1, AppendProperties
      <4> QED
        BY <3>4, <4>2 DEF hosts
    <3>7. ASSUME NEW k \in 1 .. i PROVE c.hosts[k] = file'[progress(k)].host
      <4>1. CASE k = i
        <5>1. file'[progress(i)].host = host[Train(i)]
          BY <2>3, <3>5
        <5> QED
          BY <3>6, <4>1, <5>1, Zenon
      <4>2. CASE k \in 1 .. i - 1
        <5>1. k \in Index \ {i}
          BY <4>2 DEF Index
        <5>2. file'[progress(k)] = file[progress(k)]
          BY <2>3, <5>1
        <5>3. Resumed(i).hosts[k] = file[progress(k)].host
          BY <3>1, <4>2
        <5>4. c.hosts[k] = Resumed(i).hosts[k]
          BY <3>6, <4>2
        <5> QED
          BY <5>2, <5>3, <5>4
      <4> QED
        BY <4>1, <4>2 DEF Index
    <3>8. c.step \in 1 .. i * BlocksPerRun
      <4> DEFINE before == (i - 1) * BlocksPerRun
                 after == i * BlocksPerRun
      <4>1. before \in Int /\ after \in Int /\ before + BlocksPerRun = after
        BY DEF Index
      <4>2. Resumed(i).step \in 0 .. before
        BY <3>1
      <4> HIDE DEF before, after
      <4>3. c.step \in 1 .. after
        BY <3>2, <3>4, <4>1, <4>2
      <4> QED
        BY <4>3 DEF after
    <3>9. i > 1 => c.step > file'[ckpt(i - 1)].step
      <4> SUFFICES ASSUME i > 1 PROVE c.step > file'[ckpt(i - 1)].step
        OBVIOUS
      <4>1. i - 1 \in Index \ {i}
        BY DEF Index
      <4>2. file'[ckpt(i - 1)].step = Resumed(i).step
        BY <2>3, <3>1, <4>1
      <4>3. Resumed(i).step \in Nat /\ trainer.blocks \in Nat \ {0}
        BY <3>1, <3>2 DEF Model
      <4>4. c.step = Resumed(i).step + trainer.blocks
        BY <3>2, <3>4
      <4> QED
        BY <4>2, <4>3, <4>4
    <3>10. file'[ckpt(i)] = c
      BY <2>3 DEF c
    <3> QED
      BY <3>4, <3>6, <3>7, <3>8, <3>9, <3>10 DEF Handed
  <2>5. ASSUME NEW k \in Index \ {i}, status[Train(k)] = "done" PROVE Handed(k)'
    <3>1. ~ i < k
      BY <2>1, <2>5 DEF Scheduled, Started, Index
    <3> QED
      BY <2>3, <2>5, <3>1, HandedKept DEF Kept, Index
  <2>6. \A k \in Index : status[Predict(k)] = "done" => status[Train(k)] = "done"
    BY JobsAre, ParentsAre DEF Scheduled, Started
  <2>7. status[Evaluate] # "done" /\ status[Report] # "done"
    <3>1. status[Evaluate] = "done" => status[Train(Segments)] = "done"
      BY JobsAre, ParentsAre DEF Scheduled, Started
    <3>2. status[Report] = "done" => status[Train(i)] = "done"
      BY JobsAre, ParentsAre DEF Scheduled, Started
    <3>3. status[Train(Segments)] = "done" => status[Train(i)] = "done"
      BY DEF Scheduled, Started, Index
    <3> QED
      BY <2>1, <3>1, <3>2, <3>3
  <2> QED
    BY <2>1, <2>2, <2>3, <2>4, <2>5, <2>6, <2>7 DEF Kept
<1>5. CASE (\E i \in Index : Predicts(i)) \/ Evaluates \/ Reports
  <2>1. /\ \A i \in Index : status'[Train(i)] = status[Train(i)]
        /\ \A i \in Index : file'[ckpt(i)] = file[ckpt(i)]
        /\ \A i \in Index : file'[progress(i)] = file[progress(i)]
        /\ DOMAIN file' = Files
    BY <1>5, NoTraining
  <2>2. \A i \in Index : IF status'[Train(i)] = "done" THEN Handed(i)'
                                                      ELSE file'[ckpt(i)] = None
    BY <2>1, HandedKept DEF Kept, Index
  <2>3. file'[ckpt(Segments)] = file[ckpt(Segments)]
    BY <2>1 DEF Index
  <2>4. file'[report] = file[report] /\ ReportIsTrue => ReportIsTrue'
    BY <2>3, TrueReportKept
  <2>5. ASSUME NEW i \in Index, Predicts(i) PROVE Kept'
    <3>1. /\ status' = [status EXCEPT ![Predict(i)] = "done"]
          /\ \E h : file' = [file EXCEPT ![prediction(i)] =
                                 [step |-> file[ckpt(i)].step, host |-> h]]
      BY <2>5 DEF Predicts, Produces, Succeeds, prediction, ckpt
    <3>2. /\ file'[prediction(i)].step = file[ckpt(i)].step
          /\ \A k \in Index \ {i} : file'[prediction(k)] = file[prediction(k)]
          /\ file'[result] = file[result] /\ file'[report] = file[report]
      BY <3>1, FilesAre, FilesDiffer DEF Kept
    <3>3. /\ \A k \in Index \ {i} : status'[Predict(k)] = status[Predict(k)]
          /\ status'[Evaluate] = status[Evaluate] /\ status'[Report] = status[Report]
      BY <3>1, JobsAre, JobsDiffer DEF Scheduled
    <3> QED
      BY <2>1, <2>2, <2>3, <2>4, <3>2, <3>3 DEF Kept
  <2>6. CASE Evaluates
    <3>1. /\ status' = [status EXCEPT ![Evaluate] = "done"]
          /\ file' = [file EXCEPT ![result] = [trained_steps |-> file[ckpt(Segments)].step]]
      BY <2>6 DEF Evaluates, Produces, Succeeds, result, ckpt
    <3>2. /\ file'[result].trained_steps = file[ckpt(Segments)].step
          /\ \A k \in Index : file'[prediction(k)] = file[prediction(k)]
          /\ file'[report] = file[report]
      BY <3>1, FilesAre, FilesDiffer DEF Kept
    <3>3. /\ \A k \in Index : status'[Predict(k)] = status[Predict(k)]
          /\ status'[Report] = status[Report]
      BY <3>1, JobsAre, JobsDiffer DEF Scheduled
    <3> QED
      BY <2>1, <2>2, <2>3, <2>4, <3>2, <3>3 DEF Kept
  <2>7. CASE Reports
    <3>1. /\ status[Report] = "running"
          /\ status' = [status EXCEPT ![Report] = "done"]
          /\ file' = [file EXCEPT ![report] = Claims(load_segments, file[result])]
      BY <2>7 DEF Reports, Produces, Succeeds, result, report
    <3>2. /\ file'[report] = Claims(load_segments, file[result])
          /\ \A k \in Index : file'[prediction(k)] = file[prediction(k)]
          /\ file'[result] = file[result]
      BY <3>1, FilesAre, FilesDiffer DEF Kept
    <3>3. /\ \A k \in Index : status'[Predict(k)] = status[Predict(k)]
          /\ status'[Evaluate] = status[Evaluate] /\ status'[Report] = "done"
      BY <3>1, JobsAre, JobsDiffer DEF Scheduled
    <3>4. /\ \A i \in Index : status[Train(i)] = "done" /\ status[Predict(i)] = "done"
          /\ status[Evaluate] = "done"
      BY <3>1, JobsAre, ParentsAre DEF Scheduled, Started
    <3>5. ReportIsTrue'
      BY <2>3, <3>2, <3>4, TrueReport DEF Kept
    <3> QED
      BY <2>1, <2>2, <2>3, <3>2, <3>3, <3>5 DEF Kept
  <2> QED
    BY <1>5, <2>5, <2>6, <2>7
<1> QED
  BY <1>1, <1>2, <1>3, <1>4, <1>5, StepIs

LEMMA InvInit == Init => Inv
<1> SUFFICES ASSUME Init PROVE Inv
  OBVIOUS
<1>1. Scheduled
  BY ScheduledInit
<1>2. Budget
  BY Bounds DEF Init, Budget, TrainerFields, NoTrainer
<1>3. \A j \in Jobs : status[j] = "idle"
  BY DEF Init
<1>4. Trained
  BY <1>3, JobsAre DEF Init, Trained, NoTrainer, NoModel, Model
<1>5. Kept
  <2>1. \A f \in Files : file[f] = None
    BY DEF Init
  <2> QED
    BY <1>3, <2>1, JobsAre, FilesAre DEF Init, Kept
<1> QED
  BY <1>1, <1>2, <1>4, <1>5 DEF Inv

LEMMA InvNext == Inv /\ [Next]_vars => Inv'
  BY ScheduledNext, BudgetNext, TrainedNext, KeptNext DEF Inv

LEMMA Invariance == Spec => []Inv
  BY InvInit, InvNext, PTL DEF Spec

\* DAGMan and the jobs keep to their domains: no attempt too many, and a
\* checkpoint never carries more steps than its segments can have made.
THEOREM TypeCorrect == Spec => []TypeOK
<1>1. Inv => TypeOK
  <2> SUFFICES ASSUME Inv PROVE TypeOK
    OBVIOUS
  <2>1. ASSUME NEW i \in Index, file[ckpt(i)] # None
        PROVE  /\ file[ckpt(i)].step \in 1 .. i * BlocksPerRun
               /\ file[ckpt(i)].hosts \in [1 .. i -> Sites]
    <3>1. Handed(i)
      BY <2>1 DEF Inv, Kept
    <3> QED
      BY <3>1 DEF Handed, Model
  <2>2. trainer.model.step \in Nat
    BY DEF Inv, Trained, Model
  <2> QED
    BY <2>1, <2>2 DEF Inv, Scheduled, Budget, TypeOK, ckpt
<1> QED
  BY <1>1, Invariance, PTL

\* report_higgs: through every failed attempt, retry and placement, the report
\* says of the model that was evaluated what is true of it.
THEOREM TruthfulReport == Spec => []ReportIsTrue
<1>1. Inv => ReportIsTrue
  BY DEF Inv, Kept, ReportIsTrue, report
<1> QED
  BY <1>1, Invariance, PTL

----------------------------------------------------------------------------
(* The workflow is a chained training run.                                 *)

\* The segments that are done are the first so many of them.
Prefix == \E n \in 0 .. Segments : DoneSegments = 1 .. n

LEMMA Interval ==
    ASSUME NEW n \in Nat
    PROVE  Cardinality(1 .. n) = n /\ (1 .. n = {} <=> n = 0)
  BY FS_Interval

\* Completing segment i makes 1 .. i of 1 .. i - 1.
LEMMA CompletesIs ==
    ASSUME Inv, NEW i \in Index, Completes(i)
    PROVE  DoneSegments = 1 .. i - 1 /\ DoneSegments' = 1 .. i
<1>1. /\ status[Train(i)] = "running"
      /\ status' = [status EXCEPT ![Train(i)] = "done"]
  BY DEF Completes, Training, Succeeds
<1>2. \A k \in 1 .. i - 1 : k \in Index /\ status[Train(k)] = "done"
  BY <1>1 DEF Inv, Scheduled, Started, Index
<1>3. \A k \in Index : status[Train(k)] = "done" => k \in 1 .. i - 1
  <2> TAKE k \in Index
  <2>1. ~ i < k \/ status[Train(k)] # "done"
    BY <1>1 DEF Inv, Scheduled, Started, Index
  <2> QED
    BY <1>1, <2>1 DEF Index
<1>4. \A k \in Index : status'[Train(k)] = "done" <=> k = i \/ status[Train(k)] = "done"
  BY <1>1, JobsAre, JobsDiffer DEF Inv, Scheduled
<1>5. DoneSegments = 1 .. i - 1
  BY <1>2, <1>3 DEF DoneSegments
<1>6. 1 .. i = (1 .. i - 1) \cup {i}
  BY DEF Index
<1>7. DoneSegments' = DoneSegments \cup {i}
  BY <1>4 DEF DoneSegments
<1> QED
  BY <1>5, <1>6, <1>7

\* Every other step leaves the segments and their checkpoints as they are.
LEMMA OthersKeep ==
    ASSUME Inv, [Next]_vars, \A i \in Index : ~Completes(i)
    PROVE  /\ DoneSegments' = DoneSegments
           /\ \A i \in Index : file'[ckpt(i)] = file[ckpt(i)]
<1>1. ASSUME NEW j \in Jobs, Match(j) \/ (status[j] = "running" /\ AttemptFails(j))
      PROVE  file' = file /\ \A k \in Jobs : status'[k] = "done" <=> status[k] = "done"
  BY <1>1 DEF Match, Ready, AttemptFails, Inv, Scheduled
<1>2. ASSUME NEW i \in Index, InProcess(i) PROVE status' = status /\ file' = file
  BY <1>2 DEF InProcess
<1>3. CASE (\E i \in Index : Predicts(i)) \/ Evaluates \/ Reports
  BY <1>3, NoTraining DEF Inv, DoneSegments
<1> QED
  BY <1>1, <1>2, <1>3, StepIs, JobsAre DEF vars, DoneSegments

LEMMA PrefixNext == Inv /\ Prefix /\ [Next]_vars => Prefix'
<1> SUFFICES ASSUME Inv, Prefix, [Next]_vars PROVE Prefix'
  OBVIOUS
<1>1. ASSUME NEW i \in Index, Completes(i) PROVE Prefix'
  BY <1>1, CompletesIs DEF Prefix, Index
<1>2. CASE \A i \in Index : ~Completes(i)
  BY <1>2, OthersKeep DEF Prefix
<1> QED
  BY <1>1, <1>2

\* Nothing happens in a run that is over.
LEMMA OverIsOver == Inv /\ Next => outcome = "running"
<1> SUFFICES ASSUME Inv, Next PROVE outcome = "running"
  OBVIOUS
<1>1. PICK j \in Jobs : Ready(j) \/ status[j] = "running"
  <2>1. \A j : Match(j) => Ready(j)
    BY DEF Match
  <2>2. \A i \in Index : InProcess(i) \/ Completes(i) => status[Train(i)] = "running"
    BY DEF InProcess, Completes, Training
  <2>3. \A i \in Index : Predicts(i) => status[Predict(i)] = "running"
    BY DEF Predicts, Produces
  <2>4. (Evaluates => status[Evaluate] = "running") /\ (Reports => status[Report] = "running")
    BY DEF Evaluates, Reports, Produces
  <2> QED
    BY <2>1, <2>2, <2>3, <2>4, StepIs, JobsAre
<1>2. ~Stopped
  BY <1>1 DEF Stopped
<1>3. status[Report] # "done"
  <2>1. ASSUME status[Report] = "done" PROVE \A k \in Jobs : status[k] = "done"
    BY <2>1, JobsAre, ParentsAre DEF Inv, Scheduled
  <2> QED
    BY <1>1, <2>1 DEF Ready
<1> QED
  BY <1>2, <1>3 DEF outcome

LEMMA RunInit == Init => Run!Init
<1> SUFFICES ASSUME Init PROVE Run!Init
  OBVIOUS
<1>1. \A j \in Jobs : status[j] = "idle"
  BY DEF Init
<1>2. DoneSegments = {}
  BY <1>1, JobsAre DEF DoneSegments
<1>3. 1 \in Index /\ Ready(Train(1))
  BY <1>1, JobsAre, ParentsAre DEF Ready, Index
<1>4. outcome = "running"
  BY <1>1, <1>3, JobsAre DEF outcome, Stopped
<1> QED
  BY <1>2, <1>4, FS_EmptySet DEF Run!Init

LEMMA RunNext == Inv /\ Prefix /\ [Next]_vars => [Run!Next]_(Run!vars)
<1> SUFFICES ASSUME Inv, Prefix, [Next]_vars PROVE [Run!Next]_(Run!vars)
  OBVIOUS
<1>1. CASE UNCHANGED vars
  BY <1>1 DEF vars, Run!vars, DoneSegments, outcome, Stopped, Ready
<1>2. ASSUME NEW i \in Index, Next, Completes(i) PROVE Run!CompleteSegment
  <2>1. DoneSegments = 1 .. i - 1 /\ DoneSegments' = 1 .. i
    BY <1>2, CompletesIs
  <2>2. /\ Cardinality(DoneSegments) = i - 1 /\ Cardinality(DoneSegments') = i
        /\ DoneSegments = {} <=> i = 1
        /\ DoneSegments' # {}
    BY <2>1, Interval DEF Index
  <2>3. Handed(i)' /\ i \in DoneSegments'
    BY <1>2, <2>1, KeptNext DEF Kept, DoneSegments, Index
  <2>4. i > 1 => file'[ckpt(i - 1)] = file[ckpt(i - 1)]
    <3>1. file' = [file EXCEPT ![ckpt(i)] = Checkpoint(i), ![progress(i)] = Progress(i)]
      BY <1>2 DEF Completes, ckpt, progress
    <3>2. ckpt(i - 1) # ckpt(i) /\ ckpt(i - 1) # progress(i)
      BY FilesDiffer DEF Index
    <3>3. i > 1 => ckpt(i - 1) \in DOMAIN file
      BY FilesAre DEF Inv, Kept, Index
    <3> QED
      BY <3>1, <3>2, <3>3
  <2>5. /\ i > 1 => file'[ckpt(i)].step > file[ckpt(i - 1)].step
        /\ file'[ckpt(i)].step > 0
    BY <2>3, <2>4 DEF Handed, Model
  <2>6. outcome = "running"
    BY <1>2, OverIsOver
  <2>7. outcome' = "running"
    <3>1. status' = [status EXCEPT ![Train(i)] = "done"] /\ status[Train(i)] = "running"
      BY <1>2 DEF Completes, Training, Succeeds
    <3>2. status[Predict(i)] = "idle" /\ status[Report] # "done"
      BY <3>1, JobsAre, ParentsAre DEF Inv, Scheduled
    <3>3. /\ status'[Predict(i)] = "idle" /\ status'[Report] # "done"
          /\ status'[Train(i)] = "done"
      BY <3>1, <3>2, JobsAre, JobsDiffer DEF Inv, Scheduled
    <3>4. Ready(Predict(i))'
      BY <3>3, ParentsAre DEF Ready
    <3>5. ~Stopped'
      BY <3>4, JobsAre DEF Stopped
    <3> QED
      BY <3>3, <3>5 DEF outcome
  <2> QED
    BY <2>2, <2>5, <2>6, <2>7 DEF Run!CompleteSegment, ckpt, Index
<1>3. ASSUME Next, \A i \in Index : ~Completes(i)
      PROVE  Run!Succeed \/ Run!Fail \/ UNCHANGED Run!vars
  <2>1. /\ DoneSegments' = DoneSegments
        /\ \A i \in Index : file'[ckpt(i)] = file[ckpt(i)]
    BY <1>3, OthersKeep
  <2> DEFINE n == Cardinality(DoneSegments)
             s == IF DoneSegments = {} THEN 0 ELSE file[<<"ckpt", n>>].step
  <2>2. n' = n /\ s' = s
    <3>1. DoneSegments # {} => n \in Index
      BY Interval DEF Prefix, Index
    <3> QED
      BY <2>1, <3>1 DEF ckpt
  <2>3. outcome = "running"
    BY <1>3, OverIsOver
  <2>4. outcome' \in {"running", "failed", "done"}
    BY DEF outcome
  <2>5. outcome' = "done" => n = Segments
    <3>1. ASSUME status'[Report] = "done" PROVE \A i \in Index : status'[Train(i)] = "done"
      BY <1>3, <3>1, ScheduledNext, JobsAre, ParentsAre DEF Inv, Scheduled
    <3>2. ASSUME status'[Report] = "done" PROVE DoneSegments' = 1 .. Segments
      BY <3>1, <3>2 DEF DoneSegments, Index
    <3> QED
      BY <2>1, <3>2, Interval DEF outcome
  <2> QED
    BY <2>2, <2>3, <2>4, <2>5 DEF Run!Succeed, Run!Fail, Run!vars
<1> QED
  BY <1>1, <1>2, <1>3 DEF Run!Next

\* The safety part of ImplementsTrainingRun: through every failure, retry and
\* placement, each segment trains the model the previous one left further, and
\* the run is over only with all of them or as a failure, and then for good.
THEOREM Implements == Spec => Run!Init /\ [][Run!Next]_(Run!vars)
<1>1. Init => Prefix
  <2>1. ASSUME Init PROVE DoneSegments = 1 .. 0
    BY <2>1, JobsAre DEF Init, DoneSegments
  <2> QED
    BY <2>1 DEF Prefix
<1>2. Spec => []Prefix
  BY <1>1, PrefixNext, Invariance, PTL DEF Spec
<1> QED
  BY <1>2, RunInit, RunNext, Invariance, PTL DEF Spec

=============================================================================
