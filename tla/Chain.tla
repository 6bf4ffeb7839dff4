------------------------------- MODULE Chain -------------------------------
(***************************************************************************)
(* The Pegasus workflow: a chain of training segments that hand a          *)
(* checkpoint on, one prediction per segment beside the next segment, a    *)
(* final evaluation and a report, as CarbonHiggsWorkflow emits them        *)
(* (src/pegasus/workflow_generator.py) and as the four workload scripts    *)
(* run (src/carbon_chaser/workload/*_higgs.py).                            *)
(*                                                                         *)
(* The engine that runs the graph is not in the repository.  It is         *)
(* modelled from how the generator uses it: DAGMan starts a job when the   *)
(* producers of its inputs are done and gives it `retry` further attempts, *)
(* kickstart sends SIGTERM and then SIGKILL, and an attempt's outputs are  *)
(* staged out only when it succeeds, so a failed one leaves nothing.       *)
(***************************************************************************)
EXTENDS Integers, Sequences, FiniteSets, SequencesExt

CONSTANTS Segments,     \* --segments
          Minutes,      \* --minutes, in half minutes, so that SIGKILL falls on one
          Sites,        \* hosts of the pool that advertise a price
          Retry,        \* the generator's DAGMan `retry` of train and predict jobs
          BlocksPerRun, \* bound: blocks of gradient steps one attempt can fit
          None

ASSUME SegmentsAssumption == Segments \in Nat \ {0}
ASSUME MinutesAssumption == Minutes \in Nat /\ Minutes >= 2
ASSUME RetryAssumption == Retry \in Nat
ASSUME BlocksAssumption == BlocksPerRun \in Nat \ {0}
ASSUME NoneAssumption == None \notin Sites

-----------------------------------------------------------------------------
(* The graph                                                               *)

Index == 1 .. Segments

Train(i) == <<"train", i>>
Predict(i) == <<"predict", i>>
Evaluate == <<"evaluate", 0>>
Report == <<"report", 0>>

TrainJobs == {Train(i) : i \in Index}
PredictJobs == {Predict(i) : i \in Index}
Jobs == TrainJobs \cup PredictJobs \cup {Evaluate, Report}

\* Every segment has file names of its own: ckpt_001.pt, progress_001.json...
Files == ({"ckpt", "progress", "prediction"} \X Index)
           \cup {<<"result", 0>>, <<"report", 0>>}

Outputs(j) ==
    IF j[1] = "train" THEN {<<"ckpt", j[2]>>, <<"progress", j[2]>>}
    ELSE IF j[1] = "predict" THEN {<<"prediction", j[2]>>}
    ELSE IF j[1] = "evaluate" THEN {<<"result", 0>>}
    ELSE {<<"report", 0>>}

Inputs(j) ==
    IF j[1] = "train" THEN IF j[2] = 1 THEN {} ELSE {<<"ckpt", j[2] - 1>>}
    ELSE IF j[1] = "predict" THEN {<<"ckpt", j[2]>>}
    ELSE IF j[1] = "evaluate" THEN {<<"ckpt", Segments>>}
    ELSE ({"progress", "prediction"} \X Index) \cup {<<"result", 0>>}

\* The planner infers every edge from a file: no edge is written by hand.
Parents == [j \in Jobs |-> {k \in Jobs : Outputs(k) \cap Inputs(j) # {}}]

\* check_unique_producers: generation fails if two jobs produce one file.
UniqueProducers ==
    \A j, k \in Jobs : j # k => Outputs(j) \cap Outputs(k) = {}

\* Attempts DAGMan makes of a job: evaluate and report carry no `retry`.
Attempts(j) == IF j[1] \in {"train", "predict"} THEN 1 + Retry ELSE 1

\* A SIGTERM that meets the trainer's own deadline.
TermAt_once == Minutes * 1

\* segment_timeouts: SIGTERM at twice the trainer's own budget...
TermAt == Minutes * 2

\* ... and SIGKILL half way from there to maxwalltime, three times the budget.
KillAt == TermAt + (Minutes * 3 - TermAt) \div 2

-----------------------------------------------------------------------------
VARIABLES
    status,    \* job -> "idle", "running", "done" or "failed"
    tries,     \* job -> attempts made of a job that has not succeeded
    host,      \* job -> the site that runs or ran it
    trainer,   \* the process of the training segment that is running
    file       \* what was staged out under each file name

vars == <<status, tries, host, trainer, file>>

\* What a checkpoint stands for: its step count and, to be compared with what
\* the report says, the hosts that trained the model in it, oldest first.
NoModel == [step |-> 0, hosts |-> <<>>]

\* No training process.
NoTrainer == [phase |-> "none", model |-> NoModel, blocks |-> 0, clock |-> 0,
              due |-> 0, termed |-> FALSE, slack |-> 0]

\* main generates the workflow, or refuses to and nothing runs.
Init ==
    /\ UniqueProducers
    /\ status = [j \in Jobs |-> "idle"]
    /\ tries = [j \in Jobs |-> 0]
    /\ host = [j \in Jobs |-> None]
    /\ trainer = NoTrainer
    /\ file = [f \in Files |-> None]

Ready(j) == status[j] = "idle" /\ \A p \in Parents[j] : status[p] = "done"

\* DAGMan hands a ready job to the pool, which matches it to any site: the
\* prices at the match are Pool's subject.  The report runs on the submit host.
Match(j) ==
    /\ Ready(j)
    /\ status' = [status EXCEPT ![j] = "running"]
    /\ tries' = [tries EXCEPT ![j] = @ + 1]
    /\ IF j = Report THEN UNCHANGED host
       ELSE \E s \in Sites : host' = [host EXCEPT ![j] = s]
    /\ trainer' = IF j \in TrainJobs THEN [NoTrainer EXCEPT !.phase = "load"]
                                     ELSE trainer
    /\ UNCHANGED file

\* The attempt of j ends without success: DAGMan tries again while it may.
AttemptFails(j) ==
    /\ status' = [status EXCEPT
            ![j] = IF tries[j] < Attempts(j) THEN "idle" ELSE "failed"]
    /\ host' = [host EXCEPT ![j] = None]
    /\ trainer' = IF j \in TrainJobs THEN NoTrainer ELSE trainer
    /\ UNCHANGED <<tries, file>>

\* The attempt of j succeeds: its consumers may start.
Succeeds(j) ==
    /\ status' = [status EXCEPT ![j] = "done"]
    /\ tries' = [tries EXCEPT ![j] = 0]

\* Any attempt may die: its worker, its container, memory, a held job.
Fault(j) == status[j] = "running" /\ AttemptFails(j)

-----------------------------------------------------------------------------
(* train_higgs.main                                                        *)

Training(i, phase) == status[Train(i)] = "running" /\ trainer.phase = phase

\* The checkpoint the segment was told to resume from.
Resumed(i) == IF i = 1 THEN NoModel ELSE file[<<"ckpt", i - 1>>]

\* The process stops loading.  With the in-checkpoint in the sandbox it takes
\* its step count from there; the first segment, which is given none, starts at
\* 0.  The time budget runs from here, after the load.
Resume(i, arrived) ==
    /\ arrived
    /\ trainer' = [trainer EXCEPT !.phase = "train",
                                  !.model = Resumed(i),
                                  !.due = trainer.clock + Minutes]
    /\ UNCHANGED <<status, tries, host, file>>

\* A trainer that restarts silently when its in-checkpoint is not there.
Refuse_restarts(i, arrived) ==
    /\ ~arrived
    /\ trainer' = [trainer EXCEPT !.phase = "train",
                                  !.model = NoModel,
                                  !.due = trainer.clock + Minutes]
    /\ UNCHANGED <<status, tries, host, file>>

\* An in-checkpoint that is not there ends the process with an error: "refusing
\* to silently restart training from scratch and report it as progress".
Refuse(i, arrived) == ~arrived /\ AttemptFails(Train(i))

Loaded(i) ==
    /\ Training(i, "load")
    /\ \E arrived \in IF i = 1 THEN {TRUE} ELSE BOOLEAN :
           Resume(i, arrived) \/ Refuse(i, arrived)

\* Blocks of gradient steps, while neither the deadline nor a signal ends the
\* loop.  (The checkpoint saved every 2000 steps is overwritten by the last one
\* or goes with the sandbox, so it is not kept.)
Step(i) ==
    /\ Training(i, "train")
    /\ ~trainer.termed
    /\ trainer.clock < trainer.due
    /\ trainer.blocks < BlocksPerRun
    /\ trainer' = [trainer EXCEPT !.model.step = @ + 1,
                                  !.blocks = @ + 1]
    /\ UNCHANGED <<status, tries, host, file>>

\* The loop ends at the deadline or on the signal's flag.  The budget is at
\* least a minute and its first check follows the deadline's computation at
\* once, so a loop that ends at its deadline is taken to have made a step.
LeaveLoop(i) ==
    /\ Training(i, "train")
    /\ trainer.termed \/ (trainer.clock >= trainer.due /\ trainer.blocks > 0)
    /\ trainer' = [trainer EXCEPT !.phase = "save"]
    /\ UNCHANGED <<status, tries, host, file>>

\* What main() writes last: the checkpoint, and the progress file that names
\* the host that trained.
Checkpoint(i) == [trainer.model EXCEPT !.hosts = Append(@, host[Train(i)])]
Progress(i) == [step |-> trainer.model.step, host |-> host[Train(i)]]

\* The final evaluation is done and both files are written.  The script exits 0
\* whatever happened, but kickstart fails an attempt that it had to signal.
Exit(i) ==
    /\ Training(i, "save")
    /\ IF trainer.termed
       THEN AttemptFails(Train(i))
       ELSE /\ file' = [file EXCEPT ![<<"ckpt", i>>] = Checkpoint(i),
                                    ![<<"progress", i>>] = Progress(i)]
            /\ Succeeds(Train(i))
            /\ trainer' = NoTrainer
            /\ UNCHANGED host

\* Half a minute passes for the process.  slack counts the time its own budget
\* does not cover: loading, the final evaluation, a loop that hangs.
Tick(i) ==
    /\ status[Train(i)] = "running"
    /\ trainer.clock < KillAt
    /\ trainer.clock = TermAt => trainer.termed
    /\ trainer' = [trainer EXCEPT
            !.clock = @ + 1,
            !.slack = IF trainer.phase = "train" /\ trainer.clock < trainer.due
                      THEN @ ELSE @ + 1]
    /\ UNCHANGED <<status, tries, host, file>>

\* kickstart's SIGTERM.  on_term is installed after the load: until then the
\* signal ends the process.
Terminate(i) ==
    /\ status[Train(i)] = "running"
    /\ trainer.clock = TermAt
    /\ ~trainer.termed
    /\ \/ /\ trainer.phase = "load"
          /\ AttemptFails(Train(i))
       \/ /\ trainer.phase \in {"train", "save"}
          /\ trainer' = [trainer EXCEPT !.termed = TRUE]
          /\ UNCHANGED <<status, tries, host, file>>

\* ... and its SIGKILL.
Kill(i) ==
    /\ status[Train(i)] = "running"
    /\ trainer.clock = KillAt
    /\ AttemptFails(Train(i))

-----------------------------------------------------------------------------
(* predict_higgs, evaluate_higgs, report_higgs                             *)

\* The job succeeds and f is what it leaves.
Produces(j, f, content) ==
    /\ status[j] = "running"
    /\ file' = [file EXCEPT ![f] = content]
    /\ Succeeds(j)
    /\ UNCHANGED <<host, trainer>>

\* A prediction carries the step count of the checkpoint it scored, and the
\* host that scored it, which need not be the one that trained.
Predicts(i) ==
    Produces(Predict(i), <<"prediction", i>>,
             [step |-> file[<<"ckpt", i>>].step, host |-> host[Predict(i)]])

Evaluates ==
    Produces(Evaluate, <<"result", 0>>,
             [trained_steps |-> file[<<"ckpt", Segments>>].step])

\* load_segments: predictions and progress files paired by their number.
segment_host_predict(i) == file[<<"prediction", i>>].host
segment_host(i) == file[<<"progress", i>>].host

load_segments ==
    [i \in Index |-> [index |-> i,
                      step |-> file[<<"prediction", i>>].step,
                      host |-> segment_host(i)]]

\* migration_count over the segments of the report.
migration_count(segs) ==
    Cardinality({i \in 1 .. Len(segs) - 1 : segs[i].host # segs[i + 1].host})

chain_is_checkable(segs) ==
    /\ Len(segs) >= 2
    /\ segs[1].index = 1
    /\ \A i \in 1 .. Len(segs) - 1 : segs[i + 1].index = segs[i].index + 1

\* The later index of adjacent segments whose step count failed to grow.
observed_restart(segs) ==
    {segs[i + 1].index : i \in {k \in 1 .. Len(segs) - 1 :
                                  /\ segs[k + 1].index = segs[k].index + 1
                                  /\ segs[k + 1].step <= segs[k].step}}

steps_carry_over(segs) ==
    \A i \in 1 .. Len(segs) - 1 : segs[i + 1].step > segs[i].step

\* The tiles of kpis and the captions of main: what the report claims.
Claims(segs, result) ==
    [segments |-> Len(segs),
     steps |-> result.trained_steps,
     migrations |-> migration_count(segs),
     sites |-> {segs[i].host : i \in 1 .. Len(segs)},
     unbroken |-> chain_is_checkable(segs) /\ observed_restart(segs) = {}
                    /\ steps_carry_over(segs),
     restarts |-> observed_restart(segs)]

Reports ==
    Produces(Report, <<"report", 0>>,
             Claims(load_segments, file[<<"result", 0>>]))

-----------------------------------------------------------------------------
Trainer(i) == Loaded(i) \/ Step(i) \/ LeaveLoop(i) \/ Exit(i)
Kickstart(i) == Tick(i) \/ Terminate(i) \/ Kill(i)
Works(j) == \/ \E i \in Index : j = Predict(i) /\ Predicts(i)
            \/ j = Evaluate /\ Evaluates
            \/ j = Report /\ Reports

Next ==
    \/ \E j \in Jobs : Match(j) \/ Fault(j) \/ Works(j)
    \/ \E i \in Index : Trainer(i) \/ Kickstart(i)

\* Fairness: the pool matches a ready job in the end, kickstart's clock runs
\* and its signals arrive, and a job under maxwalltime ends one way or another.
\* Nothing is assumed of the trainer: it may hang wherever it is.
Fairness ==
    /\ WF_vars(\E j \in Jobs : Match(j))
    /\ WF_vars(\E i \in Index : Kickstart(i))
    /\ WF_vars(\E j \in Jobs \ TrainJobs : Works(j) \/ Fault(j))

Spec == Init /\ [][Next]_vars /\ Fairness

-----------------------------------------------------------------------------
(* Properties                                                              *)

TypeOK ==
    /\ status \in [Jobs -> {"idle", "running", "done", "failed"}]
    /\ tries \in [Jobs -> 0 .. 1 + Retry]
    /\ host \in [Jobs -> Sites \cup {None}]
    /\ trainer.phase \in {"none", "load", "train", "save"}
    /\ trainer.clock \in 0 .. KillAt
    /\ trainer.slack \in 0 .. trainer.clock
    /\ trainer.model.step \in Nat
    /\ \A i \in Index : file[<<"ckpt", i>>] # None =>
           /\ file[<<"ckpt", i>>].step \in 1 .. i * BlocksPerRun
           /\ file[<<"ckpt", i>>].hosts \in [1 .. i -> Sites]

\* A segment is only ever signalled for a hang: what it spent outside its own
\* budget (loading, the last evaluation, a stuck loop) is at least that budget
\* again.  segment_timeouts learned this by losing whole runs to a SIGTERM that
\* met the trainer's own deadline.
TimeoutIsHang == trainer.termed => trainer.slack >= Minutes

\* Whatever attempts failed and wherever predictions ran, the report tells the
\* truth about the model that was evaluated: its migrations and sites are those
\* of the hosts that trained the surviving checkpoints, its step count is the
\* last one's, and it says "never restarts" exactly when every segment's
\* training is behind that model.
ReportIsTrue ==
    LET report == file[<<"report", 0>>]
        final == file[<<"ckpt", Segments>>]
    IN report # None =>
           /\ report.steps = final.step
           /\ report.sites = {final.hosts[i] : i \in DOMAIN final.hosts}
           /\ report.migrations =
                  Cardinality({i \in 1 .. Len(final.hosts) - 1 :
                                  final.hosts[i] # final.hosts[i + 1]})
           /\ report.unbroken <=> Segments >= 2 /\ Len(final.hosts) = Segments
           /\ report.restarts = {}

\* The jobs of the run are over: the report is made, or some job has used up
\* its attempts and nothing else can start.
Stopped == \A j \in Jobs : status[j] # "running" /\ ~Ready(j)

outcome == IF status[Report] = "done" THEN "done"
           ELSE IF Stopped THEN "failed" ELSE "running"

DoneSegments == {i \in Index : status[Train(i)] = "done"}

Run == INSTANCE TrainingRun
       WITH segments <- Cardinality(DoneSegments),
            steps <- IF DoneSegments = {} THEN 0
                     ELSE file[<<"ckpt", Cardinality(DoneSegments)>>].step,
            outcome <- outcome

\* The workflow implements a chained training run: through every failure, retry
\* and placement, each segment trains the model the previous one left further,
\* and the run ends in a report or as a failed workflow, never hanging.
ImplementsTrainingRun == Run!Spec

=============================================================================
