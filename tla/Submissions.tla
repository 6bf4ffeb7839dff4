---------------------------- MODULE Submissions ----------------------------
(***************************************************************************)
(* What the submit node holds of the workflows submitted to it: the run    *)
(* directories with their braindump.yml and jobstate.log, the job history, *)
(* and the output directories the runs stage into.  It is the world that   *)
(* run_result.py and dashboard.py read (src/pegasus/).                     *)
(*                                                                         *)
(* Pegasus and HTCondor are not in the repository: what they record is     *)
(* modelled from how those two programs read it.  A run goes through its   *)
(* training segments, its evaluation and its report; every file is staged  *)
(* out some time after the job that made it ended.                         *)
(***************************************************************************)
EXTENDS Integers, Sequences, FiniteSets, SequencesExt

CONSTANTS MaxRuns,     \* bound: submissions
          MaxSegments, \* bound: --segments
          Attempts,    \* bound: attempts DAGMan makes of a training job
          Sites,
          OutDirs,     \* values of --output-dir
          Staged,      \* the kinds of output files an instance follows
          MaxTime,     \* bound: the clock
          Slack,       \* WINDOW_SLACK_S
          MinRun,      \* the least time from a plan to its evaluation
          StragglerShares, \* may a run share its --output-dir with a run whose
                           \* directory is gone and which goes on regardless?
          None

ASSUME SubmissionsAssumption ==
    /\ {MaxRuns, MaxSegments, Attempts} \subseteq Nat \ {0}
    /\ {MaxTime, Slack, MinRun} \subseteq Nat
    /\ Staged \subseteq {"progress", "result", "report"}
    /\ StragglerShares \in BOOLEAN
    /\ None \notin Sites \cup OutDirs

\* The order of the run directories, and the identity wf_uuid stands for.
Runs == 1 .. MaxRuns
Segment == 1 .. MaxSegments

\* The files of an output directory: every run gives them the same names.
FileNames ==
    {f \in ({"progress"} \X Segment) \cup {<<"result", 0>>, <<"report", 0>>} :
        f[1] \in Staged}

\* An attempt of a training job in the history, what is known of a run, and of
\* a file: the run that wrote it and when.  (by: 0, or the start request.)
Row == [seg : Segment, site : Sites, ok : BOOLEAN]
Workflow == [by : Nat, segments : Segment]
Submission ==
    [dir : BOOLEAN, live : BOOLEAN, out : OutDirs, workflow : Workflow,
     rows : Seq(Row), done : 0 .. MaxSegments,
     evaluate : {"none", "running", "succeeded", "failed"},
     executed : Nat, planned : Nat, last : Nat, toStage : SUBSET FileNames]
Written == [run : Runs, at : Nat]

ASSUME AbsenceAssumption == None \notin Submission /\ None \notin Written

VARIABLES
    run,   \* run -> what its directory and the history hold, None if not planned
    file,  \* output directory -> file name -> the run that wrote it and when
    now

worldVars == <<run, file, now>>

Planned == {r \in Runs : run[r] # None}
Present == {r \in Planned : run[r].dir}
Live == {r \in Planned : run[r].live}

\* The newest run directory: what `ls -d ... | tail -1` finds.
Current == IF Present = {} THEN None
           ELSE CHOOSE r \in Present : \A q \in Present : q <= r

WorldInit ==
    /\ run = [r \in Runs |-> None]
    /\ file = [d \in OutDirs |-> [f \in FileNames |-> None]]
    /\ now = 0

\* A run as pegasus-plan leaves it: live, or only a directory, when it failed
\* after it made that.  workflow is the higgs-wf.yml it planned: its
\* number of segments, and the submission that generated it.  rows are its
\* training jobs' history ads, one for each attempt; executed is when evaluate
\* last began to execute; last is the last line of its jobstate.log; toStage,
\* the files its jobs have made.
Fresh(workflow, out, live) ==
    [dir |-> TRUE, live |-> live, out |-> out, workflow |-> workflow,
     rows |-> <<>>, done |-> 0, evaluate |-> "none",
     executed |-> 0, planned |-> now, last |-> now, toStage |-> {}]

\* The next submission is planned and, when live, submitted.
PlannedAs(r, workflow, out, live) ==
    /\ r \in Runs /\ run[r] = None /\ \A q \in 1 .. r - 1 : run[q] # None
    /\ StragglerShares \/ \A q \in Live \ Present : run[q].out # out
    /\ run' = [run EXCEPT ![r] = Fresh(workflow, out, live)]

\* The jobs of run r move on, which its jobstate.log records.
Moves(r, new) ==
    /\ r \in Live
    /\ run' = [run EXCEPT ![r] = [new EXCEPT !.last = now]]
    /\ UNCHANGED <<file, now>>

AttemptsOf(r, seg) == Cardinality({i \in DOMAIN run[r].rows : run[r].rows[i].seg = seg})

\* An attempt of the next training job ends: one more history ad.  A failed one
\* is retried while attempts are left, and ends the workflow when none is.
TrainEnds(r) ==
    \E ok \in BOOLEAN, s \in Sites :
        LET seg == run[r].done + 1
            row == [seg |-> seg, site |-> s, ok |-> ok]
        IN /\ r \in Live
           /\ run[r].done < run[r].workflow.segments
           /\ Moves(r, [run[r] EXCEPT
                  !.rows = Append(@, row),
                  !.done = IF ok THEN seg ELSE @,
                  !.live = ok \/ AttemptsOf(r, seg) + 1 < Attempts,
                  !.toStage = IF ok THEN @ \cup ({<<"progress", seg>>} \cap FileNames)
                              ELSE @])

EvaluateExecutes(r) ==
    /\ r \in Live
    /\ run[r].done = run[r].workflow.segments
    /\ run[r].evaluate = "none"
    /\ now >= run[r].planned + MinRun
    /\ Moves(r, [run[r] EXCEPT !.evaluate = "running", !.executed = now])

EvaluateExits(r) ==
    /\ r \in Live
    /\ run[r].evaluate = "running"
    /\ \E ok \in BOOLEAN :
           Moves(r, [run[r] EXCEPT
               !.evaluate = IF ok THEN "succeeded" ELSE "failed",
               !.live = ok,
               !.toStage = IF ok THEN @ \cup ({<<"result", 0>>, <<"report", 0>>} \cap FileNames)
                             ELSE @])

\* A stage-out job copies one file to the run's output directory, over whatever
\* another run left there.
StageOut(r, f) ==
    /\ r \in Live
    /\ f \in run[r].toStage
    /\ file' = [file EXCEPT ![run[r].out][f] = [run |-> r, at |-> now]]
    /\ run' = [run EXCEPT ![r] =
                  [run[r] EXCEPT !.toStage = @ \ {f}, !.last = now,
                                 !.live = run[r].evaluate # "succeeded"
                                            \/ run[r].toStage # {f}]]
    /\ UNCHANGED now

\* Some runs are removed from the queue.  One may outlive it: a straggler.
Removed(gone) ==
    run' = [r \in Runs |-> IF r \in gone THEN [run[r] EXCEPT !.live = FALSE]
                                         ELSE run[r]]

\* `rm -rf wf-runs`, by hand: the directories go, a running DAG does not stop.
Wipe ==
    /\ Present # {}
    /\ run' = [r \in Runs |-> IF r \in Present THEN [run[r] EXCEPT !.dir = FALSE]
                                               ELSE run[r]]
    /\ UNCHANGED <<file, now>>

Tick == now < MaxTime /\ now' = now + 1 /\ UNCHANGED <<run, file>>

RunMoves(r) ==
    \/ TrainEnds(r) \/ EvaluateExecutes(r) \/ EvaluateExits(r)
    \/ \E f \in FileNames : StageOut(r, f)

\* Time and the workflows go on, and directories may be wiped.
WorldGoesOn == (\E r \in Runs : RunMoves(r)) \/ Wipe \/ Tick

\* Seen from a program that only reads: submissions come and go as well.
WorldMoves ==
    \/ WorldGoesOn
    \/ /\ \/ \E gone \in SUBSET Live : gone # {} /\ Removed(gone)
          \/ \E r \in Runs, n \in Segment, out \in OutDirs :
                 PlannedAs(r, [by |-> 0, segments |-> n], out, TRUE)
       /\ UNCHANGED <<file, now>>

WorldTypeOK ==
    /\ run \in [Runs -> Submission \cup {None}]
    /\ \A r \in Planned : run[r].done <= run[r].workflow.segments
    /\ file \in [OutDirs -> [FileNames -> Written \cup {None}]]
    /\ now \in 0 .. MaxTime

-----------------------------------------------------------------------------
(* run_result.main, for a run whose directory is there                     *)

\* runs_sharing_output_dir: any other run directory that names the same one.
runs_sharing_output_dir(r) ==
    {q \in Present \ {r} : run[q].out = run[r].out}

\* The lower bound taken from the run's first timestamp.
earliest_first(r) == run[r].planned

\* result_write_window: evaluate's last EXECUTE, with no slack, ...
earliest(r) == run[r].executed

\* ... and the run's last recorded activity, with the slack of a stage-out.
latest(r) == run[r].last + Slack

\* The refusals in the order main() makes them; "accepted" is exit status 0,
\* and prints whatever file is there.
Verdict(r) ==
    LET found == file[run[r].out][<<"result", 0>>]
    IN IF runs_sharing_output_dir(r) # {} THEN "shared"
       ELSE IF run[r].evaluate # "succeeded" THEN "no result"
       ELSE IF found = None THEN "inconsistent"
       ELSE IF found.at < earliest(r) THEN "too early"
       ELSE IF found.at > latest(r) THEN "too late"
       ELSE "accepted"

\* run_result reports a result for a run only if that run wrote the file, though
\* runs share output directories, outlive their removal and leave files behind
\* when their directories are wiped.
ResultIsOwn ==
    \A r \in Present :
        Verdict(r) = "accepted" => file[run[r].out][<<"result", 0>>].run = r
=============================================================================
