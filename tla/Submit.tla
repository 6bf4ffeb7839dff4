------------------------------- MODULE Submit -------------------------------
(***************************************************************************)
(* How a workflow gets submitted: Actions.start of the dashboard           *)
(* (src/pegasus/dashboard.py), whose thread runs START_SCRIPT on the       *)
(* submit node while it holds the start lock, and the submit cell of the   *)
(* notebook (src/pegasus/build_notebook.py), which runs the same sequence  *)
(* on the same node and takes no lock.                                     *)
(***************************************************************************)
EXTENDS Submissions

CONSTANT MaxStarts   \* bound: start requests accepted

ASSUME SubmitAssumption == MaxStarts \in Nat

Starts == 1 .. MaxStarts

\* The scripts on the submit node: one for each start, and the notebook's.
Cell == 0
Scripts == {Cell} \cup Starts

VARIABLES
    lock,      \* Actions._start_lock
    start,     \* Actions.start_status, and the request it is about
    script,    \* START_SCRIPT of each accepted request and the notebook's: where
               \* it has got to, whether the dashboard gave it up and whether the
               \* notebook's ran beside it
    workflow   \* higgs-wf.yml, the one workflow file: whose it is, its segments

vars == <<worldVars, lock, start, script, workflow>>

Init ==
    /\ WorldInit
    /\ lock = FALSE
    /\ start = [state |-> "idle", id |-> 0]
    /\ script = [k \in Scripts |-> [at |-> "none"]]
    /\ workflow = None

-----------------------------------------------------------------------------
(* POST /api/start                                                         *)

\* Every request refused while a submission is under way...
Acquires_always == TRUE

\* ... because the lock is taken without waiting.
Acquires == ~lock

Begun(segments, beside) ==
    [at |-> "remove", segments |-> segments, epoch |-> now, run |-> None,
     abandoned |-> FALSE, beside |-> beside]

UnderWay(k) == script[k].at \in {"remove", "generate", "plan"}

\* start(): the lock is taken, and the thread begins the script.
StartRequested(k, segments) ==
    /\ k \in Starts /\ script[k].at = "none" /\ \A q \in 1 .. k - 1 : script[q].at # "none"
    /\ now \in OutDirs                  \* bound: the epochs an instance follows
    /\ Acquires
    /\ lock' = TRUE
    /\ start' = [state |-> "submitting", id |-> k]
    /\ script' = [script EXCEPT ![k] = Begun(segments, UnderWay(Cell))]
    /\ UNCHANGED <<worldVars, workflow>>

\* The notebook's submit cell is run, whatever the dashboard is doing.
CellBegins(segments) ==
    /\ script[Cell].at = "none"         \* bound: the cell is run once
    /\ now \in OutDirs                  \* bound: the epochs an instance follows
    /\ script' = [k \in Scripts |->
           IF k = Cell THEN Begun(segments, FALSE)
           ELSE IF UnderWay(k) THEN [script[k] EXCEPT !.beside = TRUE]
           ELSE script[k]]
    /\ UNCHANGED <<worldVars, lock, start, workflow>>

-----------------------------------------------------------------------------
(* The script, the same for both but for how its failures are told         *)

At(k, where) == script[k].at = where

\* pegasus-remove of every run directory and condor_rm of everything, then at
\* most ten looks at the queue: what outlives them is left running.
ScriptRemoves(k) ==
    /\ At(k, "remove")
    /\ \E gone \in SUBSET Live : Removed(gone)
    /\ script' = [script EXCEPT ![k].at = "generate"]
    /\ UNCHANGED <<file, now, lock, start, workflow>>

\* workflow_generator.py writes the one higgs-wf.yml of the home directory.
ScriptGenerates(k) ==
    /\ At(k, "generate")
    /\ workflow' = [by |-> k, segments |-> script[k].segments]
    /\ script' = [script EXCEPT ![k].at = "plan"]
    /\ UNCHANGED <<worldVars, lock, start>>

\* pegasus-plan --submit plans whatever that file holds, into wf-output/epoch,
\* the second in which the thread formatted the script.
ScriptPlans(k) ==
    /\ At(k, "plan")
    /\ \E r \in Runs :
           /\ PlannedAs(r, workflow, script[k].epoch, TRUE)
           /\ script' = [script EXCEPT ![k].at = "submitted", ![k].run = r]
    /\ UNCHANGED <<file, now, lock, start, workflow>>

\* GEN_FAILED, PLAN_FAILED, NOT_SUBMITTED: a plan that fails may have made its
\* run directory before it did, with nothing in the queue.
ScriptFails(k) ==
    /\ script[k].at \in {"generate", "plan"}
    /\ script' = [script EXCEPT ![k].at = "failed"]
    /\ \/ UNCHANGED run
       \/ At(k, "plan") /\ \E r \in Runs : PlannedAs(r, workflow, script[k].epoch, FALSE)
    /\ UNCHANGED <<file, now, lock, start, workflow>>

-----------------------------------------------------------------------------
(* The end of a start                                                      *)

\* The script has ended and the thread says how.  Its `finally` releases the lock
\* whatever happened.
StartEnds ==
    /\ start.state = "submitting"
    /\ script[start.id].at \in {"submitted", "failed"}
    /\ start' = [start EXCEPT !.state = script[start.id].at]
    /\ lock' = FALSE
    /\ UNCHANGED <<worldVars, script, workflow>>

\* submit_cmd gives up after 600 s.  What it started on the node goes on.
StartTimesOut ==
    /\ start.state = "submitting"
    /\ UnderWay(start.id)
    /\ start' = [start EXCEPT !.state = "failed"]
    /\ script' = [script EXCEPT ![start.id].abandoned = TRUE]
    /\ lock' = FALSE
    /\ UNCHANGED <<worldVars, workflow>>

-----------------------------------------------------------------------------
World == WorldGoesOn /\ UNCHANGED <<lock, start, script, workflow>>

Script(k) == ScriptRemoves(k) \/ ScriptGenerates(k) \/ ScriptPlans(k) \/ ScriptFails(k)

Next ==
    \/ World
    \/ \E n \in Segment : CellBegins(n) \/ \E k \in Starts : StartRequested(k, n)
    \/ \E k \in Scripts : Script(k)
    \/ StartEnds \/ StartTimesOut

Spec == Init /\ [][Next]_vars

-----------------------------------------------------------------------------
(* Properties                                                              *)

Submitter == [at : {"remove", "generate", "plan", "submitted", "failed"},
              segments : Segment, epoch : OutDirs, run : Runs \cup {None},
              abandoned : BOOLEAN, beside : BOOLEAN]

TypeOK ==
    /\ WorldTypeOK
    /\ lock \in BOOLEAN
    /\ start \in [state : {"idle", "submitting", "submitted", "failed"},
                  id : {0} \cup Starts]
    /\ script \in [Scripts -> Submitter \cup {[at |-> "none"]}]
    /\ workflow \in Workflow \cup {None}

\* What the dashboard says it submitted is what this start asked for: two starts
\* never mix, though all write one workflow file.  Only the notebook's cell, which
\* takes no lock, may have put its own workflow there, and only if it ran beside
\* this start.  (Nor does the lock order a script that was abandoned.)
SubmittedAsAsked ==
    start.state = "submitted"
      /\ (\A k \in Starts : script[k].at # "none" => ~script[k].abandoned)
    => LET mine == script[start.id]
           by == run[mine.run].workflow.by
       IN by = start.id \/ (by = Cell /\ mine.beside)
=============================================================================
