------------------------------ MODULE Console ------------------------------
(***************************************************************************)
(* The workflow dashboard (src/pegasus/dashboard.py) over the submissions  *)
(* of a submit node: a poller thread that runs POLL_SCRIPT and publishes   *)
(* what it parsed, and request threads that serve the published state and  *)
(* the report.  Its start action is in Submit, whose names differ, so that *)
(* the proofs can be about both.                                           *)
(*                                                                         *)
(* The scripts run on the node while the workflows go on, so each is as    *)
(* many steps as it has reads or writes another process can come between.  *)
(***************************************************************************)
EXTENDS Submissions

VARIABLES
    poll,      \* POLL_SCRIPT under way: what it has read
    state,     \* Poller.state: what /state serves
    request    \* GET /report: REPORT_SCRIPT under way, or the last answer

consoleVars == <<poll, state, request>>
allVars == <<worldVars, consoleVars>>

ConsoleInit ==
    /\ WorldInit
    /\ poll = [at |-> "idle"]
    /\ state = [ok |-> FALSE, run |-> None, jobs |-> <<>>, segments_done |-> 0,
                migrations |-> 0, result |-> "pending", report |-> "pending"]
    /\ request = [at |-> "none"]

-----------------------------------------------------------------------------
(* The poller                                                              *)

\* Run directory, uuid and output directory, from one braindump.yml.
PollIdentity ==
    /\ poll.at = "idle"
    /\ poll' = [at |-> "history", run |-> Current,
                out |-> IF Current = None THEN None ELSE run[Current].out]
    /\ UNCHANGED <<worldVars, state, request>>

\* The job ads of that uuid: no other run's, whatever has been submitted since.
\* condor_history prints the newest first; when it fails it prints nothing, and
\* a section that is empty or not JSON is taken as no rows.
PollHistory ==
    /\ poll.at = "history"
    /\ \E rows \in {<<>>} \cup (IF poll.run = None THEN {}
                             ELSE {Reverse(run[poll.run].rows)}) :
          poll' = [at |-> "files", run |-> poll.run, out |-> poll.out,
                   rows |-> rows]
    /\ UNCHANGED <<worldVars, state, request>>

\* A file's stamp against the uuid polled.
Provenance(f, uuid) == IF f = None THEN "pending"
                       ELSE IF f.run = uuid THEN "verified" ELSE "foreign"

\* Files taken as the run's because they are in its directory.
Verified_by_path(files, uuid) ==
    {i \in Segment : files[<<"progress", i>>] # None}

\* Only files that bear the run's uuid may contribute energy.
Verified(files, uuid) ==
    {i \in Segment : Provenance(files[<<"progress", i>>], uuid) = "verified"}

\* The rows sorted by job name; sorting is stable, so the attempts of a segment
\* stay newest first.
ByName(rows) ==
    FlattenSeq([i \in Segment |-> SelectSeq(rows, LAMBDA row : row.seg = i)])

\* attach_measured_energy: each row of a segment takes the energy in that
\* segment's progress file, named here by the run that measured it.
Measured(rows, files, uuid) ==
    [i \in DOMAIN rows |->
        [seg |-> rows[i].seg,
         wh |-> IF rows[i].seg \in Verified(files, uuid)
                THEN files[<<"progress", rows[i].seg>>].run ELSE None]]

Migrations(rows) ==
    Cardinality({i \in 1 .. Len(rows) - 1 : rows[i].site # rows[i + 1].site})

\* What poll_once publishes of the sections it parsed.
Published(uuid, history, files) ==
    LET rows == ByName(history)
    IN [ok |-> TRUE, run |-> uuid,
        jobs |-> Measured(rows, files, uuid),
        segments_done |-> Len(rows),
        migrations |-> Migrations(rows),
        result |-> Provenance(files[<<"result", 0>>], uuid),
        report |-> Provenance(files[<<"report", 0>>], uuid)]

NoFiles == [f \in FileNames |-> None]

PollFiles ==
    /\ poll.at = "files"
    /\ state' = Published(poll.run, poll.rows,
                          IF poll.out = None THEN NoFiles ELSE file[poll.out])
    /\ poll' = [at |-> "idle"]
    /\ UNCHANGED <<worldVars, request>>

\* The script ran and its output is lost: every section is missing, and what is
\* published is a pool without a run.
PollLost ==
    /\ poll.at # "idle"
    /\ state' = Published(None, <<>>, NoFiles)
    /\ poll' = [at |-> "idle"]
    /\ UNCHANGED <<worldVars, request>>

\* A poll that raises leaves the last state to be served, marked as failed.
PollFails ==
    /\ poll.at # "idle"
    /\ state' = [state EXCEPT !.ok = FALSE]
    /\ poll' = [at |-> "idle"]
    /\ UNCHANGED <<worldVars, request>>

-----------------------------------------------------------------------------
(* GET /report                                                             *)

\* REPORT_SCRIPT takes its own identity, from the newest run directory then.
ReportRequested ==
    /\ request.at # "reading"
    /\ request' = [at |-> "reading", run |-> Current,
                   out |-> IF Current = None THEN None ELSE run[Current].out]
    /\ UNCHANGED <<worldVars, poll, state>>

\* The bytes read, if there are any.
Html == IF request.out = None THEN None ELSE file[request.out][<<"report", 0>>]

\* A report offered on the poller's last verdict.
Serves_cached ==
    state.report = "verified" /\ Html # None

\* A report is served when the bytes themselves name the current run.
Serves == Html # None /\ Html.run = request.run

ReportAnswered ==
    /\ request.at = "reading"
    /\ request' = IF Serves THEN [at |-> "served", current |-> request.run,
                                  names |-> Html.run]
                  ELSE [at |-> "none"]
    /\ UNCHANGED <<worldVars, poll, state>>

\* Output that is lost names no run.
ReportLost ==
    /\ request.at = "reading"
    /\ request' = [at |-> "none"]
    /\ UNCHANGED <<worldVars, poll, state>>

-----------------------------------------------------------------------------
\* The workflows are submitted, move on and are removed or wiped meanwhile.
NodeGoesOn == WorldMoves /\ UNCHANGED consoleVars

Polls == PollIdentity \/ PollHistory \/ PollFiles \/ PollLost \/ PollFails

ConsoleNext == NodeGoesOn \/ Polls \/ ReportRequested \/ ReportAnswered \/ ReportLost

ConsoleSpec == ConsoleInit /\ [][ConsoleNext]_allVars

-----------------------------------------------------------------------------
(* Properties                                                              *)

ConsoleTypeOK ==
    /\ WorldTypeOK
    /\ poll.at \in {"idle", "history", "files"}
    /\ request.at \in {"none", "reading", "served"}
    /\ Len(state.jobs) <= MaxSegments * Attempts

\* The bytes served as the report of the current run are that run's, even when
\* the run changed after the last poll or another run writes into the directory.
ServedReportIsCurrent == request.at = "served" => request.names = request.current

\* The energy published for a run was measured in that run: not in one that
\* staged into the same output directory, nor in the next one, should it be
\* submitted half way through a poll.
EnergyIsOwnRuns ==
    \A i \in DOMAIN state.jobs : state.jobs[i].wh \in {state.run, None}

\* A segment's measured energy is in the total once.  It is not when an attempt
\* of the segment was retried: each attempt has a row and all take the energy of
\* the one progress file.  No run checks it; with Attempts = 2 it does not hold.
EnergyCountedOnce ==
    \A i, j \in DOMAIN state.jobs :
        /\ state.jobs[i].seg = state.jobs[j].seg
        /\ None \notin {state.jobs[i].wh, state.jobs[j].wh}
        => i = j
=============================================================================
