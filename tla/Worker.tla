------------------------------- MODULE Worker -------------------------------
(***************************************************************************)
(* One worker as SshExecutor drives it (executor.py) and its trainers      *)
(* (workload/train_gpu.py): start, stop and the lock probe as sequences of *)
(* remote commands any of which may be lost, against trainer processes     *)
(* that boot, take train.lock, resume, train, checkpoint and exit.         *)
(*                                                                         *)
(* Calls follow each other, as the engine makes them; a trainer may also   *)
(* be launched by hand at any time.  A lost command is one the caller gave *)
(* up on: its local ssh is killed, which recalls nothing it already sent,  *)
(* so it may still run at the worker.  A probe that finds the lock free    *)
(* holds it for a moment.  Writes of checkpoint.pt and progress.json are   *)
(* replacements, so each is one step.  The other writer of checkpoint.pt   *)
(* is the commit of a transfer to this worker, whatever runs here; it      *)
(* leaves progress.json as it was.  Engine's StopAt and StartAt are the    *)
(* outcomes this module gives to one call.                                 *)
(***************************************************************************)
EXTENDS Integers, FiniteSets

CONSTANTS
    MaxLaunches,        \* bound on the trainers launched
    Targets,            \* --target-steps of trainers launched by hand
    ProgressEvery,      \* PROGRESS_EVERY
    CheckpointEvery,    \* CHECKPOINT_EVERY
    StartProbes,        \* probes start makes before it raises
    StopProbes,         \* probes stop makes before it escalates
    Patience,           \* probes of a stop that may go unanswered
    MaxLosses,          \* bound on the commands lost
    MaxStep,            \* bound on the steps trained
    MaxArrivals         \* bound on the checkpoints transferred here

NoFile == -1
NoTarget == 0

ASSUME WorkerAssumption ==
    /\ MaxLaunches \in Nat /\ Patience \in Nat
    /\ MaxLosses \in Nat /\ MaxStep \in Nat /\ MaxArrivals \in Nat
    /\ StartProbes \in Nat \ {0} /\ StopProbes \in Nat \ {0}
    /\ ProgressEvery \in Nat \ {0} /\ CheckpointEvery \in Nat \ {0}
    /\ Targets \subseteq Nat \ {0}

VARIABLES
    \* the worker
    launched,   \* trainers launched so far, numbered from 1
    proc,       \* what each of them is doing
    flag,       \* trainers whose stop flag is set
    target,     \* their --target-steps
    step,       \* their step counter
    ckpt,       \* step in checkpoint.pt
    progress,   \* progress.json
    probing,    \* a probe holds the lock
    \* the call in progress
    pc,
    attempt,
    seen,       \* what the probe found, before the answer arrives
    answer,     \* how the last call ended
    losses,
    \* What really happened, for the properties only.
    mine,       \* trainers launched by start
    killed,     \* trainers that did not leave by themselves
    signalled,  \* a signal of this stop reached the worker
    arrivals,   \* checkpoints transferred here
    overtaken,  \* trainers whose steps one of them replaced
    matched     \* progress.json was written by no such trainer, since

files   == <<ckpt, progress, arrivals, overtaken, matched>>
call    == <<pc, attempt, seen, answer, losses, signalled>>
trainers == <<launched, proc, flag, target, step, mine, killed>>
vars == <<trainers, files, probing, call>>

Procs  == 1 .. MaxLaunches
Holding == {"loading", "training", "checkpoint", "saving", "reporting", "dying"}
Alive   == Holding \cup {"booting"}
NoProgress == [step |-> NoFile, done |-> FALSE]

TypeOK ==
    /\ launched \in 0 .. MaxLaunches
    /\ proc \in [Procs -> Alive \cup {"unborn", "gone"}]
    /\ flag \subseteq Procs
    /\ target \in [Procs -> Targets \cup {NoTarget}]
    /\ step \in [Procs -> {NoFile} \cup Nat]
    /\ ckpt \in {NoFile} \cup Nat
    /\ progress \in [step : {NoFile} \cup Nat, done : BOOLEAN]
    /\ probing \in BOOLEAN
    /\ pc \in {"idle", "launch", "startProbe", "term", "stopProbe", "kill",
               "lastProbe"}
    /\ attempt \in 0 .. StartProbes \/ attempt \in 0 .. StopProbes
    /\ seen \in {"unasked", "free", "held"}
    /\ answer \in {"none", "started", "raised", "stopped", "unsure"}
    /\ losses \in 0 .. MaxLosses
    /\ mine \subseteq Procs
    /\ killed \subseteq Procs
    /\ signalled \in BOOLEAN
    /\ arrivals \in 0 .. MaxArrivals
    /\ overtaken \subseteq Procs
    /\ matched \in BOOLEAN

Init ==
    /\ launched = 0
    /\ proc = [p \in Procs |-> "unborn"]
    /\ flag = {}
    /\ target = [p \in Procs |-> NoTarget]
    /\ step = [p \in Procs |-> NoFile]
    /\ ckpt = NoFile
    /\ progress = NoProgress
    /\ probing = FALSE
    /\ pc = "idle"
    /\ attempt = 0
    /\ seen = "unasked"
    /\ answer = "none"
    /\ losses = 0
    /\ mine = {}
    /\ killed = {}
    /\ signalled = FALSE
    /\ arrivals = 0
    /\ overtaken = {}
    /\ matched = TRUE

Holders == {p \in Procs : proc[p] \in Holding}

\* A remote command, or its answer, that the control node never sees.
Lose ==
    /\ losses < MaxLosses
    /\ losses' = losses + 1

Boot(p, t) ==
    /\ launched < MaxLaunches
    /\ p = launched + 1
    /\ launched' = p
    /\ proc' = [proc EXCEPT ![p] = "booting"]
    /\ target' = [target EXCEPT ![p] = t]

Return(a) ==
    /\ pc' = "idle"
    /\ answer' = a

----------------------------------------------------------------------------
(* start                                                                   *)

CallStart ==
    /\ pc = "idle"
    /\ launched < MaxLaunches
    /\ pc' = "launch"
    /\ answer' = "none"
    /\ UNCHANGED <<trainers, files, probing, attempt, seen, losses, signalled>>

\* The launch command returns at once; an error raises, launched or not.
Launch(p) ==
    /\ pc = "launch"
    /\ \/ /\ Boot(p, NoTarget)
          /\ mine' = mine \cup {p}
          /\ \/ /\ pc' = "startProbe"
                /\ UNCHANGED <<answer, losses>>
             \/ Lose /\ Return("raised")
       \/ /\ Lose /\ Return("raised")
          /\ UNCHANGED <<launched, proc, target, mine>>
    /\ attempt' = 0
    /\ UNCHANGED <<flag, step, killed, files, probing, seen, signalled>>

----------------------------------------------------------------------------
(* is_running: the probe runs, then its answer arrives or does not.        *)

ProbePcs == {"startProbe", "stopProbe", "lastProbe"}

ProbeRuns ==
    /\ pc \in ProbePcs
    /\ seen = "unasked"
    /\ seen' = IF Holders = {} THEN "free" ELSE "held"
    /\ probing' = (Holders = {})
    /\ UNCHANGED <<trainers, files, pc, attempt, answer, losses, signalled>>

\* What is_running returns: what the probe saw, or None.
Answered(result) ==
    /\ seen # "unasked"
    /\ \/ result = seen /\ UNCHANGED losses
       \/ result = "none" /\ Lose
    /\ seen' = "unasked"
    /\ probing' = FALSE
    /\ UNCHANGED <<trainers, files, signalled>>

CountsUnanswered(result) == IF result = "none" THEN attempt + 1 ELSE attempt
CountsEvery(result) == attempt + 1
NextAttempt(result) == CountsEvery(result)

StartAnswer(result) ==
    /\ pc = "startProbe"
    /\ Answered(result)
    /\ attempt' = NextAttempt(result)
    /\ \/ result = "held" /\ Return("started")
       \/ /\ result # "held"
          /\ attempt' < StartProbes
          /\ UNCHANGED <<pc, answer>>
       \/ /\ result # "held"
          /\ attempt' >= StartProbes
          /\ Return("raised")

ConfirmsUnlessHeld(result) == result # "held"
ConfirmsFree(result) == result = "free"
Confirms(result) == ConfirmsFree(result)

GivesUp(result) == result = "none" /\ attempt >= Patience

InTime == IF attempt + 1 < StopProbes THEN "stopProbe" ELSE "kill"
NextProbe == InTime

StopAnswer(result) ==
    /\ pc = "stopProbe"
    /\ Answered(result)
    /\ attempt' = NextAttempt(result)
    /\ \/ Confirms(result) /\ Return("stopped")
       \/ ~Confirms(result) /\ GivesUp(result) /\ Return("unsure")
       \/ /\ ~Confirms(result) /\ ~GivesUp(result)
          /\ pc' = NextProbe
          /\ UNCHANGED answer

LastAnswer(result) ==
    /\ pc = "lastProbe"
    /\ Answered(result)
    /\ Return(IF Confirms(result) THEN "stopped" ELSE "unsure")
    /\ UNCHANGED attempt

----------------------------------------------------------------------------
(* stop                                                                    *)

CallStop ==
    /\ pc = "idle"
    /\ pc' = "term"
    /\ answer' = "none"
    /\ signalled' = FALSE
    /\ UNCHANGED <<trainers, files, probing, attempt, seen, losses>>

\* The handler is installed after resuming: until then SIGTERM ends a trainer.
Terminated(p) ==
    IF proc[p] = "booting" THEN "gone"
    ELSE IF proc[p] = "loading" THEN "dying" ELSE proc[p]

Terminate ==
    /\ proc' = [p \in Procs |-> Terminated(p)]
    /\ flag' = flag \cup {p \in Procs : proc[p] \in
                            {"training", "checkpoint", "saving", "reporting"}}
    /\ killed' = killed \cup {p \in Procs : proc[p] \in {"booting", "loading"}}

Term ==
    /\ pc = "term"
    /\ \/ /\ Terminate
          /\ signalled' = TRUE
          /\ UNCHANGED losses
       \/ Lose /\ UNCHANGED <<proc, flag, killed, signalled>>
    /\ pc' = "stopProbe"
    /\ attempt' = 0
    /\ UNCHANGED <<launched, target, step, mine, files, probing, seen, answer>>

\* A killed trainer may hold the lock a little longer.
Shot(p) ==
    IF proc[p] = "booting" THEN "gone"
    ELSE IF proc[p] \in Holding THEN "dying" ELSE proc[p]

Shoot ==
    /\ proc' = [p \in Procs |-> Shot(p)]
    /\ killed' = killed \cup {p \in Procs : proc[p] \in Alive}
    /\ UNCHANGED flag

Kill ==
    /\ pc = "kill"
    /\ \/ /\ Shoot
          /\ signalled' = TRUE
          /\ UNCHANGED losses
       \/ Lose /\ UNCHANGED <<proc, flag, killed, signalled>>
    /\ pc' = "lastProbe"
    /\ UNCHANGED <<launched, target, step, mine, files, probing, attempt, seen,
                   answer>>

\* A signal that _ssh gave up on and killed the local end of may run at the worker
\* at any later time.
LateSignal ==
    /\ losses > 0
    /\ Terminate \/ Shoot
    /\ UNCHANGED <<launched, target, step, mine, files, probing, call>>

----------------------------------------------------------------------------
(* The trainer                                                             *)

Becomes(p, s) == proc' = [proc EXCEPT ![p] = s]

TakesAnyway == TRUE
TakesIfFree == Holders = {} /\ ~probing
Takes == TakesIfFree

\* acquire_lock: without it the trainer exits.
AcquireLock(p) ==
    /\ proc[p] = "booting"
    /\ Becomes(p, IF Takes THEN "loading" ELSE "gone")
    /\ UNCHANGED <<launched, flag, target, step, mine, killed, files, probing,
                   call>>

ResumesAtProgress == IF progress.step = NoFile THEN 0 ELSE progress.step
ResumesAtZero == 0
ResumesAtCheckpoint == IF ckpt = NoFile THEN 0 ELSE ckpt
ResumesAt == ResumesAtCheckpoint

Resume(p) ==
    /\ proc[p] = "loading"
    /\ step' = [step EXCEPT ![p] = ResumesAt]
    /\ Becomes(p, "training")
    /\ UNCHANGED <<launched, flag, target, mine, killed, files, probing, call>>

Reached(p) == target[p] # NoTarget /\ step[p] >= target[p]

Due(n) == n % CheckpointEvery = 0

Leaves(p) == p \in flag \/ Reached(p)

Reports(p, done) ==
    /\ progress' = [step |-> step'[p], done |-> done]
    /\ matched' = (p \notin overtaken)

Saves(p) ==
    /\ ckpt' = step[p]
    /\ overtaken' = overtaken \ {p}

\* One iteration, its progress report included.
TrainStep(p) ==
    /\ proc[p] = "training"
    /\ ~Leaves(p)
    /\ step[p] < MaxStep
    /\ step' = [step EXCEPT ![p] = step[p] + 1]
    /\ IF step'[p] % ProgressEvery = 0 THEN Reports(p, FALSE)
       ELSE UNCHANGED <<progress, matched>>
    /\ Becomes(p, IF Due(step'[p]) THEN "checkpoint" ELSE "training")
    /\ UNCHANGED <<launched, flag, target, mine, killed, ckpt, arrivals,
                   overtaken, probing, call>>

Checkpoint(p) ==
    /\ proc[p] = "checkpoint"
    /\ Saves(p)
    /\ Becomes(p, "training")
    /\ UNCHANGED <<launched, flag, target, step, mine, killed, progress,
                   arrivals, matched, probing, call>>

ReportsOnly == "reporting"
SavesFirst == "saving"
AfterLoop == SavesFirst

LeaveLoop(p) ==
    /\ proc[p] = "training"
    /\ Leaves(p)
    /\ Becomes(p, AfterLoop)
    /\ UNCHANGED <<launched, flag, target, step, mine, killed, files, probing,
                   call>>

SaveFinal(p) ==
    /\ proc[p] = "saving"
    /\ Saves(p)
    /\ Becomes(p, "reporting")
    /\ UNCHANGED <<launched, flag, target, step, mine, killed, progress,
                   arrivals, matched, probing, call>>

ReportFinal(p) ==
    /\ proc[p] = "reporting"
    /\ Becomes(p, "gone")
    /\ UNCHANGED <<launched, flag, target, step, mine, killed, ckpt, arrivals,
                   overtaken, probing, call>>
    /\ Reports(p, Reached(p))

\* The kernel finishes off a trainer that was killed.
Expire(p) ==
    /\ proc[p] = "dying"
    /\ Becomes(p, "gone")
    /\ UNCHANGED <<launched, flag, target, step, mine, killed, files, probing,
                   call>>

\* OOM kill or reboot.
Dies(p) ==
    /\ proc[p] \in Alive \ {"dying"}
    /\ Becomes(p, "gone")
    /\ killed' = killed \cup {p}
    /\ UNCHANGED <<launched, flag, target, step, mine, files, probing, call>>

\* An operator's launch, or one that _ssh gave up on and that runs late; the last
\* number is left to start.
HandLaunch(p) ==
    /\ launched + 1 < MaxLaunches
    /\ \E t \in Targets \cup {NoTarget} : Boot(p, t)
    /\ UNCHANGED <<flag, step, mine, killed, files, probing, call>>

\* _commit of a transfer to this worker: the source's trainer was stopped, but
\* nobody looks for one here, and the source may be behind what was here.
CommitArrives(n) ==
    /\ pc = "idle"
    /\ arrivals < MaxArrivals
    /\ arrivals' = arrivals + 1
    /\ ckpt' = n
    /\ overtaken' = {p \in Procs : step[p] # NoFile}
    /\ matched' = FALSE
    /\ UNCHANGED <<trainers, progress, probing, call>>

----------------------------------------------------------------------------
Caller ==
    \/ \E p \in Procs : Launch(p)
    \/ ProbeRuns
    \/ \E result \in {"free", "held", "none"} :
          StartAnswer(result) \/ StopAnswer(result) \/ LastAnswer(result)
    \/ Term \/ Kill

Trainer(p) ==
    \/ AcquireLock(p) \/ Resume(p) \/ TrainStep(p) \/ Checkpoint(p)
    \/ LeaveLoop(p) \/ SaveFinal(p) \/ ReportFinal(p)
    \/ Expire(p)

Next ==
    \/ Caller \/ CallStart \/ CallStop \/ LateSignal
    \/ \E p \in Procs : Trainer(p) \/ Dies(p) \/ HandLaunch(p)
    \/ \E n \in 0 .. MaxStep : CommitArrives(n)

Spec == Init /\ [][Next]_vars

\* Every remote command has a deadline, so a call goes on; trainers run.
FairSpec == Spec /\ WF_vars(Caller) /\ \A p \in Procs : WF_vars(Trainer(p))

----------------------------------------------------------------------------
(* Properties                                                              *)

\* train.lock: the checkpoint of a worker has one writer at a time.
OneWriter == \A p, q \in Holders : p = q

\* train_gpu.py: whoever is killed and whoever resumes, no trainer takes
\* checkpoint.pt back to an earlier step, except one that was running when a
\* transfer replaced the file under it.
CheckpointAdvances ==
    [][\A p \in Procs \ overtaken : Trainer(p) => ckpt' >= ckpt]_vars

\* PROGRESS_EVERY and CHECKPOINT_EVERY: what a trainer reports in progress.json
\* is never more than one checkpoint interval beyond what a restart resumes
\* with, whoever dies or resumes after it.  A transfer's commit ends that: until
\* the next report the file is about a checkpoint that is gone.
ProgressIsBacked ==
    matched /\ progress.step # NoFile =>
        progress.step <= (IF ckpt = NoFile THEN 0 ELSE ckpt) + CheckpointEvery

\* stop sends SIGTERM so that the trainer writes a final checkpoint, and a
\* finished one writes it before it reports: whoever left by itself left every
\* step it trained in checkpoint.pt, and so did whoever reported done, as long
\* as no transfer has replaced the file since.
ExitKeepsWork ==
    /\ \A p \in Procs \ overtaken :
          proc[p] = "gone" /\ p \notin killed => ckpt >= step[p]
    /\ matched /\ progress.done => ckpt >= progress.step

\* Executor.stop: True only when the workload is stopped.  Once a signal of
\* the call has reached the worker, a confirmed stop leaves no trainer of an
\* earlier start, not even one that was still booting.
SignalledStopIsFinal ==
    answer = "stopped" /\ signalled => \A p \in mine : proc[p] = "gone"

\* call_with_timeout: no call blocks the engine for ever.
CallsEnd == pc # "idle" ~> pc = "idle"

=============================================================================
