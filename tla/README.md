# Carbon Chaser: a TLA+ verification project

Carbon Chaser keeps one training job running at whichever site of a FABRIC slice
has the cleanest electricity. The repository holds two systems:

* **the live orchestrator** (`src/carbon_chaser/`, documented in
  `src/README-legacy.md`): one Python process that watches carbon intensity,
  stops the trainer at one worker, copies its checkpoint to another over the
  FABRIC dataplane and restarts it there;
* **the Pegasus variant** (`src/pegasus/`, `src/README.md`): a chain of training
  segments that HTCondor matches to the cleanest site, with a dashboard.

This directory models the core of both. TLC checks small instances of every
module; TLAPS proves the type invariants and nearly every safety property the runs
check, of both halves, for every value of the constants.

## 1. Inventory

| Component | Source | State | Operations | Talks to |
|---|---|---|---|---|
| Engine | `carbon_chaser/engine.py` | status, health, active site, stall reference, forced target, migration log, readings, totals, network estimates, calibration; `runs/engine_state.json` | startup reconciliation, tick, stall handling, migration, abort, retry, force-migrate, `state()` | the executor (every remote call), the provider, the power monitor, the link graph, HTTP threads |
| Worker control | `executor.py`: `start`, `stop`, `is_running`, `get_progress`, marker calls | files of each worker: `train.lock`, `progress.json`, `checkpoint.pt`, `active_site` | SSH command sequences that may fail with the effect done or not | the trainers |
| Checkpoint transfer | `executor.py`: `transfer_checkpoint`, `_commit_staged`, relay, `discard_incoming`, `call_with_timeout` | live and staging file of each worker, the relay file, abandoned threads | stage, fingerprint, verify, commit, relay, discard | workers over scp or SFTP |
| Trainer | `workload/train_gpu.py` | the lock, step counter, files above | resume, step, checkpoint, finish, die | file system |
| Carbon providers | `carbon.py`, `clock.py`, `main.py` | trace, replay clock, TTL cache | choose a source or refuse to start, read, interpolate, cache | grid APIs |
| Power | `power.py` | none; reads `power.json` of a site | sample, reject an old sample | trainers |
| Network model | `fabric_metrics.py`; estimate, veto and calibration in `engine.py` | cached link graph, measured rate, setup and orchestration time | refresh, shortest path, predict, veto, calibrate | metrics API |
| Legacy dashboard | `dashboard.py`, `main.py`, `static/` | none | HTTP routes | Engine |
| Higgs workload | `workload/*_higgs.py` | checkpoint, progress, prediction, result and report files | resume or refuse, train to a deadline, save, predict, evaluate, report | files staged by Pegasus, kickstart's signals |
| Workflow | `pegasus/workflow_generator.py`, `workload_contract.py` | the DAG | generate the segment chain with its retries and timeouts | Pegasus, DAGMan, kickstart |
| Carbon advertisement | `pegasus/carbon_classad.py` | trace, override file | publish an ad, lapse an injection | HTCondor startd, negotiator, the dashboard's injections |
| Run attribution | `pegasus/run_result.py` | none; reads the run directories | decide whether a result file is a run's | files of the submit node |
| Workflow dashboard | `pegasus/dashboard.py` | last poll, chart series, start lock and status | poll, serve the report, inject, clear, start | submit node, workers, collector |
| Pool checks | `pegasus/check_pool_match.py`, `fix_pool_hosts.py`, `select_sites.py` | none | compare ads | collector |
| Provisioning, bootstrap, fetcher | `pegasus/provision.py`, `stage_submit_node.py`, `build_notebook.py`, `node_tools/`, `fabric/` | none | scripts | fablib, SSH |

**How the parts interact.** One engine thread runs `run()`: reconcile, then a
tick every `tick_s`. A tick reads carbon and power, estimates the network,
integrates emissions, asks one policy for a target and, if there is one,
migrates *inside the tick*. HTTP threads call `state()` and `force_migration()`
under the same lock, which the engine releases during every remote call.
Workers hold the durable state; the orchestrator can lose contact with any of
them at any time, and cannot tell a dead worker from a silent one. Transfers
through the relay run on daemon threads that are abandoned, never killed, and a
remote command (an `scp`, a launch, a `pkill`) is not recalled when the ssh that
waits for it is lost.

In the Pegasus variant nothing is in charge. The generator emits a graph and
leaves; DAGMan, kickstart and the negotiator run it; each training segment gets
its predecessor's checkpoint as a staged file. The prices the negotiator ranks by
come from a cron job on every worker, by way of the startd and the collector, and
arrive late. The dashboard and `run_result.py` only read what all these leave on
the submit node, in several reads while the workflows go on, and the dashboard's
start action removes and submits workflows there.

**What is hard.** A remote call has three outcomes (done, not done, unknown),
and every decision about a second trainer rests on them; the orchestrator may
die between two remote writes; a retry works with evidence of a different age
than the first attempt; abandoned threads and remote commands go on writing shared
files; readings,
power samples and link graphs are used after they were current; the counters
integrate over intervals in which the site changed. In the Pegasus variant: a
segment may hang, be signalled, die and be retried anywhere; every run gives its
files the same names; runs straggle after their removal; a script abandoned by
its caller goes on, and the notebook submits over the same file without the lock; two clocks meet in every ad.

**What makes each part correct.**

* Engine: never two trainers; the source is at rest while it is copied; an
  engine that is not running starts nothing by itself; it always comes back
  once the faults stop; what it reports about the job is true.
* Transfer: a live checkpoint is whole, never deleted, and the site the
  job resumes at has the newest one, unless a copy that outlived its call wrote
  there; a stalled path ends the call.
* Accounting: each interval is charged once, to measured power and recent
  intensity; moves are spaced.
* Trainer: one writer of a worker's checkpoint; what is reported can be resumed
  from; an orderly exit loses nothing; a signalled stop is final.
* Network: a veto rests on current telemetry; a predicted downtime stays within
  what migrations cost and what the path needs.
* Path search: shortest, total and terminating on any rack graph.
* Workflow and Higgs workload: each segment trains the model the one before it
  left, or the run fails; the run ends; its report is true of the surviving model;
  a timeout means a hang.
* Attribution, dashboard: one run's result, report and energy are never shown as
  another's; what is reported submitted is what was asked for.
* Advertisement and pool checks: a pool that is passed is comparable, the two
  checks agree, fresh means fresh, an injected price lapses.

`PROJECT.json` lists the hazards line by line, those no property covers with the
reason.

## 2. Modules

| Module | Models | Extended by |
|---|---|---|
| `Engine` | reconciliation, tick loop, migration, abort, retry, the HTTP thread's force-migrate, orchestrator crashes, worker outages | `MCEngine`, `EngineProofs` |
| `Transfer` | staged copy, fingerprints, commit, relay, discard, and the copies that outlive their call | `MCTransfer`, `TransferProofs` |
| `Worker` | one worker: `start`, `stop` and the lock probe as remote commands, the trainers they meet, a transfer's commit under them | `MCWorker`, `WorkerProofs` |
| `CarbonFeed` | where readings come from: the choice of a source, the zones a trace answers for, the live feed's cache | `Accounting` |
| `Accounting` | readings, staleness, power samples, both counters, the migration policy | `MCAccounting`, `AccountingProofs` |
| `Network` | link-graph cache, estimates, veto, calibration | `MCNetwork`, `NetworkProofs` |
| `PathSearch` | the breadth-first search of `fabric_metrics.py`, and a reference for it | `Network` |
| `TrainingRun` | the promise of a chained run, with no jobs, hosts or files | instantiated by `Chain` |
| `Chain` | the workflow graph, DAGMan and kickstart, the trainer's life, prediction, evaluation, report | `MCChain`, `ChainProofs` |
| `Submissions` | the submit node: run directories, history, output directories; `run_result.py` | `Console`, `Submit` |
| `Console` | the poller and `GET /report` over a submit node that goes on | `MCConsole`, `DashboardProofs` |
| `Submit` | the start action, its script and thread, and the notebook's submit cell | `MCSubmit`, `DashboardProofs` |
| `Pool` | prices from the workers' cron to the collector, injections, the two coherence checks | `MCPool`, `PoolProofs` |

### Engine

The engine thread is a program counter `pc` that follows the code in order; each
executor call is one step, so everything else interleaves between any two
calls. `probe`, `history`, `risk`, `decide`, `converge`, `adopt` and `launch` are
`_reconcile_on_start`; `persist`, `mark` and `cleared` are the writing of the
state file and the markers and the return to the caller; `tick` to `pick` are
`_tick`, `_handle_stall` and `_pick_target`; `mstop` to `mstart` are `_migrate`;
`astop` and `aresume` are `_abort_migration`; `retry` is the end of an iteration
of `run()`. `origin` says who the evidence is being written for.

`up`, `running`, `launched`, `prog`, `finished`, `ckpt` and `marker` are the
workers' state. `StopAt` and `StartAt` give the outcomes of a call. A stop is
confirmed when the lock was seen free, which is weaker than "no trainer": one that
was launched and has not taken the lock yet (`launched`) may outlive it, and takes
the lock at any later time (`LateStart`). A start raises when the lock was not seen
held: nothing was launched, or a trainer runs all the same, or one is still on its
way. Faults are taken from `FaultKinds` and limited by `MaxFaults`: `outage` (a
worker is lost, possibly in the middle of a call), `wedge` (a trainer survives the
kill), `launch` (a start raises, with a trainer running behind it or none), `late`
(a start raises and its trainer takes the lock after later calls), `transfer`,
`trainer` (it dies), `finish` (it reaches its target), `disk` (the state file cannot
be written), `crash` (the orchestrator dies and a new one starts).

`Histories` is what the slice looks like at startup: nothing ever ran
(`cold`), a recorded run (`warm`), the same from a host without the state file
(`fresh_host`), two trainers left over (`split`).

Abstracted: the policy's choice (any other site; `Accounting` has the policy),
time (a stall window or retry interval may elapse whenever it is open), and the
training step, of which equality and order matter.

### Transfer

A file is the set of checkpoint versions whose bytes it holds: `{}` is no file,
a singleton is a sound checkpoint, `Hole` stands for missing bytes and `Flip` for
damaged ones. Size comparison sees `Hole`, a digest sees everything. An `mv`
carries an open writer along to the live name; an `rm` detaches it. `Relay`
chooses between the SSH executor and the FABRIC one. `Outlives` says which copies
may go on after the call that made them has raised: the relay's download and upload,
whose threads `call_with_timeout` abandons, and `scp`, which runs at the source under
a `timeout 300` of its own while the ssh that waits for it can be lost after three
missed keepalives (`ScpOutlives`). `cur` is the thread being joined, `lost` the
copies left behind, each of which may still open, write, or end at any time.

`late` is a ghost: the files such a copy has touched since they were last replaced,
and those copied from them. It follows the data (`LateAfter`, `MoveIntoPlace`), so
the properties can say that nothing else damages a checkpoint.

### Worker

What `SshExecutor` does to one worker and what the trainers there do, at the grain
of one remote command and one write. `pc` is the place in `start` or `stop`; a
probe takes two steps, the command (`ProbeRuns`, which holds `train.lock` while it
runs) and its answer, so a trainer may boot, exit or die between what was seen
and what is concluded from it. Any command, or its answer, may be lost: `start`
raises, `stop` and `is_running` carry on, as `_ssh` and `_ssh_quiet` do. A trainer
boots, takes the lock or exits, resumes from `checkpoint.pt`, trains, reports,
checkpoints, saves and reports `done`; a signal before its handler is installed
ends it. An operator may launch one more by hand. `CommitArrives` is the `mv` of a
transfer to this worker between two calls (`executor.py:470`): it replaces
`checkpoint.pt`, by any step, and leaves `progress.json` and whatever trainer is
there as they were. `mine`, `killed`, `signalled`, `overtaken` (trainers that had
resumed before the last transfer) and `matched` (a trainer has reported since) are
ghosts. Calls follow each other, as the engine makes them. A command that `_ssh`
gives up on loses its local ssh (`executor.py:345`), which recalls nothing that was
sent: a launch that runs late is one like an operator's, and `LateSignal` is a
`pkill` that runs at any later time.

### CarbonFeed and Accounting

`CarbonFeed` is `carbon.py` and what `main.py` makes of it before anything runs: a
trace that has a row for every zone, or the live feed if there is a token, or no
start at all. A trace answers for the zones with a usable row, the live feed from
its cache for `Ttl` and by a request that may fail after that. A reading carries the
time it was taken, which the engine never learns.

`Accounting` extends it with one tick per time unit in the engine's order of lock
sections (`fresh` published, then the readings, then the integration), so
`state()` can fall between any two. `power.json` has an age. Counters are compared
with ghost totals of what was measured.

### Network and PathSearch

`Network` keeps the refresh that stamps before it asks, the estimate along *some*
shortest path, the prediction, the veto that fails open, and the exponential
averages of `_calibrate`, with the setup it subtracts and the floor under what is
left. `completed`, a ghost, holds the migrations themselves, size, seconds and
downtime, to which predictions are compared. `PathSearch` is the search as the sets of searches after
each number of turns of its loop (`Explore`), a search being the queue and how each
rack was reached: it returns every path some order of neighbours can make it return.
A rack is queued once, so there are no more turns than racks. Beside it is the
reference it is compared with, the racks within n links of the source.

### Chain and TrainingRun

`Chain` has the graph as `create_workflow` declares it: files in, files out, edges
only where one job's output is another's input, `retry` on training and prediction
alone, and the two timeouts `segment_timeouts` derives from the budget. A training
attempt is loaded, resumes or refuses, makes blocks of gradient steps to its
deadline or until a signal, saves and exits; only an attempt that succeeded stages
anything out. A checkpoint is its step count and the hosts that trained it, which
nothing in the code records, so that the report can be compared with them. `slack`
is a ghost: the time outside the trainer's own budget. DAGMan, kickstart and the
faults of a pool are external, modelled from how the generator uses them.

`TrainingRun` is the promise: segments complete one after the other, each with more
steps behind the surviving model than before, and the run ends in success or
failure. `Chain` implements it under the mapping of `Run`: the finished training
jobs, the steps in the last finished checkpoint, and whether the report is made or
nothing can start any more.

### Submissions, Console and Submit

`Submissions` is what both readers see: a run is its directory (which may be wiped
while it goes on), its place in the history, its output directory and the jobs it
has behind it; a staged file is the run that wrote it and when. `Verdict` is
`run_result.main`, refusal by refusal.

`Console` takes a poll as the three reads other processes can come between
(identity, history, files) and a report request as two. A history query may come
back empty, the output of a script may be lost, and a poll may raise, which leaves
the last state to be served with `ok` false. `Submit` takes a start as
the request (which takes the lock), the stages of `START_SCRIPT` and the end of
its thread, which may give up on the script before it ends. The notebook's submit cell
(`build_notebook.py:404-433`) runs the same stages on the same `higgs-wf.yml`
without the lock, each of them between any two of a start's: it is script `Cell`,
and `beside` marks the starts it ran beside. A plan that fails may leave its run
directory behind.

### Pool

A worker is a `Deployment`: its trace's start, span and coverage, its speed,
whether it publishes what a check needs, and how far its clock is off. `CronRuns`
prints an ad from the worker's clock, `UpdateArrives` brings it to the collector
with both clocks, late or never. `check_pool_match.py` has one step for each of its
queries, `replay_coherence` is one look at one answer. Prices themselves are
reduced to where in the trace they were read, whether there is one, and whether it
was injected.

## 3. Runs

Passing runs:

| Run | Question | Bounds and why they are enough |
|---|---|---|
| `engine_reachable` | exclusion, source at rest and refusals, with every fault but outages and late launches, crashes included | two sites: a duplicate needs a source and a target; three faults let a failure hit the call, the recovery and the recovery's recovery |
| `engine_one_process` | migrations that end honestly and a truthful state file, for one process without the retry, with outages and late launches | as above; the retry is the subject of the disagreements below |
| `engine_live` | migrations end, blocks are released, the job keeps coming back; a second trainer found at startup is stopped or reported | two sites, one fault (not `late`), a clean last run or two trainers left over: liveness is about what follows the last fault |
| `transfer` | no damage but from copies that outlive their call, newest resumed, nothing deleted, and the call ends | both executors' legs, all three kinds of leftover, two moves and three versions: a leftover of the first move meets the second, with newer work in between |
| `worker` | one writer, an advancing checkpoint that progress.json stays close to until a transfer replaces it, nothing lost by an orderly exit, stops that are final, calls that end | two trainers, one of which may be launched by hand or late; one lost command and a stop that gives up once a probe after its first goes unanswered; one transfer, of any step; two probes stand for the code's five and ten; checkpoints every second step, a target that is not one of them |
| `accounting` | recent readings, measured savings, one charge per interval, spaced moves | two sites, two intensities, stale window 1, cache 2, dwell 2, power age 2 in three time units: every limit is crossed, the cache outlives the stale window as the code's 300 s outlive its 120 s, and every trace the two sites can have is tried |
| `network` | shortest paths, current vetoes, predictions within what was measured | every graph of three racks; idle and full links; failed and empty answers; three migrations of five kinds in any order: two rates to average, two setups, a setup longer than a whole transfer (the floor of `engine.py:973`), an absurd downtime, the relay |
| `chain` | timeouts mean hangs, the report is true, the run implements `TrainingRun` and ends | three segments: a middle one has both a parent and a child, and two migrations can cancel out; two sites; one retry (the code's two repeat it); a budget of two half minutes, the least in which SIGKILL has a tick of its own |
| `console` | whose report is served, whose energy is shown | two runs of one segment that share an output directory: the one polled and the other; the clock plays no part |
| `submit` | whose result is accepted, whether what was submitted is what was asked for | two runs, two starts and the notebook's cell once; three instants; starts within one second, which gives them one output directory; evaluation no sooner than one instant after planning (`MinRun`); no wiped straggler in a newer run's directory (`StragglerShares`) |
| `pool` | agreement, freshness and comparability of what the checks pass; injected prices lapse | two workers, since the checks compare pairs; ten pairs of deployments, one for each way of disagreeing; offsets beyond the allowance on either side; cron, updates, checks and injections in any order over three instants |

One run ends in a violation, and is a finding:

* `transfer_late` (SSH executor, three moves, three versions): `executor.py:117-118` says
  that "Transfers land on a temp path and are moved into place only after the full
  size is verified, so the live checkpoint is never partial". An `scp` whose ssh was
  lost (`executor.py:409`) shares the staging file with the next move to that worker;
  the `mv` carries the open writer to the live name, and `NeverPartial` fails.

`CHECK_DEADLOCK FALSE` appears where the bounded clock, the bounded number of
moves, launches, runs or steps, or the end of a workflow, stops the model; the Engine runs check deadlock.
No symmetry is used: sites are ordered by the configuration, and temporal
properties are checked.

What the repository says and the code does not do. No run is spent on these; the
settings that show each are given.

* `engine.py:202`, against `README-legacy.md:106-109` ("an aborted migration will not
  resume at the source until the target is confirmed stopped"): the 30 s retry
  reconciles again and starts the job at the source although the target that blocked
  the abort still runs. `AbortHoldsUntilTargetClear` in `Engine` is violated in a
  `warm` history with faults `wedge` and `outage` and the retry enabled.
* `engine.py:208`, against `tests/test_migration_recovery.py:873-875`, whose reason
  covers the retry although the test only exercises startup: the retry promotes a
  run it found finished to `running`. `CompletedStaysCompleted` is violated once
  `finish` is among the faults and the retry is enabled.
* `README-legacy.md:85` ("One trainer, always"): `AtMostOneTrainer` in `Engine` is violated
  with `late` alone. The start at the target raises while its trainer is booting, the
  abort's stop finds the lock free and takes the target for stopped, the job resumes at
  the source, and the late trainer takes its own worker's lock: nineteen steps. Each
  lock still excludes a second trainer of its worker (`OneWriter`); between workers
  nothing does.
* `executor.py:63`: an upload abandoned by its watchdog damages a live checkpoint in the
  way of the finding above: `NeverPartial` is violated with `Relay` and `upload` in
  `Outlives` as well.
* `train_higgs.py:334` says a signalled segment's checkpoint is worth saving because
  "the retry resumes from it". A retry resumes from `--in-checkpoint` alone, the
  predecessor's, and the failed attempt's sandbox is dropped: in `Chain` nothing of
  an attempt that failed is ever read.
* `README-legacy.md:302-303` has staleness bounded by `policy.carbon_max_stale_s`. With
  the live feed the bound is that plus the 300 s for which the provider gives an
  answer again (`carbon.py:64`), which the engine takes for a new one each time:
  `ReadingsAreRecent` in `Accounting` states the sum, and fails without the `Ttl` term.
* `carbon.py:235` has a trace that does not cover a zone "rejected here, not discovered
  per-tick". `trace_zones` counts a zone whose rows are all unusable, which `_load`
  skips: that zone then raises at every tick (`CarbonFeed`, a `trace` that is
  `"unusable"` somewhere).
* `--mode fabric` starts no trainer in this commit: `FabricExecutor.start`
  (`executor.py:613`) and `has_job_state` use attributes its constructor
  (`executor.py:548-566`) never sets. `Transfer` models its transfer, which does not
  use them, as written; `Worker` is about `SshExecutor` alone.
* `pegasus/dashboard.py:834` reports "submitting (wipes the previous run)" where the
  script keeps the run directories on purpose (line 135).

The models show further behaviour that a reader of the docs may not expect. No
run is spent on these; each is visible in the module named.

* `Engine`: with `"crash"` and `"outage"` among the faults, `AtMostOneTrainer` fails:
  the new site is recorded only after its trainer was started (`engine.py:838`),
  so a process that dies in between leaves evidence naming the source, and its
  successor, unable to reach the target, starts a second trainer. This is why
  `OneTrainer` has its assumption.
* `Engine`: markers are not replicated again to a worker that was away, and
  `_discover_history` lets the last readable marker in list order override the
  state file (`engine.py:447`).
* `Engine`: with `"finish"` among the faults and the retry enabled, `StateFileNamesActive`
  fails: the run that `engine.py:208` promotes although it is finished was adopted
  without a state file being written. This is why `StateFileTrue` has its assumption.
* `Engine`: the first tick that sees the kept trainer advance clears the warning
  reconciliation raised about a second one (`engine.py:610`).
* `Transfer`: what is committed need not be what was verified. The relay's digest is
  taken from its own copy, which an abandoned download may have reopened
  (`executor.py:744`), and a leftover that opened the staging file writes it while the
  next move copies to it. `ResumesFromNewest` excepts such files, by `late`.
* `Accounting`: the fresh set is published one lock section before the readings it
  labels (`engine.py:572`); away from the baseline site its power sample ages out
  and pauses both counters (`engine.py:686`); a migration's downtime is charged by
  the next tick, at the new site (`engine.py:684`).
* `Worker`: `stop` can return True over a trainer it never signalled: the launch
  command's answer is lost, so `start` raises; the `pkill` is lost as well, which
  `_ssh_quiet` only prints (`executor.py:383`); the first probe finds the lock free
  because the trainer is still booting. `SignalledStopIsFinal` therefore asks that
  a signal arrived, where `Executor.stop` promises a confirmed stop without it.
* `Worker`: a probe that meets a booting trainer makes it exit, since both try the
  same lock (`executor.py:375`): `start` then raises, or an operator's launch fails.
* `Network`: with nothing free there is no transfer time (`fabric_metrics.py:134`), which
  `_predict_downtime` adds as zero (`engine.py:1005`): a saturated path is allowed where
  a nearly saturated one is vetoed, though `README-legacy.md:74-75` has a migration
  vetoed that exceeds `max_downtime_s`.
* `Network`: an empty answer counts as an answer and leaves the old graph in force
  (`fabric_metrics.py:71`), so `VetoIsCurrent` speaks of answers, not of links.
* `Worker`: a launch that `_ssh` gave up on and that runs after a confirmed stop trains on.
  The lock still excludes a second trainer, which is what `OneWriter` shows.
* `Worker`: from a transfer's commit to the next report `progress.json` is about a checkpoint
  that is gone (`executor.py:470`): it may promise more than a restart resumes with,
  and a trainer still running there may save over the checkpoint that arrived.
  `ProgressIsBacked`, `ExitKeepsWork` and `CheckpointAdvances` are stated up to that.
* `Chain`: `unbroken` in the report rests on every segment making at least one
  step, which the code gets from a first deadline check that follows at once.
* `Console`: with `Attempts = 2`, `EnergyCountedOnce` fails: the energy of a segment
  is joined to every attempt's row (`dashboard.py:536`) and summed as often.
* `Submissions`: `ResultIsOwn` fails with `StragglerShares`: a run whose directory was
  wiped, and which goes on into an output directory a newer run also names, can write
  the newer run's result inside its window; the clash scan reads directories only.
  The upper bound of the window only corroborates: no mutant of it alone is caught.
* `Submit`: `SubmittedAsAsked` lets a start plan the notebook's workflow when the cell
  generated it between the start's own generate and plan (`dashboard.py:140-142`), and
  excepts starts beside an abandoned script (`dashboard.py:818`), which may plan the
  next start's workflow file or write it.
* `Pool`: `PassedIsComparable` excepts a clock put right between a sample and the ad
  that carries it (`SameClock`), which neither program can see, and a check whose
  first query found nobody (`check_pool_match.py:201-204`): ads that arrive between
  its queries are then approved without a look at them.

## 4. Fairness

* `Engine.FairSpec`: the engine thread keeps taking steps (every remote call has a
  timeout, and `run()` catches what a tick raises); a stall window or a retry
  interval that is open again and again does elapse (strong fairness on
  `TickStalled` and `RetryReconcile`: both compare a clock that advances with a
  reference that does not, while other steps of the loop come in between); a
  lost worker comes back. Nothing is assumed of the operator, the trainers'
  progress or the faults, which `MaxFaults` makes finite. Liveness is therefore
  "once faults stop".
* `Transfer.FairSpec`: the calling thread runs, and with it the watchdog of
  `call_with_timeout`. A relay thread may hang for ever, and so may a leftover.
* `Worker.FairSpec`: the call in progress goes on, since each of its commands ends
  with an answer or at its deadline, and every trainer runs. Calls, losses, deaths
  and launches by hand are not assumed to happen or to stop, beyond their bounds.
* `Chain.Fairness`: the pool matches a ready job in the end, kickstart's clock runs
  and its signals arrive, and a job other than training works or fails (it too is
  under `maxwalltime`). Nothing is assumed of the trainer, which may hang anywhere:
  that runs end rests on the timeouts.
* `Pool.Fairness`: time passes, and every worker's cron and updates keep coming,
  which is what STARTD_CRON and the startd are configured to do. Nothing is assumed
  of operators or checks.

## 5. Proofs

Eight modules hold them. None of the theorems is about a bounded instance: workers,
sites, runs, segments, moves, links, traces and every limit are constants of which
only the assumptions named in the modules are used. `PROJECT.json` lists the
theorems with the property each states.

`EngineProofs` (any finite set of workers, any faults and bounds):

* `TypeCorrect`: `Spec => []TypeOK`.
* `SourceStopped`: from the confirmed stop to the start of the target no trainer
  runs at the source, under every fault but `late` (`Prompt`).
* `BlockedTick`: a tick of an engine that is not running starts nothing, where launches
  are prompt.
* `OneTrainer`: `Spec => []AtMostOneTrainer` under `SingleProcess \/
  AlwaysReachable`: one process after a clean run whose retry does not fire, or
  workers that always answer, with prompt launches in both. All of it is needed: TLC
  finds two trainers without it (a crash together with an outage, the retry after a
  blocked abort, a late launch).
* `SplitResolved`: `SplitStoppedOrReported`, under every fault but `late` and for any
  number of trainers left over.
* `MigrationHonest`: `MigrationEndsHonestly`, where no trainer dies by itself: of a
  death between the start and the return the engine cannot know.
* `StateFileTrue`: `StateFileNamesActive`, where the disk takes the writes and no retry
  meets a finished run (section 3).
* `IterationEnds`: `IterationIsBounded`, an action property: each step of the engine
  thread lowers `StepsLeft`, at most `5 * |Sites| + 18`, until the next iteration
  begins; no worker, outage or request raises it. The probes, suspects, extra
  trainers and markers each visit a site once; `Origins` says to which of the two
  callers the writing of the evidence returns.

`TypeOK` is not inductive (`Adopt` and `MigrateStart` make `target` the active
site), so `Typed` adds that a target has been chosen where one is used.

Exclusion is not inductive either: that the target may be started needs the
source to be stopped, that the source may be resumed needs the target to be
stopped, and that a reconciliation may start anything needs every trainer to be
among those it saw or at a site it suspects. The strengthening is
`Typed /\ NothingHidden /\ Exclusive`:

* `NothingLate`: where launches are prompt, none is on its way (`PromptSteps` has what
  the steps then do);
* `NothingHidden`: where workers always answer, none is unknown or suspect;
* `Evidence`: for a single process, the state file names the only trainer there
  can be at the first reconciliation, and no marker contradicts it;
* `Located`: until reconciliation decides, every trainer is at a site still to
  probe, unknown, or seen, and after the suspects are named, suspect or seen;
* `Placed`: at every other control point, the only sites where a trainer can be
  (none where one is about to be started);
* `AtMostOneTrainer` itself.

`StatusHonest`, the invariant behind `BlockedTick`, says that a stall is handled
only while running and that `migrating` appears only inside `_migrate`. `Accounted`
follows the trainers of a split from the probes to the one that is kept: each is
still to be looked for or stopped, at a silent worker, or reported. `Underway` and
`Named` carry the job's site and the state file's across the bookkeeping after a
start; they need to know which call reconciliation and bookkeeping return to
(`Origins`), and that a run nobody finished is not found finished (`Unfinished`).

`TransferProofs` (any set of workers, any numbers of moves and versions):

* `TypeCorrect`, `NeverDeleted`: whatever hangs or fails. `NeverDeleted` needs
  that the file moved into place exists and that no write empties one (`Held`).
* `DamageIsLate`, `NewestResumed`: whatever fails and whatever outlives its call; nothing
  is assumed of `Outlives` or `Relay`. The inductive invariant `Sound` is about the files
  late bytes did not reach: a live one is whole, and the active site's is the newest
  checkpoint; at each control point what `expected`, the relay file and the staging
  file hold (`Phases`); and the joined thread is the one that leg started, writing
  alone (`ThreadAtWork`). `LostTouches` has every write of a leftover marked.
* `MoveEndsInTwelve`: `MoveIsBounded`: each step of the caller lowers `StepsLeft`, which is
  twelve when a move begins. By `Legs`: a leg that raises on the dataplane leads to
  the relay, one that raises on the relay to the return.

`WorkerProofs` (any numbers of trainers, probes, losses and steps, any intervals):

* `TypeCorrect`: with the probe loops inside their bounds.
* `LockExcludes`: `OneWriter` is inductive once types are known: a trainer enters
  the holders only when there is none, and a signal moves a holder to `dying`, which
  still holds.
* `CheckpointOnlyAdvances` and `ExitsAreSaved`: by `Saved`, which says that a trainer
  in its loop is never behind the checkpoint and that one about to report has just
  saved, unless a transfer overtook it; that no other trainer moves the checkpoint
  meanwhile is `OneWriter`. `History` (a trainer's step counter is unset until it
  resumes) covers trainers that exit without the lock.
* `PromisesAreBacked`: `ProgressIsBacked`, by `Backed`: the last multiple of
  `CheckpointEvery` the running trainer has passed is at most what a restart resumes
  with, and by `Overtaking`: while an overtaken trainer writes, nobody has resumed or
  reported since the transfer. `WholeIntervals` and `SameInterval` are the arithmetic
  of multiples of a symbolic interval this takes.
* `StopsForGood`: by `Stopping`: once the signal arrived no trainer of an earlier
  start boots, so a lock found free stays free of them until `stop` returns.
  Signals that arrive late only take trainers away from it.
* `CallsAreBounded`: `CallIsBounded`: each command, probe and answer lowers what a call
  may still need, at most `2 * StartProbes + 1` for a start and `2 * StopProbes + 4` for a
  stop.

`AccountingProofs` (any sites, intensities and limits; `CarbonFeed` included):

* `TypeCorrect`, with `Clocks`: stamps are of the past, and what was charged fits
  before the last tick.
* `RecentReadings`: by `Aged`: what reads as new was taken at most the cache's time
  before, and a reading carried over is still dated by its last real read.
* `OneIntervalCharged` and `MeasuredSavings`: a tick adds to both counters the same
  time, at two intensities of `Levels`, or nothing. `FreshIsRead` has the site that
  is charged among those with a reading.
* `SpacedMoves`: from `Clocks`, since `ended`, the ghost, is never after the stamp
  the policy compares with.

`NetworkProofs` (any racks, links, utilisations and migrations):

* `ShortestPath`: `PathIsShortest`. `RacksFinite` keeps the graph finite; that the search of a
  finite graph is right is `SearchRight`. It follows a search turn by turn
  (`Searching`): the racks seen are walked back to the source along `prev`
  (`Reached`) by as many links as the reference needs (`Nearest`), the queue is in
  order of distance and spans two distances at most (`Outwards`), and the racks
  already looked at have no neighbour unseen (`LookedAt`). The turns made and the
  racks queued add up to the racks seen, so the queue runs empty, and then every
  rack within reach was seen. That the functions defined by recursion over `Nat`
  exist, and what follows by steps of one, is `Iteration` and `NatByStep`, proved
  from the well-foundedness of `<` without an operator parameter.
* `TypeCorrect`: what an estimate computes along its path is a number, because two
  different racks are at least one link apart.
* `CurrentVeto`: where the Ttl is positive. By `Current`: only the last query marks the
  graph as good, and it is stamped. What the search returns plays no part.
* `MeasuredPrediction`: `PredictionIsMeasured`, by `Learned` and `Priced`: what is learned
  lies between costs of completed migrations, an exponential average between what it
  averages, rounding included (`Average`); a rate is never below the slowest throughput,
  since subtracting a setup, floored, only makes a transfer shorter.

`ChainProofs` (any numbers of segments, sites, retries and blocks, any budget of two
half minutes or more):

* `OnlyHangsAreSignalled`: from `Budget`: the clock of a process is its own
  budget's, but for what was spent outside it, and the signal comes only after
  twice the budget.
* `TypeCorrect` and `TruthfulReport`: by `Scheduled /\ Budget /\ Trained /\ Kept`. A job
  that was started has its producers behind it; the running trainer goes on from the
  checkpoint before it; each checkpoint staged out has one host for each segment up
  to its own, those its progress files name, and strictly more steps than the one
  before. The report then pairs as many files as there are segments, and counts its
  migrations where the hosts of the surviving model change.
* `Implements`: the initial states of `Chain` are those of `TrainingRun` under `Run`, and
  each step is one of its steps or a stutter: the safety half of
  `ImplementsTrainingRun`. It needs that the finished segments are the first so many
  (`Prefix`), so that their number goes up by one and the model that survives is the
  last one's.

`DashboardProofs` (any numbers of runs, starts, segments, attempts, sites and output
directories): about `Submit` and `Console`, which share `Submissions`.

* `TypeCorrect` and `AskedIsSubmitted`: by `SubmitInv`. `Exclusive` says that while no
  script was abandoned the only one of the dashboard's under way is that of the start
  that holds the lock, and that a cell under way is marked beside it, so the workflow it
  plans is the one it generated or the cell's.
* `OwnResult`: `ResultIsOwn`, where no straggler shares an output directory with a newer
  run, an evaluation begins at least a unit of the clock after the plan, and result
  files are followed. The first two are needed: the clash scan reads directories
  only, and the write window compares times. By `Stamped` (a file was written in the past, by a run that
  stages there), `Evaluated` and `Apart` (what a run without directory left in a
  newer run's output directory is from before its plan).
* `OwnReport`, `OwnEnergy`: `ServedReportIsCurrent` is inductive, since the bytes that are
  read are checked themselves. For energy, `StateIsOwn`: what is published is always a
  whole answer.
* They rest on `AbsenceAssumption`: `None` is neither a run nor a file.

`PoolProofs` (any workers, traces, speeds, clocks and allowances):

* `PoolInvariant`: `PoolInv`, which the other three need. A sample carries its worker's
  clock at its moment (`Printouts`), the two clocks of an ad differ by the worker's
  offset, less at most the time an update travels (`Collected`), and the rows a check
  holds are samples of before (`Checking`).
* `ProgramsAgree`: the maxima the two programs compute exceed a limit for the same ads.
  `LargestValue`, that finite sets of numbers have a maximum, is proved by the
  well-foundedness of strict inclusion, as no induction is at hand.
* `FreshAds`: the age either way is the difference of two clocks corrected by one pair.
* `PassedPool`, an action property: two positions modulo the span differ by the shorter way round
  (`DeltaIsShorterWay`), which is the distance to the nearest whole number of
  turns, so the allowances of a check add up.

TLC checked the invariants, or the conjuncts they are made of, on the instances
above before they were proved.

Only model-checked:

* everything under fairness, which TLAPS cannot do here: `MigrationEnds`, `JobKeepsRunning`,
  `BlockIsReleased`, `TransferEnds`, `CallsEnd`, `InjectionLapses` and the
  liveness half of `ImplementsTrainingRun`.

Every safety property of the runs, invariant or action property, is a theorem for
all values of the constants (some under the assumptions named above). For three of the
liveness properties the half that is not fairness is a theorem: `IterationEnds`,
`MoveEndsInTwelve` and `CallsAreBounded` bound the steps that fairness must grant.

## 6. Plan

The models are done, and of what TLAPS can reach little is left:

* `OneTrainer` for one process whose retry does fire, with what must then be assumed
  of an aborted migration's target instead, and with late launches, up to the launches
  still on their way;
* `StateFileTrue` with the retry and finished runs, stated of runs that are not finished.

Two compositions are left out for their state spaces: `Engine` over `Transfer`, where
the abort path would meet partial copies, and `Engine` over `Worker`. In both, the
larger module takes the outcomes of the smaller one as they are checked there.

## 7. Not modelled

* Rendering, argument parsing, logging, the notebooks (but for the submit cell)
  and the HTML pages: no state a property is about.
* Of the submit cell: being interrupted and run again, and how it finds the run it
  made (`ls | tail -1`).
* Provisioning, bootstrap and download scripts, `fix_pool_hosts.py` and
  `select_sites.py`: straight-line I/O against external services.
* The numerical content of training, evaluation and figures; the power sampler
  inside `train_higgs.py`.
* Of the carbon providers: interpolation, the replay clock, looping (a zone shorter
  than the longest is clamped to its last value until the wrap, `carbon.py:154`) and
  the provenance text. In `CarbonFeed` a trace gives any level at any time, as if
  taken then.
* The legacy dashboard server: routes over `Engine`'s and `Accounting`'s operations.
  `state()` can run between the publication of the fresh sites and of the readings
  they label (`engine.py:572`); `StaleIsLabelled` in `Accounting` says what the label
  means, and no run checks it, since it restates one assignment.
* Of the workflow dashboard: the chart series and the rows of the queue.
* `LocalExecutor`: a copy within one process, for a trainer (`workload/train.py`) that
  is not in the repository.
* The collector's and negotiator's insides, DAGMan and the metrics API: external,
  present as environment actions.
