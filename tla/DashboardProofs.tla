-------------------------- MODULE DashboardProofs --------------------------
(***************************************************************************)
(* Proofs about what the workflow dashboard does and shows over the        *)
(* Submissions of a submit node, for any number of runs, starts, segments, *)
(* attempts, sites and output directories and any length of time.  Of      *)
(* Submit: what a start planned is its own or a notebook cell's beside it, *)
(* and the result run_result.py accepts for a run is a file that this run  *)
(* wrote.  Of Console, whatever the node does between the reads of a poll: *)
(* the report served and the energy summed belong to the run they are      *)
(* shown under.                                                            *)
(***************************************************************************)
EXTENDS Submit, Console, TLAPS, SequenceTheorems

USE SubmissionsAssumption, AbsenceAssumption, SubmitAssumption

----------------------------------------------------------------------------
(* What a step does to the submissions.                                    *)

RunType == run \in [Runs -> Submission \cup {None}]

\* What a run keeps as long as its directory is there: it was planned once,
\* from one workflow, into one output directory.
Keeps(r) ==
    /\ r \in Planned'
    /\ run'[r].out = run[r].out /\ run'[r].workflow = run[r].workflow
    /\ run'[r].planned = run[r].planned
    /\ run'[r].live => run[r].live

\* Run r moves on: it keeps its directory too, and evaluates no sooner than
\* MinRun after its plan.
MovesOn(r) ==
    /\ Keeps(r)
    /\ run'[r].dir = run[r].dir
    /\ run'[r].done <= run'[r].workflow.segments
    /\ run'[r].evaluate # "none" =>
           \/ run[r].evaluate # "none" /\ run'[r].executed = run[r].executed
           \/ run'[r].executed = now /\ now >= run[r].planned + MinRun

LEMMA PlannedIs ==
    ASSUME RunType
    PROVE  /\ \A r \in Planned : run[r] \in Submission /\ r \in Runs
           /\ \A r \in Runs : run[r] \in Submission => r \in Planned
  BY DEF RunType, Planned

\* Some fields of a run are replaced.
LEMMA Updated ==
    ASSUME NEW x \in Submission
    PROVE  /\ \A rows \in Seq(Row), done \in 0 .. MaxSegments, live \in BOOLEAN,
                 toStage \in SUBSET FileNames, last \in Nat :
                 [x EXCEPT !.rows = rows, !.done = done, !.live = live,
                           !.toStage = toStage, !.last = last] \in Submission
           /\ \A executed \in Nat, last \in Nat :
                 [x EXCEPT !.evaluate = "running", !.executed = executed,
                           !.last = last] \in Submission
           /\ \A evaluate \in {"succeeded", "failed"}, live \in BOOLEAN,
                 toStage \in SUBSET FileNames, last \in Nat :
                 [x EXCEPT !.evaluate = evaluate, !.live = live,
                           !.toStage = toStage, !.last = last] \in Submission
           /\ \A toStage \in SUBSET FileNames, last \in Nat, live \in BOOLEAN :
                 [x EXCEPT !.toStage = toStage, !.last = last, !.live = live] \in Submission
           /\ [x EXCEPT !.live = FALSE] \in Submission
           /\ [x EXCEPT !.dir = FALSE] \in Submission
  BY DEF Submission

\* One run of the submissions is replaced by what it moves on to.
LEMMA OneMoves ==
    ASSUME RunType, NEW r \in Runs, r \in Planned, run[r].live,
           NEW new \in Submission, run' = [run EXCEPT ![r] = new],
           new.out = run[r].out, new.workflow = run[r].workflow,
           new.planned = run[r].planned, new.dir = run[r].dir,
           new.done <= run[r].workflow.segments,
           new.evaluate # "none" =>
               \/ run[r].evaluate # "none" /\ new.executed = run[r].executed
               \/ new.executed = now /\ now >= run[r].planned + MinRun
    PROVE  RunType' /\ MovesOn(r) /\ \A q \in Runs \ {r} : run'[q] = run[q]
<1>1. RunType' /\ run'[r] = new /\ \A q \in Runs \ {r} : run'[q] = run[q]
  BY DEF RunType
<1>2. r \in Planned'
  BY <1>1 DEF Planned
<1> QED
  BY <1>1, <1>2 DEF MovesOn, Keeps

LEMMA TrainEndsKeeps ==
    ASSUME WorldTypeOK, NEW r \in Runs, TrainEnds(r)
    PROVE  RunType' /\ MovesOn(r) /\ \A q \in Runs \ {r} : run'[q] = run[q]
<1>1. PICK ok \in BOOLEAN, s \in Sites :
         LET seg == run[r].done + 1
             row == [seg |-> seg, site |-> s, ok |-> ok]
         IN  /\ r \in Live
             /\ run[r].done < run[r].workflow.segments
             /\ Moves(r, [run[r] EXCEPT
                    !.rows = Append(@, row),
                    !.done = IF ok THEN seg ELSE @,
                    !.live = ok \/ AttemptsOf(r, seg) + 1 < Attempts,
                    !.toStage = IF ok THEN @ \cup ({<<"progress", seg>>} \cap FileNames)
                                ELSE @])
  BY DEF TrainEnds
<1> DEFINE seg == run[r].done + 1
           row == [seg |-> seg, site |-> s, ok |-> ok]
           rows == Append(run[r].rows, row)
           done == IF ok THEN seg ELSE run[r].done
           live == ok \/ AttemptsOf(r, seg) + 1 < Attempts
           staged == IF ok THEN run[r].toStage \cup ({<<"progress", seg>>} \cap FileNames)
                           ELSE run[r].toStage
           new == [run[r] EXCEPT !.rows = rows, !.done = done, !.live = live,
                                 !.toStage = staged, !.last = now]
<1>2. run[r] \in Submission /\ r \in Planned /\ run[r].live
  BY <1>1, PlannedIs DEF WorldTypeOK, RunType, Live
<1>3. seg \in Segment /\ seg <= run[r].workflow.segments
  <2>1. run[r].done \in 0 .. MaxSegments /\ run[r].workflow.segments \in Segment
    BY <1>2 DEF Submission, Workflow
  <2>2. run[r].done < run[r].workflow.segments
    BY <1>1
  <2> QED
    BY <2>1, <2>2 DEF Segment
<1>4. row \in Row
  BY <1>3 DEF Row
<1>5. rows \in Seq(Row)
  BY <1>2, <1>4, AppendProperties DEF Submission
<1>6. done \in 0 .. MaxSegments /\ done <= run[r].workflow.segments
  <2>1. /\ run[r].done \in 0 .. MaxSegments /\ run[r].workflow.segments \in Segment
        /\ run[r].done < run[r].workflow.segments
    BY <1>1, <1>2 DEF Submission, Workflow
  <2> HIDE DEF seg
  <2> QED
    BY <2>1, <1>3 DEF Segment
<1>7. staged \in SUBSET FileNames
  BY <1>2 DEF Submission
<1>8. live \in BOOLEAN /\ now \in Nat
  BY DEF WorldTypeOK
<1>9. run' = [run EXCEPT ![r] = new]
  BY <1>1 DEF Moves
<1> HIDE DEF rows, done, live, staged, new
<1>10. new \in Submission
  BY <1>2, <1>5, <1>6, <1>7, <1>8, Updated DEF new
<1>11. /\ new.out = run[r].out /\ new.workflow = run[r].workflow
       /\ new.planned = run[r].planned /\ new.dir = run[r].dir
       /\ new.evaluate = run[r].evaluate /\ new.executed = run[r].executed
       /\ new.done = done
  BY <1>2 DEF new, Submission
<1> QED
  BY <1>2, <1>6, <1>9, <1>10, <1>11, OneMoves DEF WorldTypeOK, RunType

LEMMA EvaluateExecutesKeeps ==
    ASSUME WorldTypeOK, NEW r \in Runs, EvaluateExecutes(r)
    PROVE  RunType' /\ MovesOn(r) /\ \A q \in Runs \ {r} : run'[q] = run[q]
<1> DEFINE new == [run[r] EXCEPT !.evaluate = "running", !.executed = now, !.last = now]
<1>1. /\ r \in Live /\ now >= run[r].planned + MinRun
      /\ run' = [run EXCEPT ![r] = new]
  BY DEF EvaluateExecutes, Moves
<1>2. run[r] \in Submission /\ r \in Planned /\ run[r].live /\ now \in Nat
  BY <1>1, PlannedIs DEF WorldTypeOK, RunType, Live
<1>3. run[r].done <= run[r].workflow.segments
  BY <1>2 DEF WorldTypeOK
<1>4. new \in Submission
  BY <1>2, Updated
<1>5. /\ new.out = run[r].out /\ new.workflow = run[r].workflow
      /\ new.planned = run[r].planned /\ new.dir = run[r].dir
      /\ new.executed = now /\ new.done = run[r].done
  BY <1>2 DEF Submission
<1> HIDE DEF new
<1> QED
  BY <1>1, <1>2, <1>3, <1>4, <1>5, OneMoves DEF WorldTypeOK, RunType

LEMMA EvaluateExitsKeeps ==
    ASSUME WorldTypeOK, NEW r \in Runs, EvaluateExits(r)
    PROVE  RunType' /\ MovesOn(r) /\ \A q \in Runs \ {r} : run'[q] = run[q]
<1>1. PICK ok \in BOOLEAN :
         Moves(r, [run[r] EXCEPT
             !.evaluate = IF ok THEN "succeeded" ELSE "failed",
             !.live = ok,
             !.toStage = IF ok THEN @ \cup ({<<"result", 0>>, <<"report", 0>>} \cap FileNames)
                         ELSE @])
  BY DEF EvaluateExits
<1> DEFINE evaluate == IF ok THEN "succeeded" ELSE "failed"
           staged == IF ok THEN run[r].toStage
                                  \cup ({<<"result", 0>>, <<"report", 0>>} \cap FileNames)
                           ELSE run[r].toStage
           new == [run[r] EXCEPT !.evaluate = evaluate, !.live = ok,
                                 !.toStage = staged, !.last = now]
<1>2. r \in Live /\ run[r].evaluate = "running" /\ run' = [run EXCEPT ![r] = new]
  BY <1>1 DEF EvaluateExits, Moves
<1>3. run[r] \in Submission /\ r \in Planned /\ run[r].live /\ now \in Nat
  BY <1>2, PlannedIs DEF WorldTypeOK, RunType, Live
<1>4. run[r].done <= run[r].workflow.segments
  BY <1>3 DEF WorldTypeOK
<1>5. evaluate \in {"succeeded", "failed"}
  OBVIOUS
<1>6. staged \in SUBSET FileNames
  BY <1>3 DEF Submission
<1> HIDE DEF evaluate, staged, new
<1>7. new \in Submission
  BY <1>3, <1>5, <1>6, Updated DEF new
<1>8. /\ new.out = run[r].out /\ new.workflow = run[r].workflow
      /\ new.planned = run[r].planned /\ new.dir = run[r].dir
      /\ new.executed = run[r].executed /\ new.done = run[r].done
  BY <1>3 DEF new, Submission
<1> QED
  BY <1>2, <1>3, <1>4, <1>7, <1>8, OneMoves DEF WorldTypeOK, RunType

LEMMA StageOutKeeps ==
    ASSUME WorldTypeOK, NEW r \in Runs, NEW f \in FileNames, StageOut(r, f)
    PROVE  RunType' /\ MovesOn(r) /\ \A q \in Runs \ {r} : run'[q] = run[q]
<1> DEFINE staged == run[r].toStage \ {f}
           live == run[r].evaluate # "succeeded" \/ run[r].toStage # {f}
           new == [run[r] EXCEPT !.toStage = staged, !.last = now, !.live = live]
<1>1. r \in Live
  BY DEF StageOut
<1>2. run[r] \in Submission /\ r \in Planned /\ run[r].live /\ now \in Nat
  BY <1>1, PlannedIs DEF WorldTypeOK, RunType, Live
<1>3. run[r].done <= run[r].workflow.segments
  BY <1>2 DEF WorldTypeOK
<1>4. staged \in SUBSET FileNames /\ live \in BOOLEAN
  BY <1>2 DEF Submission
<1>5. run' = [run EXCEPT ![r] = new]
  BY DEF StageOut
<1> HIDE DEF staged, live
<1>6. new \in Submission
  BY <1>2, <1>4, Updated
<1>7. /\ new.out = run[r].out /\ new.workflow = run[r].workflow
      /\ new.planned = run[r].planned /\ new.dir = run[r].dir
      /\ new.evaluate = run[r].evaluate
      /\ new.executed = run[r].executed /\ new.done = run[r].done
  BY <1>2 DEF Submission
<1> HIDE DEF new
<1> QED
  BY <1>2, <1>3, <1>5, <1>6, <1>7, OneMoves DEF WorldTypeOK, RunType

----------------------------------------------------------------------------
(* The steps of the submissions, by what they change.                      *)

\* All runs keep their directories; time may pass.
AllMoveOn ==
    /\ RunType' /\ Planned' = Planned
    /\ \A r \in Planned : MovesOn(r)
    /\ now' \in 0 .. MaxTime /\ now <= now'

\* Run r writes file f into its output directory.
Writes(r, f) ==
    /\ r \in Live /\ f \in FileNames
    /\ file' = [file EXCEPT ![run[r].out][f] = [run |-> r, at |-> now]]

Clears ==
    /\ RunType' /\ Planned' = Planned
    /\ \A r \in Planned : /\ Keeps(r) /\ run'[r].done = run[r].done
                          /\ run'[r].evaluate = run[r].evaluate
                          /\ run'[r].executed = run[r].executed
    /\ Present' = {}
    /\ UNCHANGED <<file, now>>

LEMMA OneMovesOn ==
    ASSUME WorldTypeOK, NEW r \in Planned, RunType', MovesOn(r),
           \A q \in Runs \ {r} : run'[q] = run[q], UNCHANGED now
    PROVE  AllMoveOn
<1>1. Planned' = Planned
  BY DEF Planned, MovesOn, Keeps
<1>2. ASSUME NEW q \in Planned \ {r} PROVE MovesOn(q)
  BY <1>1, <1>2 DEF MovesOn, Keeps, WorldTypeOK, Planned
<1> QED
  BY <1>1, <1>2 DEF AllMoveOn, WorldTypeOK

LEMMA RunMovesOn ==
    ASSUME WorldTypeOK, NEW r \in Runs, RunMoves(r)
    PROVE  /\ AllMoveOn
           /\ UNCHANGED file \/ \E f \in FileNames : Writes(r, f)
<1>1. r \in Planned
  BY DEF RunMoves, TrainEnds, EvaluateExecutes, EvaluateExits, StageOut, Live
<1>2. RunType' /\ MovesOn(r) /\ \A q \in Runs \ {r} : run'[q] = run[q]
  BY TrainEndsKeeps, EvaluateExecutesKeeps, EvaluateExitsKeeps, StageOutKeeps DEF RunMoves
<1>3. ASSUME NEW new, Moves(r, new) PROVE UNCHANGED <<file, now>>
  BY <1>3 DEF Moves
<1>4. CASE TrainEnds(r) \/ EvaluateExecutes(r) \/ EvaluateExits(r)
  <2>1. UNCHANGED <<file, now>>
    BY <1>4, <1>3 DEF TrainEnds, EvaluateExecutes, EvaluateExits
  <2> QED
    BY <1>1, <1>2, <2>1, OneMovesOn
<1>5. ASSUME NEW f \in FileNames, StageOut(r, f) PROVE Writes(r, f) /\ UNCHANGED now
  BY <1>5 DEF StageOut, Writes
<1> QED
  BY <1>1, <1>2, <1>4, <1>5, OneMovesOn DEF RunMoves

LEMMA RemovedMovesOn ==
    ASSUME WorldTypeOK, NEW gone \in SUBSET Live, Removed(gone), UNCHANGED now
    PROVE  AllMoveOn
<1>1. gone \subseteq Planned
  BY DEF Live
<1>2. \A r \in Planned : run'[r] \in Submission
                         /\ run'[r] \in {run[r], [run[r] EXCEPT !.live = FALSE]}
  BY PlannedIs, Updated DEF Removed, WorldTypeOK, RunType
<1>3. \A r \in Runs \ Planned : run'[r] = None
  BY <1>1 DEF Removed, Planned
<1>4. RunType' /\ Planned' = Planned
  BY <1>2, <1>3 DEF RunType, Planned, Removed
<1>5. ASSUME NEW r \in Planned PROVE MovesOn(r)
  <2>1. run[r] \in Submission
    BY PlannedIs DEF WorldTypeOK, RunType
  <2>2. CASE run'[r] = run[r]
    BY <1>4, <2>2 DEF MovesOn, Keeps, WorldTypeOK
  <2>3. CASE run'[r] = [run[r] EXCEPT !.live = FALSE]
    <3>1. /\ run'[r].out = run[r].out /\ run'[r].workflow = run[r].workflow
          /\ run'[r].planned = run[r].planned /\ run'[r].dir = run[r].dir
          /\ run'[r].evaluate = run[r].evaluate /\ run'[r].executed = run[r].executed
          /\ run'[r].done = run[r].done
      BY <2>1, <2>3 DEF Submission
    <3>2. run'[r].live = FALSE
      BY <2>1, <2>3 DEF Submission
    <3>3. run[r].done <= run[r].workflow.segments
      BY DEF WorldTypeOK
    <3> QED
      BY <1>4, <3>1, <3>2, <3>3 DEF MovesOn, Keeps
  <2> QED
    BY <1>2, <2>2, <2>3
<1> QED
  BY <1>4, <1>5 DEF AllMoveOn, WorldTypeOK

LEMMA WipeClears ==
    ASSUME WorldTypeOK, Wipe
    PROVE  Clears
<1>1. \A r \in Planned : run[r] \in Submission
  BY PlannedIs DEF WorldTypeOK, RunType
<1>2. ASSUME NEW r \in Planned
      PROVE  /\ run'[r] \in Submission /\ ~run'[r].dir
             /\ run'[r].out = run[r].out /\ run'[r].workflow = run[r].workflow
             /\ run'[r].planned = run[r].planned /\ run'[r].live = run[r].live
             /\ run'[r].done = run[r].done /\ run'[r].evaluate = run[r].evaluate
             /\ run'[r].executed = run[r].executed
  <2>1. CASE r \in Present
    <3>1. run'[r] = [run[r] EXCEPT !.dir = FALSE]
      BY <2>1 DEF Wipe, Present, Planned
    <3>2. run'[r] \in Submission
      BY <1>1, <3>1, Updated
    <3>3. run'[r].dir = FALSE
      BY <1>1, <3>1 DEF Submission
    <3>4. /\ run'[r].out = run[r].out /\ run'[r].workflow = run[r].workflow
          /\ run'[r].planned = run[r].planned /\ run'[r].live = run[r].live
          /\ run'[r].done = run[r].done /\ run'[r].evaluate = run[r].evaluate
          /\ run'[r].executed = run[r].executed
      BY <1>1, <3>1 DEF Submission
    <3> QED
      BY <3>2, <3>3, <3>4
  <2>2. CASE r \notin Present
    BY <1>1, <2>2 DEF Wipe, Present, Planned
  <2> QED
    BY <2>1, <2>2
<1>3. \A r \in Runs \ Planned : run'[r] = None
  BY DEF Wipe, Planned, Present
<1>4. RunType' /\ Planned' = Planned
  BY <1>2, <1>3 DEF RunType, Planned, Wipe
<1>5. \A r \in Planned : Keeps(r)
  BY <1>2, <1>4 DEF Keeps
<1>6. Present' = {}
  BY <1>2, <1>4 DEF Present
<1> QED
  BY <1>2, <1>4, <1>5, <1>6 DEF Clears, Wipe

LEMMA TickMovesOn ==
    ASSUME WorldTypeOK, UNCHANGED run, UNCHANGED now \/ (now < MaxTime /\ now' = now + 1)
    PROVE  AllMoveOn
<1>1. RunType' /\ Planned' = Planned
  BY DEF WorldTypeOK, RunType, Planned
<1>2. \A r \in Planned : MovesOn(r)
  BY <1>1 DEF MovesOn, Keeps, WorldTypeOK
<1> QED
  BY <1>1, <1>2 DEF AllMoveOn, WorldTypeOK

\* Run r is planned from w into out; the others stay as they are.
Plans(r, w, out) ==
    /\ RunType' /\ r \in Runs \ Planned /\ Planned' = Planned \cup {r}
    /\ \A q \in Planned : run'[q] = run[q]
    /\ \E live \in BOOLEAN : run'[r] = Fresh(w, out, live)
    /\ StragglerShares \/ \A q \in Live \ Present : run[q].out # out
    /\ UNCHANGED <<file, now>>

LEMMA FreshIs ==
    ASSUME NEW w \in Workflow, NEW out \in OutDirs, NEW live \in BOOLEAN, now \in Nat
    PROVE  LET new == Fresh(w, out, live)
           IN  /\ new \in Submission
               /\ new.out = out /\ new.workflow = w
               /\ new.planned = now /\ new.done = 0
               /\ new.evaluate = "none" /\ new.dir
<1>1. <<>> \in Seq(Row) /\ {} \in SUBSET FileNames
  OBVIOUS
<1> QED
  BY <1>1 DEF Fresh, Submission

LEMMA PlannedAsPlans ==
    ASSUME WorldTypeOK, NEW r, NEW w \in Workflow, NEW out \in OutDirs,
           NEW live \in BOOLEAN, PlannedAs(r, w, out, live), UNCHANGED <<file, now>>
    PROVE  Plans(r, w, out)
<1>1. r \in Runs /\ run[r] = None /\ run' = [run EXCEPT ![r] = Fresh(w, out, live)]
  BY DEF PlannedAs
<1>2. Fresh(w, out, live) \in Submission
  <2>1. now \in Nat
    BY DEF WorldTypeOK
  <2> QED
    BY <2>1, FreshIs
<1>3. RunType' /\ Planned' = Planned \cup {r} /\ r \notin Planned
  BY <1>1, <1>2 DEF RunType, WorldTypeOK, Planned
<1> QED
  BY <1>1, <1>3 DEF Plans, PlannedAs, WorldTypeOK, Planned

----------------------------------------------------------------------------
(* The inductive invariant of the submissions.                             *)

\* A file was written by a run that stages into its directory, in the past.
Stamped ==
    /\ \A d \in OutDirs, f \in FileNames : file[d][f] # None =>
           /\ file[d][f].run \in Planned /\ run[file[d][f].run].out = d
           /\ file[d][f].at <= now
    /\ \A r \in Planned : run[r].planned <= now

\* No run is evaluated sooner than MinRun after its plan.
Evaluated ==
    \A r \in Planned : run[r].evaluate # "none" =>
        run[r].executed >= run[r].planned + MinRun

\* A run with a directory does not stage into the output directory of one that
\* goes on without; and what such a run left there is from before its plan.
Apart ==
    /\ \A r \in Present, q \in Live \ Present : run[q].out # run[r].out
    /\ \A r \in Present, f \in FileNames :
           LET found == file[run[r].out][f]
           IN  found # None /\ found.run \notin Present => found.at <= run[r].planned

WorldInv ==
    /\ WorldTypeOK /\ Stamped /\ Evaluated
    /\ ~StragglerShares => Apart

LEMMA SubmissionFields ==
    \A x \in Submission : /\ x.out \in OutDirs /\ x.planned \in Nat /\ x.executed \in Nat
                          /\ x.dir \in BOOLEAN /\ x.live \in BOOLEAN
                          /\ x.workflow \in Workflow
  BY DEF Submission

\* Runs move on, and perhaps one writes a file.
LEMMA AllMoveOnInv ==
    ASSUME WorldInv, AllMoveOn, UNCHANGED file \/ \E r \in Runs, f \in FileNames : Writes(r, f)
    PROVE  WorldInv'
<1>1. /\ RunType /\ RunType' /\ Planned' = Planned /\ now \in Nat /\ now' \in Nat
      /\ now <= now'
      /\ \A r \in Planned : MovesOn(r)
      /\ \A r \in Planned : run[r] \in Submission /\ run'[r] \in Submission
  BY PlannedIs DEF AllMoveOn, WorldInv, WorldTypeOK, RunType, Planned
<1>2. Present' = Present /\ Live' \subseteq Live
  BY <1>1, SubmissionFields DEF Present, Live, MovesOn, Keeps
<1>3. \A r \in Planned : /\ run'[r].out = run[r].out /\ run'[r].planned = run[r].planned
                         /\ run[r].out \in OutDirs /\ run[r].planned \in Nat
                         /\ run[r].executed \in Nat /\ run'[r].executed \in Nat
                         /\ run'[r].done <= run'[r].workflow.segments
  BY <1>1, SubmissionFields DEF MovesOn, Keeps
<1>4. Evaluated'
  BY <1>1, <1>3 DEF Evaluated, WorldInv, MovesOn
<1>5. Stamped /\ (~StragglerShares => Apart)
      /\ file \in [OutDirs -> [FileNames -> Written \cup {None}]]
  BY DEF WorldInv, WorldTypeOK
<1>6. file' \in [OutDirs -> [FileNames -> Written \cup {None}]] => WorldTypeOK'
  BY <1>1, <1>3 DEF WorldTypeOK, RunType, AllMoveOn
<1>7. \A d \in OutDirs, f \in FileNames : file[d][f] # None => file[d][f].at \in Nat
  BY <1>5 DEF Written
<1>8. CASE UNCHANGED file
  <2>1. Stamped'
    BY <1>1, <1>3, <1>5, <1>7, <1>8 DEF Stamped
  <2>2. Apart => Apart'
    <3>1. Present \subseteq Planned /\ Live \subseteq Planned
      BY DEF Present, Live
    <3> QED
      BY <1>2, <1>3, <1>8, <3>1 DEF Apart
  <2> QED
    BY <1>4, <1>5, <1>6, <1>8, <2>1, <2>2 DEF WorldInv
<1>9. ASSUME NEW r, NEW f, Writes(r, f) PROVE WorldInv'
  <2> DEFINE new == [run |-> r, at |-> now]
             d == run[r].out
  <2>1. /\ r \in Planned /\ r \in Live /\ f \in FileNames /\ d \in OutDirs
        /\ file' = [file EXCEPT ![d][f] = new]
    BY <1>3, <1>9 DEF Writes, Live
  <2>2. new \in Written /\ new # None /\ new.run = r /\ new.at = now
    BY <1>1, <2>1 DEF Written, Planned
  <2> HIDE DEF new, d
  <2>3. /\ file' \in [OutDirs -> [FileNames -> Written \cup {None}]]
        /\ file'[d][f] = new
        /\ \A e \in OutDirs, g \in FileNames : e # d \/ g # f => file'[e][g] = file[e][g]
    BY <1>5, <2>1, <2>2
  <2>4. Stamped'
    <3>1. \A q \in Planned : run'[q].planned <= now'
      BY <1>1, <1>3, <1>5 DEF Stamped
    <3>2. run'[r].out = d
      BY <1>3, <2>1 DEF d
    <3>3. ASSUME NEW e \in OutDirs, NEW g \in FileNames, file'[e][g] # None
          PROVE  /\ file'[e][g].run \in Planned /\ run'[file'[e][g].run].out = e
                 /\ file'[e][g].at <= now'
      <4>1. CASE e = d /\ g = f
        BY <1>1, <2>1, <2>2, <2>3, <3>2, <4>1
      <4>2. CASE e # d \/ g # f
        <5>1. file'[e][g] = file[e][g]
          BY <2>3, <4>2
        <5> QED
          BY <1>1, <1>3, <1>5, <1>7, <3>3, <5>1 DEF Stamped
      <4> QED
        BY <4>1, <4>2
    <3> QED
      BY <1>1, <3>1, <3>3 DEF Stamped
  <2>5. Apart => Apart'
    <3> SUFFICES ASSUME Apart PROVE Apart'
      OBVIOUS
    <3>1. Present \subseteq Planned /\ Live \subseteq Planned
      BY DEF Present, Live
    <3>2. \A q \in Present', p \in Live' \ Present' : run'[p].out # run'[q].out
      BY <1>2, <1>3, <3>1 DEF Apart
    <3>3. ASSUME NEW q \in Present, NEW g \in FileNames,
                 file'[run[q].out][g] # None, file'[run[q].out][g].run \notin Present
          PROVE  file'[run[q].out][g].at <= run[q].planned
      <4>1. run[q].out # d \/ g # f
        <5>1. SUFFICES ASSUME run[q].out = d, g = f PROVE FALSE
          OBVIOUS
        <5>2. r \notin Present
          BY <2>2, <2>3, <3>3, <5>1
        <5> QED
          BY <2>1, <5>1, <5>2 DEF Apart, d
      <4>2. run[q].out \in OutDirs
        BY <1>3, <3>1
      <4>3. file'[run[q].out][g] = file[run[q].out][g]
        BY <2>3, <4>1, <4>2
      <4> QED
        BY <3>3, <4>3 DEF Apart
    <3> QED
      BY <1>2, <1>3, <3>1, <3>2, <3>3 DEF Apart
  <2> QED
    BY <1>4, <1>5, <1>6, <2>3, <2>4, <2>5 DEF WorldInv
<1> QED
  BY <1>8, <1>9

\* The directories go: nothing is left that a run could be mistaken for.
LEMMA ClearsInv ==
    ASSUME WorldInv, Clears
    PROVE  WorldInv'
<1>1. /\ RunType' /\ Planned' = Planned /\ UNCHANGED <<file, now>> /\ Present' = {}
      /\ \A r \in Planned : Keeps(r)
  BY DEF Clears
<1>2. WorldTypeOK'
  BY <1>1 DEF WorldInv, WorldTypeOK, RunType, Clears, Keeps
<1>3. Stamped'
  BY <1>1 DEF WorldInv, Stamped, Keeps
<1>4. Evaluated'
  BY <1>1 DEF WorldInv, Evaluated, Clears, Keeps
<1>5. Apart'
  BY <1>1 DEF Apart
<1> QED
  BY <1>2, <1>3, <1>4, <1>5 DEF WorldInv

\* A new run finds only files from before its plan, and no straggler beside it.
LEMMA PlansInv ==
    ASSUME WorldInv, NEW r, NEW w \in Workflow, NEW out \in OutDirs, Plans(r, w, out)
    PROVE  WorldInv'
<1>1. /\ RunType /\ RunType' /\ UNCHANGED <<file, now>> /\ now \in Nat
      /\ r \in Runs /\ r \notin Planned /\ Planned' = Planned \cup {r}
      /\ \A q \in Planned : run'[q] = run[q]
      /\ StragglerShares \/ \A q \in Live \ Present : run[q].out # out
  BY DEF Plans, WorldInv, WorldTypeOK, RunType
<1>2. /\ run'[r].out = out /\ run'[r].planned = now /\ run'[r].done = 0
      /\ run'[r].workflow = w /\ run'[r].evaluate = "none" /\ run'[r].dir
  <2>0. PICK live \in BOOLEAN : run'[r] = Fresh(w, out, live)
    BY DEF Plans
  <2> DEFINE new == Fresh(w, out, live)
  <2>1. run'[r] = new
    BY <2>0
  <2>2. /\ new.out = out /\ new.planned = now /\ new.done = 0
        /\ new.workflow = w /\ new.evaluate = "none" /\ new.dir
    <3>1. now \in Nat
      BY <1>1
    <3> QED
      BY <3>1, FreshIs
  <2> HIDE DEF new
  <2> QED
    BY <2>1, <2>2
<1>3. WorldTypeOK'
  <2>1. \A q \in Planned' : run'[q].done <= run'[q].workflow.segments
    BY <1>1, <1>2 DEF WorldInv, WorldTypeOK, Workflow, Segment
  <2> QED
    BY <1>1, <2>1 DEF WorldInv, WorldTypeOK, RunType
<1>4. Stamped'
  BY <1>1, <1>2 DEF WorldInv, Stamped
<1>5. Evaluated'
  BY <1>1, <1>2 DEF WorldInv, Evaluated
<1>6. Present' = Present \cup {r}
  BY <1>1, <1>2 DEF Present
<1>7. Live' \ Present' = Live \ Present
  BY <1>1, <1>6 DEF Live, Present
<1>8. ~StragglerShares => Apart'
  <2> SUFFICES ASSUME ~StragglerShares PROVE Apart'
    OBVIOUS
  <2>1. Apart /\ Present \subseteq Planned /\ Live \subseteq Planned
    BY DEF WorldInv, Present, Live
  <2>2. \A q \in Present', p \in Live' \ Present' : run'[p].out # run'[q].out
    BY <1>1, <1>2, <1>6, <1>7, <2>1 DEF Apart
  <2>3. ASSUME NEW q \in Present', NEW f \in FileNames,
               file[run'[q].out][f] # None, file[run'[q].out][f].run \notin Present'
        PROVE  file[run'[q].out][f].at <= run'[q].planned
    <3>1. CASE q = r
      BY <1>2, <2>3, <3>1 DEF WorldInv, Stamped
    <3>2. CASE q \in Present
      BY <1>1, <1>6, <2>1, <2>3, <3>2 DEF Apart
    <3> QED
      BY <1>6, <3>1, <3>2
  <2> QED
    BY <1>1, <2>2, <2>3 DEF Apart
<1> QED
  BY <1>3, <1>4, <1>5, <1>8 DEF WorldInv

LEMMA WorldInvInit == WorldInit => WorldInv
<1> SUFFICES ASSUME WorldInit PROVE WorldInv
  OBVIOUS
<1>1. Planned = {} /\ Present = {}
  BY DEF WorldInit, Planned, Present
<1> QED
  BY <1>1 DEF WorldInit, WorldInv, WorldTypeOK, Stamped, Evaluated, Apart

----------------------------------------------------------------------------
(* The inductive invariant of the dashboard's start.                       *)

Active == {"remove", "generate", "plan"}

\* The lock is held exactly while a submission is under way.
Held ==
    /\ lock \in BOOLEAN
    /\ start \in [state : {"idle", "submitting", "submitted", "failed"},
                  id : {0} \cup Starts]
    /\ script \in [Scripts -> Submitter \cup {[at |-> "none"]}]
    /\ workflow \in Workflow \cup {None}
    /\ \A k \in Scripts : script[k].at = "plan" => workflow \in Workflow
    /\ start.state # "idle" => start.id \in Starts /\ script[start.id].at # "none"
    /\ lock <=> start.state = "submitting"

NoneAbandoned == \A k \in Starts : script[k].at # "none" => ~script[k].abandoned

\* A workflow generated by script k, or by the cell beside it.
Own(k, by) == by = k \/ (by = Cell /\ script[k].beside)

\* While no script was abandoned the one of the dashboard's that is active is that
\* of the start under way, so the workflow it plans is the one it generated, or
\* that of a cell that ran beside it.
Exclusive ==
    /\ \A k \in Starts : script[k].at \in Active =>
           /\ start.state = "submitting" /\ k = start.id
           /\ script[Cell].at \in Active => script[k].beside
    /\ \A k \in Starts : script[k].at = "plan" => Own(k, workflow.by)
    /\ \A k \in Starts : script[k].at = "submitted" =>
           script[k].run \in Planned /\ Own(k, run[script[k].run].workflow.by)
    /\ start.state = "submitted" => script[start.id].at = "submitted"

SubmitInv == WorldInv /\ Held /\ (NoneAbandoned => Exclusive)

\* What Next does to the submissions.
LEMMA WorldStep ==
    ASSUME SubmitInv, [Next]_vars
    PROVE  \/ AllMoveOn /\ (UNCHANGED file \/ \E r \in Runs, f \in FileNames : Writes(r, f))
           \/ Clears
           \/ \E r \in Runs, w \in Workflow, out \in OutDirs : Plans(r, w, out)
<1> USE DEF SubmitInv, WorldInv
<1>1. CASE UNCHANGED worldVars
  BY <1>1, TickMovesOn DEF worldVars
<1>2. CASE World
  <2>1. ASSUME NEW r \in Runs, RunMoves(r)
        PROVE  AllMoveOn /\ (UNCHANGED file \/ \E f \in FileNames : Writes(r, f))
    BY <2>1, RunMovesOn
  <2>2. Wipe => Clears
    BY WipeClears
  <2>3. Tick => AllMoveOn /\ UNCHANGED file
    BY TickMovesOn DEF Tick
  <2> QED
    BY <1>2, <2>1, <2>2, <2>3 DEF World, WorldGoesOn
<1>4. ASSUME NEW k \in Scripts, ScriptRemoves(k) PROVE AllMoveOn /\ UNCHANGED file
  BY <1>4, RemovedMovesOn DEF ScriptRemoves
<1>5. ASSUME NEW k \in Scripts, At(k, "plan"), NEW r \in Runs, NEW live \in BOOLEAN,
             PlannedAs(r, workflow, script[k].epoch, live), UNCHANGED <<file, now>>
      PROVE  \E q \in Runs, w \in Workflow, out \in OutDirs : Plans(q, w, out)
  <2>2. workflow \in Workflow /\ script[k].epoch \in OutDirs
    BY <1>5 DEF At, Held, Submitter
  <2>3. Plans(r, workflow, script[k].epoch)
    BY <1>5, <2>2, PlannedAsPlans
  <2> QED
    BY <2>2, <2>3
<1>6. ASSUME NEW k \in Scripts, ScriptPlans(k)
      PROVE  \E r \in Runs, w \in Workflow, out \in OutDirs : Plans(r, w, out)
  BY <1>5, <1>6 DEF ScriptPlans
<1>8. ASSUME NEW k \in Scripts, ScriptFails(k)
      PROVE  \/ UNCHANGED worldVars
             \/ \E r \in Runs, w \in Workflow, out \in OutDirs : Plans(r, w, out)
  BY <1>5, <1>8 DEF ScriptFails, worldVars
<1>9. ASSUME NEW k \in Scripts, ScriptGenerates(k) PROVE UNCHANGED worldVars
  BY <1>9 DEF ScriptGenerates
<1>10. ASSUME NEW n \in Segment, CellBegins(n) \/ \E k \in Starts : StartRequested(k, n)
       PROVE  UNCHANGED worldVars
  BY <1>10 DEF CellBegins, StartRequested
<1>7. StartEnds \/ StartTimesOut => UNCHANGED worldVars
  BY DEF StartEnds, StartTimesOut
<1>11. UNCHANGED worldVars => AllMoveOn /\ UNCHANGED file
  BY TickMovesOn DEF worldVars
<1> QED
  BY <1>1, <1>2, <1>4, <1>6, <1>7, <1>8, <1>9, <1>10, <1>11 DEF Next, Script, vars

LEMMA WorldInvNext == SubmitInv /\ [Next]_vars => WorldInv'
  BY WorldStep, AllMoveOnInv, ClearsInv, PlansInv DEF SubmitInv

\* No step takes a run back or replans it from another workflow.
LEMMA RunsKept ==
    ASSUME SubmitInv, [Next]_vars
    PROVE  \A r \in Planned : r \in Planned' /\ run'[r].workflow = run[r].workflow
<1>1. AllMoveOn \/ Clears => \A r \in Planned : Keeps(r)
  BY DEF AllMoveOn, Clears, MovesOn
<1>2. ASSUME NEW r, NEW w \in Workflow, NEW out \in OutDirs, Plans(r, w, out)
      PROVE  \A q \in Planned : q \in Planned' /\ run'[q].workflow = run[q].workflow
  BY <1>2 DEF Plans
<1> QED
  BY <1>1, <1>2, WorldStep DEF Keeps

----------------------------------------------------------------------------
(* What a step does to the dashboard's start.                              *)

LEMMA ScriptIs ==
    ASSUME Held, NEW k \in Scripts, script[k].at # "none"
    PROVE  script[k] \in Submitter
  BY DEF Held

\* A step of script k, by where it leaves it and the workflow file.
ScriptGoes(k, at) ==
    /\ script[k].at \in Active /\ script'[k] \in Submitter /\ script'[k].at = at
    /\ script'[k].abandoned = script[k].abandoned
    /\ script'[k].beside = script[k].beside
    /\ script' = [script EXCEPT ![k] = script'[k]]
    /\ UNCHANGED <<lock, start>>

LEMMA ScriptGoesOn ==
    ASSUME Held, NEW k \in Scripts, Script(k)
    PROVE  \/ ScriptGoes(k, "generate") /\ UNCHANGED workflow
           \/ /\ ScriptGoes(k, "plan")
              /\ workflow' = [by |-> k, segments |-> script[k].segments]
           \/ /\ ScriptGoes(k, "submitted") /\ script[k].at = "plan" /\ UNCHANGED workflow
              /\ \E r \in Runs : /\ script'[k].run = r
                                 /\ PlannedAs(r, workflow, script[k].epoch, TRUE)
                                 /\ UNCHANGED <<file, now>>
           \/ ScriptGoes(k, "failed") /\ UNCHANGED workflow
<1>1. script[k].at \in Active
  BY DEF Script, ScriptRemoves, ScriptGenerates, ScriptPlans, ScriptFails, At, Active
<1>2. script[k] \in Submitter /\ k \in DOMAIN script
  BY <1>1, ScriptIs DEF Active, Held
<1>3. ASSUME NEW at \in {"generate", "plan", "failed"},
             script' = [script EXCEPT ![k].at = at], UNCHANGED <<lock, start>>
      PROVE  ScriptGoes(k, at)
  <2>1. script'[k] = [script[k] EXCEPT !.at = at]
    BY <1>2, <1>3
  <2>2. script' = [script EXCEPT ![k] = script'[k]]
    BY <1>2, <1>3, <2>1
  <2>3. /\ script'[k] \in Submitter /\ script'[k].at = at
        /\ script'[k].abandoned = script[k].abandoned
        /\ script'[k].beside = script[k].beside
    BY <1>2, <1>3, <2>1 DEF Submitter
  <2> QED
    BY <1>1, <1>3, <2>2, <2>3 DEF ScriptGoes
<1>4. ScriptRemoves(k) => ScriptGoes(k, "generate") /\ UNCHANGED workflow
  BY <1>3 DEF ScriptRemoves
<1>5. ScriptGenerates(k) => /\ ScriptGoes(k, "plan")
                            /\ workflow' = [by |-> k, segments |-> script[k].segments]
  BY <1>3 DEF ScriptGenerates
<1>6. ScriptFails(k) => ScriptGoes(k, "failed") /\ UNCHANGED workflow
  BY <1>3 DEF ScriptFails
<1>7. ASSUME ScriptPlans(k)
      PROVE  /\ ScriptGoes(k, "submitted") /\ script[k].at = "plan" /\ UNCHANGED workflow
             /\ \E r \in Runs : /\ script'[k].run = r
                                /\ PlannedAs(r, workflow, script[k].epoch, TRUE)
                                /\ UNCHANGED <<file, now>>
  <2>1. PICK r \in Runs : /\ PlannedAs(r, workflow, script[k].epoch, TRUE)
                          /\ script' = [script EXCEPT ![k].at = "submitted", ![k].run = r]
    BY <1>7 DEF ScriptPlans
  <2>2. script'[k] = [script[k] EXCEPT !.at = "submitted", !.run = r]
    BY <1>2, <2>1
  <2>3. script' = [script EXCEPT ![k] = script'[k]]
    BY <1>2, <2>1, <2>2
  <2>4. UNCHANGED <<lock, start, workflow, file, now>> /\ script[k].at = "plan"
    BY <1>7 DEF ScriptPlans, At
  <2>5. /\ script'[k] \in Submitter /\ script'[k].at = "submitted"
        /\ script'[k].abandoned = script[k].abandoned /\ script'[k].run = r
        /\ script'[k].beside = script[k].beside
    BY <1>2, <2>2 DEF Submitter
  <2> QED
    BY <1>1, <2>1, <2>3, <2>4, <2>5 DEF ScriptGoes
<1> QED
  BY <1>4, <1>5, <1>6, <1>7 DEF Script

LEMMA BegunIs ==
    ASSUME NEW n \in Segment, NEW b \in BOOLEAN, now \in OutDirs
    PROVE  /\ Begun(n, b) \in Submitter /\ Begun(n, b).at = "remove"
           /\ Begun(n, b).beside = b /\ ~Begun(n, b).abandoned
  BY DEF Begun, Submitter

LEMMA RequestIs ==
    ASSUME Held, NEW k \in Starts, NEW n \in Segment, StartRequested(k, n)
    PROVE  /\ script[k].at = "none" /\ ~lock /\ lock' /\ UNCHANGED workflow
           /\ start' = [state |-> "submitting", id |-> k]
           /\ script'[k] \in Submitter /\ script'[k].at = "remove"
           /\ ~script'[k].abandoned
           /\ script[Cell].at \in Active => script'[k].beside
           /\ script' = [script EXCEPT ![k] = script'[k]]
<1> DEFINE new == Begun(n, UnderWay(Cell))
<1>1. script' = [script EXCEPT ![k] = new] /\ now \in OutDirs
  BY DEF StartRequested
<1>2. k \in DOMAIN script
  BY DEF Held, Scripts
<1>3. script'[k] = new /\ script' = [script EXCEPT ![k] = script'[k]]
  BY <1>1, <1>2
<1>4. UnderWay(Cell) \in BOOLEAN /\ (script[Cell].at \in Active => UnderWay(Cell))
  BY DEF UnderWay, Active
<1>5. /\ new \in Submitter /\ new.at = "remove" /\ ~new.abandoned
      /\ new.beside = UnderWay(Cell)
  BY <1>1, <1>4, BegunIs
<1>6. script[k].at = "none" /\ ~lock /\ lock' /\ UNCHANGED workflow
      /\ start' = [state |-> "submitting", id |-> k]
  BY DEF StartRequested, Acquires
<1> HIDE DEF new
<1> QED
  BY <1>3, <1>4, <1>5, <1>6

LEMMA CellIs ==
    ASSUME Held, NEW n \in Segment, CellBegins(n)
    PROVE  /\ script' \in [Scripts -> Submitter \cup {[at |-> "none"]}]
           /\ script'[Cell].at = "remove"
           /\ \A k \in Starts :
                 /\ script'[k].at = script[k].at
                 /\ script[k].at \in Active =>
                        script'[k].beside /\ script'[k].abandoned = script[k].abandoned
                 /\ script[k].at \notin Active => script'[k] = script[k]
           /\ UNCHANGED <<lock, start, workflow>>
<1>1. Cell \in Scripts /\ Cell \notin Starts /\ Starts \subseteq Scripts
  BY DEF Cell, Scripts, Starts
<1>2. script' = [k \in Scripts |->
           IF k = Cell THEN Begun(n, FALSE)
           ELSE IF UnderWay(k) THEN [script[k] EXCEPT !.beside = TRUE]
           ELSE script[k]] /\ now \in OutDirs /\ UNCHANGED <<lock, start, workflow>>
  BY DEF CellBegins
<1>3. script'[Cell] \in Submitter /\ script'[Cell].at = "remove"
  BY <1>1, <1>2, BegunIs
<1>4. ASSUME NEW k \in Starts
      PROVE  /\ script'[k] \in Submitter \cup {[at |-> "none"]}
             /\ script'[k].at = script[k].at
             /\ script[k].at \in Active =>
                    script'[k].beside /\ script'[k].abandoned = script[k].abandoned
             /\ script[k].at \notin Active => script'[k] = script[k]
  <2>1. UnderWay(k) <=> script[k].at \in Active
    BY DEF UnderWay, Active
  <2>2. CASE UnderWay(k)
    <3>1. script'[k] = [script[k] EXCEPT !.beside = TRUE]
      BY <1>1, <1>2, <2>2
    <3>2. script[k] \in Submitter
      BY <1>1, <2>1, <2>2, ScriptIs DEF Active
    <3> QED
      BY <2>1, <2>2, <3>1, <3>2 DEF Submitter
  <2>3. CASE ~UnderWay(k)
    <3>1. script'[k] = script[k]
      BY <1>1, <1>2, <2>3
    <3> QED
      BY <1>1, <2>1, <2>3, <3>1 DEF Held
  <2> QED
    BY <2>2, <2>3
<1>5. \A k \in Scripts : script'[k] \in Submitter \cup {[at |-> "none"]}
  BY <1>3, <1>4 DEF Scripts
<1>6. script' \in [Scripts -> Submitter \cup {[at |-> "none"]}]
  BY <1>2, <1>5
<1> QED
  BY <1>2, <1>3, <1>4, <1>6

LEMMA TimeOutIs ==
    ASSUME Held, StartTimesOut
    PROVE  /\ start.state = "submitting" /\ lock' = FALSE /\ UNCHANGED workflow
           /\ start' = [start EXCEPT !.state = "failed"]
           /\ script'[start.id] \in Submitter
           /\ script'[start.id].at = script[start.id].at
           /\ script'[start.id].abandoned
           /\ script' = [script EXCEPT ![start.id] = script'[start.id]]
<1> DEFINE k == start.id
           new == [script[k] EXCEPT !.abandoned = TRUE]
<1>1. start.state = "submitting" /\ k \in Starts /\ k \in Scripts /\ script[k].at # "none"
  BY DEF StartTimesOut, Held, Scripts
<1>2. script[k] \in Submitter /\ k \in DOMAIN script
  BY <1>1, ScriptIs DEF Held
<1>3. script' = [script EXCEPT ![k] = new]
  BY <1>2 DEF StartTimesOut
<1>4. script'[k] = new /\ script' = [script EXCEPT ![k] = script'[k]]
  BY <1>2, <1>3
<1>5. new \in Submitter /\ new.at = script[k].at
  BY <1>2 DEF Submitter
<1>6. new.abandoned
  BY <1>2 DEF Submitter
<1>7. lock' = FALSE /\ UNCHANGED workflow /\ start' = [start EXCEPT !.state = "failed"]
  BY DEF StartTimesOut
<1> HIDE DEF new
<1> QED
  BY <1>1, <1>4, <1>5, <1>6, <1>7

LEMMA HeldNext == Held /\ [Next]_vars => Held'
<1> SUFFICES ASSUME Held, [Next]_vars PROVE Held'
  OBVIOUS
<1>1. CASE UNCHANGED vars
  BY <1>1 DEF vars, Held
<1>2. CASE World
  BY <1>2 DEF World, Held
<1>0. Starts \subseteq Scripts /\ Cell \in Scripts /\ Scripts = {Cell} \cup Starts
  BY DEF Scripts
<1>3. ASSUME NEW n \in Segment, CellBegins(n) PROVE Held'
  <2>1. /\ script' \in [Scripts -> Submitter \cup {[at |-> "none"]}]
        /\ script'[Cell].at = "remove" /\ UNCHANGED <<lock, start, workflow>>
        /\ \A k \in Starts : script'[k].at = script[k].at
    BY <1>3, CellIs
  <2> QED
    BY <1>0, <2>1 DEF Held
<1>4. ASSUME NEW k \in Scripts, Script(k) PROVE Held'
  <2> DEFINE ItsOwn == workflow' = [by |-> k, segments |-> script[k].segments]
  <2>0. \/ ScriptGoes(k, "generate") /\ UNCHANGED workflow
        \/ ScriptGoes(k, "plan") /\ ItsOwn
        \/ ScriptGoes(k, "submitted") /\ UNCHANGED workflow
        \/ ScriptGoes(k, "failed") /\ UNCHANGED workflow
    BY <1>4, ScriptGoesOn
  <2>1. PICK at \in {"generate", "plan", "submitted", "failed"} :
            ScriptGoes(k, at) /\ IF at = "plan" THEN ItsOwn ELSE UNCHANGED workflow
    BY <2>0
  <2>2. script[k] \in Submitter
    BY <2>1, ScriptIs DEF ScriptGoes, Active
  <2>3. workflow' \in Workflow \cup {None} /\ (at = "plan" => workflow' \in Workflow)
    BY <2>1, <2>2 DEF Workflow, Submitter, Scripts, Cell, Starts, Held
  <2>4. script' \in [Scripts -> Submitter \cup {[at |-> "none"]}]
        /\ (\A q \in Scripts \ {k} : script'[q] = script[q])
        /\ script'[k].at = at /\ UNCHANGED <<lock, start>>
    BY <2>1 DEF ScriptGoes, Held
  <2>5. start.state # "idle" => script'[start.id].at # "none"
    BY <1>0, <2>1, <2>4 DEF Held
  <2>6. \A q \in Scripts : script'[q].at = "plan" => workflow' \in Workflow
    BY <2>1, <2>3, <2>4 DEF Held
  <2> QED
    BY <2>3, <2>4, <2>5, <2>6 DEF Held
<1>5. ASSUME NEW k \in Starts, NEW n \in Segment, StartRequested(k, n) PROVE Held'
  <2>1. /\ script' \in [Scripts -> Submitter \cup {[at |-> "none"]}]
        /\ script'[k].at = "remove" /\ \A q \in Scripts \ {k} : script'[q] = script[q]
    BY <1>0, <1>5, RequestIs DEF Held
  <2>2. /\ lock' /\ UNCHANGED workflow /\ start'.state = "submitting" /\ start'.id = k
        /\ start' \in [state : {"idle", "submitting", "submitted", "failed"},
                       id : {0} \cup Starts]
    BY <1>5, RequestIs
  <2> QED
    BY <1>0, <2>1, <2>2 DEF Held
<1>6. CASE StartEnds
  <2>1. /\ start.state = "submitting" /\ script[start.id].at \in {"submitted", "failed"}
        /\ start' = [start EXCEPT !.state = script[start.id].at]
        /\ lock' = FALSE /\ UNCHANGED <<script, workflow>>
    BY <1>6 DEF StartEnds
  <2>2. /\ start' \in [state : {"idle", "submitting", "submitted", "failed"},
                       id : {0} \cup Starts]
        /\ start'.id = start.id /\ start'.state \in {"submitted", "failed"}
    BY <2>1 DEF Held
  <2> QED
    BY <2>1, <2>2 DEF Held
<1>7. CASE StartTimesOut
  <2>1. /\ start' \in [state : {"idle", "submitting", "submitted", "failed"},
                       id : {0} \cup Starts]
        /\ start'.id = start.id /\ start'.state = "failed"
        /\ lock' = FALSE /\ UNCHANGED workflow
    BY <1>7, TimeOutIs DEF Held
  <2>2. /\ script' \in [Scripts -> Submitter \cup {[at |-> "none"]}]
        /\ \A q \in Scripts : script'[q].at = script[q].at
    BY <1>0, <1>7, TimeOutIs DEF Held
  <2>3. start.state = "submitting"
    BY <1>7, TimeOutIs
  <2> QED
    BY <1>0, <2>1, <2>2, <2>3 DEF Held
<1> QED
  BY <1>1, <1>2, <1>3, <1>4, <1>5, <1>6, <1>7 DEF Next

LEMMA ExclusiveNext ==
    ASSUME SubmitInv, [Next]_vars, NoneAbandoned'
    PROVE  Exclusive'
<1> USE DEF SubmitInv
<1>0. \A r \in Planned : r \in Planned' /\ run'[r].workflow = run[r].workflow
  BY RunsKept
<1>9. Starts \subseteq Scripts /\ Cell \in Scripts /\ Cell \notin Starts
  BY DEF Scripts, Cell, Starts
<1>1. ASSUME UNCHANGED <<start, script, workflow>> PROVE Exclusive'
  <2>1. NoneAbandoned /\ Exclusive
    BY <1>1 DEF NoneAbandoned
  <2> QED
    BY <1>0, <1>1, <2>1 DEF Exclusive, Own
<1>2. CASE UNCHANGED vars
  BY <1>1, <1>2 DEF vars
<1>3. CASE World
  BY <1>1, <1>3 DEF World
<1>4. ASSUME NEW n \in Segment, CellBegins(n) PROVE Exclusive'
  <2>1. /\ \A k \in Starts :
              /\ script'[k].at = script[k].at
              /\ script[k].at \in Active =>
                     script'[k].beside /\ script'[k].abandoned = script[k].abandoned
              /\ script[k].at \notin Active => script'[k] = script[k]
        /\ UNCHANGED <<lock, start, workflow>>
    BY <1>4, CellIs
  <2>2. NoneAbandoned
    BY <2>1 DEF NoneAbandoned
  <2>3. Exclusive
    BY <2>2
  <2>4. \A k \in Starts : script[k].at = "plan" =>
            workflow.by = k \/ (workflow.by = Cell /\ script'[k].beside)
    BY <2>1, <2>3 DEF Exclusive, Own, Active
  <2>5. \A k \in Starts : script[k].at = "submitted" => script'[k] = script[k]
    BY <2>1 DEF Active
  <2>6. start.state = "submitted" => start.id \in Starts
    BY DEF Held
  <2> QED
    BY <1>0, <2>1, <2>3, <2>4, <2>5, <2>6 DEF Exclusive, Own
<1>10. ASSUME Script(Cell) PROVE Exclusive'
  <2>1. PICK at \in {"generate", "plan", "submitted", "failed"} :
            /\ ScriptGoes(Cell, at)
            /\ UNCHANGED workflow \/ workflow'.by = Cell
    <3>1. [by |-> Cell, segments |-> script[Cell].segments].by = Cell
      OBVIOUS
    <3> QED
      BY <1>9, <1>10, <3>1, ScriptGoesOn
  <2>2. /\ script[Cell].at \in Active /\ UNCHANGED <<lock, start>>
        /\ \A k \in Starts : script'[k] = script[k]
    BY <1>9, <2>1 DEF ScriptGoes, Held
  <2>3. NoneAbandoned /\ Exclusive
    BY <2>2 DEF NoneAbandoned
  <2>4. \A k \in Starts : script[k].at = "plan" => Own(k, workflow'.by)
    <3> SUFFICES ASSUME NEW k \in Starts, script[k].at = "plan" PROVE Own(k, workflow'.by)
      OBVIOUS
    <3>1. script[k].beside /\ Own(k, workflow.by)
      BY <2>2, <2>3 DEF Exclusive, Active
    <3> QED
      BY <2>1, <3>1 DEF Own
  <2>5. start.state = "submitted" => start.id \in Starts
    BY DEF Held
  <2>6. \A k \in Starts : script'[k].at \in Active =>
            /\ start'.state = "submitting" /\ k = start'.id /\ script'[k].beside
    BY <2>2, <2>3 DEF Exclusive
  <2>7. \A k \in Starts : script'[k].at = "plan" => Own(k, workflow.by)'
    BY <2>2, <2>4 DEF Own
  <2>8. \A k \in Starts : script'[k].at = "submitted" =>
            /\ script'[k].run \in Planned'
            /\ Own(k, run[script[k].run].workflow.by)'
    BY <1>0, <2>2, <2>3 DEF Exclusive, Own
  <2>9. start'.state = "submitted" => script'[start'.id].at = "submitted"
    BY <2>2, <2>3, <2>5 DEF Exclusive
  <2> QED
    BY <2>6, <2>7, <2>8, <2>9 DEF Exclusive
<1>5. ASSUME NEW k \in Starts, Script(k) PROVE Exclusive'
  <2>1. PICK at \in {"generate", "plan", "submitted", "failed"} : ScriptGoes(k, at)
    BY <1>5, <1>9, ScriptGoesOn
  <2>2. /\ script[k].at \in Active /\ script'[k].at = at
        /\ script'[k].abandoned = script[k].abandoned
        /\ script'[k].beside = script[k].beside
        /\ script'[Cell] = script[Cell]
        /\ \A q \in Starts \ {k} : script'[q] = script[q]
        /\ UNCHANGED <<lock, start>>
    BY <1>9, <2>1 DEF ScriptGoes, Held
  <2>3. NoneAbandoned
    <3>1. \A q \in Starts \ {k} : script[q].at # "none" => ~script[q].abandoned
      BY <2>2 DEF NoneAbandoned
    <3>2. ~script[k].abandoned
      <4>1. ~script'[k].abandoned
        BY <2>2 DEF NoneAbandoned
      <4> QED
        BY <2>2, <4>1
    <3> QED
      BY <3>1, <3>2 DEF NoneAbandoned
  <2>4. Exclusive /\ start.state = "submitting" /\ k = start.id
    BY <2>2, <2>3 DEF Exclusive
  <2>5. \A q \in Starts \ {k} : script[q].at \notin Active
    BY <2>4 DEF Exclusive
  <2>6. ASSUME at = "plan" PROVE workflow'.by = k
    <3>1. workflow' = [by |-> k, segments |-> script[k].segments]
      BY <1>5, <1>9, <2>2, <2>6, ScriptGoesOn DEF ScriptGoes
    <3> QED
      BY <3>1
  <2>7. ASSUME at = "submitted"
        PROVE  script'[k].run \in Planned' /\ Own(k, run'[script'[k].run].workflow.by)
    <3>1. PICK r \in Runs : /\ script'[k].run = r /\ script[k].at = "plan"
                            /\ PlannedAs(r, workflow, script[k].epoch, TRUE)
                            /\ UNCHANGED <<file, now>>
      BY <1>5, <1>9, <2>2, <2>7, ScriptGoesOn DEF ScriptGoes
    <3>2. workflow \in Workflow /\ Own(k, workflow.by) /\ script[k].epoch \in OutDirs
      BY <1>9, <2>4, <3>1, ScriptIs DEF Held, Exclusive, Submitter
    <3>3. Plans(r, workflow, script[k].epoch)
      BY <3>1, <3>2, PlannedAsPlans DEF WorldInv
    <3>4. PICK live \in BOOLEAN :
              r \in Planned' /\ run'[r] = Fresh(workflow, script[k].epoch, live)
      BY <3>3 DEF Plans
    <3>5. Fresh(workflow, script[k].epoch, live).workflow = workflow
      BY DEF Fresh
    <3> QED
      BY <3>1, <3>2, <3>4, <3>5
  <2>8. (script[k].at \in Active /\ script[Cell].at \in Active => script'[k].beside)
        /\ \A by : Own(k, by)' <=> Own(k, by)
    BY <2>2, <2>4 DEF Exclusive, Own
  <2> QED
    BY <1>0, <2>1, <2>2, <2>4, <2>5, <2>6, <2>7, <2>8 DEF Exclusive, Active, Own
<1>6. ASSUME NEW k \in Starts, NEW n \in Segment, StartRequested(k, n) PROVE Exclusive'
  <2>1. /\ script[k].at = "none" /\ ~lock /\ script'[k].at = "remove"
        /\ start'.state = "submitting" /\ start'.id = k
        /\ script[Cell].at \in Active => script'[k].beside
        /\ script'[Cell] = script[Cell]
        /\ \A q \in Starts \ {k} : script'[q] = script[q]
    BY <1>6, <1>9, RequestIs DEF Held
  <2>2. NoneAbandoned
    BY <2>1 DEF NoneAbandoned
  <2>3. Exclusive /\ \A q \in Starts : script[q].at \notin Active
    BY <2>1, <2>2 DEF Exclusive, Held
  <2> QED
    BY <1>0, <2>1, <2>3 DEF Exclusive, Active, Own
<1>7. CASE StartEnds
  <2>1. /\ start.state = "submitting" /\ script[start.id].at \in {"submitted", "failed"}
        /\ start' = [start EXCEPT !.state = script[start.id].at]
        /\ UNCHANGED <<script, workflow>>
    BY <1>7 DEF StartEnds
  <2>2. start'.id = start.id /\ start'.state = script[start.id].at
    BY <2>1 DEF Held
  <2>3. NoneAbandoned /\ Exclusive
    BY <2>1 DEF NoneAbandoned
  <2>4. \A q \in Starts : script[q].at \notin Active
    BY <2>1, <2>3 DEF Exclusive, Active
  <2> QED
    BY <1>0, <2>1, <2>2, <2>3, <2>4 DEF Exclusive, Active, Own
<1>8. CASE StartTimesOut
  <2>1. /\ start.id \in Starts /\ script'[start.id].at # "none"
        /\ script'[start.id].abandoned
    BY <1>8, TimeOutIs DEF Held
  <2> QED
    BY <2>1 DEF NoneAbandoned
<1> QED
  BY <1>2, <1>3, <1>4, <1>5, <1>6, <1>7, <1>8, <1>10 DEF Next, Scripts

LEMMA SubmitInvariance == Spec => []SubmitInv
<1>1. Init => SubmitInv
  <2> SUFFICES ASSUME Init PROVE SubmitInv
    OBVIOUS
  <2>1. WorldInv
    BY WorldInvInit DEF Init
  <2>2. \A k \in Scripts : script[k].at = "none"
    BY DEF Init
  <2>3. Held
    BY <2>2 DEF Init, Held
  <2>4. Exclusive
    BY <2>2 DEF Init, Exclusive, Active, Scripts
  <2> QED
    BY <2>1, <2>3, <2>4 DEF SubmitInv
<1>2. SubmitInv /\ [Next]_vars => SubmitInv'
  BY WorldInvNext, HeldNext, ExclusiveNext DEF SubmitInv
<1> QED
  BY <1>1, <1>2, PTL DEF Spec

----------------------------------------------------------------------------
(* Theorems.                                                               *)

\* The run directories, the history, the output files, the start's status and
\* its scripts keep to their domains.
THEOREM TypeCorrect == Spec => []TypeOK
<1>1. SubmitInv => TypeOK
  BY DEF SubmitInv, WorldInv, Held, TypeOK
<1> QED
  BY <1>1, SubmitInvariance, PTL

\* Actions.start: what a start planned is what it generated, never another start's,
\* unless some script was abandoned; the notebook's cell, which takes no lock, may
\* have come between, and only if it ran beside the start.
THEOREM AskedIsSubmitted == Spec => []SubmittedAsAsked
<1>1. SubmitInv => SubmittedAsAsked
  <2> SUFFICES ASSUME SubmitInv, start.state = "submitted", NoneAbandoned
               PROVE  Own(start.id, run[script[start.id].run].workflow.by)
    BY DEF SubmittedAsAsked, NoneAbandoned, Own
  <2>1. start.id \in Starts /\ Exclusive
    BY DEF SubmitInv, Held
  <2> QED
    BY <2>1 DEF Exclusive
<1> QED
  BY <1>1, SubmitInvariance, PTL

\* run_result: what is accepted for a run was written by it, when no run shares
\* its output directory with one that goes on without a directory of its own, and
\* an evaluation begins at least a unit of the clock after the plan.  (Result
\* files are followed.)
THEOREM OwnResult ==
    ~StragglerShares /\ MinRun > 0 /\ "result" \in Staged => (Spec => []ResultIsOwn)
<1> SUFFICES ASSUME ~StragglerShares, MinRun > 0, "result" \in Staged
             PROVE  Spec => []ResultIsOwn
  OBVIOUS
<1>1. SubmitInv => ResultIsOwn
  <2> SUFFICES ASSUME SubmitInv, NEW r \in Present, Verdict(r) = "accepted"
               PROVE  file[run[r].out][<<"result", 0>>].run = r
    BY DEF ResultIsOwn
  <2> DEFINE result == <<"result", 0>>
             found == file[run[r].out][result]
  <2>1. /\ WorldTypeOK /\ Stamped /\ Evaluated /\ Apart
    BY DEF SubmitInv, WorldInv
  <2>2. /\ runs_sharing_output_dir(r) = {} /\ run[r].evaluate = "succeeded"
        /\ found # None /\ ~ found.at < run[r].executed
    BY DEF Verdict, earliest
  <2>3. r \in Planned /\ run[r] \in Submission
    BY <2>1, PlannedIs DEF Present, WorldTypeOK, RunType
  <2>4. run[r].executed >= run[r].planned + MinRun
    BY <2>1, <2>2, <2>3 DEF Evaluated
  <2>5. result \in FileNames
    BY DEF FileNames
  <2>6. found \in Written
    BY <2>1, <2>2, <2>3, <2>5, SubmissionFields DEF WorldTypeOK
  <2>7. found.run \in Planned /\ run[found.run].out = run[r].out
    BY <2>1, <2>2, <2>3, <2>5, SubmissionFields DEF Stamped
  <2>8. found.run \in Present
    BY <2>1, <2>2, <2>3, <2>4, <2>5, <2>6, SubmissionFields DEF Apart, Written
  <2> QED
    BY <2>2, <2>7, <2>8 DEF runs_sharing_output_dir
<1> QED
  BY <1>1, SubmitInvariance, PTL

-----------------------------------------------------------------------------
(* The poller and GET /report (Console), over the same submissions.        *)

Fields == {"ok", "run", "jobs", "segments_done", "migrations", "result", "report"}

\* What is published is always a whole answer, and the energy in it was measured
\* in the run it is published for.
StateIsOwn ==
    /\ DOMAIN state = Fields
    /\ EnergyIsOwnRuns

----------------------------------------------------------------------------
(* The operators of poll_once.                                             *)

\* Only the energy of files stamped with the uuid is taken.
LEMMA MeasuredIsStamped ==
    ASSUME NEW rows, NEW files, NEW uuid, NEW i \in DOMAIN rows
    PROVE  Measured(rows, files, uuid)[i].wh \in {uuid, None}
<1> DEFINE seg == rows[i].seg
           f == files[<<"progress", seg>>]
<1>1. Measured(rows, files, uuid)[i].wh
        = IF seg \in Verified(files, uuid) THEN f.run ELSE None
  BY DEF Measured
<1>2. seg \in Verified(files, uuid) => f.run = uuid
  BY DEF Verified, Provenance
<1> QED
  BY <1>1, <1>2

\* So a published answer shows the energy of its own run, whatever was read.
LEMMA PublishedIsOwn ==
    ASSUME NEW uuid, NEW history, NEW files
    PROVE  LET answer == Published(uuid, history, files)
           IN  /\ DOMAIN answer = Fields
               /\ answer.run = uuid
               /\ \A i \in DOMAIN answer.jobs : answer.jobs[i].wh \in {answer.run, None}
<1> DEFINE rows == ByName(history)
<1>1. /\ DOMAIN Published(uuid, history, files) = Fields
      /\ Published(uuid, history, files).run = uuid
      /\ Published(uuid, history, files).jobs = Measured(rows, files, uuid)
  BY DEF Published, Fields
<1>2. DOMAIN Measured(rows, files, uuid) = DOMAIN rows
  BY DEF Measured
<1> HIDE DEF rows
<1> QED
  BY <1>1, <1>2, MeasuredIsStamped

----------------------------------------------------------------------------

LEMMA StateIsOwnNext == StateIsOwn /\ [ConsoleNext]_allVars => StateIsOwn'
<1> SUFFICES ASSUME StateIsOwn, [ConsoleNext]_allVars PROVE StateIsOwn'
  OBVIOUS
<1> USE DEF StateIsOwn, EnergyIsOwnRuns
<1>1. CASE UNCHANGED allVars
  BY <1>1 DEF allVars, consoleVars, worldVars
<1>2. CASE NodeGoesOn \/ PollIdentity \/ PollHistory
  BY <1>2 DEF NodeGoesOn, PollIdentity, PollHistory, consoleVars
<1>3. CASE PollFiles
  <2>1. PICK files : state' = Published(poll.run, poll.rows, files)
    BY <1>3 DEF PollFiles
  <2> QED
    BY <2>1, PublishedIsOwn
<1>4. CASE PollLost
  BY <1>4, PublishedIsOwn DEF PollLost
<1>5. CASE PollFails
  <2>1. state' = [state EXCEPT !.ok = FALSE]
    BY <1>5 DEF PollFails
  <2>2. DOMAIN state' = Fields /\ state'.jobs = state.jobs /\ state'.run = state.run
    BY <2>1 DEF Fields
  <2> QED
    BY <2>2
<1>6. CASE ReportRequested \/ ReportAnswered \/ ReportLost
  BY <1>6 DEF ReportRequested, ReportAnswered, ReportLost
<1> QED
  BY <1>1, <1>2, <1>3, <1>4, <1>5, <1>6 DEF ConsoleNext, Polls

LEMMA ServedNext ==
    ServedReportIsCurrent /\ [ConsoleNext]_allVars
        => ServedReportIsCurrent'
<1> SUFFICES ASSUME ServedReportIsCurrent, [ConsoleNext]_allVars
             PROVE  ServedReportIsCurrent'
  OBVIOUS
<1> USE DEF ServedReportIsCurrent
<1>1. CASE UNCHANGED request
  BY <1>1
<1>2. CASE ReportRequested \/ ReportAnswered \/ ReportLost
  BY <1>2 DEF ReportRequested, ReportAnswered, ReportLost,
              Serves
<1> QED
  BY <1>1, <1>2 DEF ConsoleNext, NodeGoesOn, Polls, PollIdentity,
                    PollHistory, PollFiles, PollLost,
                    PollFails, allVars, consoleVars

\* GET /report: the bytes that are served name the run that was current when the
\* script read it, whatever was polled before and whoever writes meanwhile.
THEOREM OwnReport == ConsoleSpec => []ServedReportIsCurrent
<1>1. ConsoleInit => ServedReportIsCurrent
  BY DEF ConsoleInit, ServedReportIsCurrent
<1> QED
  BY <1>1, ServedNext, PTL DEF ConsoleSpec

\* attach_measured_energy: no energy of another run is ever shown, whichever run
\* directory, history and files a poll meets, and also when it fails half way.
THEOREM OwnEnergy == ConsoleSpec => []EnergyIsOwnRuns
<1>1. ConsoleInit => StateIsOwn
  BY DEF ConsoleInit, StateIsOwn, EnergyIsOwnRuns, Fields
<1>2. StateIsOwn => EnergyIsOwnRuns
  BY DEF StateIsOwn
<1> QED
  BY <1>1, <1>2, StateIsOwnNext, PTL DEF ConsoleSpec

=============================================================================
