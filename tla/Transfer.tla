------------------------------ MODULE Transfer ------------------------------
(***************************************************************************)
(* Moving a checkpoint between two workers: the staged, verified and       *)
(* committed copy of SshExecutor and FabricExecutor (executor.py), with    *)
(* the relay that FabricExecutor falls back to, and the operations that    *)
(* outlive their call: the threads call_with_timeout abandons when its     *)
(* watchdog fires, and the scp that goes on at the source when the ssh     *)
(* that ran it was lost.                                                   *)
(*                                                                         *)
(* A file's content is the set of checkpoint versions it holds bytes of:   *)
(* the empty set is no file, a singleton is a sound checkpoint, Hole marks *)
(* missing bytes and Flip bytes that arrived wrong.  An mv keeps the inode,*)
(* so a thread that still writes a staging file follows it to the live     *)
(* name; an rm or a replace leaves such a thread writing to nothing.  A    *)
(* thread is whatever copies a file: a thread of the orchestrator, or scp. *)
(* Abstracted: an upload reads the relay file in one step.  The source     *)
(* does not train while its checkpoint is copied (SourceStoppedFirst of    *)
(* Engine); at the end of a move the job resumes at the target, or at the  *)
(* source when the move or the start at the target failed.                 *)
(***************************************************************************)
EXTENDS Integers, FiniteSets

CONSTANTS
    Sites,
    StartSite,
    NoSite,
    Relay,          \* TRUE: FabricExecutor; FALSE: SshExecutor
    Outlives,       \* copies that may outlive their call
    MaxVersion,     \* bound on the checkpoints trained
    MaxMoves        \* bound on the moves attempted

Hole == 0
Flip == -1

ASSUME TransferAssumption ==
    /\ IsFiniteSet(Sites)
    /\ StartSite \in Sites
    /\ NoSite \notin Sites
    /\ Relay \in BOOLEAN
    /\ Outlives \subseteq {"scp", "download", "upload"}
    /\ MaxVersion \in Nat
    /\ MaxMoves \in Nat

VARIABLES
    live,       \* checkpoint.pt of each worker
    staging,    \* checkpoint.pt.incoming of each worker
    local,      \* runs/checkpoint-relay.npz of the orchestrator
    version,    \* the last checkpoint trained
    active,     \* where the job runs, or ran before the move
    target,
    pc,
    relaying,   \* the relay leg is in progress
    expected,   \* content whose size and digest were taken
    cur,        \* the thread call_with_timeout is joined on, as a set
    lost,       \* threads that have outlived their call
    moves       \* moves attempted

\* A history, not part of the program: the files that hold, or were copied
\* from a file that held, what a thread of lost did to them.
VARIABLE late

vars == <<live, staging, local, version, active, target, pc, relaying,
          expected, cur, lost, moves, late>>
files == <<live, staging, local, late>>
job   == <<version, active, moves>>

Versions == 1 .. MaxVersion
Content  == SUBSET (Versions \cup {Hole, Flip})
Places   == Sites \cup {NoSite}         \* NoSite is the orchestrator
Threads  == [kind : {"scp", "download", "upload"}, from : Places,
             site : Places, file : {"local", "staging", "live"},
             opened : BOOLEAN, data : Content]

CopyPcs  == {"fingerprint", "scp", "verify", "commit"}
RelayPcs == {"download", "downloading", "upload", "uploading", "digest"}

TypeOK ==
    /\ live \in [Sites -> Content]
    /\ staging \in [Sites -> Content]
    /\ local \in Content
    /\ version \in 0 .. MaxVersion
    /\ active \in Sites
    /\ target \in Sites \cup {NoSite}
    /\ pc \in {"idle", "done", "abort"} \cup CopyPcs \cup RelayPcs
    /\ relaying \in BOOLEAN
    /\ expected \in Content
    /\ cur \in SUBSET Threads /\ Cardinality(cur) <= 1
    /\ lost \in SUBSET Threads
    /\ moves \in 0 .. MaxMoves
    /\ late \subseteq Places \X {"local", "staging", "live"}

Init ==
    /\ live = [s \in Sites |-> {}]
    /\ staging = [s \in Sites |-> {}]
    /\ local = {}
    /\ version = 0
    /\ active = StartSite
    /\ target = NoSite
    /\ pc = "idle"
    /\ relaying = FALSE
    /\ expected = {}
    /\ cur = {}
    /\ lost = {}
    /\ moves = 0
    /\ late = {}

----------------------------------------------------------------------------
(* Files and the threads that write them.                                  *)

\* Threads still writing once the file they hold at s was unlinked.
Unlinked(threads, file, s) ==
    {th \in threads : ~(th.opened /\ th.file = file /\ th.site = s)}

\* ... and once mv made the staging file at s the live one.
Renamed(threads, s) ==
    {IF th.opened /\ th.file = "staging" /\ th.site = s
     THEN [th EXCEPT !.file = "live"] ELSE th
        : th \in Unlinked(threads, "live", s)}

\* Size equality: what _commit compares.
SameSize(a, b) == (Hole \in a) = (Hole \in b)

\* A whole write of d into a file holding f, while others may write it too.
Written(f, d) == {d, (f \ {Hole}) \cup d}

NewThread(kind, from, to) ==
    [kind |-> kind, from |-> from, site |-> to, opened |-> FALSE, data |-> {},
     file |-> IF to = NoSite THEN "local" ELSE "staging"]

Source(from) == IF from = NoSite THEN local ELSE live[from]
NameOf(from) == <<from, IF from = NoSite THEN "local" ELSE "live">>
Writes(th) == <<th.site, th.file>>

\* Whether a file rewritten from another is late is up to the other.
LateAfter(from, to) ==
    IF NameOf(from) \in late THEN late \cup {to} ELSE late \ {to}

\* Opening for writing truncates; the source of the copy is read then.
Opened(th) == [th EXCEPT !.opened = TRUE, !.data = Source(th.from)]

Opens(th) ==
    /\ ~th.opened
    /\ Source(th.from) # {}
    /\ \/ th.site = NoSite /\ local' = {Hole} /\ UNCHANGED staging
       \/ /\ th.site # NoSite
          /\ staging' = [staging EXCEPT ![th.site] = {Hole}]
          /\ UNCHANGED local
    /\ UNCHANGED live

Finishes(th) ==
    /\ th.opened
    /\ \/ /\ th.file = "local"
          /\ local' \in Written(local, th.data)
          /\ UNCHANGED <<live, staging>>
       \/ /\ th.file = "staging"
          /\ \E f \in Written(staging[th.site], th.data) :
                staging' = [staging EXCEPT ![th.site] = f]
          /\ UNCHANGED <<live, local>>
       \/ /\ th.file = "live"
          /\ \E f \in Written(live[th.site], th.data) :
                live' = [live EXCEPT ![th.site] = f]
          /\ UNCHANGED <<staging, local>>

----------------------------------------------------------------------------
(* transfer_checkpoint                                                     *)

Begin(t) ==
    /\ pc = "idle"
    /\ t # active
    /\ moves < MaxMoves
    /\ moves' = moves + 1
    /\ target' = t
    /\ pc' = "fingerprint"
    /\ relaying' = FALSE
    /\ UNCHANGED <<files, version, active, expected, cur, lost>>

\* A leg that raised: the dataplane leg of FabricExecutor falls back to the
\* relay, everything else aborts the move.
Raise ==
    /\ pc' = IF Relay /\ ~relaying THEN "download" ELSE "abort"
    /\ relaying' = (Relay /\ ~relaying)

FingerprintSource ==
    /\ pc = "fingerprint"
    /\ \/ /\ live[active] # {}
          /\ expected' = live[active]
          /\ pc' = "scp"
          /\ UNCHANGED relaying
       \/ Raise /\ UNCHANGED expected
    /\ UNCHANGED <<files, job, target, cur, lost>>

\* scp runs at the source, under timeout 300: when the ssh that waits for
\* it is lost (three missed keepalives) the call raises and scp goes on, at
\* whatever point of the copy it is.
ScpOutlives ==
    /\ "scp" \in Outlives
    /\ LET scp == NewThread("scp", active, target) IN
          \/ /\ lost' = lost \cup {scp}
             /\ UNCHANGED <<staging, late>>
          \/ /\ lost' = lost \cup {Opened(scp)}
             /\ staging' = [staging EXCEPT ![target] = {Hole}]
             /\ late' = late \cup {<<target, "staging">>}

Scp ==
    /\ pc = "scp"
    /\ \/ /\ \E f \in {live[active], {Hole}, {Flip}} :
                staging' = [staging EXCEPT ![target] = f]
          /\ late' = LateAfter(active, <<target, "staging">>)
          /\ pc' = "verify"
          /\ UNCHANGED <<relaying, lost>>
       \/ /\ \/ staging' = [staging EXCEPT ![target] = {Hole}]
             \/ UNCHANGED staging
          /\ Raise
          /\ UNCHANGED <<late, lost>>
       \/ ScpOutlives /\ Raise
    /\ UNCHANGED <<live, local, job, target, expected, cur>>

VerifiedBySize == SameSize(staging[target], expected)
Verified == staging[target] # {} /\ staging[target] = expected

VerifyStaged ==
    /\ pc = "verify"
    /\ \/ Verified /\ pc' = "commit" /\ UNCHANGED relaying
       \/ Raise
    /\ UNCHANGED <<files, job, target, expected, cur, lost>>

MoveIntoPlace ==
    /\ staging[target] # {}
    /\ live' = [live EXCEPT ![target] = staging[target]]
    /\ staging' = [staging EXCEPT ![target] = {}]
    /\ lost' = Renamed(lost, target)
    /\ late' = (IF <<target, "staging">> \in late
                THEN late \cup {<<target, "live">>}
                ELSE late \ {<<target, "live">>}) \ {<<target, "staging">>}

CommitUnchecked ==
    /\ pc = "commit"
    /\ MoveIntoPlace \/ UNCHANGED <<live, staging, lost, late>>
    /\ pc' = "done"
    /\ UNCHANGED <<local, job, target, relaying, expected, cur>>

\* The move may succeed, fail, or succeed with the answer lost; only an
\* answer with the expected size counts.
Commit ==
    /\ pc = "commit"
    /\ \/ /\ MoveIntoPlace
          /\ SameSize(staging[target], expected)
          /\ pc' = "done"
          /\ UNCHANGED relaying
       \/ /\ MoveIntoPlace \/ UNCHANGED <<live, staging, lost, late>>
          /\ Raise
    /\ UNCHANGED <<local, job, target, expected, cur>>

\* The engine starts the target; when that fails it resumes the source.
Finish ==
    /\ pc = "done"
    /\ active' \in {target, active}
    /\ target' = NoSite
    /\ pc' = "idle"
    /\ UNCHANGED <<files, version, relaying, expected, cur, lost, moves>>

RemoveStaging ==
    /\ staging' = [staging EXCEPT ![target] = {}]
    /\ lost' = Unlinked(lost, "staging", target)
    /\ late' = late \ {<<target, "staging">>}
    /\ UNCHANGED live

RemoveLiveToo ==
    /\ staging' = [staging EXCEPT ![target] = {}]
    /\ live' = [live EXCEPT ![target] = {}]
    /\ lost' = Unlinked(Unlinked(lost, "staging", target), "live", target)
    /\ late' = late \ {<<target, "staging">>, <<target, "live">>}

\* discard_incoming: nothing but the staging file is removed.
DiscardLive == RemoveLiveToo
Discard == RemoveStaging

\* _abort_migration: the discard is skipped when the target could not be
\* confirmed stopped, and may fail.
Abort ==
    /\ pc = "abort"
    /\ Discard \/ UNCHANGED <<live, staging, lost, late>>
    /\ target' = NoSite
    /\ pc' = "idle"
    /\ UNCHANGED <<local, job, relaying, expected, cur>>

----------------------------------------------------------------------------
(* The relay through the orchestrator, each copy on a thread of its own.   *)

StartThread(kind, from, to) ==
    /\ pc = kind
    /\ cur' = {NewThread(kind, from, to)}
    /\ UNCHANGED <<files, job, target, relaying, expected, lost>>

Download == StartThread("download", active, NoSite) /\ pc' = "downloading"
Upload   == StartThread("upload", NoSite, target) /\ pc' = "uploading"

Joined == pc \in {"downloading", "uploading"}

ThreadOpens(th) ==
    /\ Joined
    /\ th \in cur
    /\ Opens(th)
    /\ cur' = {Opened(th)}
    /\ late' = LateAfter(th.from, Writes(th))
    /\ UNCHANGED <<job, target, pc, relaying, expected, lost>>

ThreadFinishes(th) ==
    /\ Joined
    /\ th \in cur
    /\ Finishes(th)
    /\ cur' = {}
    /\ pc' = IF pc = "downloading" THEN "upload" ELSE "digest"
    /\ UNCHANGED <<job, target, relaying, expected, lost, late>>

ThreadFails ==
    /\ Joined
    /\ cur' = {}
    /\ Raise
    /\ UNCHANGED <<files, job, target, expected, lost>>

AbandonNever == Joined /\ UNCHANGED vars

\* The watchdog of call_with_timeout: the thread stays behind.
Abandon ==
    /\ Joined
    /\ \A th \in cur : th.kind \in Outlives
    /\ lost' = lost \cup cur
    /\ cur' = {}
    /\ Raise
    /\ UNCHANGED <<files, job, target, expected>>

\* The digest is taken from the relay file, not from the source.
DigestLocal ==
    /\ pc = "digest"
    /\ \/ /\ local # {}
          /\ expected' = local
          /\ pc' = "verify"
          /\ UNCHANGED relaying
       \/ Raise /\ UNCHANGED expected
    /\ UNCHANGED <<files, job, target, cur, lost>>

----------------------------------------------------------------------------
(* Outside the call: threads that outlived theirs, and the trainer.        *)

LostOpens(th) ==
    /\ th \in lost
    /\ Opens(th)
    /\ lost' = (lost \ {th}) \cup {Opened(th)}
    /\ late' = late \cup {Writes(th)}
    /\ UNCHANGED <<job, target, pc, relaying, expected, cur>>

LostFinishes(th) ==
    /\ th \in lost
    /\ Finishes(th)
    /\ lost' = lost \ {th}
    /\ late' = late \cup {Writes(th)}
    /\ UNCHANGED <<job, target, pc, relaying, expected, cur>>

LostDies(th) ==
    /\ th \in lost
    /\ lost' = lost \ {th}
    /\ UNCHANGED <<files, job, target, pc, relaying, expected, cur>>

\* The trainer replaces its checkpoint atomically.
Train ==
    /\ pc = "idle"
    /\ version < MaxVersion
    /\ version' = version + 1
    /\ live' = [live EXCEPT ![active] = {version'}]
    /\ lost' = Unlinked(lost, "live", active)
    /\ late' = late \ {<<active, "live">>}
    /\ UNCHANGED <<staging, local, active, moves, target, pc, relaying,
                   expected, cur>>

----------------------------------------------------------------------------
Call ==
    \/ FingerprintSource \/ Scp \/ VerifyStaged \/ Commit \/ Finish \/ Abort
    \/ Download \/ Upload \/ Abandon \/ DigestLocal

Thread ==
    \/ \E th \in cur : ThreadOpens(th) \/ ThreadFinishes(th)
    \/ ThreadFails

Outside ==
    \/ \E th \in lost : LostOpens(th) \/ LostFinishes(th) \/ LostDies(th)
    \/ \E t \in Sites : Begin(t)
    \/ Train

Next == Call \/ Thread \/ Outside

Spec == Init /\ [][Next]_vars

\* The caller runs on and its watchdog fires; a thread may hang for ever.
FairSpec == Spec /\ WF_vars(Call)

----------------------------------------------------------------------------
(* Properties                                                              *)

Whole(f) == \E v \in Versions : f = {v}

\* discard_incoming: transfers land on a staging path and are moved into
\* place only after they are verified, so the live checkpoint is never
\* partial.  A copy that outlived its call breaks this: the next move shares
\* its staging file, and mv carries the open writer to the live name.
NeverPartial == \A s \in Sites : live[s] = {} \/ Whole(live[s])

\* executor.py, _transfer_dataplane, _transfer_relay and _commit: lost bytes,
\* wrong bytes, a lost answer, a leg that failed, a staging file left over
\* from an earlier move: none of them ever damages a live checkpoint.  Only
\* bytes written by a copy after its call had raised can.
OnlyLateDamages ==
    \A s \in Sites : \/ live[s] = {} \/ Whole(live[s])
                    \/ <<s, "live">> \in late

Newest == IF version = 0 THEN {} ELSE {version}

\* engine.py, _migrate: a transfer that reports success delivered the last
\* checkpoint the job wrote, and wherever the job resumes, after a move or a
\* failed one, it finds that checkpoint, unless late bytes reached the file.
ResumesFromNewest ==
    /\ pc = "done" => live[target] = Newest \/ <<target, "live">> \in late
    /\ pc = "idle" => live[active] = Newest \/ <<active, "live">> \in late

\* _discard_incoming: no failure destroys a checkpoint that was there.
LiveNeverDeleted ==
    [][\A s \in Sites : live[s] # {} => live'[s] # {}]_vars

\* test_transfer_timeouts.py: a stalled path never wedges the migration.
TransferEnds == pc # "idle" ~> pc = "idle"

=============================================================================
