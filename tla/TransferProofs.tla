--------------------------- MODULE TransferProofs ---------------------------
(***************************************************************************)
(* Proofs about Transfer, for every set of workers and every bound.        *)
(*                                                                         *)
(* TypeCorrect: every variable keeps its type.                             *)
(* NeverDeleted: whatever hangs, no worker loses its live checkpoint.      *)
(* DamageIsLate, NewestResumed: whatever fails, hangs or outlives its call *)
(* (Outlives is any set of the copies), a live file that no late bytes     *)
(* reached is whole, and the one the job resumes from is its newest.       *)
(* MoveEndsInTwelve: the caller returns from a move in twelve steps.       *)
(***************************************************************************)
EXTENDS Transfer, FiniteSetTheorems, TLAPS

----------------------------------------------------------------------------
(* Types.                                                                  *)

\* TypeOK without the cardinality, which no other fact needs: cur is empty
\* or one thread.
Types ==
    /\ live \in [Sites -> Content]
    /\ staging \in [Sites -> Content]
    /\ local \in Content
    /\ version \in 0 .. MaxVersion
    /\ active \in Sites
    /\ target \in Sites \cup {NoSite}
    /\ pc \in {"idle", "done", "abort"} \cup CopyPcs \cup RelayPcs
    /\ relaying \in BOOLEAN
    /\ expected \in Content
    /\ cur = {} \/ \E th \in Threads : cur = {th}
    /\ lost \in SUBSET Threads
    /\ moves \in 0 .. MaxMoves
    /\ late \subseteq Places \X {"local", "staging", "live"}

\* A move has a target other than its source.
Aimed == pc # "idle" => target \in Sites /\ target # active

\* Names for the smallest contents, so that the provers need not look inside.
LEMMA ContentFacts ==
    /\ {} \in Content
    /\ {Hole} \in Content
    /\ {Flip} \in Content
    /\ \A v \in Versions : {v} \in Content
    /\ \A f, d \in Content : Written(f, d) \subseteq Content
  BY DEF Content, Written

LEMMA ThreadFacts ==
    ASSUME NEW th \in Threads
    PROVE  [th EXCEPT !.file = "live"] \in Threads
  BY DEF Threads

LEMMA NewThreadFacts ==
    ASSUME NEW kind \in {"scp", "download", "upload"},
           NEW from \in Places, NEW to \in Places
    PROVE  NewThread(kind, from, to) \in Threads
  BY ContentFacts DEF Threads, NewThread

LEMMA SourceFacts ==
    ASSUME Types, NEW from \in Places
    PROVE  Source(from) \in Content
  BY DEF Types, Source, Places

LEMMA OpenedFacts ==
    ASSUME Types, NEW th \in Threads
    PROVE  Opened(th) \in Threads
<1>1. th.from \in Places
  BY DEF Threads
<1>2. Source(th.from) \in Content
  BY <1>1, SourceFacts
<1> QED
  BY <1>2 DEF Opened, Threads

\* Following threads through an rm or an mv leaves threads.
LEMMA FollowFacts ==
    ASSUME NEW threads \in SUBSET Threads, NEW s \in Sites
    PROVE  /\ Renamed(threads, s) \subseteq Threads
           /\ \A file \in {"staging", "live"} : Unlinked(threads, file, s) \subseteq threads
  BY ThreadFacts DEF Renamed, Unlinked

LEMMA OpensTypes ==
    ASSUME Types, NEW th \in Threads, Opens(th)
    PROVE  /\ live' \in [Sites -> Content]
           /\ staging' \in [Sites -> Content]
           /\ local' \in Content
           /\ Writes(th) \in Places \X {"local", "staging", "live"}
<1>1. th.site \in Places /\ th.file \in {"local", "staging", "live"}
  BY DEF Threads
<1>2. CASE th.site = NoSite
  BY <1>1, <1>2, ContentFacts, TransferAssumption DEF Types, Opens, Writes
<1>3. CASE th.site # NoSite
  BY <1>1, <1>3, ContentFacts DEF Types, Opens, Writes, Places
<1> QED
  BY <1>2, <1>3

LEMMA FinishesTypes ==
    ASSUME Types, NEW th \in Threads, Finishes(th)
    PROVE  /\ live' \in [Sites -> Content]
           /\ staging' \in [Sites -> Content]
           /\ local' \in Content
           /\ Writes(th) \in Places \X {"local", "staging", "live"}
<1>1. /\ th.site \in Places /\ th.data \in Content
      /\ th.file \in {"local", "staging", "live"}
  BY DEF Threads
<1>2. CASE th.file = "local"
  BY <1>1, <1>2, ContentFacts DEF Types, Finishes, Writes
<1>3. CASE th.file = "staging"
  <2>1. CASE th.site \in Sites
    BY <1>1, <1>3, <2>1, ContentFacts DEF Types, Finishes, Writes
  <2>2. CASE th.site \notin Sites
    BY <1>1, <1>3, <2>2, ContentFacts DEF Types, Finishes, Writes
  <2> QED
    BY <2>1, <2>2
<1>4. CASE th.file = "live"
  <2>1. CASE th.site \in Sites
    BY <1>1, <1>4, <2>1, ContentFacts DEF Types, Finishes, Writes
  <2>2. CASE th.site \notin Sites
    BY <1>1, <1>4, <2>2, ContentFacts DEF Types, Finishes, Writes
  <2> QED
    BY <2>1, <2>2
<1> QED
  BY <1>2, <1>3, <1>4 DEF Finishes

LEMMA TypesInit == Init => Types /\ Aimed
<1> SUFFICES ASSUME Init PROVE Types /\ Aimed
  OBVIOUS
<1>1. /\ live \in [Sites -> Content]
      /\ staging \in [Sites -> Content]
      /\ local \in Content
      /\ expected \in Content
  BY ContentFacts DEF Init
<1>2. version \in 0 .. MaxVersion /\ moves \in 0 .. MaxMoves
  BY TransferAssumption DEF Init
<1> QED
  BY <1>1, <1>2, TransferAssumption DEF Init, Types, Aimed, CopyPcs, RelayPcs

LEMMA TypesNext == Types /\ Aimed /\ [Next]_vars => (Types /\ Aimed)'
<1> SUFFICES ASSUME Types, Aimed, [Next]_vars PROVE (Types /\ Aimed)'
  OBVIOUS
<1> USE TransferAssumption DEF Types, Aimed, CopyPcs, RelayPcs, files, job
<1>1. CASE UNCHANGED vars
  BY <1>1 DEF vars
<1>2. ASSUME NEW t \in Sites, Begin(t) PROVE (Types /\ Aimed)'
  <2>1. moves' \in 0 .. MaxMoves
    BY <1>2 DEF Begin
  <2> QED
    BY <1>2, <2>1 DEF Begin
<1>3. CASE FingerprintSource
  BY <1>3 DEF FingerprintSource, Raise
<1>4. CASE Scp
  <2>1. /\ target \in Sites /\ active \in Places /\ target \in Places
        /\ NewThread("scp", active, target) \in Threads
    BY <1>4, NewThreadFacts DEF Scp, Places
  <2>2. staging' \in [Sites -> Content]
    BY <1>4, ContentFacts DEF Scp, ScpOutlives
  <2>3. late' \subseteq Places \X {"local", "staging", "live"}
    BY <1>4, <2>1 DEF Scp, ScpOutlives, LateAfter
  <2>4. lost' \in SUBSET Threads
    BY <1>4, <2>1, OpenedFacts DEF Scp, ScpOutlives
  <2> QED
    BY <1>4, <2>2, <2>3, <2>4 DEF Scp, Raise
<1>5. CASE VerifyStaged
  BY <1>5 DEF VerifyStaged, Raise
<1>6. CASE Commit
  <2>1. /\ live' \in [Sites -> Content]
        /\ staging' \in [Sites -> Content]
        /\ lost' \in SUBSET Threads
        /\ late' \subseteq Places \X {"local", "staging", "live"}
    <3>1. CASE MoveIntoPlace
      <4>1. target \in Sites /\ target \in Places
        BY <1>6 DEF Commit, Places
      <4>2. /\ live' \in [Sites -> Content]
            /\ staging' \in [Sites -> Content]
        BY <3>1, <4>1, ContentFacts DEF MoveIntoPlace
      <4>3. lost' \in SUBSET Threads
        BY <3>1, <4>1, FollowFacts DEF MoveIntoPlace
      <4>4. late' \subseteq Places \X {"local", "staging", "live"}
        BY <3>1, <4>1 DEF MoveIntoPlace
      <4> QED
        BY <4>2, <4>3, <4>4
    <3>2. CASE UNCHANGED <<live, staging, lost, late>>
      BY <3>2
    <3> QED
      BY <1>6, <3>1, <3>2 DEF Commit
  <2> QED
    BY <1>6, <2>1 DEF Commit, Raise
<1>7. CASE Finish
  BY <1>7 DEF Finish
<1>8. CASE Abort
  <2>1. target \in Sites
    BY <1>8 DEF Abort
  <2>2. /\ lost' \in SUBSET Threads
        /\ late' \subseteq Places \X {"local", "staging", "live"}
    BY <1>8, <2>1, FollowFacts DEF Abort, Discard, RemoveStaging
  <2> QED
    BY <1>8, <2>2, ContentFacts DEF Abort, Discard, RemoveStaging
<1>9. CASE Download \/ Upload
  <2>1. CASE Download
    <3>1. NewThread("download", active, NoSite) \in Threads
      BY NewThreadFacts DEF Places
    <3> QED
      BY <2>1, <3>1 DEF Download, StartThread
  <2>2. CASE Upload
    <3>1. target \in Sites
      BY <2>2 DEF Upload, StartThread
    <3>2. NewThread("upload", NoSite, target) \in Threads
      BY <3>1, NewThreadFacts DEF Places
    <3> QED
      BY <2>2, <3>2 DEF Upload, StartThread
  <2> QED
    BY <1>9, <2>1, <2>2
<1>10. ASSUME NEW th \in cur, ThreadOpens(th) PROVE (Types /\ Aimed)'
  <2>1. th \in Threads /\ Opens(th)
    BY <1>10 DEF ThreadOpens
  <2>2. late' \subseteq Places \X {"local", "staging", "live"}
    BY <1>10, <2>1, OpensTypes DEF ThreadOpens, LateAfter
  <2>3. cur' = {Opened(th)} /\ Opened(th) \in Threads
    BY <1>10, <2>1, OpenedFacts DEF ThreadOpens
  <2> QED
    BY <1>10, <2>1, <2>2, <2>3, OpensTypes DEF ThreadOpens
<1>11. ASSUME NEW th \in cur, ThreadFinishes(th) PROVE (Types /\ Aimed)'
  BY <1>11, FinishesTypes DEF ThreadFinishes, Joined
<1>12. CASE ThreadFails
  BY <1>12 DEF ThreadFails, Raise, Joined
<1>13. CASE Abandon
  BY <1>13 DEF Abandon, Raise, Joined
<1>14. CASE DigestLocal
  BY <1>14 DEF DigestLocal, Raise
<1>15. ASSUME NEW th \in lost, LostOpens(th) PROVE (Types /\ Aimed)'
  BY <1>15, OpensTypes, OpenedFacts DEF LostOpens
<1>16. ASSUME NEW th \in lost, LostFinishes(th) PROVE (Types /\ Aimed)'
  BY <1>16, FinishesTypes DEF LostFinishes
<1>17. ASSUME NEW th \in lost, LostDies(th) PROVE (Types /\ Aimed)'
  BY <1>17 DEF LostDies
<1>18. CASE Train
  <2>1. version' \in Versions
    BY <1>18 DEF Train, Versions
  <2>2. lost' \in SUBSET Threads
    BY <1>18, FollowFacts DEF Train
  <2> QED
    BY <1>18, <2>1, <2>2, ContentFacts DEF Train, Versions
<1> QED
  BY <1>1, <1>2, <1>3, <1>4, <1>5, <1>6, <1>7, <1>8, <1>9, <1>10, <1>11, <1>12,
     <1>13, <1>14, <1>15, <1>16, <1>17, <1>18 DEF Next, Call, Thread, Outside

\* TypeOK holds throughout: no file, thread or control variable leaves its
\* type, whatever hangs or fails (executor.py, transfer_checkpoint).
THEOREM TypeCorrect == Spec => []TypeOK
<1>1. Types => TypeOK
  <2>1. ASSUME NEW th \in Threads, cur = {th}
        PROVE  cur \in SUBSET Threads /\ Cardinality(cur) <= 1
    <3>1. Cardinality(cur) = 1
      BY <2>1, FS_Singleton
    <3> QED
      BY <2>1, <3>1
  <2>2. ASSUME cur = {} PROVE cur \in SUBSET Threads /\ Cardinality(cur) <= 1
    <3>1. Cardinality(cur) = 0
      BY <2>2, FS_EmptySet
    <3> QED
      BY <2>2, <3>1
  <2> QED
    BY <2>1, <2>2 DEF Types, TypeOK
<1> QED
  BY <1>1, TypesInit, TypesNext, PTL DEF Spec

----------------------------------------------------------------------------
(* No checkpoint is deleted.                                               *)

\* A thread that opened its file holds bytes to write; it writes the relay
\* file at the orchestrator and a staging file at a worker, which an mv may
\* have made the live one since.  There is a checkpoint to copy.
HeldBy(threads) ==
    \A th \in threads :
        /\ th.opened => th.data # {}
        /\ th.file = "local" <=> th.site = NoSite
        /\ ~th.opened => th.file # "live"

Held ==
    /\ HeldBy(cur) /\ HeldBy(lost)
    /\ pc = "scp" => live[active] # {}

DeletesNothing == \A s \in Sites : live[s] # {} => live'[s] # {}

LEMMA NewThreadHolds ==
    ASSUME NEW kind \in {"scp", "download", "upload"},
           NEW from \in Places, NEW to \in Places
    PROVE  HeldBy({NewThread(kind, from, to)})
  BY DEF HeldBy, NewThread

LEMMA OpenedHolds ==
    ASSUME Types, NEW th \in Threads, HeldBy({th}), ~th.opened,
           Source(th.from) # {}
    PROVE  HeldBy({Opened(th)})
  BY DEF HeldBy, Opened, Threads

LEMMA FinishesHolds ==
    ASSUME Types, NEW th \in Threads, th.data # {}, Finishes(th)
    PROVE  DeletesNothing
<1>1. CASE th.file = "live"
  <2>1. PICK f \in Written(live[th.site], th.data) :
           live' = [live EXCEPT ![th.site] = f]
    BY <1>1 DEF Finishes
  <2>2. f # {}
    BY <2>1 DEF Written
  <2> QED
    BY <2>1, <2>2 DEF DeletesNothing, Types
<1> QED
  BY <1>1 DEF Finishes, DeletesNothing

LEMMA FollowHolds ==
    ASSUME NEW threads \in SUBSET Threads, NEW s \in Sites, HeldBy(threads)
    PROVE  /\ HeldBy(Renamed(threads, s))
           /\ \A file : HeldBy(Unlinked(threads, file, s))
  BY TransferAssumption DEF HeldBy, Renamed, Unlinked, Threads

LEMMA HeldNext ==
    ASSUME Types, Aimed, Held, [Next]_vars
    PROVE  Held' /\ DeletesNothing
<1> USE DEF Types, Held, files, job
<1>0. cur \in SUBSET Threads
  OBVIOUS
<1>1. CASE UNCHANGED vars
  BY <1>1 DEF vars, DeletesNothing, HeldBy
<1>2. CASE \/ \E t \in Sites : Begin(t)
           \/ FingerprintSource \/ VerifyStaged \/ Finish \/ DigestLocal
  <2>1. UNCHANGED <<live, cur, lost>>
    BY <1>2 DEF Begin, FingerprintSource, VerifyStaged, Finish, DigestLocal
  <2>2. pc' = "scp" => live'[active'] # {}
    BY <1>2 DEF Begin, FingerprintSource, VerifyStaged, Finish, DigestLocal,
                Raise
  <2> QED
    BY <2>1, <2>2 DEF DeletesNothing, HeldBy
<1>3. CASE Scp
  <2> DEFINE scp == NewThread("scp", active, target)
  <2>1. /\ target \in Places /\ active \in Sites /\ active \in Places
        /\ UNCHANGED <<live, cur>> /\ pc' # "scp" /\ live[active] # {}
    BY <1>3 DEF Scp, Raise, Aimed, Places
  <2>2. scp \in Threads /\ HeldBy({scp}) /\ ~scp.opened
    BY <2>1, NewThreadFacts, NewThreadHolds DEF NewThread
  <2>3. Source(scp.from) # {}
    BY <2>1, TransferAssumption DEF NewThread, Source
  <2>4. HeldBy({Opened(scp)})
    BY <2>2, <2>3, OpenedHolds
  <2>5. lost' \subseteq lost \cup {scp, Opened(scp)}
    BY <1>3 DEF Scp, ScpOutlives
  <2> HIDE DEF scp
  <2> QED
    BY <2>1, <2>2, <2>4, <2>5 DEF HeldBy, DeletesNothing
<1>4. CASE Commit
  <2>1. target \in Sites /\ UNCHANGED cur /\ pc' # "scp"
    BY <1>4 DEF Commit, Raise, Aimed
  <2>2. CASE MoveIntoPlace
    BY <1>0, <2>1, <2>2, FollowHolds DEF MoveIntoPlace, DeletesNothing, HeldBy
  <2>3. CASE UNCHANGED <<live, staging, lost, late>>
    BY <2>1, <2>3 DEF DeletesNothing, HeldBy
  <2> QED
    BY <1>4, <2>2, <2>3 DEF Commit
<1>5. CASE Abort
  <2>1. target \in Sites /\ UNCHANGED <<cur, live>> /\ pc' # "scp"
    BY <1>5 DEF Abort, Aimed, Discard, RemoveStaging
  <2>2. CASE Discard
    <3>1. HeldBy(lost')
      BY <2>1, <2>2, FollowHolds DEF Discard, RemoveStaging
    <3> QED
      BY <2>1, <3>1 DEF DeletesNothing, HeldBy
  <2>3. CASE UNCHANGED <<live, staging, lost, late>>
    BY <2>1, <2>3 DEF DeletesNothing, HeldBy
  <2> QED
    BY <1>5, <2>2, <2>3 DEF Abort
<1>6. CASE Download \/ Upload
  <2>1. active \in Places /\ NoSite \in Places /\ target \in Places
    BY DEF Places
  <2>2. /\ \E kind \in {"scp", "download", "upload"}, from, to \in Places :
              cur' = {NewThread(kind, from, to)}
        /\ pc' # "scp" /\ UNCHANGED <<live, lost>>
    BY <1>6, <2>1 DEF Download, Upload, StartThread
  <2> QED
    BY <2>2, NewThreadHolds DEF DeletesNothing, HeldBy
<1>7. ASSUME NEW th \in cur, ThreadOpens(th) PROVE Held' /\ DeletesNothing
  <2>1. HeldBy({Opened(th)})
    BY <1>0, <1>7, OpenedHolds DEF ThreadOpens, Opens, HeldBy
  <2> QED
    BY <1>7, <2>1 DEF ThreadOpens, Opens, DeletesNothing, HeldBy, Joined
<1>8. ASSUME NEW th \in cur, ThreadFinishes(th) PROVE Held' /\ DeletesNothing
  <2>1. th \in Threads /\ th.data # {} /\ Finishes(th)
    BY <1>0, <1>8 DEF ThreadFinishes, Finishes, HeldBy
  <2> QED
    BY <1>8, <2>1, FinishesHolds DEF ThreadFinishes, HeldBy
<1>9. CASE ThreadFails \/ Abandon
  BY <1>9 DEF ThreadFails, Abandon, DeletesNothing, HeldBy, Raise
<1>10. ASSUME NEW th \in lost, LostOpens(th) PROVE Held' /\ DeletesNothing
  <2>1. HeldBy({Opened(th)})
    BY <1>10, OpenedHolds DEF LostOpens, Opens, HeldBy
  <2> QED
    BY <1>10, <2>1 DEF LostOpens, Opens, DeletesNothing, HeldBy
<1>11. ASSUME NEW th \in lost, LostFinishes(th) PROVE Held' /\ DeletesNothing
  <2>1. th \in Threads /\ th.data # {} /\ Finishes(th)
    BY <1>11 DEF LostFinishes, Finishes, HeldBy
  <2>2. DeletesNothing
    BY <2>1, FinishesHolds
  <2> QED
    BY <1>11, <2>2 DEF LostFinishes, DeletesNothing, HeldBy
<1>12. ASSUME NEW th \in lost, LostDies(th) PROVE Held' /\ DeletesNothing
  BY <1>12 DEF LostDies, DeletesNothing, HeldBy
<1>13. CASE Train
  <2>1. HeldBy(lost')
    BY <1>13, FollowHolds DEF Train
  <2> QED
    BY <1>13, <2>1 DEF Train, DeletesNothing, HeldBy
<1> QED
  BY <1>1, <1>2, <1>3, <1>4, <1>5, <1>6, <1>7, <1>8, <1>9, <1>10, <1>11, <1>12,
     <1>13 DEF Next, Call, Thread, Outside

\* No step of a move, of its cleanup or of an abandoned thread leaves a
\* worker without the checkpoint it had (executor.py, discard_incoming).
THEOREM NeverDeleted == Spec => LiveNeverDeleted
<1>1. Init => Held
  BY DEF Init, Held, HeldBy
<1>2. Types /\ Aimed /\ Held /\ [Next]_vars => Held' /\ [DeletesNothing]_vars
  BY HeldNext
<1>3. Types /\ Aimed /\ [Next]_vars => (Types /\ Aimed)'
  BY TypesNext
<1> QED
  BY <1>1, <1>2, <1>3, TypesInit, PTL DEF Spec, LiveNeverDeleted, DeletesNothing

----------------------------------------------------------------------------
(* The two legs of a move.                                                 *)

\* The relay operations belong to the second leg, the first two of the dataplane
\* to the first.
Legs ==
    /\ pc \in RelayPcs => relaying
    /\ pc \in {"fingerprint", "scp"} => ~relaying

\* A leg that raises leaves the relay leg to be done, or the return.
LEMMA RaiseIs ==
    ASSUME relaying \in BOOLEAN, Raise
    PROVE  \/ pc' = "download" /\ ~relaying /\ relaying'
           \/ pc' = "abort" /\ ~relaying'
<1>1. CASE Relay /\ ~relaying
  BY <1>1 DEF Raise
<1>2. CASE ~(Relay /\ ~relaying)
  BY <1>2 DEF Raise
<1> QED
  BY <1>1, <1>2

LEMMA LegsNext == Types /\ Legs /\ [Next]_vars => Legs'
<1> SUFFICES ASSUME relaying \in BOOLEAN, Legs, [Next]_vars PROVE Legs'
  BY DEF Types
<1> USE RaiseIs DEF Legs, RelayPcs, Joined
<1>1. CASE UNCHANGED vars
  BY <1>1 DEF vars
<1>2. CASE Call
  <2>1. CASE FingerprintSource \/ Scp
    BY <2>1 DEF FingerprintSource, Scp
  <2>2. CASE VerifyStaged \/ Commit
    BY <2>2 DEF VerifyStaged, Commit
  <2>3. CASE Finish \/ Abort \/ Abandon \/ DigestLocal
    BY <2>3 DEF Finish, Abort, Abandon, DigestLocal
  <2>4. CASE Download \/ Upload
    BY <2>4 DEF Download, Upload, StartThread
  <2> QED
    BY <1>2, <2>1, <2>2, <2>3, <2>4 DEF Call
<1>3. CASE Thread
  BY <1>3 DEF Thread, ThreadOpens, ThreadFinishes, ThreadFails
<1>4. CASE Outside
  BY <1>4 DEF Outside, LostOpens, LostFinishes, LostDies, Begin, Train
<1> QED
  BY <1>1, <1>2, <1>3, <1>4 DEF Next

----------------------------------------------------------------------------
(* What files that no late bytes reached may be relied on for.             *)

IsLate(s, file) == <<s, file>> \in late

\* What each phase relies on: a fingerprint that is the newest checkpoint's,
\* a relay file and then a staged file that hold it, and what was committed.
Phases ==
    /\ pc = "scp" => expected = Newest \/ IsLate(active, "live")
    /\ pc = "verify" /\ ~relaying =>
           expected = Newest \/ IsLate(target, "staging")
    /\ pc \in {"commit", "digest"} \/ (pc = "verify" /\ relaying) =>
           staging[target] = Newest \/ IsLate(target, "staging")
    /\ pc \in {"upload", "uploading"} => local = Newest \/ IsLate(NoSite, "local")
    /\ pc = "done" => live[target] = Newest \/ IsLate(target, "live")

\* The joined thread writes the file its phase is about, and nobody else has.
ThreadAtWork ==
    \A th \in cur :
        \/ /\ pc = "downloading"
           /\ th.from = active /\ th.site = NoSite /\ th.file = "local"
           /\ th.opened => \/ local = {Hole} /\ th.data = Newest
                           \/ IsLate(NoSite, "local")
        \/ /\ pc = "uploading"
           /\ th.from = NoSite /\ th.site = target /\ th.file = "staging"
           /\ th.opened => \/ staging[target] = {Hole} /\ th.data = Newest
                           \/ IsLate(target, "staging")

Sound ==
    /\ OnlyLateDamages
    /\ live[active] = Newest \/ IsLate(active, "live")
    /\ Phases
    /\ ThreadAtWork

LEMMA SoundInit == Init => Sound
<1> SUFFICES ASSUME Init PROVE Sound
  OBVIOUS
<1>1. OnlyLateDamages /\ Phases /\ ThreadAtWork
  BY DEF Init, OnlyLateDamages, Phases, ThreadAtWork
<1>2. live[active] = Newest
  BY TransferAssumption DEF Init, Newest
<1> QED
  BY <1>1, <1>2 DEF Sound

\* A copy of the newest checkpoint over the truncated file is that checkpoint.
LEMMA WrittenOver ==
    ASSUME NEW d, NEW f \in Written({Hole}, d)
    PROVE  f = d
  BY DEF Written

LEMMA NewestFacts ==
    ASSUME Types
    PROVE  Newest = {} \/ Whole(Newest)
<1>1. version \in Nat /\ MaxVersion \in Nat
  BY TransferAssumption DEF Types
<1>2. CASE version = 0
  BY <1>2 DEF Newest
<1>3. CASE version # 0
  <2>1. version \in Versions
    BY <1>1, <1>3 DEF Types, Versions
  <2> QED
    BY <1>3, <2>1 DEF Newest, Whole
<1> QED
  BY <1>2, <1>3

\* A thread that has outlived its call leaves every file it did not write, and
\* every control variable, as they were.
LEMMA LostTouches ==
    ASSUME Types, Held, NEW th \in lost, LostOpens(th) \/ LostFinishes(th)
    PROVE  /\ late' = late \cup {Writes(th)}
           /\ \A s \in Sites : live'[s] = live[s] \/ <<s, "live">> \in late'
           /\ \A s \in Sites : staging'[s] = staging[s] \/ <<s, "staging">> \in late'
           /\ local' = local \/ <<NoSite, "local">> \in late'
           /\ UNCHANGED <<version, active, target, pc, relaying, expected, cur>>
<1>1. /\ th \in Threads /\ th.site \in Places
      /\ th.file \in {"local", "staging", "live"}
      /\ th.file = "local" <=> th.site = NoSite
      /\ ~th.opened => th.file # "live"
  BY DEF Types, Held, HeldBy, Threads
<1>2. CASE LostOpens(th)
  BY <1>1, <1>2 DEF LostOpens, Opens, Types, Places, Writes, job
<1>3. CASE LostFinishes(th)
  BY <1>1, <1>3 DEF LostFinishes, Finishes, Types, Places, Writes, job
<1> QED
  BY <1>2, <1>3

LEMMA SoundNext ==
    ASSUME Types, Aimed, Held, Legs, Sound, [Next]_vars
    PROVE  Sound'
<1> USE DEF Aimed, Sound, OnlyLateDamages, Newest, Phases, ThreadAtWork,
            IsLate, files, job
<1>0. /\ live \in [Sites -> Content] /\ staging \in [Sites -> Content]
      /\ active \in Sites /\ NoSite \notin Sites
  BY TransferAssumption DEF Types
<1>1. CASE UNCHANGED vars
  BY <1>1 DEF vars
<1>2. ASSUME NEW t \in Sites, Begin(t) PROVE Sound'
  BY <1>2 DEF Begin
<1>3. CASE FingerprintSource
  BY <1>3 DEF FingerprintSource, Raise
<1>4. CASE Scp
  <2>0. target \in Sites /\ ~relaying /\ cur = {} /\ cur' = {}
    BY <1>4 DEF Scp, Legs
  <2>1. UNCHANGED <<live, local, version, active, target, expected>>
    BY <1>4 DEF Scp
  <2>2. \A s \in Sites : <<s, "live">> \in late' <=> <<s, "live">> \in late
    <3>1. late' \in {late, late \cup {<<target, "staging">>}, late \ {<<target, "staging">>}}
      BY <1>4 DEF Scp, ScpOutlives, LateAfter
    <3>2. \A s \in Sites : <<s, "live">> # <<target, "staging">>
      OBVIOUS
    <3> QED
      BY <3>1, <3>2
  <2>3. CASE pc' = "verify" /\ late' = LateAfter(active, <<target, "staging">>)
    <3>1. NameOf(active) = <<active, "live">>
      BY <1>0 DEF NameOf
    <3>2. <<target, "staging">> \notin late' => <<active, "live">> \notin late
      BY <2>3, <3>1 DEF LateAfter
    <3>3. pc = "scp"
      BY <1>4 DEF Scp
    <3>4. expected' = Newest' \/ <<target, "staging">> \in late'
      BY <2>1, <3>2, <3>3
    <3>5. OnlyLateDamages' /\ (live[active] = Newest \/ IsLate(active, "live"))'
      BY <1>0, <2>1, <2>2
    <3>6. ~relaying'
      BY <1>4, <2>0, <2>3 DEF Scp, Raise
    <3>7. ThreadAtWork'
      BY <2>0
    <3>8. Phases'
      BY <2>1, <2>3, <3>4, <3>6
    <3> QED
      BY <3>5, <3>7, <3>8
  <2>4. CASE Raise
    <3>1. OnlyLateDamages' /\ (live[active] = Newest \/ IsLate(active, "live"))'
      BY <1>0, <2>1, <2>2
    <3>2. pc' \in {"download", "abort"}
      BY <2>4 DEF Raise
    <3> QED
      BY <2>0, <3>1, <3>2
  <2> QED
    BY <1>4, <2>3, <2>4 DEF Scp
<1>5. CASE VerifyStaged
  BY <1>5 DEF VerifyStaged, Verified, Raise
<1>6. CASE Commit
  <2>0. target \in Sites /\ target # active /\ cur = {} /\ cur' = {}
    BY <1>6 DEF Commit
  <2>1. CASE MoveIntoPlace
    <3>1. \/ live'[target] = Newest
          \/ <<target, "live">> \in late'
      BY <1>0, <1>6, <2>0, <2>1 DEF Commit, MoveIntoPlace
    <3>2. \A s \in Sites \ {target} :
             /\ live'[s] = live[s]
             /\ <<s, "live">> \in late' <=> <<s, "live">> \in late
      BY <1>0, <2>0, <2>1 DEF MoveIntoPlace
    <3>3. UNCHANGED <<version, active, target>> /\ pc' \in {"done", "download", "abort"}
      BY <1>6 DEF Commit, Raise
    <3>4. live'[target] = Newest => live'[target] = {} \/ Whole(live'[target])
      BY NewestFacts
    <3>5. OnlyLateDamages'
      BY <3>1, <3>2, <3>3, <3>4
    <3>6. (live[active] = Newest \/ IsLate(active, "live"))'
      BY <1>0, <2>0, <3>2, <3>3
    <3>7. Phases'
      BY <3>1, <3>3
    <3>8. ThreadAtWork'
      BY <2>0
    <3> QED
      BY <3>5, <3>6, <3>7, <3>8
  <2>2. CASE UNCHANGED <<live, staging, lost, late>> /\ Raise
    BY <1>6, <2>0, <2>2 DEF Commit, Raise
  <2> QED
    BY <1>6, <2>1, <2>2 DEF Commit
<1>7. CASE Finish
  BY <1>7 DEF Finish
<1>8. CASE Abort
  <2>1. /\ UNCHANGED <<live, version, active, cur>> /\ pc' = "idle"
        /\ cur = {}
        /\ \A s \in Sites : <<s, "live">> \in late' <=> <<s, "live">> \in late
    <3>1. late' \in {late, late \ {<<target, "staging">>}}
      BY <1>8 DEF Abort, Discard, RemoveStaging
    <3>2. \A s \in Sites : <<s, "live">> \in late' <=> <<s, "live">> \in late
      BY <3>1
    <3>3. /\ UNCHANGED <<live, version, active, cur>> /\ pc' = "idle" /\ cur = {}
      BY <1>8 DEF Abort, Discard, RemoveStaging
    <3> QED
      BY <3>2, <3>3
  <2>2. OnlyLateDamages'
    BY <2>1
  <2>3. (live[active] = Newest \/ IsLate(active, "live"))'
    BY <1>0, <2>1
  <2>4. Phases' /\ ThreadAtWork'
    BY <2>1
  <2> QED
    BY <2>2, <2>3, <2>4
<1>9. CASE Download \/ Upload
  <2>1. CASE Download
    <3>1. /\ cur' = {NewThread("download", active, NoSite)} /\ pc' = "downloading"
          /\ UNCHANGED <<files, job, target, relaying, expected>>
      BY <2>1 DEF Download, StartThread
    <3>2. ThreadAtWork'
      BY <3>1 DEF NewThread
    <3> QED
      BY <3>1, <3>2
  <2>2. CASE Upload
    <3>1. /\ cur' = {NewThread("upload", NoSite, target)} /\ pc' = "uploading"
          /\ pc = "upload" /\ target \in Sites
          /\ UNCHANGED <<files, job, target, relaying, expected>>
      BY <2>2 DEF Upload, StartThread
    <3>2. ThreadAtWork'
      BY <1>0, <3>1 DEF NewThread
    <3> QED
      BY <3>1, <3>2
  <2> QED
    BY <1>9, <2>1, <2>2
<1>10. ASSUME NEW th \in cur, ThreadOpens(th) PROVE Sound'
  <2>0. /\ th \in Threads /\ Opens(th) /\ cur' = {Opened(th)}
        /\ late' = LateAfter(th.from, Writes(th))
        /\ UNCHANGED <<live, version, active, target, pc, relaying, expected>>
    BY <1>10 DEF ThreadOpens, Opens, Types
  <2>1. /\ Opened(th).opened /\ Opened(th).data = Source(th.from)
        /\ Opened(th).from = th.from /\ Opened(th).site = th.site
        /\ Opened(th).file = th.file
    BY <2>0 DEF Opened, Threads
  <2>2. \A s \in Sites : <<s, "live">> \in late' <=> <<s, "live">> \in late
    BY <1>0, <2>0 DEF LateAfter, Writes
  <2>3. CASE pc = "downloading"
    <3>1. th.from = active /\ th.site = NoSite /\ th.file = "local"
      BY <2>3
    <3>2. <<NoSite, "local">> \notin late' => <<active, "live">> \notin late
      BY <1>0, <2>0, <3>1 DEF LateAfter, Writes, NameOf
    <3>3. Source(th.from) = live[active] /\ local' = {Hole}
      BY <1>0, <2>0, <3>1 DEF Source, Opens
    <3>4. OnlyLateDamages' /\ (live[active] = Newest \/ IsLate(active, "live"))'
      BY <1>0, <2>0, <2>2
    <3>5. Phases'
      BY <2>0, <2>3
    <3>6. ThreadAtWork'
      BY <2>0, <2>1, <2>3, <3>1, <3>2, <3>3
    <3> QED
      BY <3>4, <3>5, <3>6
  <2>4. CASE pc = "uploading"
    <3>1. th.from = NoSite /\ th.site = target /\ th.file = "staging"
          /\ target \in Sites
      BY <2>4
    <3>2. /\ <<target, "staging">> \notin late' => <<NoSite, "local">> \notin late
          /\ <<NoSite, "local">> \in late' <=> <<NoSite, "local">> \in late
      BY <1>0, <2>0, <3>1 DEF LateAfter, Writes, NameOf
    <3>3. Source(th.from) = local /\ staging'[target] = {Hole} /\ local' = local
      BY <1>0, <2>0, <3>1 DEF Source, Opens
    <3>4. OnlyLateDamages' /\ (live[active] = Newest \/ IsLate(active, "live"))'
      BY <1>0, <2>0, <2>2
    <3>5. Phases'
      BY <2>0, <2>4, <3>2, <3>3
    <3>6. ThreadAtWork'
      BY <2>0, <2>1, <2>4, <3>1, <3>2, <3>3
    <3> QED
      BY <3>4, <3>5, <3>6
  <2> QED
    BY <1>10, <2>3, <2>4 DEF ThreadOpens, Joined
<1>11. ASSUME NEW th \in cur, ThreadFinishes(th) PROVE Sound'
  <2>0. /\ Finishes(th) /\ cur' = {} /\ th.opened
        /\ UNCHANGED <<version, active, target, relaying, expected, late>>
    BY <1>11 DEF ThreadFinishes, Finishes
  <2>1. CASE pc = "downloading"
    <3>1. local' \in Written(local, th.data) /\ UNCHANGED <<live, staging>>
      BY <2>0, <2>1 DEF Finishes
    <3>2. local' = Newest \/ <<NoSite, "local">> \in late
      BY <2>0, <2>1, <3>1, WrittenOver
    <3>3. pc' = "upload"
      BY <1>11, <2>1 DEF ThreadFinishes
    <3> QED
      BY <2>0, <3>1, <3>2, <3>3
  <2>2. CASE pc = "uploading"
    <3>1. /\ staging'[target] \in Written(staging[target], th.data)
          /\ UNCHANGED <<live, local>>
      BY <1>0, <2>0, <2>2 DEF Finishes
    <3>2. staging'[target] = Newest \/ <<target, "staging">> \in late
      BY <2>0, <2>2, <3>1, WrittenOver
    <3>3. pc' = "digest"
      BY <1>11, <2>2 DEF ThreadFinishes
    <3> QED
      BY <2>0, <3>1, <3>2, <3>3
  <2> QED
    BY <1>11, <2>1, <2>2 DEF ThreadFinishes, Joined
<1>12. CASE ThreadFails
  BY <1>12 DEF ThreadFails, Raise, Joined
<1>13. CASE Abandon
  BY <1>13 DEF Abandon, Raise, Joined
<1>14. CASE DigestLocal
  BY <1>14 DEF DigestLocal, Raise, Legs, RelayPcs
<1>15. ASSUME NEW th \in lost, LostOpens(th) \/ LostFinishes(th) PROVE Sound'
  <2>1. /\ \A n : n \in late => n \in late'
        /\ \A s \in Sites : live'[s] = live[s] \/ <<s, "live">> \in late'
        /\ \A s \in Sites : staging'[s] = staging[s] \/ <<s, "staging">> \in late'
        /\ local' = local \/ <<NoSite, "local">> \in late'
        /\ UNCHANGED <<version, active, target, pc, relaying, expected, cur>>
    BY <1>15, LostTouches
  <2>2. OnlyLateDamages' /\ (live[active] = Newest \/ IsLate(active, "live"))'
    BY <1>0, <2>1
  <2>3. Phases'
    BY <1>0, <2>1
  <2>4. ThreadAtWork'
    BY <1>0, <2>1
  <2> QED
    BY <2>2, <2>3, <2>4
<1>16. ASSUME NEW th \in lost, LostDies(th) PROVE Sound'
  BY <1>16 DEF LostDies
<1>17. CASE Train
  <2>1. version' \in Versions /\ version' # 0
    <3>1. version \in Nat /\ MaxVersion \in Nat
      BY TransferAssumption DEF Types
    <3> QED
      BY <1>17, <3>1 DEF Train, Versions
  <2>2. pc = "idle" /\ pc' = "idle" /\ cur = {} /\ cur' = {}
    BY <1>17 DEF Train
  <2>3. live'[active] = {version'} /\ Whole(live'[active])
    BY <1>0, <1>17, <2>1 DEF Train, Whole
  <2>4. \A s \in Sites \ {active} :
           /\ live'[s] = live[s]
           /\ <<s, "live">> \in late' <=> <<s, "live">> \in late
    BY <1>0, <1>17 DEF Train
  <2>5. active' = active
    BY <1>17 DEF Train
  <2> QED
    BY <1>0, <2>1, <2>2, <2>3, <2>4, <2>5
<1> QED
  BY <1>1, <1>2, <1>3, <1>4, <1>5, <1>6, <1>7, <1>8, <1>9, <1>10, <1>11, <1>12,
     <1>13, <1>14, <1>15, <1>16, <1>17 DEF Next, Call, Thread, Outside

LEMMA SoundAlways == Spec => []Sound
<1>1. Init => Held /\ Legs
  BY DEF Init, Held, HeldBy, Legs, RelayPcs
<1>2. Types /\ Aimed /\ Held /\ [Next]_vars => Held'
  BY HeldNext
<1>3. Types /\ Aimed /\ Held /\ Legs /\ Sound /\ [Next]_vars => Sound'
  BY SoundNext
<1> QED
  BY <1>1, <1>2, <1>3, TypesInit, TypesNext, LegsNext, SoundInit, PTL DEF Spec

\* No lost or wrong bytes, lost answer, failed leg or leftover staging file ever
\* damages a live checkpoint: one that late bytes did not reach holds a single
\* version and all of it (executor.py, transfer_checkpoint and _commit).
THEOREM DamageIsLate == Spec => []OnlyLateDamages
<1>1. Sound => OnlyLateDamages
  BY DEF Sound
<1> QED
  BY <1>1, SoundAlways, PTL

\* A transfer that reports success delivered the last checkpoint the job wrote,
\* and after every move, successful or not, the site where the job resumes holds
\* it, unless late bytes reached that file, for any sets of workers and of copies
\* that outlive their call (engine.py, _migrate and _abort_migration).
THEOREM NewestResumed == Spec => []ResumesFromNewest
<1>1. Sound => ResumesFromNewest
  BY DEF Sound, Phases, IsLate, ResumesFromNewest
<1> QED
  BY <1>1, SoundAlways, PTL

----------------------------------------------------------------------------
(* A move is short.                                                        *)

\* How far the caller is from its return on the relay leg; the dataplane leg shares
\* the end of it, and may have the relay leg still to come.
LegLeft(at) ==
    CASE at = "idle"              -> 0
      [] at \in {"done", "abort"} -> 1
      [] at = "commit"            -> 2
      [] at = "verify"            -> 3
      [] at \in {"digest", "scp"} -> 4
      [] at \in {"uploading", "fingerprint"} -> 5
      [] at = "upload"            -> 6
      [] at = "downloading"       -> 7
      [] at = "download"          -> 8

StepsLeft ==
    IF relaying \/ pc \in {"idle", "done", "abort"} THEN LegLeft(pc)
    ELSE LegLeft(pc) + 7

LEMMA LeftIs ==
    /\ LegLeft("idle") = 0 /\ LegLeft("done") = 1 /\ LegLeft("abort") = 1
    /\ LegLeft("commit") = 2 /\ LegLeft("verify") = 3
    /\ LegLeft("digest") = 4 /\ LegLeft("scp") = 4
    /\ LegLeft("uploading") = 5 /\ LegLeft("fingerprint") = 5
    /\ LegLeft("upload") = 6 /\ LegLeft("downloading") = 7
    /\ LegLeft("download") = 8
  BY DEF LegLeft

LEMMA LeftType ==
    \A at \in {"idle", "done", "abort"} \cup CopyPcs \cup RelayPcs : LegLeft(at) \in Int
  BY LeftIs DEF CopyPcs, RelayPcs

\* A leg that raises is followed by less than was left of it.
LEMMA RaiseCloser ==
    ASSUME relaying \in BOOLEAN, Legs, Raise,
           pc \in CopyPcs \cup RelayPcs
    PROVE  StepsLeft' < StepsLeft
<1>1. CASE relaying
  <2>1. StepsLeft = LegLeft(pc) /\ LegLeft(pc) > 1
    BY <1>1, LeftIs DEF StepsLeft, Legs, CopyPcs, RelayPcs
  <2>2. StepsLeft' = 1
    BY <1>1, RaiseIs, LeftIs DEF StepsLeft
  <2> QED
    BY <2>1, <2>2
<1>2. CASE ~relaying
  <2>1. StepsLeft \in {9, 10, 11, 12}
    BY <1>2, LeftIs DEF StepsLeft, Legs, CopyPcs, RelayPcs
  <2>2. StepsLeft' \in {1, 8}
    BY <1>2, RaiseIs, LeftIs DEF StepsLeft
  <2> QED
    BY <2>1, <2>2
<1> QED
  BY <1>1, <1>2

\* Every step of the caller brings the end of the move closer, and nothing a thread
\* or the trainer does puts it off.
MoveIsBounded ==
    [][/\ Call => StepsLeft' < StepsLeft
       /\ pc # "idle" => StepsLeft' <= StepsLeft]_vars

\* A move that raises tries the relay once and no more: the caller has returned
\* after at most twelve steps, whatever fails, hangs or is written meanwhile, for
\* any workers and numbers of moves (executor.py, transfer_checkpoint).
THEOREM MoveEndsInTwelve == Spec => MoveIsBounded
<1> DEFINE Closer == /\ Call => StepsLeft' < StepsLeft
                     /\ pc # "idle" => StepsLeft' <= StepsLeft
<1>1. Init => Legs
  BY DEF Init, Legs, RelayPcs
<1>2. ASSUME Types, Types', Legs, [Next]_vars PROVE [Closer]_vars
  <2> USE <1>2, LeftIs DEF Legs, RelayPcs, CopyPcs, Joined, job
  <2>0. /\ relaying \in BOOLEAN
        /\ StepsLeft \in Int /\ StepsLeft' \in Int
        /\ Raise /\ pc \in CopyPcs \cup RelayPcs => StepsLeft' < StepsLeft
    BY LeftType, RaiseCloser DEF Types, StepsLeft
  <2>1. CASE UNCHANGED vars
    BY <2>1 DEF vars
  <2>2. CASE FingerprintSource
    BY <2>0, <2>2 DEF FingerprintSource, StepsLeft
  <2>3. CASE Scp
    BY <2>0, <2>3 DEF Scp, StepsLeft
  <2>4. CASE VerifyStaged
    BY <2>0, <2>4 DEF VerifyStaged, StepsLeft
  <2>5. CASE Commit
    <3>1. pc = "commit" /\ (pc' = "done" \/ Raise)
      BY <2>5 DEF Commit
    <3> QED
      BY <2>0, <3>1 DEF StepsLeft
  <2>6. CASE Finish
    BY <2>0, <2>6 DEF Finish, StepsLeft
  <2>7. CASE Abort
    BY <2>0, <2>7 DEF Abort, StepsLeft
  <2>8. CASE Download
    BY <2>0, <2>8 DEF Download, StartThread, StepsLeft
  <2>9. CASE Upload
    BY <2>0, <2>9 DEF Upload, StartThread, StepsLeft
  <2>10. CASE Abandon
    BY <2>0, <2>10 DEF Abandon
  <2>11. CASE DigestLocal
    <3>1. pc = "digest" /\ relaying
      BY <2>11 DEF DigestLocal
    <3>2. CASE Raise
      BY <2>0, <3>1, <3>2
    <3>3. CASE pc' = "verify" /\ relaying'
      <4>1. StepsLeft = 4 /\ StepsLeft' = 3
        BY <3>1, <3>3 DEF StepsLeft
      <4> QED
        BY <4>1
    <3> QED
      BY <2>11, <3>1, <3>2, <3>3 DEF DigestLocal
  <2>12. CASE ~Call /\ Thread
    <3>1. CASE ThreadFails
      BY <2>0, <2>12, <3>1 DEF ThreadFails
    <3>2. ASSUME NEW th \in cur, ThreadOpens(th) PROVE Closer
      BY <2>0, <2>12, <3>2 DEF ThreadOpens, StepsLeft
    <3>3. ASSUME NEW th \in cur, ThreadFinishes(th) PROVE Closer
      BY <2>0, <2>12, <3>3 DEF ThreadFinishes, StepsLeft
    <3> QED
      BY <2>12, <3>1, <3>2, <3>3 DEF Thread
  <2>13. CASE ~Call /\ Outside
    <3>1. pc = "idle" \/ UNCHANGED <<pc, relaying>>
      BY <2>13 DEF Outside, LostOpens, LostFinishes, LostDies, Begin, Train
    <3>2. pc # "idle" => StepsLeft' = StepsLeft
      BY <3>1 DEF StepsLeft
    <3> QED
      BY <2>0, <2>13, <3>2
  <2> HIDE DEF Closer
  <2> QED
    BY <2>1, <2>2, <2>3, <2>4, <2>5, <2>6, <2>7, <2>8, <2>9, <2>10, <2>11, <2>12,
       <2>13 DEF Next, Call
<1> QED
  BY <1>1, <1>2, LegsNext, TypesInit, TypesNext, PTL DEF Spec, MoveIsBounded

=============================================================================
