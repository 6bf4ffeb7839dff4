-------------------------- MODULE AccountingProofs --------------------------
(***************************************************************************)
(* Proofs about Accounting and CarbonFeed, for any sites, intensities and  *)
(* limits: types, how old a reading can be when a tick installs it, what   *)
(* the two counters can differ by, and what policy leaves between moves.   *)
(***************************************************************************)
EXTENDS Accounting, TLAPS

----------------------------------------------------------------------------
(* The inductive invariants.                                               *)

\* Stamps are of the past, a tick charges from the tick before it, and what was
\* charged fits before the last one.
Clocks ==
    /\ lastTick = ticked
    /\ ticked <= now
    /\ charged <= (IF ticked = Never THEN 0 ELSE ticked)
    /\ ended # Never => ended <= lastMove
    /\ lastMove <= now

\* A migration under way has a target.
Aimed == pc = "moving" => target \in Sites

Types == TypeOK /\ Clocks /\ Aimed

\* How much older than it seems a reading may be when it is read.
Kept == IF source.kind = "live" THEN Ttl - 1 ELSE 0

\* What reads as new was taken at most Kept before; a reading installed is the
\* one that was read last; one about to be installed is not too old for it.
Aged ==
    /\ \A s \in Sites : cache[s] # Missing => source.kind = "live"
    /\ \A s \in Sites : reading[s] # Missing => seen[s] - reading[s].at <= Kept
    /\ pc # "account" => intensities = reading
    /\ pc = "account" =>
          \A s \in Sites : reading[s] # Missing => now - reading[s].at <= MaxStale + Kept
    /\ ReadingsAreRecent

\* A site counted as fresh has a reading.
FreshIsRead == \A s \in fresh : reading[s] # Missing

----------------------------------------------------------------------------
(* Types.                                                                  *)

LEMMA ReadingFacts ==
    ASSUME NEW r \in Readings, r # Missing
    PROVE  r.g \in Levels /\ r.g \in Nat /\ r.at \in Time
BY FeedAssumption DEF Readings

LEMMA MissingFacts ==
    /\ Missing \in Readings
    /\ TypeOK => Taken \subseteq Readings
BY DEF Readings, TypeOK, Taken

LEMMA AnswerFacts ==
    ASSUME TypeOK, NEW s \in Sites
    PROVE  get_intensity(s) \subseteq Readings
BY MissingFacts DEF get_intensity, LiveAnswers, TraceAnswers, TypeOK

LEMMA ProductFacts ==
    ASSUME NEW m \in Nat, NEW n \in Nat
    PROVE  m * n \in Nat /\ 0 * n = 0
OBVIOUS

LEMMA TypesInit == Init => Types
<1> SUFFICES ASSUME Init PROVE Types
  OBVIOUS
<1>1. now = 0 /\ now \in Time /\ Never \in Stamp
  BY FeedAssumption DEF Init, FeedInit, Time, Stamp, Never
<1>2. TypeOK
  BY <1>1, MissingFacts, AccountingAssumption DEF Init, FeedInit, TypeOK
<1> QED
  BY <1>1, <1>2 DEF Init, Types, Clocks, Aimed, Never

\* What Account does to the counters.
LEMMA AccountFacts ==
    ASSUME Types, Account
    PROVE  \E dt \in Nat :
              /\ emissions' = emissions + dt * reading[active].g
              /\ baseline' = baseline + dt * reading[Baseline].g
              /\ charged' = charged + dt
              /\ dt = 0 \/ (Countable /\ ticked # Never /\ dt = now - ticked)
<1> DEFINE dt == IF Counts THEN now - lastTick ELSE 0
<1>1. dt \in Nat /\ (dt = 0 \/ (Countable /\ ticked # Never /\ dt = now - ticked))
  BY FeedAssumption DEF Types, TypeOK, Clocks, Counts, Stamp, Time, Never
<1>2. /\ emissions' = emissions + dt * reading[active].g
      /\ baseline' = baseline + dt * reading[Baseline].g
      /\ charged' = charged + dt
  BY DEF Account
<1> QED
  BY <1>1, <1>2

LEMMA TypesNext == Types /\ [Next]_vars => Types'
<1> SUFFICES ASSUME Types, [Next]_vars PROVE Types'
  OBVIOUS
<1> USE FeedAssumption, AccountingAssumption
    DEF Types, Clocks, Aimed, world, feed, job, counters, history, Stamp, Time, Never
<1>1. CASE UNCHANGED vars
  BY <1>1 DEF vars, TypeOK
<1>2. CASE Pass
  <2>1. now' \in Time /\ now' = now + 1 /\ samples' \in [Sites -> Stamp]
    BY <1>2 DEF Pass, TypeOK
  <2> QED
    BY <1>2, <2>1 DEF Pass, TypeOK
<1>3. CASE ReadIntensities
  <2>1. PICK got \in [Sites -> Readings] :
            /\ FeedRead(got)
            /\ reading' = [s \in Sites |-> Reading(s, got)]
            /\ seen' = [s \in Sites |-> Stamped(s, {t \in Sites : got[t] # Missing})]
            /\ fresh' = Fresh({t \in Sites : got[t] # Missing})
    BY <1>3 DEF ReadIntensities
  <2>2. cache' \in [Sites -> Readings] /\ reading' \in [Sites -> Readings]
    BY <2>1, MissingFacts DEF FeedRead, Reading, TypeOK
  <2>3. seen' \in [Sites -> Stamp] /\ fresh' \subseteq Sites
    BY <2>1 DEF Stamped, StampedWhenRead, Fresh, TypeOK
  <2> QED
    BY <1>3, <2>1, <2>2, <2>3 DEF ReadIntensities, FeedRead, TypeOK
<1>4. CASE Account
  <2>1. status' \in {"running", "migrating", "stopped", "completed"}
        /\ down' \in BOOLEAN
    BY <1>4 DEF Account, Liveness, TypeOK
  <2>2. \A s \in Sites : reading[s].g \in Nat
    BY ReadingFacts DEF Missing, TypeOK
  <2>3. PICK dt \in Nat :
              /\ emissions' = emissions + dt * reading[active].g
              /\ baseline' = baseline + dt * reading[Baseline].g
              /\ charged' = charged + dt
              /\ dt = 0 \/ (Countable /\ ticked # Never /\ dt = now - ticked)
    BY <1>4, AccountFacts
  <2> DEFINE a == reading[active].g
             b == reading[Baseline].g
  <2>4. emissions' \in Nat /\ baseline' \in Nat
    <3>1. a \in Nat /\ b \in Nat
      BY <2>2 DEF TypeOK
    <3>2. dt * a \in Nat /\ dt * b \in Nat
      BY <3>1, ProductFacts
    <3>3. emissions' = emissions + dt * a /\ baseline' = baseline + dt * b
      BY <2>3
    <3> HIDE DEF a, b
    <3> QED
      BY <3>2, <3>3 DEF TypeOK
  <2>5. charged' \in Time /\ charged' <= now
    BY <2>3 DEF TypeOK
  <2> QED
    BY <1>4, <2>1, <2>4, <2>5 DEF Account, Advance, TypeOK
<1>5. CASE PickNone
  BY <1>5 DEF PickNone, TypeOK
<1>6. CASE PickForced
  BY <1>6 DEF PickForced, Depart, TypeOK
<1>7. CASE MoveSucceeds
  <2>1. TypeOK'
    BY <1>7 DEF MoveSucceeds, Arrive, TypeOK
  <2>2. Clocks'
    BY <1>7 DEF MoveSucceeds, Arrive, TypeOK
  <2> QED
    BY <1>7, <2>1, <2>2 DEF MoveSucceeds, Arrive
<1>8. CASE MoveFails
  <2>1. TypeOK'
    BY <1>8 DEF MoveFails, BackOff, AbortBacksOff, TypeOK
  <2>2. Clocks'
    BY <1>8 DEF MoveFails, BackOff, AbortBacksOff, TypeOK
  <2> QED
    BY <1>8, <2>1, <2>2 DEF MoveFails, BackOff, AbortBacksOff
<1>9. CASE Retry
  <2>1. TypeOK'
    BY <1>9 DEF Retry, TypeOK
  <2>2. Clocks'
    BY <1>9 DEF Retry, TypeOK
  <2> QED
    BY <1>9, <2>1, <2>2 DEF Retry
<1>10. ASSUME NEW s \in Sites, ForceMigration(s) PROVE Types'
  BY <1>10 DEF ForceMigration, TypeOK
<1>11. ASSUME NEW s \in Sites, PickPolicy(s) PROVE Types'
  BY <1>11 DEF PickPolicy, Depart, TypeOK
<1> QED
  BY <1>1, <1>2, <1>3, <1>4, <1>5, <1>6, <1>7, <1>8, <1>9, <1>10, <1>11
     DEF Next

----------------------------------------------------------------------------
(* The age of readings.                                                    *)

\* What the provider gives is at most Kept old, and cached only by a live feed.
LEMMA AnswerAge ==
    ASSUME TypeOK, Aged, NEW s \in Sites, NEW r \in get_intensity(s), r # Missing
    PROVE  now - r.at <= Kept
<1> USE FeedAssumption
<1>1. r \in Readings
  BY AnswerFacts
<1>2. CASE r \in Taken
  BY <1>2 DEF Taken, Kept, TypeOK, Time
<1>3. CASE r \notin Taken
  <2>1. source.kind = "live" /\ Hit(s) /\ r = cache[s]
    BY <1>3 DEF get_intensity, LiveAnswers, TraceAnswers
  <2> QED
    BY <1>1, <2>1, ReadingFacts DEF Hit, Kept, Time, TypeOK
<1> QED
  BY <1>2, <1>3

\* What a read makes of each zone: recent enough to be installed, and never
\* older than its stamp allows.
LEMMA ReadingAge ==
    ASSUME TypeOK, Aged, pc = "sleep", NEW s \in Sites,
           NEW got \in [Sites -> Readings], got[s] \in get_intensity(s),
           Reading(s, got) # Missing
    PROVE  LET ok == {t \in Sites : got[t] # Missing}
           IN  /\ Stamped(s, ok) - Reading(s, got).at <= Kept
               /\ now - Reading(s, got).at <= MaxStale + Kept
<1> DEFINE ok == {t \in Sites : got[t] # Missing}
<1> USE FeedAssumption, AccountingAssumption DEF Stamped, StampedWhenRead, Reading, Time
<1>0. Kept \in Nat /\ MaxStale \in Nat /\ now \in Nat /\ seen[s] \in Int
  BY DEF Kept, TypeOK, Stamp, Never
<1>1. CASE got[s] # Missing
  <2>1. now - got[s].at <= Kept
    BY <1>1, AnswerAge
  <2>2. got[s].at \in Nat
    BY <1>1, ReadingFacts
  <2> QED
    BY <1>0, <1>1, <2>1, <2>2
<1>2. CASE got[s] = Missing
  <2>1. CarriedOver(s) /\ Reading(s, got) = intensities[s] /\ Stamped(s, ok) = seen[s]
    BY <1>2
  <2>2. intensities[s] = reading[s] /\ reading[s] # Missing
    BY <2>1 DEF Aged, CarriedOver
  <2>3. seen[s] - reading[s].at <= Kept /\ now - seen[s] <= MaxStale
    BY <2>1, <2>2 DEF Aged, CarriedOver
  <2>4. reading[s].at \in Nat
    BY <2>2, ReadingFacts DEF TypeOK
  <2> QED
    BY <1>0, <2>1, <2>2, <2>3, <2>4
<1> QED
  BY <1>1, <1>2

LEMMA AgedInit == Init => Aged
BY DEF Init, FeedInit, Aged, ReadingsAreRecent

LEMMA AgedNext == Types /\ Aged /\ [Next]_vars => Aged'
<1> SUFFICES ASSUME Types, Aged, [Next]_vars PROVE Aged'
  OBVIOUS
<1> USE DEF Types, world, feed, job, counters, history, Kept, ReadingsAreRecent
<1>1. CASE UNCHANGED vars
  BY <1>1 DEF vars, Aged
<1>2. CASE Pass
  BY <1>2 DEF Pass, Aged
<1>3. CASE ReadIntensities
  <2>1. PICK got \in [Sites -> Readings] :
            /\ \A s \in Sites : got[s] \in get_intensity(s)
            /\ FeedRead(got)
            /\ reading' = [s \in Sites |-> Reading(s, got)]
            /\ seen' = [s \in Sites |-> Stamped(s, {t \in Sites : got[t] # Missing})]
    BY <1>3 DEF ReadIntensities
  <2>2. UNCHANGED <<now, source, intensities, ticked>> /\ pc' = "account"
    BY <1>3, <2>1 DEF ReadIntensities, FeedRead
  <2>3. \A s \in Sites : cache'[s] # Missing => source'.kind = "live"
    BY <2>1 DEF FeedRead, Aged, TypeOK
  <2>4. \A s \in Sites : reading'[s] # Missing =>
            /\ seen'[s] - reading'[s].at <= Kept
            /\ now - reading'[s].at <= MaxStale + Kept
    BY <1>3, <2>1, ReadingAge DEF ReadIntensities
  <2> QED
    BY <2>2, <2>3, <2>4 DEF Aged
<1>4. CASE Account
  BY <1>4 DEF Account, Aged
<1>5. CASE PickNone \/ PickForced \/ MoveSucceeds \/ MoveFails \/ Retry
  BY <1>5 DEF PickNone, PickForced, Depart, MoveSucceeds, MoveFails, Retry, Aged
<1>6. ASSUME NEW s \in Sites, ForceMigration(s) \/ PickPolicy(s) PROVE Aged'
  BY <1>6 DEF ForceMigration, PickPolicy, Depart, Aged
<1> QED
  BY <1>1, <1>2, <1>3, <1>4, <1>5, <1>6 DEF Next

----------------------------------------------------------------------------
(* The counters.                                                           *)

\* Time weighted by two intensities of one range differs by the range at most.
LEMMA Weighted ==
    ASSUME NEW dt \in Nat, NEW lo \in Nat, NEW hi \in Nat,
           NEW a \in lo .. hi, NEW b \in lo .. hi
    PROVE  dt * a - dt * b <= (hi - lo) * dt
<1>1. (hi - lo) - (a - b) \in Nat
  OBVIOUS
<1>2. dt * ((hi - lo) - (a - b)) \in Nat
  BY <1>1, ProductFacts
<1>3. dt * ((hi - lo) - (a - b)) = (hi - lo) * dt - (dt * a - dt * b)
  BY SMTT(30)
<1> QED
  BY <1>2, <1>3

LEMMA FreshIsReadNext == TypeOK /\ FreshIsRead /\ [Next]_vars => FreshIsRead'
<1> SUFFICES ASSUME TypeOK, FreshIsRead, [Next]_vars PROVE FreshIsRead'
  OBVIOUS
<1> USE DEF FreshIsRead, world, feed, job, counters, history
<1>1. CASE UNCHANGED vars
  BY <1>1 DEF vars
<1>2. CASE ReadIntensities
  BY <1>2 DEF ReadIntensities, Fresh, Reading
<1>3. CASE Pass \/ Account
  BY <1>3 DEF Pass, Account
<1>4. CASE PickNone \/ PickForced \/ MoveSucceeds \/ MoveFails \/ Retry
  BY <1>4 DEF PickNone, PickForced, Depart, MoveSucceeds, MoveFails, Retry
<1>5. ASSUME NEW s \in Sites, ForceMigration(s) \/ PickPolicy(s) PROVE FreshIsRead'
  BY <1>5 DEF ForceMigration, PickPolicy, Depart
<1> QED
  BY <1>1, <1>2, <1>3, <1>4, <1>5 DEF Next

\* Only Account touches the counters.
LEMMA OthersChargeNothing ==
    ASSUME [Next]_vars, ~Account
    PROVE  UNCHANGED <<emissions, baseline, charged, ticked>>
BY DEF Next, vars, world, feed, job, counters, history, Pass, ReadIntensities,
       PickNone, PickForced, Depart, MoveSucceeds, MoveFails, Retry,
       ForceMigration, PickPolicy

LEMMA SavingsNext ==
    Types /\ FreshIsRead /\ SavingsAreMeasured /\ [Next]_vars => SavingsAreMeasured'
<1> SUFFICES ASSUME Types, FreshIsRead, SavingsAreMeasured, [Next]_vars
             PROVE  SavingsAreMeasured'
  OBVIOUS
<1>1. CASE ~Account
  BY <1>1, OthersChargeNothing DEF SavingsAreMeasured
<1>2. CASE Account
  <2>1. PICK dt \in Nat :
              /\ emissions' = emissions + dt * reading[active].g
              /\ baseline' = baseline + dt * reading[Baseline].g
              /\ charged' = charged + dt
              /\ dt = 0 \/ (Countable /\ ticked # Never /\ dt = now - ticked)
    BY <1>2, AccountFacts
  <2> SUFFICES ASSUME NEW lo \in Levels, NEW hi \in Levels,
                      \A l \in Levels : lo <= l /\ l <= hi
               PROVE  /\ baseline' - emissions' <= (hi - lo) * charged'
                      /\ emissions' - baseline' <= (hi - lo) * charged'
    BY DEF SavingsAreMeasured
  <2> DEFINE a == reading[active].g
             b == reading[Baseline].g
  <2>2. lo \in Nat /\ hi \in Nat /\ lo <= hi
    BY FeedAssumption
  <2>3. a \in Nat /\ b \in Nat
    BY ReadingFacts, AccountingAssumption DEF Missing, Types, TypeOK
  <2>4. emissions \in Nat /\ baseline \in Nat /\ charged \in Nat
    BY FeedAssumption DEF Types, TypeOK, Time
  <2>5. /\ baseline - emissions <= (hi - lo) * charged
        /\ emissions - baseline <= (hi - lo) * charged
    BY DEF SavingsAreMeasured
  <2>6. dt * a - dt * b <= (hi - lo) * dt /\ dt * b - dt * a <= (hi - lo) * dt
    <3>1. CASE dt = 0
      BY <2>2, <2>3, <3>1
    <3>2. CASE dt # 0
      <4>1. reading[active] # Missing /\ reading[Baseline] # Missing
        BY <2>1, <3>2 DEF Countable, FreshIsRead
      <4>2. a \in lo .. hi /\ b \in lo .. hi
        BY <4>1, <2>2, ReadingFacts, AccountingAssumption DEF Types, TypeOK
      <4> QED
        BY <2>2, <4>2, Weighted
    <3> QED
      BY <3>1, <3>2
  <2>7. dt * a \in Nat /\ dt * b \in Nat
    BY <2>3, ProductFacts
  <2>8. (hi - lo) * charged' = (hi - lo) * charged + (hi - lo) * dt
    BY <2>1, <2>2, <2>4, SMTT(30)
  <2>9. (hi - lo) * charged \in Nat /\ (hi - lo) * dt \in Nat
    BY <2>2, <2>4, ProductFacts
  <2> HIDE DEF a, b
  <2> QED
    BY <2>1, <2>4, <2>5, <2>6, <2>7, <2>8, <2>9 DEF a, b
<1> QED
  BY <1>1, <1>2

----------------------------------------------------------------------------
(* Theorems.                                                               *)

LEMMA Invariant == Spec => [](Types /\ Aged /\ FreshIsRead /\ SavingsAreMeasured)
<1>1. Init => Types /\ Aged /\ FreshIsRead /\ SavingsAreMeasured
  <2>1. ASSUME Init PROVE SavingsAreMeasured
    BY <2>1, FeedAssumption DEF Init, SavingsAreMeasured
  <2> QED
    BY <2>1, TypesInit, AgedInit DEF Init, FreshIsRead
<1>2. Types /\ Aged /\ FreshIsRead /\ SavingsAreMeasured /\ [Next]_vars
         => (Types /\ Aged /\ FreshIsRead /\ SavingsAreMeasured)'
  BY TypesNext, AgedNext, FreshIsReadNext, SavingsNext DEF Types
<1> QED
  BY <1>1, <1>2, PTL DEF Spec

\* Every variable keeps its type, through any sequence of ticks and moves.
THEOREM TypeCorrect == Spec => []TypeOK
<1>1. Types => TypeOK
  BY DEF Types
<1> QED
  BY <1>1, Invariant, PTL

\* _read_intensities: whatever fails and is carried over, and whatever the live
\* feed repeats from its cache, a tick installs no reading older than the stale
\* window and the cache together.
THEOREM RecentReadings == Spec => []ReadingsAreRecent
<1>1. Aged => ReadingsAreRecent
  BY DEF Aged
<1> QED
  BY <1>1, Invariant, PTL

\* _integrate_emissions: the two counters never differ by more than the range of
\* measured intensities over the time both were charged for.
THEOREM MeasuredSavings == Spec => []SavingsAreMeasured
BY Invariant, PTL

\* One tick charges at most for the time since the tick before it.
THEOREM OneIntervalCharged == Spec => ChargesOneInterval
<1>1. Types /\ [Next]_vars => [charged' - charged <= now - ticked]_vars
  <2> SUFFICES ASSUME Types, [Next]_vars PROVE charged' - charged <= now - ticked
    OBVIOUS
  <2>1. charged \in Nat /\ now \in Nat /\ ticked \in Int /\ ticked <= now
    BY FeedAssumption DEF Types, TypeOK, Clocks, Time, Stamp, Never
  <2>2. CASE ~Account
    BY <2>1, <2>2, OthersChargeNothing
  <2>3. CASE Account
    BY <2>1, <2>3, AccountFacts
  <2> QED
    BY <2>2, <2>3
<1> QED
  BY <1>1, Invariant, PTL DEF Spec, ChargesOneInterval

\* _pick_target: policy leaves a dwell after a migration, completed or aborted.
THEOREM SpacedMoves == Spec => MovesAreSpaced
<1> DEFINE Spaced == \A t \in Sites : PickPolicy(t) => ended = Never \/ now - ended >= Dwell
<1>1. Types => Spaced
  BY FeedAssumption, AccountingAssumption
     DEF Types, TypeOK, Clocks, PickPolicy, Settled, Time, Stamp, Never
<1>2. Types => [Spaced]_vars
  BY <1>1
<1> QED
  BY <1>2, Invariant, PTL DEF Spec, MovesAreSpaced

=============================================================================
