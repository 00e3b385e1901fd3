-------------------------- MODULE DurableRunProofs --------------------------
(***************************************************************************)
(* What holds of an evaluation run for any number of items, retries,       *)
(* relaunches and restarts.                                                *)
(***************************************************************************)
EXTENDS DurableRun, TLAPS

-----------------------------------------------------------------------------
(* Types.                                                                  *)

\* The flags of the type invariant, and the rest of it: the provers treat
\* Boolean variables apart.
Flags == /\ staging \in BOOLEAN /\ ragged \in BOOLEAN /\ broken \in BOOLEAN
         /\ staged \in BOOLEAN /\ resumed \in BOOLEAN

\* With the two bounds that make the types inductive: a case is only called
\* for an item, and a relaunch only made while one is left.
Values ==
  /\ meta \in States /\ published \in States
  /\ journal \in [Items -> States]
  /\ bundle \in [Items -> States]
  /\ done \in [Items -> States]
  /\ last \in 0..N
  /\ pc \in Steps
  /\ config \in Configs
  /\ at \in 1..(N + 1)
  /\ attempt \in 0..MaxRetries
  /\ relaunches \in 0..MaxRelaunches
  /\ sessions \in 0..MaxSessions
  /\ calls \in 0..(CallLimit + 1)
  /\ recorded \subseteq Items
  /\ struck \subseteq Faults
  /\ pc \in {"call", "relaunch", "record"} => at <= N
  /\ pc = "relaunch" => relaunches < MaxRelaunches

Typed == Flags /\ Values

\* The bound on the calls of a case is a number.
LEMMA LimitType == CallLimit \in Nat
<1>1. MaxRetries + 1 \in Nat /\ MaxRelaunches + 1 \in Nat
  BY RunAssumption
<1>2. \A a, b \in Nat : a * b \in Nat
  OBVIOUS
<1>3. QED
  BY <1>1, <1>2 DEF CallLimit

\* The flags stay flags through every step of a run.
LEMMA FlagsStep == Flags /\ [Next]_vars => Flags'
<1> SUFFICES ASSUME Flags, [Next]_vars PROVE Flags'
  OBVIOUS
<1> USE DEF Flags
<1>1. ASSUME NEW c \in Configs, StartFresh(c) PROVE Flags'
  BY <1>1, Zenon DEF StartFresh, Start, vars, disk, file, process
<1>2. ASSUME NEW c \in Configs, StartResume(c) PROVE Flags'
  BY <1>2, Zenon DEF StartResume, Start, MetaMatches, vars, disk, file, process
<1>3. CASE Pin
  BY <1>3, Zenon DEF Pin, vars, disk, file, process
<1>4. CASE Wired
  BY <1>4, Zenon DEF Wired, vars, disk, file, process
<1>5. CASE Load
  BY <1>5, Zenon DEF Load, Loaded, vars, disk, file, process
<1>6. CASE LoadFails
  BY <1>6, Zenon DEF LoadFails, vars, disk, file, process
<1>7. CASE NextItem
  BY <1>7, Zenon DEF NextItem, vars, disk, file, process
<1>8. CASE CallModel
  BY <1>8, Zenon DEF CallModel, RetriesLeft, vars, disk, file, process
<1>9. CASE Relaunch
  BY <1>9, Zenon DEF Relaunch, RelaunchCount, vars, disk, file, process
<1>10. CASE Record
  BY <1>10, Zenon DEF Record, Append, vars, disk, file, process
<1>11. CASE Probed
  BY <1>11, Zenon DEF Probed, vars, disk, file, process
<1>12. CASE Judged
  BY <1>12, Zenon DEF Judged, vars, disk, file, process
<1>13. CASE DropJournal
  BY <1>13, Zenon DEF DropJournal, vars, disk, file, process
<1>14. CASE DropMeta
  BY <1>14, Zenon DEF DropMeta, vars, disk, file, process
<1>15. CASE Persist
  BY <1>15, Zenon DEF Persist, vars, disk, file, process
<1>16. CASE Publish
  BY <1>16, Zenon DEF Publish, vars, disk, file, process
<1>17. CASE Mirror
  BY <1>17, Zenon DEF Mirror, vars, disk, file, process
<1>18. CASE Stop
  BY <1>18, Zenon DEF Stop, vars, disk, file, process
<1>19. CASE Tear
  BY <1>19, Zenon DEF Tear, vars, disk, file, process
<1>20. CASE Abort
  BY <1>20, Zenon DEF Abort, Wipe, vars, disk, file, process
<1>21. CASE PersistFails
  BY <1>21, Zenon DEF PersistFails, Wipe, vars, disk, file, process
<1>22. CASE UNCHANGED vars
  BY <1>22, Zenon DEF vars, disk, file, process
<1>23. QED
  BY <1>1, <1>2, <1>3, <1>4, <1>5, <1>6, <1>7, <1>8, <1>9, <1>10, <1>11,
     <1>12, <1>13, <1>14, <1>15, <1>16, <1>17, <1>18, <1>19, <1>20, <1>21,
     <1>22 DEF Next, Run

\* Every other variable keeps its type through every step of a run.
LEMMA ValuesStep == Values /\ [Next]_vars => Values'
<1> SUFFICES ASSUME Values, [Next]_vars PROVE Values'
  OBVIOUS
<1> USE RunAssumption, LimitType DEF Values, States, Steps, Items, Empty
<1>1. ASSUME NEW c \in Configs, StartFresh(c) PROVE Values'
  BY <1>1 DEF StartFresh, Start, vars, disk, file, process
<1>2. ASSUME NEW c \in Configs, StartResume(c) PROVE Values'
  BY <1>2 DEF StartResume, Start, MetaMatches, vars, disk, file, process
<1>3. CASE Pin
  BY <1>3 DEF Pin, vars, disk, file, process
<1>4. CASE Wired
  BY <1>4 DEF Wired, vars, disk, file, process
<1>5. CASE Load
  BY <1>5 DEF Load, Loaded, vars, disk, file, process
<1>6. CASE LoadFails
  BY <1>6 DEF LoadFails, vars, disk, file, process
<1>7. CASE NextItem
  BY <1>7 DEF NextItem, vars, disk, file, process
<1>8. CASE CallModel
  BY <1>8 DEF CallModel, RetriesLeft, vars, disk, file, process
<1>9. CASE Relaunch
  BY <1>9 DEF Relaunch, RelaunchCount, vars, disk, file, process
<1>10. CASE Record
  BY <1>10 DEF Record, Append, vars, disk, file, process
<1>11. CASE Probed
  BY <1>11 DEF Probed, vars, disk, file, process
<1>12. CASE Judged
  BY <1>12 DEF Judged, vars, disk, file, process
<1>13. CASE DropJournal
  BY <1>13 DEF DropJournal, vars, disk, file, process
<1>14. CASE DropMeta
  BY <1>14 DEF DropMeta, vars, disk, file, process
<1>15. CASE Persist
  BY <1>15 DEF Persist, vars, disk, file, process
<1>16. CASE Publish
  BY <1>16 DEF Publish, vars, disk, file, process
<1>17. CASE Mirror
  BY <1>17 DEF Mirror, vars, disk, file, process
<1>18. CASE Stop
  BY <1>18 DEF Stop, vars, disk, file, process
<1>19. CASE Tear
  BY <1>19 DEF Tear, vars, disk, file, process
<1>20. CASE Abort
  BY <1>20 DEF Abort, Wipe, vars, disk, file, process
<1>21. CASE PersistFails
  BY <1>21 DEF PersistFails, Wipe, vars, disk, file, process
<1>22. CASE UNCHANGED vars
  BY <1>22 DEF vars, disk, file, process
<1>23. QED
  BY <1>1, <1>2, <1>3, <1>4, <1>5, <1>6, <1>7, <1>8, <1>9, <1>10, <1>11,
     <1>12, <1>13, <1>14, <1>15, <1>16, <1>17, <1>18, <1>19, <1>20, <1>21,
     <1>22 DEF Next, Run

\* No step of a run leaves the types of its state.
THEOREM TypesHold == Spec => []Typed
<1>1. ASSUME Init PROVE Typed
  <2>1. Flags
    BY <1>1, Zenon DEF Init, Flags
  <2>2. config \in Configs
    BY <1>1, RunAssumption, Zenon DEF Init
  <2>3. Values
    BY <1>1, <2>2, RunAssumption, LimitType
    DEF Init, Values, States, Steps, Items, Empty
  <2>4. QED
    BY <2>1, <2>3 DEF Typed
<1>2. Typed /\ [Next]_vars => Typed'
  BY FlagsStep, ValuesStep DEF Typed
<1>3. QED
  BY <1>1, <1>2, PTL DEF Spec

THEOREM TypeCorrect == Spec => []TypeOK
<1>1. Typed => TypeOK
  BY DEF Typed, Flags, Values, TypeOK
<1>2. QED
  BY <1>1, TypesHold, PTL

-----------------------------------------------------------------------------
(* One bundle is one run.                                                  *)

Working == {"wiring", "loading", "loop", "call", "relaunch", "record",
            "probe", "judge", "drop", "dropping"}
Finished == {"probe", "judge", "drop", "dropping", "persist", "publish"}

\* Why a bundle never mixes configurations or misses a row: a working process
\* has the configuration that is pinned on disk, what the journal holds under
\* that pin ran with it, and the loop has passed only items it has a state of.
OneRun ==
  /\ sessions = 0 => pc = "down" /\ published = Missing
  /\ sessions = 0 \/ pc = "pinning" => journal = Empty
  /\ pc \in Working => meta = config
  /\ pc \notin {"down", "mirror"} => published = Missing
  /\ JournalMatchesMeta
  /\ pc # "down" => \A i \in Items : done[i] \in {Missing, config}
  /\ pc # "down" => \A i \in Items : i < at => done[i] = config
  /\ pc \in {"pinning", "wiring", "loading"} => at = 1
  /\ pc \in Finished => at > N
  /\ BundleIsOneRun

\* The argument is kept by every step.
LEMMA OneRunStep == Values /\ OneRun /\ [Next]_vars => OneRun'
<1> SUFFICES ASSUME Values, OneRun, [Next]_vars PROVE OneRun'
  OBVIOUS
<1> USE RunAssumption DEF Values, Steps, States, Items, Empty, Working,
        Finished, OneRun, JournalMatchesMeta, BundleIsOneRun
<1>1. ASSUME NEW c \in Configs, StartFresh(c) PROVE OneRun'
  BY <1>1 DEF StartFresh, Start, vars, disk, file, process
<1>2. ASSUME NEW c \in Configs, StartResume(c) PROVE OneRun'
  BY <1>2 DEF StartResume, Start, MetaMatches, vars, disk, file, process
<1>3. CASE Pin
  BY <1>3 DEF Pin, vars, disk, file, process
<1>4. CASE Wired
  BY <1>4 DEF Wired, vars, disk, file, process
<1>5. CASE Load
  BY <1>5 DEF Load, Loaded, vars, disk, file, process
<1>6. CASE LoadFails
  BY <1>6 DEF LoadFails, vars, disk, file, process
<1>7. CASE NextItem
  BY <1>7 DEF NextItem, vars, disk, file, process
<1>8. CASE CallModel
  BY <1>8 DEF CallModel, RetriesLeft, vars, disk, file, process
<1>9. CASE Relaunch
  BY <1>9 DEF Relaunch, RelaunchCount, vars, disk, file, process
<1>10. CASE Record
  BY <1>10 DEF Record, Append, vars, disk, file, process
<1>11. CASE Probed
  BY <1>11 DEF Probed, vars, disk, file, process
<1>12. CASE Judged
  BY <1>12 DEF Judged, vars, disk, file, process
<1>13. CASE DropJournal
  BY <1>13 DEF DropJournal, vars, disk, file, process
<1>14. CASE DropMeta
  BY <1>14 DEF DropMeta, vars, disk, file, process
<1>15. CASE Persist
  BY <1>15 DEF Persist, vars, disk, file, process
<1>16. CASE Publish
  BY <1>16 DEF Publish, vars, disk, file, process
<1>17. CASE Mirror
  BY <1>17 DEF Mirror, vars, disk, file, process
<1>18. CASE Stop
  BY <1>18 DEF Stop, vars, disk, file, process
<1>19. CASE Tear
  BY <1>19 DEF Tear, vars, disk, file, process
<1>20. CASE Abort
  BY <1>20 DEF Abort, Wipe, vars, disk, file, process
<1>21. CASE PersistFails
  BY <1>21 DEF PersistFails, Wipe, vars, disk, file, process
<1>22. CASE UNCHANGED vars
  BY <1>22 DEF vars, disk, file, process
<1>23. QED
  BY <1>1, <1>2, <1>3, <1>4, <1>5, <1>6, <1>7, <1>8, <1>9, <1>10, <1>11,
     <1>12, <1>13, <1>14, <1>15, <1>16, <1>17, <1>18, <1>19, <1>20, <1>21,
     <1>22 DEF Next, Run

LEMMA OneRunHolds == Spec => []OneRun
<1>1. Init => OneRun
  BY RunAssumption
  DEF Init, OneRun, JournalMatchesMeta, BundleIsOneRun, Working, Finished,
      Items, Empty
<1>2. Typed /\ OneRun /\ [Next]_vars => OneRun'
  BY OneRunStep DEF Typed
<1>3. QED
  BY <1>1, <1>2, TypesHold, PTL DEF Spec

\* Whatever interrupted it, a run publishes all rows, of one configuration.
THEOREM BundlesAreWhole == Spec => []BundleIsOneRun
<1>1. OneRun => BundleIsOneRun
  BY DEF OneRun
<1>2. QED
  BY <1>1, OneRunHolds, PTL

\* A journal that can be resumed ran under its pinned configuration.
THEOREM JournalIsPinned == Spec => []JournalMatchesMeta
<1>1. OneRun => JournalMatchesMeta
  BY DEF OneRun
<1>2. QED
  BY <1>1, OneRunHolds, PTL

-----------------------------------------------------------------------------
(* The cost of a case.                                                     *)

\* One more round of attempts still fits while a relaunch is left.
LEMMA Rounds ==
  ASSUME NEW r \in 0..MaxRelaunches
  PROVE  /\ r * (MaxRetries + 1) \in Nat
         /\ (r + 1) * (MaxRetries + 1) = r * (MaxRetries + 1) + MaxRetries + 1
         /\ r * (MaxRetries + 1) + MaxRetries + 1 <= CallLimit
<1>1. r \in Nat /\ MaxRetries \in Nat /\ MaxRelaunches \in Nat
  BY RunAssumption
<1>2. PICK k \in Nat : MaxRelaunches = r + k
  <2>1. MaxRelaunches - r \in Nat /\ MaxRelaunches = r + (MaxRelaunches - r)
    BY <1>1
  <2>2. QED
    BY <2>1
<1>3. CallLimit = r * (MaxRetries + 1) + MaxRetries + 1 + k * (MaxRetries + 1)
  BY <1>1, <1>2 DEF CallLimit
<1>4. \A a, b \in Nat : a * b \in Nat
  OBVIOUS
<1>5. k * (MaxRetries + 1) \in Nat /\ r * (MaxRetries + 1) \in Nat
  BY <1>1, <1>4
<1>6. (r + 1) * (MaxRetries + 1) = r * (MaxRetries + 1) + MaxRetries + 1
  BY <1>1
<1>7. QED
  BY <1>1, <1>3, <1>5, <1>6, LimitType

\* Every relaunch pays for one round of attempts, and the attempts since.
Counted ==
  /\ pc = "call" => calls <= relaunches * (MaxRetries + 1) + attempt
  /\ pc = "relaunch" =>
       calls <= relaunches * (MaxRetries + 1) + MaxRetries + 1
  /\ CallBound

LEMMA CountedStep == Values /\ Counted /\ [Next]_vars => Counted'
<1> SUFFICES ASSUME Values, Counted, [Next]_vars PROVE Counted'
  OBVIOUS
<1> USE RunAssumption, LimitType DEF Values, Counted, CallBound
<1> DEFINE Spent == relaunches * (MaxRetries + 1)
<1>a. /\ Spent \in Nat
      /\ (relaunches + 1) * (MaxRetries + 1) = Spent + MaxRetries + 1
      /\ Spent + MaxRetries + 1 <= CallLimit
  BY Rounds
<1>b. 0 * (MaxRetries + 1) = 0
  OBVIOUS
<1>1. ASSUME NEW c \in Configs, StartFresh(c) PROVE Counted'
  BY <1>1 DEF StartFresh, Start, vars, disk, file, process
<1>2. ASSUME NEW c \in Configs, StartResume(c) PROVE Counted'
  BY <1>2 DEF StartResume, Start, MetaMatches, vars, disk, file, process
<1>3. CASE Pin
  BY <1>3 DEF Pin, vars, disk, file, process
<1>4. CASE Wired
  BY <1>4 DEF Wired, vars, disk, file, process
<1>5. CASE Load
  BY <1>5 DEF Load, Loaded, vars, disk, file, process
<1>6. CASE LoadFails
  BY <1>6 DEF LoadFails, vars, disk, file, process
<1>7. CASE NextItem
  BY <1>7, <1>b DEF NextItem, vars, disk, file, process
<1>8. CASE CallModel
  <2> USE DEF CallModel, RetriesLeft
  <2>1. calls <= Spent + attempt /\ attempt <= MaxRetries
    BY <1>8
  <2>2. calls < CallLimit
    BY <2>1, <1>a
  <2>3. calls' = calls + 1 /\ relaunches' = relaunches
    BY <1>8, <2>2
  <2> HIDE DEF Spent
  <2>4. CASE pc' = "record"
    BY <2>2, <2>3, <2>4
  <2>5. CASE pc' = "call" /\ attempt' = attempt + 1
    <3>1. calls' <= Spent + attempt'
      BY <2>1, <2>3, <2>5, <1>a
    <3>2. QED
      BY <3>1, <2>2, <2>3, <2>5 DEF Spent
  <2>6. CASE pc' = "relaunch"
    <3>1. calls' <= Spent + MaxRetries + 1
      BY <2>1, <2>3, <1>a
    <3>2. QED
      BY <3>1, <2>2, <2>3, <2>6 DEF Spent
  <2>7. QED
    BY <1>8, <2>4, <2>5, <2>6
<1>9. CASE Relaunch
  <2>1. calls <= Spent + MaxRetries + 1
    BY <1>9 DEF Relaunch
  <2>2. relaunches' * (MaxRetries + 1) = Spent + MaxRetries + 1
    BY <1>9, <1>a DEF Relaunch, RelaunchCount
  <2>3. calls' <= relaunches' * (MaxRetries + 1) + attempt'
    BY <1>9, <2>1, <2>2, <1>a DEF Relaunch
  <2>4. QED
    BY <1>9, <2>3 DEF Relaunch
<1>10. CASE Record
  BY <1>10 DEF Record, Append, vars, disk, file, process
<1>11. CASE Probed
  BY <1>11 DEF Probed, vars, disk, file, process
<1>12. CASE Judged
  BY <1>12 DEF Judged, vars, disk, file, process
<1>13. CASE DropJournal
  BY <1>13 DEF DropJournal, vars, disk, file, process
<1>14. CASE DropMeta
  BY <1>14 DEF DropMeta, vars, disk, file, process
<1>15. CASE Persist
  BY <1>15 DEF Persist, vars, disk, file, process
<1>16. CASE Publish
  BY <1>16 DEF Publish, vars, disk, file, process
<1>17. CASE Mirror
  BY <1>17 DEF Mirror, vars, disk, file, process
<1>18. CASE Stop
  BY <1>18 DEF Stop, vars, disk, file, process
<1>19. CASE Tear
  BY <1>19 DEF Tear, vars, disk, file, process
<1>20. CASE Abort
  BY <1>20 DEF Abort, Wipe, vars, disk, file, process
<1>21. CASE PersistFails
  BY <1>21 DEF PersistFails, Wipe, vars, disk, file, process
<1>22. CASE UNCHANGED vars
  BY <1>22 DEF vars, disk, file, process
<1>23. QED
  BY <1>1, <1>2, <1>3, <1>4, <1>5, <1>6, <1>7, <1>8, <1>9, <1>10, <1>11,
     <1>12, <1>13, <1>14, <1>15, <1>16, <1>17, <1>18, <1>19, <1>20, <1>21,
     <1>22 DEF Next, Run

\* No case costs more calls than its attempts and relaunches allow.
THEOREM CallsAreBounded == Spec => []CallBound
<1>1. Init => Counted
  BY LimitType DEF Init, Counted, CallBound
<1>2. Typed /\ Counted /\ [Next]_vars => Counted'
  BY CountedStep DEF Typed
<1>3. Counted => CallBound
  BY DEF Counted
<1>4. QED
  BY <1>1, <1>2, <1>3, TypesHold, PTL DEF Spec

-----------------------------------------------------------------------------
(* Clean kills lose nothing.                                               *)

\* What a run keeps of its completed cases: all of them are in the journal of
\* a staging directory that can be resumed, unless the process that has them
\* in memory is publishing or has published.
Whole ==
  /\ ~ ragged
  /\ sessions = 0 \/ pc = "pinning" => recorded = {}
  /\ pc \notin {"down", "mirror"} => staging
  /\ pc = "mirror" => published # Missing
  /\ published = Missing /\ recorded # {}
       /\ pc \notin {"dropping", "persist", "publish"} =>
       /\ staging /\ meta # Missing
       /\ \A i \in recorded : journal[i] # Missing
  /\ pc \in {"loop", "call", "relaunch", "record"} =>
       \A i \in recorded : done[i] # Missing
  /\ pc \in {"call", "relaunch", "record"} => done[at] = Missing

\* ... for as long as no fault has struck.
Kept == struck = {} => Whole

LEMMA KeptStep == Values /\ OneRun /\ Kept /\ [Next]_vars => Kept'
<1> SUFFICES ASSUME Values, OneRun, Kept, [Next]_vars, struck' = {}
             PROVE  Whole'
  BY DEF Kept
<1>0. struck = {} /\ Whole
  BY DEF Kept, Next, Run, vars, StartFresh, StartResume, Start, Pin, Wired,
     Load, LoadFails, NextItem, CallModel, Relaunch, Record, Probed, Judged,
     DropJournal, DropMeta, Persist, Publish, Mirror, Stop, Tear, Abort,
     PersistFails
<1> USE RunAssumption, <1>0
    DEF Values, Steps, States, Items, Working, Whole, OneRun
<1>1. ASSUME NEW c \in Configs, StartFresh(c) PROVE Whole'
  BY <1>1 DEF StartFresh, Start, vars, disk, file, process,
     Finalizing
<1>2. ASSUME NEW c \in Configs, StartResume(c) PROVE Whole'
  BY <1>2 DEF StartResume, Start, MetaMatches, vars, disk, file, process,
     Finalizing
<1>3. CASE Pin
  BY <1>3 DEF Pin, vars, disk, file, process,
     Finalizing
<1>4. CASE Wired
  BY <1>4 DEF Wired, vars, disk, file, process,
     Finalizing
<1>5. CASE Load
  BY <1>5 DEF Load, Loaded, vars, disk, file, process,
     Finalizing
<1>6. CASE LoadFails
  BY <1>6 DEF LoadFails, vars, disk, file, process,
     Finalizing
<1>7. CASE NextItem
  BY <1>7 DEF NextItem, vars, disk, file, process,
     Finalizing
<1>8. CASE CallModel
  BY <1>8 DEF CallModel, RetriesLeft, vars, disk, file, process,
     Finalizing
<1>9. CASE Relaunch
  BY <1>9 DEF Relaunch, RelaunchCount, vars, disk, file, process,
     Finalizing
<1>10. CASE Record
  BY <1>10 DEF Record, Append, vars, disk, file, process,
     Finalizing
<1>11. CASE Probed
  BY <1>11 DEF Probed, vars, disk, file, process,
     Finalizing
<1>12. CASE Judged
  BY <1>12 DEF Judged, vars, disk, file, process,
     Finalizing
<1>13. CASE DropJournal
  BY <1>13 DEF DropJournal, vars, disk, file, process,
     Finalizing
<1>14. CASE DropMeta
  BY <1>14 DEF DropMeta, vars, disk, file, process,
     Finalizing
<1>15. CASE Persist
  BY <1>15 DEF Persist, vars, disk, file, process,
     Finalizing
<1>16. CASE Publish
  BY <1>16 DEF Publish, vars, disk, file, process,
     Finalizing
<1>17. CASE Mirror
  BY <1>17 DEF Mirror, vars, disk, file, process,
     Finalizing
<1>18. CASE Stop
  BY <1>18 DEF Stop, vars, disk, file, process,
     Finalizing
<1>19. CASE Tear
  BY <1>19 DEF Tear, vars, disk, file, process,
     Finalizing
<1>20. CASE Abort
  BY <1>20 DEF Abort, Wipe, vars, disk, file, process,
     Finalizing
<1>21. CASE PersistFails
  BY <1>21 DEF PersistFails, Wipe, vars, disk, file, process,
     Finalizing
<1>22. CASE UNCHANGED vars
  BY <1>22 DEF vars, disk, file, process,
     Finalizing
<1>23. QED
  BY <1>1, <1>2, <1>3, <1>4, <1>5, <1>6, <1>7, <1>8, <1>9, <1>10, <1>11,
     <1>12, <1>13, <1>14, <1>15, <1>16, <1>17, <1>18, <1>19, <1>20, <1>21,
     <1>22 DEF Next, Run

LEMMA KeptHolds == Spec => []Kept
<1>1. Init => Kept
  BY DEF Init, Kept, Whole
<1>2. Typed /\ OneRun /\ Kept /\ [Next]_vars => Kept'
  BY KeptStep DEF Typed
<1>3. QED
  BY <1>1, <1>2, TypesHold, OneRunHolds, PTL DEF Spec

\* When processes have only been killed between two writes, and not while they
\* published, an unpublished run can always be resumed with all it completed.
THEOREM KillsLoseNothing == Spec => []KillsKeepAll
<1>1. Kept => KillsKeepAll
  BY DEF Kept, Whole, KillsKeepAll, NothingLost
<1>2. QED
  BY <1>1, KeptHolds, PTL

\* Then no completed case is ever sent to the model again.
THEOREM KillsRespendNothing == Spec => []KillsRespendNone
<1>1. Kept => KillsRespendNone
  BY DEF Kept, Whole, KillsRespendNone, NeverRespent
<1>2. QED
  BY <1>1, KeptHolds, PTL

-----------------------------------------------------------------------------
(* The run implements the abstract CaseRun.                                *)

Asking == {"call", "relaunch", "record"}

\* What the journal and the process say of the same case: a case that is asked is
\* not answered; the journal has nothing that the process does not have, and all
\* of it until the run is mauled; the pin is there from the first write to the
\* last but one.
Agrees ==
  /\ sessions = 0 \/ pc \in {"pinning", "persist", "publish"} => meta = Missing
  /\ pc \in Asking => done[at] = Missing
  /\ pc \in Holding => \A i \in Items : journal[i] \in {Missing, done[i]}
  /\ struck = {} /\ pc \in Holding \ Finalizing => done = journal

\* Every step keeps them in agreement.
LEMMA AgreesStep ==
  Values /\ OneRun /\ Kept /\ Agrees /\ [Next]_vars => Agrees'
<1> SUFFICES ASSUME Values, OneRun, Kept, Agrees, [Next]_vars PROVE Agrees'
  OBVIOUS
<1> USE RunAssumption
    DEF Values, Steps, Items, Empty, Working, Holding, Finalizing, Asking, OneRun,
        Agrees
<1>1. ASSUME NEW c \in Configs, StartFresh(c) PROVE Agrees'
  BY <1>1 DEF StartFresh, Start, disk, file, process
<1>2. ASSUME NEW c \in Configs, StartResume(c) PROVE Agrees'
  BY <1>2 DEF StartResume, Start, MetaMatches, disk, file, process
<1>3. CASE Pin
  BY <1>3 DEF Pin, disk, file, process
<1>4. CASE Wired
  BY <1>4 DEF Wired, disk, file, process
<1>5. CASE Load
  BY <1>5 DEF Load, Loaded, disk, file, process
<1>6. CASE LoadFails
  BY <1>6 DEF LoadFails, disk, file, process
<1>7. CASE NextItem
  BY <1>7 DEF NextItem, disk, file, process
<1>8. CASE CallModel
  BY <1>8 DEF CallModel, disk, file, process
<1>9. CASE Relaunch
  BY <1>9 DEF Relaunch, disk, file, process
<1>10. CASE Record
  <2>1. /\ pc = "record" /\ pc' = "loop" /\ at \in Items /\ Append(at, config)
        /\ done' = [done EXCEPT ![at] = config]
        /\ UNCHANGED <<meta, sessions, struck>>
    BY <1>10 DEF Record
  <2>2. \A i \in Items : journal'[i] \in {Missing, done'[i]}
    BY <2>1 DEF Append
  <2>3. ASSUME struck = {} PROVE done' = journal'
    <3>1. done = journal /\ ~ ragged
      BY <2>1, <2>3 DEF Kept, Whole
    <3>2. journal' = [j \in Items |-> IF j = at THEN config ELSE journal[j]]
      BY <2>1, <3>1 DEF Append
    <3>3. QED
      BY <2>1, <3>1, <3>2
  <2>4. QED
    BY <2>1, <2>2, <2>3
<1>11. CASE Probed
  BY <1>11 DEF Probed, disk, file, process
<1>12. CASE Judged
  BY <1>12 DEF Judged, disk, file, process
<1>13. CASE DropJournal
  BY <1>13 DEF DropJournal, disk, file, process
<1>14. CASE DropMeta
  BY <1>14 DEF DropMeta, disk, file, process
<1>15. CASE Persist
  BY <1>15 DEF Persist, disk, file, process
<1>16. CASE Publish
  BY <1>16 DEF Publish, disk, file, process
<1>17. CASE Mirror
  BY <1>17 DEF Mirror, disk, file, process
<1>18. CASE Stop
  BY <1>18 DEF Stop, disk, file, process
<1>19. CASE Tear
  BY <1>19 DEF Tear, disk, file, process
<1>20. CASE Abort
  BY <1>20 DEF Abort, Wipe, disk, file, process
<1>21. CASE PersistFails
  BY <1>21 DEF PersistFails, Wipe, disk, file, process
<1>22. CASE UNCHANGED vars
  BY <1>22 DEF vars
<1>23. QED
  BY <1>1, <1>2, <1>3, <1>4, <1>5, <1>6, <1>7, <1>8, <1>9, <1>10, <1>11,
     <1>12, <1>13, <1>14, <1>15, <1>16, <1>17, <1>18, <1>19, <1>20, <1>21,
     <1>22 DEF Next, Run

\* What the abstract run sees of a step that only moves the process on.
LEMMA Unseen ==
  ASSUME UNCHANGED <<Answered, PinnedTo, Asked, struck, published, bundle>>
  PROVE  UNCHANGED R!vars
<1>1. (struck # {})' = (struck # {})
  OBVIOUS
<1>2. QED
  BY <1>1, Zenon DEF R!vars

\* A step that ends a mauled run's process, or takes its staging directory, loses
\* answers and adds none.
LEMMA Suffers ==
  ASSUME Values, OneRun, Agrees, struck' # {}, pc' = "down", pc # "down",
         published = Missing, UNCHANGED <<published, bundle>>,
         meta' \in {meta, Missing},
         \A i \in Items : \/ journal'[i] \in {Missing, journal[i]}
                          \/ (i \in Asked /\ journal'[i] = config),
         DOMAIN journal' = Items, journal' = [i \in Items |-> journal'[i]]
  PROVE  R!Suffer
<1> USE RunAssumption
    DEF Values, Steps, States, Items, Working, Holding, Finalizing, Asking, OneRun, Agrees
<1>1. PinnedTo' \in {PinnedTo, Missing}
  BY DEF PinnedTo
<1>2. Asked' = {}
  BY DEF Asked
<1>3. Answered' = journal'
  BY DEF Answered
<1> DEFINE lost == {i \in Items : journal'[i] = Missing}
           kept == {i \in Asked : journal'[i] = config}
<1>4. ASSUME NEW i \in Items
      PROVE  journal'[i] = IF i \in lost THEN Missing
                           ELSE IF i \in kept THEN PinnedTo ELSE Answered[i]
  <2>1. CASE pc \in Holding
    BY <2>1 DEF Answered, PinnedTo, Asked
  <2>2. CASE pc \notin Holding
    BY <2>2 DEF Answered, PinnedTo, Asked
  <2>3. QED
    BY <2>1, <2>2
<1>5. lost \in SUBSET Items /\ kept \in SUBSET Asked
  OBVIOUS
<1> HIDE DEF lost, kept
<1>6. Answered' = [i \in Items |-> IF i \in lost THEN Missing
                                   ELSE IF i \in kept THEN PinnedTo ELSE Answered[i]]
  BY <1>3, <1>4
<1>7. \E l \in SUBSET Items, k \in SUBSET Asked :
        Answered' = [i \in Items |-> IF i \in l THEN Missing
                                    ELSE IF i \in k THEN PinnedTo ELSE Answered[i]]
  BY <1>5, <1>6, Zenon
<1>8. (struck # {})' = TRUE
  OBVIOUS
<1>9. QED
  BY <1>1, <1>2, <1>7, <1>8, Zenon DEF R!Suffer

\* Every step of a run is one of the abstract run, or one it does not see.
LEMMA CaseRunStep ==
  Values /\ OneRun /\ Kept /\ Agrees /\ [Next]_vars => [R!Next]_(R!vars)
<1> SUFFICES ASSUME Values, OneRun, Kept, Agrees, [Next]_vars
             PROVE  R!Next \/ UNCHANGED R!vars
  OBVIOUS
<1> USE RunAssumption
    DEF Values, Steps, States, Items, Empty, Working, Holding, Finalizing, Asking, OneRun,
        Agrees
<1>a. ASSUME UNCHANGED <<Answered, PinnedTo, Asked, struck, published, bundle>>
      PROVE  R!Next \/ UNCHANGED R!vars
  BY <1>a, Unseen
<1>1. ASSUME NEW c \in Configs, StartFresh(c) \/ StartResume(c)
      PROVE  R!Next \/ UNCHANGED R!vars
  <2>1. /\ pc = "down" /\ pc' \in {"pinning", "wiring"}
        /\ UNCHANGED <<meta, journal, struck, published, bundle>>
    BY <1>1 DEF StartFresh, StartResume, Start, disk, file
  <2>2. QED
    BY <2>1, <1>a DEF Answered, PinnedTo, Asked
<1>2. CASE Pin
  <2>1. /\ pc = "pinning" /\ pc' = "wiring" /\ meta = Missing /\ meta' = config
        /\ published = Missing /\ config \in Configs
        /\ UNCHANGED <<journal, struck, published, bundle>>
    BY <1>2 DEF Pin, file
  <2>2. PinnedTo = Missing /\ PinnedTo' = config /\ UNCHANGED <<Answered, Asked>>
    BY <2>1 DEF Answered, PinnedTo, Asked
  <2>3. (struck # {})' = (struck # {})
    BY <2>1
  <2>4. R!Pin(config)
    BY <2>1, <2>2, <2>3, Zenon DEF R!Pin
  <2>5. QED
    BY <2>1, <2>4 DEF R!Next
<1>3. CASE Wired \/ LoadFails \/ Mirror
  <2>1. /\ pc \in {"wiring", "loading", "mirror"} /\ pc' \in {"loading", "down"}
        /\ UNCHANGED <<meta, journal, struck, published, bundle>>
    BY <1>3 DEF Wired, LoadFails, Mirror, disk, file
  <2>2. QED
    BY <2>1, <1>a DEF Answered, PinnedTo, Asked
<1>4. CASE Load
  <2>1. /\ pc = "loading" /\ pc' = "loop" /\ done' = journal /\ published = Missing
        /\ UNCHANGED <<meta, journal, struck, published, bundle>>
    BY <1>4 DEF Load, Loaded, disk, file
  <2>2. QED
    BY <2>1, <1>a DEF Answered, PinnedTo, Asked
<1>5. CASE NextItem
  <2>1. /\ pc = "loop" /\ UNCHANGED <<meta, done, struck, published, bundle>>
        /\ \/ pc' \in {"loop", "probe"}
           \/ /\ pc' = "call" /\ at' = at /\ at \in Items /\ done[at] = Missing
    BY <1>5 DEF NextItem, disk, file
  <2>2. UNCHANGED <<Answered, PinnedTo>> /\ Asked = {}
    BY <2>1 DEF Answered, PinnedTo, Asked
  <2>3. CASE pc' # "call"
    BY <2>1, <2>2, <2>3, <1>a DEF Asked
  <2>4. CASE pc' = "call"
    <3>1. Asked' = {at} /\ Answered[at] = Missing /\ PinnedTo # Missing
          /\ published = Missing
      BY <2>1, <2>4 DEF Asked, Answered, PinnedTo
    <3>2. (struck # {})' = (struck # {})
      BY <2>1
    <3>3. R!Ask(at)
      BY <2>1, <2>2, <3>1, <3>2, Zenon DEF R!Ask
    <3>4. QED
      BY <2>1, <2>4, <3>3 DEF R!Next
  <2>5. QED
    BY <2>3, <2>4
<1>6. CASE CallModel \/ Relaunch
  <2>1. /\ pc \in Asking /\ pc' \in Asking
        /\ UNCHANGED <<meta, done, at, struck, published, bundle>>
    BY <1>6 DEF CallModel, Relaunch, disk, file
  <2>2. QED
    BY <2>1, <1>a DEF Answered, PinnedTo, Asked
<1>7. CASE Record
  <2>1. /\ pc = "record" /\ pc' = "loop" /\ at \in Items
        /\ done' = [done EXCEPT ![at] = config]
        /\ UNCHANGED <<meta, struck, published, bundle>>
    BY <1>7 DEF Record
  <2>2. /\ Asked = {at} /\ Asked' = {} /\ PinnedTo = config /\ PinnedTo' = PinnedTo
        /\ Answered' = [Answered EXCEPT ![at] = PinnedTo]
    BY <2>1 DEF Answered, PinnedTo, Asked
  <2>3. (struck # {})' = (struck # {})
    BY <2>1
  <2>4. R!Answer(at)
    <3>1. at \in Asked
      BY <2>2
    <3>2. QED
      BY <2>1, <2>2, <2>3, <3>1, Zenon DEF R!Answer
  <2>5. QED
    BY <2>1, <2>4 DEF R!Next
<1>8. CASE Probed \/ Judged \/ DropJournal \/ DropMeta \/ Persist
  <2>1. /\ pc \in {"probe", "judge", "drop", "dropping", "persist"}
        /\ pc' \in {"judge", "drop", "dropping", "persist", "publish"}
        /\ pc' \in Finalizing \/ (meta' = meta /\ pc \notin Finalizing)
        /\ UNCHANGED <<done, config, struck, published, bundle>>
    BY <1>8 DEF Probed, Judged, DropJournal, DropMeta, Persist, disk, file, process
  <2>2. QED
    BY <2>1, <1>a DEF Answered, PinnedTo, Asked
<1>9. CASE Publish
  <2>1. /\ pc = "publish" /\ pc' = "mirror" /\ published = Missing
        /\ published' = config /\ bundle' = done /\ struck' = struck
        /\ \A i \in Items : done[i] = config
    BY <1>9 DEF Publish, Finished
  <2>2. /\ Asked = {} /\ PinnedTo = config /\ Answered = done
        /\ Asked' = {} /\ PinnedTo' = config /\ Answered' = done
    BY <2>1 DEF Answered, PinnedTo, Asked
  <2>3. (struck # {})' = (struck # {})
    BY <2>1
  <2>4. config # Missing
    OBVIOUS
  <2>5. R!Publish
    BY <2>1, <2>2, <2>3, <2>4, Zenon DEF R!Publish
  <2>6. QED
    BY <2>5 DEF R!Next
<1>10. CASE Stop
  <2>1. /\ pc # "down" /\ pc' = "down"
        /\ UNCHANGED <<meta, journal, published, bundle>>
        /\ struck' = IF pc \in Finalizing THEN struck \cup {"finalize"} ELSE struck
    BY <1>10 DEF Stop, disk, file
  <2>2. CASE pc \notin Holding
    <3>1. UNCHANGED <<Answered, PinnedTo, Asked, struck>>
      BY <2>1, <2>2 DEF Answered, PinnedTo, Asked
    <3>2. QED
      BY <2>1, <3>1, <1>a
  <2>3. CASE struck' = {}
    <3>1. pc \notin Finalizing /\ struck' = struck
      BY <2>1, <2>3
    <3>2. CASE pc \in Holding
      <4>1. UNCHANGED <<Answered, PinnedTo>> /\ Asked' = {}
        BY <2>1, <2>3, <3>1, <3>2 DEF Answered, PinnedTo, Asked
      <4>2. (struck # {})' = (struck # {})
        BY <3>1
      <4>3. R!GiveUp
        BY <2>1, <4>1, <4>2, Zenon DEF R!GiveUp
      <4>4. QED
        BY <4>3 DEF R!Next
    <3>3. QED
      BY <2>2, <3>2
  <2>4. CASE pc \in Holding /\ struck' # {}
    <3>1. R!Suffer
      BY <2>1, <2>4, Suffers
    <3>2. QED
      BY <3>1 DEF R!Next
  <2>5. QED
    BY <2>2, <2>3, <2>4
<1>11. CASE Tear
  <2>1. /\ pc = "record" /\ pc' = "down" /\ struck' # {} /\ published = Missing
        /\ UNCHANGED <<meta, published, bundle>>
    BY <1>11 DEF Tear
  <2>2. \/ journal' = journal
        \/ journal' = [journal EXCEPT ![at] = config]
        \/ journal' = [j \in Items |-> IF j = last THEN Missing ELSE journal[j]]
    BY <1>11 DEF Tear
  <2>3. Asked = {at}
    BY <2>1 DEF Asked
  <2>4. R!Suffer
    BY <2>1, <2>2, <2>3, Suffers
  <2>5. QED
    BY <2>4 DEF R!Next
<1>12. CASE Abort \/ PersistFails
  <2>1. /\ pc \in InTry \cup {"persist", "publish"} /\ pc' = "down" /\ struck' # {}
        /\ published = Missing /\ UNCHANGED <<published, bundle>>
        /\ meta' \in {meta, Missing} /\ (journal' = journal \/ journal' = Empty)
    BY <1>12 DEF Abort, PersistFails, Wipe, InTry, file
  <2>2. R!Suffer
    BY <2>1, Suffers DEF InTry
  <2>3. QED
    BY <2>2 DEF R!Next
<1>13. CASE UNCHANGED vars
  BY <1>13, <1>a DEF vars, Answered, PinnedTo, Asked
<1>14. QED
  BY <1>1, <1>2, <1>3, <1>4, <1>5, <1>6, <1>7, <1>8, <1>9, <1>10, <1>11, <1>12,
     <1>13 DEF Next, Run

\* One configuration, no answer lost and none asked for twice unless the run was
\* mauled, and nothing published but all of them: the journal, the processes and
\* the staging directory keep what executor/durability.py promises.
THEOREM ImplementsDurability == Spec => ImplementsCaseRun
<1>1. Init => R!Init
  <2> SUFFICES ASSUME Init PROVE R!Init
    OBVIOUS
  <2>1. PinnedTo = Missing /\ Answered = Empty /\ Asked = {}
    BY DEF Init, PinnedTo, Answered, Asked, Holding, Finalizing
  <2>2. (struck # {}) = FALSE
    BY DEF Init
  <2>3. QED
    BY <2>1, <2>2, Zenon DEF Init, R!Init, Empty
<1>2. Init => Agrees
  BY DEF Init, Agrees, Asking, Holding, Finalizing
<1>3. Typed /\ OneRun /\ Kept /\ Agrees /\ [Next]_vars => Agrees'
  BY AgreesStep DEF Typed
<1>4. Typed /\ OneRun /\ Kept /\ Agrees /\ [Next]_vars => [R!Next]_(R!vars)
  BY CaseRunStep DEF Typed
<1>5. QED
  BY <1>1, <1>2, <1>3, <1>4, TypesHold, OneRunHolds, KeptHolds, PTL
  DEF Spec, ImplementsCaseRun, R!Spec
=============================================================================
