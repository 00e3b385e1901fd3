------------------------ MODULE OntologyDraftProofs ------------------------
(***************************************************************************)
(* Proofs about OntologyDraft: its types, that no journaled window is sent *)
(* again, how many paid answers the budget can throw away, that a complete *)
(* bundle stayed within its budget, the spend cap of calls that do not     *)
(* overlap, and the refinement of Extraction.                              *)
(***************************************************************************)
EXTENDS OntologyDraft, FiniteSetTheorems, TLAPS

\* The threads are those of the pool and the main thread.
LEMMA WhoActs ==
  /\ Workers \subseteq Actors /\ Main \in Actors /\ Main \notin Workers
  /\ \A a \in Actors : a \in Workers \/ a = Main
  BY DraftAssumption DEF Actors

-----------------------------------------------------------------------------
(* Types.                                                                  *)

\* The flags of the type invariant: the provers treat Boolean variables apart.
Flags == /\ pinned \in BOOLEAN /\ raised \in BOOLEAN /\ overlapped \in BOOLEAN
         /\ parsed \in [Actors -> BOOLEAN]

\* Where the process and its threads are ...
Places ==
  /\ journal \subseteq Windows /\ done \subseteq Windows
  /\ pc \in Phases
  /\ upto \in 0..N /\ next \in 1..(upto + 1)
  /\ step \in [Actors -> Steps]
  /\ window \in [Actors -> 0..N]
  /\ tries \in [Actors -> 0..Retries]
  /\ \A a \in Workers : step[a] # "idle" =>
       pc = "extract" /\ window[a] \in 1..(next - 1)
  /\ step[Main] # "idle" => pc = "draft"
  /\ step[Main] # "record"

\* ... and what they have counted.
Counters ==
  /\ seed \in 0..Seeds /\ sessions \in 0..MaxSessions
  /\ calls \in 0..MaxCalls
  /\ cost \in Nat /\ newest \in 0..Dearest
  /\ share \in [Actors -> 0..Dearest]
  /\ spent \in Nat /\ lost \in Nat

Typed == Flags /\ Places /\ Counters

\* The flags stay flags through every step.
LEMMA FlagsStep == Flags /\ [Next]_vars => Flags'
<1> SUFFICES ASSUME Flags, [Next]_vars PROVE Flags'
  OBVIOUS
<1> USE DEF Flags
<1>1. CASE StartFresh
  BY <1>1, Zenon DEF StartFresh, Begin, vars, disk, queue, budget, thread,
     history
<1>2. CASE StartResume
  BY <1>2, Zenon DEF StartResume, Begin, Loaded, vars, disk, queue, budget,
     thread, history
<1>3. CASE End
  BY <1>3, Zenon DEF End, vars, disk, queue, budget, thread, history
<1>4. CASE Pin
  BY <1>4, Zenon DEF Pin, vars, disk, queue, budget, thread, history
<1>5. CASE Submit
  BY <1>5, Zenon DEF Submit, vars, disk, queue, budget, thread, history
<1>6. CASE Extracted
  BY <1>6, Zenon DEF Extracted, vars, disk, queue, budget, thread, history
<1>7. CASE Draft
  BY <1>7, Zenon DEF Draft, vars, disk, queue, budget, thread, history
<1>8. CASE Drafted
  BY <1>8, Zenon DEF Drafted, vars, disk, queue, budget, thread, history
<1>9. ASSUME NEW a \in Actors, Reserve(a) PROVE Flags'
  BY <1>9, Zenon DEF Reserve, Stopped, Leave, Exhausted, vars, disk, queue,
     budget, thread, history
<1>10. ASSUME NEW a \in Actors, Answer(a) PROVE Flags'
  BY <1>10, Zenon DEF Answer, Again, Leave, vars, disk, queue, budget,
     thread, history
<1>11. ASSUME NEW a \in Actors, ReadCost(a) PROVE Flags'
  BY <1>11, Zenon DEF ReadCost, LastCost, vars, disk, queue, budget, thread,
     history
<1>12. ASSUME NEW a \in Actors, Charge(a) PROVE Flags'
  BY <1>12, Zenon DEF Charge, Stopped, Again, Leave, vars, disk, queue,
     budget, thread, history
<1>13. ASSUME NEW a \in Workers, Take(a) PROVE Flags'
  BY <1>13, Zenon DEF Take, Served, vars, disk, queue, budget, thread, history
<1>14. ASSUME NEW a \in Workers, Record(a) PROVE Flags'
  BY <1>14, Zenon DEF Record, Leave, vars, disk, queue, budget, thread, history
<1>15. CASE UNCHANGED vars
  BY <1>15, Zenon DEF vars, disk, queue, budget, thread, history
<1>16. QED
  BY <1>1, <1>2, <1>3, <1>4, <1>5, <1>6, <1>7, <1>8, <1>9, <1>10, <1>11, <1>12,
     <1>13, <1>14, <1>15, WhoActs, Zenon
  DEF Next, Manage, Work, Call, Write, Abort, Kill

\* A thread of the pool only works while the process extracts, on a window that
\* was taken from the queue; the main thread only while it drafts.
LEMMA PlacesStep == Places /\ [Next]_vars => Places'
<1> SUFFICES ASSUME Places, [Next]_vars PROVE Places'
  OBVIOUS
<1> USE DraftAssumption DEF Places, Phases, Steps, Windows
<1>1. CASE StartFresh
  BY <1>1, WhoActs DEF StartFresh, Begin, vars, disk, queue, budget, thread,
     history
<1>2. CASE StartResume
  BY <1>2, WhoActs DEF StartResume, Begin, Loaded, vars, disk, queue, budget,
     thread, history
<1>3. CASE End
  BY <1>3, WhoActs DEF End, vars, disk, queue, budget, thread, history
<1>4. CASE Pin
  BY <1>4, WhoActs DEF Pin, vars, disk, queue, budget, thread, history
<1>5. CASE Submit
  BY <1>5, WhoActs DEF Submit, vars, disk, queue, budget, thread, history
<1>6. CASE Extracted
  BY <1>6, WhoActs DEF Extracted, Quiet, vars, disk, queue, budget, thread,
     history
<1>7. CASE Draft
  BY <1>7, WhoActs DEF Draft, vars, disk, queue, budget, thread, history
<1>8. CASE Drafted
  BY <1>8, WhoActs DEF Drafted, vars, disk, queue, budget, thread, history
<1>9. ASSUME NEW a \in Actors, Reserve(a) PROVE Places'
  BY <1>9, WhoActs DEF Reserve, Stopped, Leave, Exhausted, vars, disk, queue,
     budget, thread, history
<1>10. ASSUME NEW a \in Actors, Answer(a) PROVE Places'
  BY <1>10, WhoActs DEF Answer, Again, Leave, vars, disk, queue, budget,
     thread, history
<1>11. ASSUME NEW a \in Actors, ReadCost(a) PROVE Places'
  BY <1>11, WhoActs DEF ReadCost, LastCost, vars, disk, queue, budget,
     thread, history
<1>12. ASSUME NEW a \in Actors, Charge(a) PROVE Places'
  BY <1>12, WhoActs DEF Charge, Stopped, Again, Leave, vars, disk, queue,
     budget, thread, history
<1>13. ASSUME NEW a \in Workers, Take(a) PROVE Places'
  BY <1>13, WhoActs DEF Take, Served, vars, disk, queue, budget, thread,
     history
<1>14. ASSUME NEW a \in Workers, Record(a) PROVE Places'
  <2>1. window[a] \in Windows
    BY <1>14, WhoActs DEF Record
  <2>2. journal' \subseteq Windows /\ done' \subseteq Windows
    BY <1>14, <2>1 DEF Record
  <2>3. /\ step' = [step EXCEPT ![a] = "idle"]
        /\ window' = [window EXCEPT ![a] = 0]
        /\ tries' = [tries EXCEPT ![a] = 0]
        /\ UNCHANGED <<pc, upto, next>>
    BY <1>14 DEF Record, Leave, queue
  <2>4. QED
    BY <2>2, <2>3, WhoActs
<1>15. CASE UNCHANGED vars
  BY <1>15, WhoActs DEF vars, disk, queue, budget, thread, history
<1>16. QED
  BY <1>1, <1>2, <1>3, <1>4, <1>5, <1>6, <1>7, <1>8, <1>9, <1>10, <1>11, <1>12,
     <1>13, <1>14, <1>15, WhoActs, Zenon
  DEF Next, Manage, Work, Call, Write, Abort, Kill

\* The counters stay in their ranges.
LEMMA CountersStep == Counters /\ [Next]_vars => Counters'
<1> SUFFICES ASSUME Counters, [Next]_vars PROVE Counters'
  OBVIOUS
<1> USE DraftAssumption DEF Counters
<1>1. CASE StartFresh
  BY <1>1, WhoActs DEF StartFresh, Begin, vars, disk, queue, budget, thread,
     history
<1>2. CASE StartResume
  BY <1>2, WhoActs DEF StartResume, Begin, Loaded, vars, disk, queue, budget,
     thread, history
<1>3. CASE End
  BY <1>3, WhoActs DEF End, vars, disk, queue, budget, thread, history
<1>4. CASE Pin
  BY <1>4, WhoActs DEF Pin, vars, disk, queue, budget, thread, history
<1>5. CASE Submit
  BY <1>5, WhoActs DEF Submit, vars, disk, queue, budget, thread, history
<1>6. CASE Extracted
  BY <1>6, WhoActs DEF Extracted, vars, disk, queue, budget, thread, history
<1>7. CASE Draft
  BY <1>7, WhoActs DEF Draft, vars, disk, queue, budget, thread, history
<1>8. CASE Drafted
  BY <1>8, WhoActs DEF Drafted, vars, disk, queue, budget, thread, history
<1>9. ASSUME NEW a \in Actors, Reserve(a) PROVE Counters'
  BY <1>9, WhoActs DEF Reserve, Stopped, Leave, Exhausted, vars, disk, queue,
     budget, thread, history
<1>10. ASSUME NEW a \in Actors, Answer(a) PROVE Counters'
  BY <1>10, WhoActs DEF Answer, Again, Leave, vars, disk, queue, budget,
     thread, history
<1>11. ASSUME NEW a \in Actors, ReadCost(a) PROVE Counters'
  BY <1>11, WhoActs DEF ReadCost, LastCost, vars, disk, queue, budget,
     thread, history
<1>12. ASSUME NEW a \in Actors, Charge(a) PROVE Counters'
  BY <1>12, WhoActs DEF Charge, Stopped, Again, Leave, vars, disk, queue,
     budget, thread, history
<1>13. ASSUME NEW a \in Workers, Take(a) PROVE Counters'
  BY <1>13, WhoActs DEF Take, Served, vars, disk, queue, budget, thread,
     history
<1>14. ASSUME NEW a \in Workers, Record(a) PROVE Counters'
  BY <1>14, WhoActs DEF Record, Leave, vars, disk, queue, budget, thread,
     history
<1>15. CASE UNCHANGED vars
  BY <1>15, WhoActs DEF vars, disk, queue, budget, thread, history
<1>16. QED
  BY <1>1, <1>2, <1>3, <1>4, <1>5, <1>6, <1>7, <1>8, <1>9, <1>10, <1>11, <1>12,
     <1>13, <1>14, <1>15, WhoActs, Zenon
  DEF Next, Manage, Work, Call, Write, Abort, Kill

\* Every variable keeps its type, whatever threads and processes do: the budget
\* never counts more calls than were allowed.
THEOREM TypesHold == Spec => []Typed
<1>1. Init => Typed
  <2> SUFFICES ASSUME Init PROVE Typed
    OBVIOUS
  <2>1. Flags
    BY Zenon DEF Init, Flags
  <2>2. Places
    BY DraftAssumption, WhoActs DEF Init, Places, Phases, Steps, Windows
  <2>3. Counters
    BY DraftAssumption DEF Init, Counters
  <2>4. QED
    BY <2>1, <2>2, <2>3 DEF Typed
<1>2. Typed /\ [Next]_vars => Typed'
  BY FlagsStep, PlacesStep, CountersStep DEF Typed
<1>3. QED
  BY <1>1, <1>2, PTL DEF Spec

\* The type invariant follows.
THEOREM TypeCorrect == Spec => []TypeOK
<1>1. Typed => TypeOK
  BY DEF Typed, Flags, Places, Counters, TypeOK
<1>2. QED
  BY <1>1, TypesHold, PTL

-----------------------------------------------------------------------------
(* No window is sent again.                                                *)

\* No two threads of the pool work on the same window, and while the process
\* extracts its memory holds the journal: so what a thread sends is not in it.
Exclusive ==
  /\ \A a, b \in Workers :
       a # b /\ step[a] # "idle" /\ step[b] # "idle" => window[a] # window[b]
  /\ pc = "extract" => done = journal
  /\ pc = "pin" => done = {} /\ journal = {}
  /\ NeverReasked

LEMMA ExclusiveStep == Typed /\ Exclusive /\ [Next]_vars => Exclusive'
<1> SUFFICES ASSUME Typed /\ Exclusive, [Next]_vars PROVE Exclusive'
  OBVIOUS
<1> USE DraftAssumption DEF Typed, Places, Windows, Exclusive, NeverReasked
<1>1. CASE StartFresh
  BY <1>1, WhoActs DEF StartFresh, Begin, vars, disk, queue, budget, thread,
     history
<1>2. CASE StartResume
  BY <1>2, WhoActs DEF StartResume, Begin, Loaded, vars, disk, queue, budget,
     thread, history
<1>3. CASE End
  BY <1>3, WhoActs DEF End, vars, disk, queue, budget, thread, history
<1>4. CASE Pin
  BY <1>4, WhoActs DEF Pin, vars, disk, queue, budget, thread, history
<1>5. CASE Submit
  BY <1>5, WhoActs DEF Submit, vars, disk, queue, budget, thread, history
<1>6. CASE Extracted
  BY <1>6, WhoActs DEF Extracted, vars, disk, queue, budget, thread, history
<1>7. CASE Draft
  BY <1>7, WhoActs DEF Draft, vars, disk, queue, budget, thread, history
<1>8. CASE Drafted
  BY <1>8, WhoActs DEF Drafted, vars, disk, queue, budget, thread, history
<1>9. ASSUME NEW a \in Actors, Reserve(a) PROVE Exclusive'
  BY <1>9, WhoActs DEF Reserve, Stopped, Leave, Exhausted, vars, disk, queue,
     budget, thread, history
<1>10. ASSUME NEW a \in Actors, Answer(a) PROVE Exclusive'
  BY <1>10, WhoActs DEF Answer, Again, Leave, vars, disk, queue, budget,
     thread, history
<1>11. ASSUME NEW a \in Actors, ReadCost(a) PROVE Exclusive'
  BY <1>11, WhoActs DEF ReadCost, LastCost, vars, disk, queue, budget,
     thread, history
<1>12. ASSUME NEW a \in Actors, Charge(a) PROVE Exclusive'
  BY <1>12, WhoActs DEF Charge, Stopped, Again, Leave, vars, disk, queue,
     budget, thread, history
<1>13. ASSUME NEW a \in Workers, Take(a) PROVE Exclusive'
  BY <1>13, WhoActs DEF Take, Served, vars, disk, queue, budget, thread,
     history
<1>14. ASSUME NEW a \in Workers, Record(a) PROVE Exclusive'
  BY <1>14, WhoActs DEF Record, Leave, vars, disk, queue, budget, thread,
     history
<1>15. CASE UNCHANGED vars
  BY <1>15, WhoActs DEF vars, disk, queue, budget, thread, history
<1>16. QED
  BY <1>1, <1>2, <1>3, <1>4, <1>5, <1>6, <1>7, <1>8, <1>9, <1>10, <1>11, <1>12,
     <1>13, <1>14, <1>15, WhoActs, Zenon
  DEF Next, Manage, Work, Call, Write, Abort, Kill

\* For any pool and any corpus, and whatever processes ran before: a journaled
\* window is never sent again.
THEOREM JournaledOnce == Spec => []NeverReasked
<1>1. Init => Exclusive
  BY WhoActs DEF Init, Exclusive, NeverReasked
<1>2. Typed /\ Exclusive /\ [Next]_vars => Exclusive'
  BY ExclusiveStep
<1>3. Exclusive => NeverReasked
  BY DEF Exclusive
<1>4. QED
  BY <1>1, <1>2, <1>3, TypesHold, PTL DEF Spec

-----------------------------------------------------------------------------
(* A complete bundle stayed within its budget.                             *)

\* Only an exception takes the cost past its cap, and it ends the drafting.
Within ==
  /\ cost > MaxCost => raised
  /\ pc = "write" \/ step[Main] # "idle" => ~ raised

LEMMA WithinStep == Typed /\ Within /\ [Next]_vars => Within'
<1> SUFFICES ASSUME Typed /\ Within, [Next]_vars PROVE Within'
  OBVIOUS
<1> USE DraftAssumption DEF Typed, Flags, Places, Counters, Within
<1>1. CASE StartFresh
  BY <1>1, WhoActs DEF StartFresh, Begin, vars, disk, queue, budget, thread,
     history
<1>2. CASE StartResume
  BY <1>2, WhoActs DEF StartResume, Begin, Loaded, vars, disk, queue, budget,
     thread, history
<1>3. CASE End
  BY <1>3, WhoActs DEF End, vars, disk, queue, budget, thread, history
<1>4. CASE Pin
  BY <1>4, WhoActs DEF Pin, vars, disk, queue, budget, thread, history
<1>5. CASE Submit
  BY <1>5, WhoActs DEF Submit, vars, disk, queue, budget, thread, history
<1>6. CASE Extracted
  BY <1>6, WhoActs DEF Extracted, vars, disk, queue, budget, thread, history
<1>7. CASE Draft
  BY <1>7, WhoActs DEF Draft, vars, disk, queue, budget, thread, history
<1>8. CASE Drafted
  BY <1>8, WhoActs DEF Drafted, vars, disk, queue, budget, thread, history
<1>9. ASSUME NEW a \in Actors, Reserve(a) PROVE Within'
  BY <1>9, WhoActs DEF Reserve, Stopped, Leave, Exhausted, vars, disk, queue,
     budget, thread, history
<1>10. ASSUME NEW a \in Actors, Answer(a) PROVE Within'
  BY <1>10, WhoActs DEF Answer, Again, Leave, vars, disk, queue, budget,
     thread, history
<1>11. ASSUME NEW a \in Actors, ReadCost(a) PROVE Within'
  BY <1>11, WhoActs DEF ReadCost, LastCost, vars, disk, queue, budget,
     thread, history
<1>12. ASSUME NEW a \in Actors, Charge(a) PROVE Within'
  BY <1>12, WhoActs DEF Charge, Stopped, Again, Leave, vars, disk, queue,
     budget, thread, history
<1>13. ASSUME NEW a \in Workers, Take(a) PROVE Within'
  BY <1>13, WhoActs DEF Take, Served, vars, disk, queue, budget, thread,
     history
<1>14. ASSUME NEW a \in Workers, Record(a) PROVE Within'
  BY <1>14, WhoActs DEF Record, Leave, vars, disk, queue, budget, thread,
     history
<1>15. CASE UNCHANGED vars
  BY <1>15, WhoActs DEF vars, disk, queue, budget, thread, history
<1>16. QED
  BY <1>1, <1>2, <1>3, <1>4, <1>5, <1>6, <1>7, <1>8, <1>9, <1>10, <1>11, <1>12,
     <1>13, <1>14, <1>15, WhoActs, Zenon
  DEF Next, Manage, Work, Call, Write, Abort, Kill

\* For any caps and any prices: what is written as complete was paid for within
\* the budget.
THEOREM CompleteWithinBudget == Spec => []WrittenWithinBudget
<1>1. Init => Within
  BY DraftAssumption, WhoActs DEF Init, Within
<1>2. Typed /\ Within /\ [Next]_vars => Within'
  BY WithinStep
<1>3. Typed /\ Within => WrittenWithinBudget
  BY DraftAssumption DEF Typed, Counters, Within, WrittenWithinBudget
<1>4. QED
  BY <1>1, <1>2, <1>3, TypesHold, PTL DEF Spec

-----------------------------------------------------------------------------
(* Spending without overlap.                                               *)

\* One call in flight at most, and the budget short of what was spent by what
\* that call has cost.
Accounted ==
  ~ overlapped =>
    /\ \A a, b \in InFlight : a = b
    /\ InFlight = {} => spent = cost
    /\ \A a \in InFlight :
         /\ cost < MaxCost
         /\ step[a] = "calling" => spent = cost
         /\ step[a] = "logged" => spent = cost + newest
         /\ step[a] = "read" => spent = cost + share[a]
    /\ cost < MaxCost + Dearest

LEMMA AccountedStep == Typed /\ Accounted /\ [Next]_vars => Accounted'
<1> SUFFICES ASSUME Typed /\ Accounted, [Next]_vars PROVE Accounted'
  OBVIOUS
<1> USE DraftAssumption DEF Typed, Flags, Places, Counters, Accounted, InFlight
<1>1. CASE StartFresh
  BY <1>1, WhoActs DEF StartFresh, Begin, vars, disk, queue, budget, thread,
     history
<1>2. CASE StartResume
  BY <1>2, WhoActs DEF StartResume, Begin, Loaded, vars, disk, queue, budget,
     thread, history
<1>3. CASE End
  BY <1>3, WhoActs DEF End, vars, disk, queue, budget, thread, history
<1>4. CASE Pin
  BY <1>4, WhoActs DEF Pin, vars, disk, queue, budget, thread, history
<1>5. CASE Submit
  BY <1>5, WhoActs DEF Submit, vars, disk, queue, budget, thread, history
<1>6. CASE Extracted
  BY <1>6, WhoActs DEF Extracted, vars, disk, queue, budget, thread, history
<1>7. CASE Draft
  BY <1>7, WhoActs DEF Draft, vars, disk, queue, budget, thread, history
<1>8. CASE Drafted
  BY <1>8, WhoActs DEF Drafted, vars, disk, queue, budget, thread, history
<1>9. ASSUME NEW a \in Actors, Reserve(a) PROVE Accounted'
  <2>1. CASE Exhausted
    BY <1>9, <2>1, WhoActs DEF Reserve, Stopped, Leave, history, budget
  <2>2. CASE ~ Exhausted /\ ~ overlapped'
    <3>1. ~ overlapped /\ InFlight = {} /\ step' = [step EXCEPT ![a] = "calling"]
          /\ UNCHANGED <<spent, cost, newest, share>>
      BY <1>9, <2>2, Zenon DEF Reserve
    <3>2. InFlight' = {a}
      BY <3>1
    <3>3. spent = cost /\ cost < MaxCost
      BY <2>2, <3>1 DEF Exhausted
    <3>4. QED
      BY <3>1, <3>2, <3>3
  <2>3. QED
    BY <2>1, <2>2
<1>10. ASSUME NEW a \in Actors, Answer(a) PROVE Accounted'
  BY <1>10, WhoActs DEF Answer, Again, Leave, vars, disk, queue, budget,
     thread, history
<1>11. ASSUME NEW a \in Actors, ReadCost(a) PROVE Accounted'
  BY <1>11, WhoActs DEF ReadCost, LastCost, vars, disk, queue, budget,
     thread, history
<1>12. ASSUME NEW a \in Actors, Charge(a) PROVE Accounted'
  BY <1>12, WhoActs DEF Charge, Stopped, Again, Leave, vars, disk, queue,
     budget, thread, history
<1>13. ASSUME NEW a \in Workers, Take(a) PROVE Accounted'
  BY <1>13, WhoActs DEF Take, Served, vars, disk, queue, budget, thread,
     history
<1>14. ASSUME NEW a \in Workers, Record(a) PROVE Accounted'
  BY <1>14, WhoActs DEF Record, Leave, vars, disk, queue, budget, thread,
     history
<1>15. CASE UNCHANGED vars
  BY <1>15, WhoActs DEF vars, disk, queue, budget, thread, history
<1>16. QED
  BY <1>1, <1>2, <1>3, <1>4, <1>5, <1>6, <1>7, <1>8, <1>9, <1>10, <1>11, <1>12,
     <1>13, <1>14, <1>15, WhoActs, Zenon
  DEF Next, Manage, Work, Call, Write, Abort, Kill

\* For any caps, prices and number of threads: while no calls overlap, the spend
\* stays below the cap and one call more.
THEOREM SerialSpend == Spec => []SerialSpendIsCapped
<1>1. Init => Accounted
  BY DraftAssumption, WhoActs DEF Init, Accounted, InFlight
<1>2. Typed /\ Accounted /\ [Next]_vars => Accounted'
  BY AccountedStep
<1>3. Typed /\ Accounted => SerialSpendIsCapped
  BY DraftAssumption DEF Typed, Places, Counters, Accounted,
     SerialSpendIsCapped, InFlight, Steps
<1>4. QED
  BY <1>1, <1>2, <1>3, TypesHold, PTL DEF Spec

-----------------------------------------------------------------------------
(* What the budget throws away.                                            *)

\* After the charge that passed the cap no call is reserved, and each call that
\* is still in flight loses one answer at most.
Losses ==
  lost > 0 =>
    /\ cost > MaxCost
    /\ lost + Cardinality(InFlight) <= Cardinality(Workers)

\* The calls in flight are those of the pool, or that of the main thread.
LEMMA Flying ==
  ASSUME Typed
  PROVE  /\ IsFiniteSet(InFlight) /\ Cardinality(InFlight) \in Nat
         /\ IsFiniteSet(Workers) /\ Cardinality(Workers) \in Nat
         /\ Cardinality(InFlight) <= Cardinality(Workers)
<1>1. IsFiniteSet(Workers) /\ Cardinality(Workers) \in Nat
  BY DraftAssumption, FS_CardinalityType
<1>2. CASE InFlight \subseteq Workers
  BY <1>1, <1>2, FS_Subset, FS_CardinalityType
<1>3. CASE InFlight = {Main}
  <2>1. Cardinality(Workers) # 0
    BY <1>1, DraftAssumption, FS_EmptySet
  <2>2. Cardinality(InFlight) = 1 /\ IsFiniteSet(InFlight)
    BY <1>3, FS_Singleton
  <2>3. QED
    BY <1>1, <2>1, <2>2
<1>4. InFlight \subseteq Workers \/ InFlight = {Main}
  BY WhoActs DEF Typed, Places, InFlight, Actors
<1>5. QED
  BY <1>1, <1>2, <1>3, <1>4

\* A step that sends no call leaves no more calls in flight.
LEMMA Fewer ==
  ASSUME Typed, Typed', InFlight' \subseteq InFlight, lost' = lost,
         cost' = cost, Losses
  PROVE  Losses'
<1>1. Cardinality(InFlight)' <= Cardinality(InFlight)
  BY Flying, FS_Subset
<1>2. Cardinality(InFlight)' \in Nat /\ Cardinality(InFlight) \in Nat
  BY Flying, FS_Subset, FS_CardinalityType
<1>3. QED
  BY <1>1, <1>2, Flying DEF Losses, Typed, Counters

LEMMA LossesStep == Typed /\ Typed' /\ Losses /\ [Next]_vars => Losses'
<1> SUFFICES ASSUME Typed /\ Typed' /\ Losses, [Next]_vars PROVE Losses'
  OBVIOUS
<1>1. CASE StartFresh
  BY <1>1, Fewer, WhoActs DEF StartFresh, Begin, InFlight, vars, disk, queue,
     budget, thread, history
<1>2. CASE StartResume
  BY <1>2, Fewer, WhoActs DEF StartResume, Begin, Loaded, InFlight, vars,
     disk, queue, budget, thread, history
<1>3. CASE End
  BY <1>3, DraftAssumption DEF End, Losses
<1>4. CASE Pin
  BY <1>4, Fewer, WhoActs DEF Pin, InFlight, vars, disk, queue, budget,
     thread, history
<1>5. CASE Submit
  BY <1>5, Fewer, WhoActs DEF Submit, InFlight, vars, disk, queue, budget,
     thread, history
<1>6. CASE Extracted
  BY <1>6, Fewer, WhoActs DEF Extracted, InFlight, vars, disk, queue, budget,
     thread, history
<1>7. CASE Draft
  BY <1>7, Fewer, WhoActs DEF Draft, InFlight, vars, disk, queue, budget,
     thread, history
<1>8. CASE Drafted
  BY <1>8, Fewer, WhoActs DEF Drafted, InFlight, vars, disk, queue, budget,
     thread, history
<1>9. ASSUME NEW a \in Actors, Reserve(a) PROVE Losses'
  <2>1. CASE Exhausted
    BY <1>9, <2>1, Fewer DEF Reserve, Stopped, Leave, InFlight, Typed, Places
  <2>2. CASE ~ Exhausted
    <3>1. cost < MaxCost /\ lost' = lost
      BY <1>9, <2>2, DraftAssumption DEF Reserve, Exhausted, Typed, Counters
    <3>2. QED
      BY <3>1, DraftAssumption DEF Losses, Typed, Counters
  <2>3. QED
    BY <2>1, <2>2
<1>10. ASSUME NEW a \in Actors, Answer(a) PROVE Losses'
  <2>1. InFlight' \subseteq InFlight
    BY <1>10, WhoActs DEF Answer, Again, Leave, InFlight, Typed, Places
  <2>2. lost' = lost /\ cost' = cost
    BY <1>10 DEF Answer, budget, history
  <2>3. QED
    BY <2>1, <2>2, Fewer
<1>11. ASSUME NEW a \in Actors, ReadCost(a) PROVE Losses'
  BY <1>11, Fewer, WhoActs DEF ReadCost, LastCost, InFlight, vars, disk,
     queue, budget, thread, history
<1>12. ASSUME NEW a \in Actors, Charge(a) PROVE Losses'
  <2>1. a \in InFlight /\ InFlight' = InFlight \ {a}
    BY <1>12, WhoActs DEF Charge, Stopped, Again, Leave, InFlight, Typed,
       Places
  <2>2. Cardinality(InFlight)' = Cardinality(InFlight) - 1
    BY <2>1, Flying, FS_RemoveElement
  <2>3. cost' >= cost /\ lost' \in {lost, lost + 1}
        /\ (lost' # lost => cost' > MaxCost)
    BY <1>12, DraftAssumption DEF Charge, Typed, Counters
  <2>4. QED
    BY <2>2, <2>3, Flying, DraftAssumption DEF Losses, Typed, Counters
<1>13. ASSUME NEW a \in Workers, Take(a) PROVE Losses'
  <2>1. InFlight' \subseteq InFlight
    BY <1>13, WhoActs DEF Take, InFlight, Typed, Places
  <2>2. lost' = lost /\ cost' = cost
    BY <1>13 DEF Take, budget, history
  <2>3. QED
    BY <2>1, <2>2, Fewer
<1>14. ASSUME NEW a \in Workers, Record(a) PROVE Losses'
  BY <1>14, Fewer, WhoActs DEF Record, Leave, InFlight, vars, disk, queue,
     budget, thread, history
<1>15. CASE UNCHANGED vars
  BY <1>15, Fewer, WhoActs DEF Losses, InFlight, vars, disk, queue, budget,
     thread, history
<1>16. QED
  BY <1>1, <1>2, <1>3, <1>4, <1>5, <1>6, <1>7, <1>8, <1>9, <1>10, <1>11, <1>12,
     <1>13, <1>14, <1>15, WhoActs, Zenon
  DEF Next, Manage, Work, Call, Write, Abort, Kill

\* For any pool: the budget costs at most one paid and parsed answer per thread.
THEOREM FewAnswersLost == Spec => []LossIsBounded
<1>1. Init => Losses
  BY DEF Init, Losses
<1>2. Typed /\ Typed' /\ Losses /\ [Next]_vars => Losses'
  BY LossesStep
<1>3. Typed /\ Losses => LossIsBounded
  BY Flying DEF Typed, Counters, Losses, LossIsBounded
<1>4. QED
  BY <1>1, <1>2, <1>3, TypesHold, PTL DEF Spec

-----------------------------------------------------------------------------
(* The process implements the abstract Extraction.                         *)

\* What the budget has refused once it refuses from then on.
Halting == raised => Exhausted

LEMMA HaltingStep == Typed /\ Halting /\ [Next]_vars => Halting'
<1> SUFFICES ASSUME Typed /\ Halting, [Next]_vars PROVE Halting'
  OBVIOUS
<1> USE DraftAssumption DEF Typed, Counters, Halting, Exhausted
<1>1. CASE StartFresh \/ StartResume
  BY <1>1 DEF StartFresh, StartResume, Begin, queue, budget
<1>2. CASE End
  BY <1>2 DEF End
<1>3. CASE Pin \/ Submit \/ Extracted \/ Draft \/ Drafted
  BY <1>3 DEF Pin, Submit, Extracted, Draft, Drafted, budget
<1>4. ASSUME NEW a \in Actors, Reserve(a) PROVE Halting'
  BY <1>4 DEF Reserve, Stopped, Leave
<1>5. ASSUME NEW a \in Actors, Answer(a) \/ ReadCost(a) PROVE Halting'
  BY <1>5 DEF Answer, ReadCost, budget
<1>6. ASSUME NEW a \in Actors, Charge(a) PROVE Halting'
  <2>1. share[a] \in Nat /\ cost' = cost + share[a] /\ calls' = calls
    BY <1>6 DEF Charge
  <2>2. cost' > MaxCost \/ raised' = raised
    BY <1>6, Zenon DEF Charge
  <2>3. (cost' > MaxCost => Exhausted') /\ (Exhausted => Exhausted')
    BY <2>1
  <2>4. QED
    BY <2>2, <2>3, Zenon DEF Halting
<1>7. ASSUME NEW a \in Workers, Take(a) \/ Record(a) PROVE Halting'
  BY <1>7 DEF Take, Record, budget
<1>8. CASE UNCHANGED vars
  BY <1>8 DEF vars, budget
<1>9. QED
  BY <1>1, <1>2, <1>3, <1>4, <1>5, <1>6, <1>7, <1>8, WhoActs, Zenon
  DEF Next, Manage, Work, Call, Write, Abort, Kill

\* Where there is no process, nothing has been raised.
Awake == raised => pc # "down"

LEMMA AwakeStep == Typed /\ Awake /\ [Next]_vars => Awake'
<1> SUFFICES ASSUME Typed, Awake, [Next]_vars PROVE Awake'
  OBVIOUS
<1>1. CASE StartFresh \/ StartResume
  BY <1>1 DEF StartFresh, StartResume, Begin, Awake
<1>2. CASE End
  BY <1>2, Zenon DEF End, Awake
<1>3. CASE Pin \/ Submit \/ Extracted \/ Draft \/ Drafted
  BY <1>3 DEF Pin, Submit, Extracted, Draft, Drafted, Awake
<1>4. ASSUME NEW a \in Actors, Call(a) PROVE Awake'
  <2>1. step[a] # "idle" /\ pc' = pc
    BY <1>4 DEF Call, Reserve, Answer, ReadCost, Charge
  <2>2. pc # "down"
    BY <2>1, WhoActs DEF Typed, Places
  <2>3. QED
    BY <2>1, <2>2 DEF Awake
<1>5. ASSUME NEW a \in Workers, Take(a) \/ Record(a) PROVE Awake'
  BY <1>5 DEF Take, Record, Awake
<1>6. CASE UNCHANGED vars
  BY <1>6 DEF vars, Awake
<1>7. QED
  BY <1>1, <1>2, <1>3, <1>4, <1>5, <1>6, WhoActs, Zenon
  DEF Next, Manage, Work, Write, Abort, Kill

\* The hands of a pool that stays at what it does hold what they held.
LEMMA HandsStay ==
  ASSUME next' = next,
         \A b \in Workers : /\ step'[b] # "idle" <=> step[b] # "idle"
                            /\ step[b] # "idle" => window'[b] = window[b]
  PROVE  InHand' = InHand /\ Left' = Left
<1>1. InHand' = InHand
  BY DEF InHand
<1>2. QED
  BY <1>1 DEF Left

\* A thread that leaves its window leaves the only hand it was in.
LEMMA HandsDrop ==
  ASSUME Typed, Exclusive, next' = next, NEW a \in Workers,
         step[a] # "idle", step'[a] = "idle",
         \A b \in Workers \ {a} : step'[b] = step[b] /\ window'[b] = window[b]
  PROVE  /\ window[a] \in InHand /\ window[a] \in Windows
         /\ InHand' = InHand \ {window[a]} /\ Left' = Left \ {window[a]}
<1>1. window[a] \in InHand
  BY DEF InHand
<1>2. InHand' = InHand \ {window[a]}
  BY DEF InHand, Exclusive
<1>3. window[a] \in Windows /\ ~ (window[a] >= next)
  BY DraftAssumption DEF Typed, Places, Windows
<1>4. Left' = Left \ {window[a]}
  <2>1. \A w \in Windows : w >= next => w # window[a]
    BY <1>3
  <2>2. QED
    BY <1>2, <2>1 DEF Left
<1>5. QED
  BY <1>1, <1>2, <1>3, <1>4

\* Whatever becomes of a call, at most the window it was made for is given up.
LEMMA Settles ==
  ASSUME Typed, Exclusive, next' = next, NEW a \in Actors, step[a] # "idle",
         \/ Leave(a)
         \/ window' = window /\ \E s \in Steps \ {"idle"} : step' = [step EXCEPT ![a] = s]
  PROVE  \E given \in {{}} \cup {{w} : w \in InHand} :
           InHand' = InHand \ given /\ Left' = Left \ given
<1>0. step \in [Actors -> Steps] /\ window \in [Actors -> 0..N]
  BY DEF Typed, Places
<1>1. CASE a \in Workers /\ Leave(a)
  <2>1. step'[a] = "idle"
        /\ \A b \in Workers \ {a} : step'[b] = step[b] /\ window'[b] = window[b]
    BY <1>0, <1>1, WhoActs DEF Leave
  <2>2. QED
    BY <1>1, <2>1, HandsDrop
<1>2. CASE ~ (a \in Workers /\ Leave(a))
  <2>1. \A b \in Workers : /\ step'[b] # "idle" <=> step[b] # "idle"
                           /\ step[b] # "idle" => window'[b] = window[b]
    <3>1. CASE Leave(a)
      BY <1>0, <1>2, <3>1, WhoActs DEF Leave
    <3>2. CASE ~ Leave(a)
      BY <1>0, <3>2, WhoActs
    <3>3. QED
      BY <3>1, <3>2
  <2>2. InHand' = InHand \ {} /\ Left' = Left \ {}
    BY <2>1, HandsStay
  <2>3. QED
    BY <2>2
<1>3. QED
  BY <1>1, <1>2

\* What the refinement rests on.
Keeping == Typed /\ Exclusive /\ Within /\ Halting /\ Awake

\* A reserved call, for a window in hand or for a draft, is within the budget.
LEMMA ReserveCalls ==
  ASSUME Keeping, NEW a \in Actors, Reserve(a), ~ Exhausted
  PROVE  X!Call
<1> USE DEF Keeping
<1>0. step \in [Actors -> Steps] /\ step[a] = "ready"
  BY DEF Typed, Places, Reserve
<1>1. /\ step' = [step EXCEPT ![a] = "calling"] /\ window' = window /\ next' = next
      /\ calls' = calls + 1 /\ cost' = cost /\ journal' = journal /\ pc' = pc
      /\ raised' = raised
  BY Zenon DEF Reserve, disk, queue
<1>2. InHand' = InHand /\ Left' = Left
  BY <1>0, <1>1, WhoActs, HandsStay
<1>3. ~ raised
  BY DEF Halting
<1>4. calls < MaxCalls /\ cost < MaxCost
  BY DraftAssumption DEF Exhausted, Typed, Counters
<1>5. (Phase = "extract" /\ InHand # {}) \/ Phase = "draft"
  <2>1. CASE a \in Workers
    BY <1>0, <2>1 DEF Typed, Places, InHand, Phase
  <2>2. CASE a = Main
    BY <1>0, <2>2 DEF Typed, Places, Phase
  <2>3. QED
    BY <2>1, <2>2, WhoActs
<1>6. Phase' = Phase
  BY <1>1 DEF Phase
<1>7. QED
  BY <1>1, <1>2, <1>3, <1>4, <1>5, <1>6, Zenon DEF X!Call

\* A call that is refused, fails or is charged settles something.
LEMMA CallSettles ==
  ASSUME Keeping, NEW a \in Actors, NEW price \in 0..Dearest,
         step[a] # "idle", next' = next, pc' = pc, journal' = journal, calls' = calls,
         \/ Leave(a)
         \/ window' = window /\ \E s \in Steps \ {"idle"} : step' = [step EXCEPT ![a] = s],
         cost' = cost + price, raised' \in {raised, TRUE}, cost' > MaxCost => raised'
  PROVE  X!Next
<1>1. PICK given \in {{}} \cup {{w} : w \in InHand} :
        InHand' = InHand \ given /\ Left' = Left \ given
  BY Settles, Zenon DEF Keeping
<1>2. Phase \in {"extract", "draft"} /\ Phase' = Phase
  BY WhoActs DEF Keeping, Typed, Places, Phase
<1>3. X!Settle(price, given)
  BY <1>1, <1>2, Zenon DEF X!Settle
<1>4. given = {} \/ \E w \in InHand : given = {w}
  OBVIOUS
<1>5. QED
  BY <1>3, <1>4, Zenon DEF X!Next

\* What a thread does for a window or a draft.
LEMMA CallStep ==
  ASSUME Keeping, NEW a \in Actors, Call(a)
  PROVE  X!Next \/ UNCHANGED X!vars
<1> USE DEF disk, queue, budget, thread, history
<1>0. /\ step \in [Actors -> Steps] /\ cost \in Nat /\ 0 \in 0..Dearest
      /\ share[a] \in 0..Dearest /\ (cost > MaxCost => raised)
      /\ cost = cost + 0
  BY DraftAssumption DEF Keeping, Typed, Places, Counters, Within
<1>1. ASSUME Reserve(a) PROVE X!Next
  <2>1. CASE Exhausted
    <3>1. /\ step[a] # "idle" /\ next' = next /\ pc' = pc /\ journal' = journal
          /\ calls' = calls /\ cost' = cost /\ raised' = TRUE /\ Leave(a)
      BY <1>1, <2>1, Zenon DEF Reserve, Stopped
    <3>2. QED
      BY <1>0, <3>1, CallSettles
  <2>2. CASE ~ Exhausted
    BY <1>1, <2>2, ReserveCalls, Zenon DEF X!Next
  <2>3. QED
    BY <2>1, <2>2
<1>2. ASSUME Answer(a) PROVE X!Next
  <2>1. /\ step[a] # "idle" /\ next' = next /\ pc' = pc /\ journal' = journal
        /\ calls' = calls /\ cost' = cost /\ raised' = raised
    BY <1>2 DEF Answer
  <2>2. \/ Leave(a)
        \/ window' = window /\ \E s \in Steps \ {"idle"} : step' = [step EXCEPT ![a] = s]
    BY <1>2 DEF Answer, Again, Steps
  <2>3. QED
    BY <1>0, <2>1, <2>2, CallSettles
<1>3. ASSUME ReadCost(a) PROVE UNCHANGED X!vars
  <2>1. /\ step[a] = "logged" /\ step' = [step EXCEPT ![a] = "read"]
        /\ UNCHANGED <<window, next, pc, journal, calls, cost, raised>>
    BY <1>3 DEF ReadCost
  <2>2. InHand' = InHand /\ Left' = Left
    BY <1>0, <2>1, WhoActs, HandsStay
  <2>3. Phase' = Phase
    BY <2>1 DEF Phase
  <2>4. QED
    BY <2>1, <2>2, <2>3 DEF X!vars
<1>4. ASSUME Charge(a) PROVE X!Next
  <2>1. /\ step[a] # "idle" /\ next' = next /\ pc' = pc /\ journal' = journal
        /\ calls' = calls /\ cost' = cost + share[a]
    BY <1>4 DEF Charge
  <2>2. \/ Leave(a)
        \/ window' = window /\ \E s \in Steps \ {"idle"} : step' = [step EXCEPT ![a] = s]
    BY <1>4 DEF Charge, Stopped, Again, Steps
  <2>3. raised' \in {raised, TRUE}
    BY <1>4, Zenon DEF Charge, Stopped
  <2>4. cost' > MaxCost => raised'
    <3>1. (cost' > MaxCost /\ Stopped(a)) \/ cost' <= MaxCost
      BY <1>4, Zenon DEF Charge
    <3>2. Stopped(a) => raised'
      BY Zenon DEF Stopped
    <3>3. cost' <= MaxCost => ~ (cost' > MaxCost)
      BY <1>0, <2>1, DraftAssumption
    <3>4. QED
      BY <3>1, <3>2, <3>3, Zenon
  <2>5. QED
    BY <1>0, <2>1, <2>2, <2>3, <2>4, CallSettles
<1>5. QED
  BY <1>1, <1>2, <1>3, <1>4, Zenon DEF Call

\* A thread of the pool takes a window that is kept, or one that nobody has.
LEMMA TakeStep ==
  ASSUME Keeping, NEW a \in Workers, Take(a)
  PROVE  X!Next
<1> USE DEF Keeping
<1>0. /\ step \in [Actors -> Steps] /\ window \in [Actors -> 0..N]
      /\ N \in Nat /\ upto \in 0..N /\ next \in 1..(upto + 1)
      /\ \A b \in Workers : step[b] # "idle" => window[b] \in 1..(next - 1)
  BY DraftAssumption DEF Typed, Places
<1>1. /\ pc = "extract" /\ pc' = pc /\ step[a] = "idle" /\ next <= upto
      /\ next' = next + 1 /\ done = journal
      /\ UNCHANGED <<journal, calls, cost, raised>>
  BY DEF Take, Exclusive, disk, budget
<1>2. next \in Windows /\ next \in Left /\ next \notin InHand
  <2>1. next \in Windows
    BY <1>0, <1>1 DEF Windows
  <2>2. \A b \in Workers : step[b] # "idle" => window[b] # next
    BY <1>0
  <2>3. QED
    BY <1>0, <2>1, <2>2 DEF Left, InHand
<1>3. {w \in Windows : w >= next'} = {w \in Windows : w >= next} \ {next}
  BY <1>0, <1>1 DEF Windows
<1>4. Phase = "extract" /\ Phase' = Phase
  BY <1>1 DEF Phase
<1>5. CASE next \in done
  <2>1. step' = step /\ window' = window
    BY <1>5 DEF Take
  <2>2. InHand' = InHand
    BY <2>1 DEF InHand
  <2>3. Left' = Left \ {next}
    BY <1>2, <1>3, <2>2 DEF Left
  <2>4. X!Reuse(next)
    BY <1>1, <1>2, <1>4, <1>5, <2>2, <2>3 DEF X!Reuse
  <2>5. QED
    BY <1>2, <2>4, Zenon DEF X!Next
<1>6. CASE next \notin done
  <2>1. step' = [step EXCEPT ![a] = "ready"] /\ window' = [window EXCEPT ![a] = next]
    BY <1>6 DEF Take
  <2>2. InHand' = InHand \cup {next}
    BY <1>0, <1>1, <2>1, WhoActs DEF InHand
  <2>3. Left' = Left
    BY <1>2, <1>3, <2>2 DEF Left
  <2>4. X!Ask(next)
    BY <1>1, <1>2, <1>4, <1>6, <2>2, <2>3 DEF X!Ask
  <2>5. QED
    BY <1>2, <2>4, Zenon DEF X!Next
<1>7. QED
  BY <1>5, <1>6

LEMMA RecordStep ==
  ASSUME Keeping, NEW a \in Workers, Record(a)
  PROVE  X!Next
<1>0. step \in [Actors -> Steps] /\ window \in [Actors -> 0..N]
  BY DEF Keeping, Typed, Places
<1>1. /\ step[a] # "idle" /\ Leave(a) /\ journal' = journal \cup {window[a]}
      /\ UNCHANGED <<pc, next, calls, cost, raised>>
  BY DEF Record, queue, budget
<1>2. step'[a] = "idle"
      /\ \A b \in Workers \ {a} : step'[b] = step[b] /\ window'[b] = window[b]
  BY <1>0, <1>1, WhoActs DEF Leave
<1>3. /\ window[a] \in InHand /\ window[a] \in Windows
      /\ InHand' = InHand \ {window[a]} /\ Left' = Left \ {window[a]}
  BY <1>1, <1>2, HandsDrop DEF Keeping
<1>4. Phase = "extract" /\ Phase' = Phase
  BY <1>1 DEF Keeping, Typed, Places, Phase
<1>5. X!Keep(window[a])
  BY <1>1, <1>3, <1>4, Zenon DEF X!Keep
<1>6. QED
  BY <1>3, <1>5, Zenon DEF X!Next

\* What the main thread does between calls, starting and ending included.
LEMMA ManageStep ==
  ASSUME Keeping,
         \/ StartFresh \/ StartResume \/ Pin \/ Submit \/ Extracted
         \/ Draft \/ Drafted \/ (pc # "down" /\ End) \/ UNCHANGED vars
  PROVE  X!Next \/ UNCHANGED X!vars
<1> USE DEF disk, queue, budget, thread, history
<1>0. /\ step \in [Actors -> Steps] /\ window \in [Actors -> 0..N]
      /\ N \in Nat /\ upto \in 0..N /\ next \in 1..(upto + 1)
  BY DraftAssumption DEF Keeping, Typed, Places
<1>1. ASSUME next' = next, window' = window,
             \A b \in Workers : step'[b] = step[b]
      PROVE  InHand' = InHand /\ Left' = Left
  BY <1>1, HandsStay
<1>2. ASSUME StartFresh \/ StartResume PROVE X!Next
  <2>1. /\ Phase = "down" /\ Phase' = "extract" /\ journal' \in {{}, journal}
        /\ UNCHANGED <<step, window, next, calls, cost, raised>>
    BY <1>2 DEF StartFresh, StartResume, Begin, Phase
  <2>2. X!Start(journal')
    BY <1>1, <2>1 DEF X!Start
  <2>3. QED
    BY <2>1, <2>2, Zenon DEF X!Next
<1>3. ASSUME Pin \/ Submit \/ UNCHANGED vars PROVE UNCHANGED X!vars
  <2>1. UNCHANGED <<step, window, next, journal, calls, cost, raised, Phase>>
    BY <1>3 DEF Pin, Submit, vars, Phase
  <2>2. QED
    BY <1>1, <2>1 DEF X!vars
<1>4. ASSUME Extracted PROVE X!Next
  <2>1. /\ pc = "extract" /\ pc' = "draft" /\ next > upto /\ upto = N /\ ~ raised
        /\ Quiet /\ UNCHANGED <<step, window, next, journal, calls, cost, raised>>
    BY <1>4 DEF Extracted
  <2>2. Left = {}
    <3>1. InHand = {}
      BY <2>1, WhoActs DEF Quiet, InHand
    <3>2. \A w \in Windows : ~ (w >= next)
      BY <1>0, <2>1 DEF Windows
    <3>3. QED
      BY <3>1, <3>2 DEF Left
  <2>3. X!Draft
    BY <1>1, <2>1, <2>2 DEF X!Draft, Phase
  <2>4. QED
    BY <2>3, Zenon DEF X!Next
<1>5. ASSUME Draft PROVE UNCHANGED X!vars
  <2>1. /\ step' = [step EXCEPT ![Main] = "ready"]
        /\ UNCHANGED <<window, next, journal, calls, cost, raised, pc>>
    BY <1>5 DEF Draft
  <2>2. \A b \in Workers : step'[b] = step[b]
    BY <1>0, <2>1, WhoActs
  <2>3. QED
    BY <1>1, <2>1, <2>2 DEF X!vars, Phase
<1>6. ASSUME Drafted PROVE X!Next
  <2>1. /\ pc = "draft" /\ pc' = "write" /\ ~ raised
        /\ UNCHANGED <<step, window, next, journal, calls, cost, raised>>
    BY <1>6 DEF Drafted
  <2>2. cost <= MaxCost
    BY <2>1, DraftAssumption DEF Keeping, Within, Typed, Counters
  <2>3. X!Complete
    BY <1>1, <2>1, <2>2 DEF X!Complete, Phase
  <2>4. QED
    BY <2>3, Zenon DEF X!Next
<1>7. ASSUME pc # "down", End PROVE X!Next
  <2>1. /\ pc' = "down" /\ next' = 1 /\ calls' = 0 /\ cost' = 0 /\ raised' = FALSE
        /\ step' = [b \in Actors |-> "idle"] /\ journal' = journal
    BY <1>7 DEF End
  <2>2. InHand' = {}
    BY <2>1, WhoActs DEF InHand
  <2>3. Left' = Windows
    <3>1. \A w \in Windows : w >= 1
      BY <1>0 DEF Windows
    <3>2. QED
      BY <2>1, <2>2, <3>1 DEF Left
  <2>4. Phase # "down" /\ Phase' = "down"
    BY <1>7, <2>1 DEF Phase
  <2>5. X!Stop
    BY <2>1, <2>2, <2>3, <2>4 DEF X!Stop
  <2>6. QED
    BY <2>5, Zenon DEF X!Next
<1>8. QED
  BY <1>2, <1>3, <1>4, <1>5, <1>6, <1>7

LEMMA ExtractionStep == Keeping /\ [Next]_vars => [X!Next]_(X!vars)
<1> SUFFICES ASSUME Keeping, [Next]_vars PROVE X!Next \/ UNCHANGED X!vars
  OBVIOUS
<1>1. raised => pc # "down"
  BY DEF Keeping, Awake
<1>2. ASSUME NEW a \in Workers, Work(a) PROVE X!Next \/ UNCHANGED X!vars
  BY <1>2, CallStep, TakeStep, RecordStep, WhoActs, Zenon DEF Work
<1>3. ASSUME Call(Main) PROVE X!Next \/ UNCHANGED X!vars
  BY <1>3, CallStep, WhoActs, Zenon
<1>4. ASSUME Write \/ Abort \/ Kill PROVE X!Next \/ UNCHANGED X!vars
  BY <1>1, <1>4, ManageStep, Zenon DEF Write, Abort, Kill
<1>5. QED
  BY <1>2, <1>3, <1>4, ManageStep, Zenon DEF Next, Manage

\* For any pool, corpus, caps and prices, and whatever processes ran before: all
\* windows are worked off before anything is drafted, no kept one is asked for
\* again and none by two threads, and after the first refusal no call is made and
\* nothing is written as complete (pipeline/run.py, extraction/run.py).
THEOREM DraftImplementsExtraction == Spec => ImplementsExtraction
<1>1. Init => Exclusive /\ Within /\ Halting /\ Awake
  BY DraftAssumption, WhoActs DEF Init, Exclusive, NeverReasked, Within, Halting, Awake
<1>2. Init => X!Init
  <2> SUFFICES ASSUME Init PROVE X!Init
    OBVIOUS
  <2>1. InHand = {}
    BY WhoActs DEF Init, InHand
  <2>2. Left = Windows
    <3>1. \A w \in Windows : w >= 1
      BY DraftAssumption DEF Windows
    <3>2. QED
      BY <2>1, <3>1 DEF Init, Left
  <2>3. QED
    BY <2>1, <2>2 DEF Init, X!Init, Phase
<1>3. QED
  BY <1>1, <1>2, TypesHold, ExclusiveStep, WithinStep, HaltingStep, AwakeStep,
     ExtractionStep, PTL DEF Spec, Keeping, ImplementsExtraction, X!Spec
=============================================================================
