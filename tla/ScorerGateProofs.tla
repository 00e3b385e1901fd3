-------------------------- MODULE ScorerGateProofs --------------------------
(***************************************************************************)
(* What holds of the verification gate for any worksheet, any caps and any *)
(* number of crashes.  The caps and the published output hold whatever a   *)
(* crash cuts; that rows keep their own scores needs scorer_ledger.jsonl   *)
(* to be appended as a whole.                                              *)
(***************************************************************************)
EXTENDS ScorerGate, FiniteSetTheorems, TLAPS

-----------------------------------------------------------------------------
(* The invariants.                                                         *)

\* No crash can lose a reservation: calls made are on disk, and so is the cost the
\* process knows, up to the one call that is in flight.
Booked ==
  /\ made <= state.calls
  /\ pc = "reserving" => calls = state.calls + 1
  /\ pc \notin {"down", "reserving"} => calls = state.calls
  /\ pc = "calling" => made < state.calls
  /\ pc \notin {"down", "recording"} => cost = state.cost
  /\ pc = "recording" => cost = state.cost + answer.cost

\* From the decision to the marker, worksheet and output follow the scores.
Emitted ==
  /\ done => pc = "down"
  /\ pc \in {"append", "judge", "emitting", "emitted"} =>
       \A i \in Items : worksheet[i] = Decision(i, scores[i])
  /\ pc \in {"emitting", "emitted"} => Enough(Accepted)
  /\ pc = "emitted" => emitted = Accepted

\* Gate and cost ledger hold the scores of the rows they name: the batch is the
\* whole worksheet until all of it is decided.
Ledgers ==
  /\ ~ ragged
  /\ \A i \in Items : gate[i] # None => gate[i].of = i
  /\ \A i \in Items : cases[i - 1] # None => cases[i - 1].of = i /\ i \notin Blank
  /\ (\A i \in Items : gate[i] = None) \/ (\A i \in Items : gate[i] # None)

\* What a process knows is what the disk determines.
InFlight == {"reserving", "calling", "answered", "recording"}
Scoring ==
  /\ pc \in InFlight \cup {"score", "append"} =>
       missing = {i \in Items : gate[i] = None}
  /\ pc \notin InFlight \cup {"down", "score"} => todo = {}
  /\ pc # "down" =>
       \A i \in Items : IF i \in todo THEN scores[i] = None
                        ELSE Fixed(i) # None /\ scores[i] = Fixed(i)
  /\ pc \in InFlight => row \in todo /\ row \notin Blank
  /\ pc \in InFlight \ {"recording"} => cases[row - 1] = None
  /\ pc \in {"answered", "recording"} => answer.score.of = row
  /\ pc = "recording" => cases[row - 1] = answer.score

Sticking == \A i \in Items : worksheet[i] # "pending" =>
              Fixed(i) # None /\ worksheet[i] = Decision(i, Fixed(i))

-----------------------------------------------------------------------------
(* Scores and positions.                                                   *)

\* A score is never the absence of one.
LEMMA ScoreProper ==
  /\ \A s \in Score : s # None /\ s.of \in Items /\ s.pass \in BOOLEAN
  /\ \A i \in Items : Zero(i) \in Score /\ Zero(i).of = i
  /\ \A i \in Items : i \in Nat /\ i >= 1 /\ i <= N /\ i - 1 \in Positions
  /\ None.of = 0 /\ None.pass \in BOOLEAN
<1>1. N \in Nat
  BY GateAssumption
<1>2. \A i \in Items : i \in Nat /\ i >= 1 /\ i <= N /\ i - 1 \in Positions
  BY <1>1 DEF Items, Positions
<1>3. \A s \in Score : s.of \in Items /\ s.pass \in BOOLEAN
  BY DEF Score
<1>4. None.of = 0 /\ None.pass \in BOOLEAN
  BY DEF None
<1>5. \A s \in Score : s # None
  BY <1>2, <1>3, <1>4
<1>6. QED
  BY <1>2, <1>3, <1>4, <1>5 DEF Score, Zero

\* A row of the batch has a position of the cost ledger; when the batch is the
\* whole worksheet, its own.
LEMMA IndexType ==
  ASSUME missing \subseteq Items, NEW i \in Items
  PROVE  Index(i) \in Positions /\ (missing = Items => Index(i) = i - 1)
<1> DEFINE Before == {j \in missing : j < i}
<1>1. N \in Nat /\ i \in 1..N
  BY GateAssumption DEF Items
<1>2. IsFiniteSet(1..(i - 1)) /\ Cardinality(1..(i - 1)) = i - 1
  <2>1. 1 \in Int /\ i - 1 \in Int
    BY <1>1
  <2>2. /\ IsFiniteSet(1..(i - 1))
        /\ Cardinality(1..(i - 1)) = IF 1 > i - 1 THEN 0 ELSE (i - 1) - 1 + 1
    BY <2>1, FS_Interval, Zenon
  <2>3. QED
    BY <1>1, <2>2
<1>3. Before \in SUBSET (1..(i - 1))
  <2>1. \A j \in missing : j \in Nat /\ j >= 1
    BY <1>1 DEF Items
  <2>2. \A j \in Before : j \in 1..(i - 1)
    BY <2>1, <1>1
  <2>3. QED
    BY <2>2, Zenon
<1>4. IsFiniteSet(Before) /\ Cardinality(Before) <= Cardinality(1..(i - 1))
  BY <1>2, <1>3, FS_Subset, Zenon
<1>5. Cardinality(Before) \in Nat
  BY <1>4, FS_CardinalityType
<1>6. Index(i) = Cardinality(Before)
  BY DEF Index
<1>7. Index(i) \in Positions
  BY <1>1, <1>2, <1>4, <1>5, <1>6 DEF Positions
<1>8. missing = Items => Before = 1..(i - 1)
  BY <1>1 DEF Items
<1>9. QED
  BY <1>2, <1>6, <1>7, <1>8

\* What is recorded at the position of a row is a score or nothing.
LEMMA RecordedType ==
  ASSUME TypeOK, NEW i \in Items
  PROVE  RecordedCase(Index(i)) \in Score \cup {None}
  BY IndexType DEF TypeOK, RecordedCase

-----------------------------------------------------------------------------
(* Types and caps hold under every fault.                                  *)

LEMMA InitTyped == Init => TypeOK /\ Booked
<1> SUFFICES ASSUME Init PROVE TypeOK /\ Booked
  OBVIOUS
<1>1. 1 \in Items /\ Zero(1) \in Score /\ N \in Nat
  BY ScoreProper, GateAssumption DEF Items
<1>2. 0 \in 0..MaxCalls /\ 0 \in 0..Dearest
  BY GateAssumption
<1>3. TypeOK
  BY <1>1, <1>2 DEF Init, TypeOK, NoScores, Steps
<1>4. Booked
  BY <1>2 DEF Init, Booked
<1>5. QED
  BY <1>3, <1>4

LEMMA StepTyped == TypeOK /\ Booked /\ [Next]_vars => TypeOK' /\ Booked'
<1> SUFFICES ASSUME TypeOK, Booked, [Next]_vars PROVE TypeOK' /\ Booked'
  OBVIOUS
<1> USE DEF ledger, decided, output, batch, spending, history
<1>0. /\ MaxCalls \in Nat /\ MaxCost \in Nat /\ Dearest \in Nat
      /\ state.calls \in 0..MaxCalls /\ state.cost \in Nat
      /\ state.whole \in BOOLEAN /\ calls \in 0..MaxCalls /\ cost \in Nat
      /\ answer.score \in Score /\ answer.cost \in 0..Dearest
      /\ made \in Nat /\ paid \in Nat /\ row \in Items
  BY GateAssumption DEF TypeOK
<1>1. CASE Start
  <2>1. TypeOK'
    BY <1>1, <1>0 DEF TypeOK, Start, End, Steps
  <2>2. Booked'
    BY <1>1, <1>0 DEF Booked, Start, End
  <2>3. QED
    BY <2>1, <2>2
<1>2. ASSUME NEW i \in Items, Replay(i) PROVE TypeOK' /\ Booked'
  <2>1. TypeOK'
    BY <1>2, <1>0, RecordedType DEF TypeOK, Replay, Scored, Steps, UpNext
  <2>2. Booked'
    BY <1>2, <1>0 DEF Booked, Replay, Scored, UpNext
  <2>3. QED
    BY <2>1, <2>2
<1>3. ASSUME NEW i \in Items, ScoreBlank(i) PROVE TypeOK' /\ Booked'
  <2>1. TypeOK'
    BY <1>3, <1>0, ScoreProper DEF TypeOK, ScoreBlank, Scored, Steps, UpNext
  <2>2. Booked'
    BY <1>3, <1>0 DEF Booked, ScoreBlank, Scored, UpNext
  <2>3. QED
    BY <2>1, <2>2
<1>4. ASSUME NEW i \in Items, Reserve(i) PROVE TypeOK' /\ Booked'
  <2>1. TypeOK'
    BY <1>4, <1>0 DEF TypeOK, Reserve, Exhausted, End, Steps, UpNext
  <2>2. Booked'
    BY <1>4, <1>0 DEF Booked, Reserve, Exhausted, End, UpNext
  <2>3. QED
    BY <2>1, <2>2
<1>5. CASE Reserved
  <2>1. TypeOK'
    BY <1>5, <1>0 DEF TypeOK, Reserved, Counted, Steps
  <2>2. Booked'
    BY <1>5, <1>0 DEF Booked, Reserved, Counted
  <2>3. QED
    BY <2>1, <2>2
<1>6. ASSUME NEW pass \in BOOLEAN, NEW price \in 0..Dearest, Call(pass, price)
      PROVE  TypeOK' /\ Booked'
  <2>1. [of |-> row, pass |-> pass] \in Score
    BY <1>0 DEF Score
  <2>2. TypeOK'
    BY <1>6, <1>0, <2>1 DEF TypeOK, Call, Steps
  <2>3. Booked'
    BY <1>6, <1>0 DEF Booked, Call
  <2>4. QED
    BY <2>2, <2>3
<1>7. CASE Record
  <2>1. TypeOK'
    <3>1. cases' \in [Positions -> Score \cup {None}]
      BY <1>7, <1>0 DEF TypeOK, Record, Attempted
    <3>2. cost' \in Nat
      BY <1>7, <1>0 DEF Record
    <3>3. QED
      BY <1>7, <3>1, <3>2 DEF TypeOK, Record, Steps
  <2>2. Booked'
    BY <1>7, <1>0 DEF Booked, Record
  <2>3. QED
    BY <2>1, <2>2
<1>8. CASE Recorded
  <2>1. TypeOK'
    BY <1>8, <1>0 DEF TypeOK, Recorded, Scored, End, Steps
  <2>2. Booked'
    BY <1>8, <1>0 DEF Booked, Recorded, Scored, End
  <2>3. QED
    BY <2>1, <2>2
<1>9. CASE Decide
  <2>1. TypeOK'
    BY <1>9, <1>0 DEF TypeOK, Decide, Decision, Steps
  <2>2. Booked'
    BY <1>9, <1>0 DEF Booked, Decide
  <2>3. QED
    BY <2>1, <2>2
<1>10. CASE Append
  <2>1. TypeOK'
    BY <1>10, <1>0 DEF TypeOK, Append, Appended, Steps
  <2>2. Booked'
    BY <1>10, <1>0 DEF Booked, Append
  <2>3. QED
    BY <2>1, <2>2
<1>11. CASE Judge
  <2>1. TypeOK'
    BY <1>11, <1>0 DEF TypeOK, Judge, End, Steps
  <2>2. Booked'
    BY <1>11, <1>0 DEF Booked, Judge, End
  <2>3. QED
    BY <2>1, <2>2
<1>12. CASE Emit
  <2>1. TypeOK'
    BY <1>12, <1>0 DEF TypeOK, Emit, Output, Accepted, Steps
  <2>2. Booked'
    BY <1>12, <1>0 DEF Booked, Emit
  <2>3. QED
    BY <2>1, <2>2
<1>13. CASE Publish
  <2>1. TypeOK'
    BY <1>13, <1>0 DEF TypeOK, Publish, End, Steps
  <2>2. Booked'
    BY <1>13, <1>0 DEF Booked, Publish, End
  <2>3. QED
    BY <2>1, <2>2
<1>14. CASE Crash
  <2>1. /\ state'.calls = state.calls /\ state'.cost = state.cost
        /\ state' \in [calls : 0..MaxCalls, cost : Nat, whole : BOOLEAN]
    BY <1>14, <1>0 DEF Crash, CrashedState, TypeOK
  <2>2. emitted' \subseteq Items
    BY <1>14 DEF Crash, CrashedEmitted, Accepted, TypeOK
  <2>3. gate' \in [Items -> Score \cup {None}] /\ ragged' \in BOOLEAN
    BY <1>14 DEF Crash, CrashedDecided, Appended, TypeOK
  <2>4. crashes' \in Nat
    BY <1>14 DEF Crash, TypeOK
  <2>5. TypeOK'
    BY <1>14, <2>1, <2>2, <2>3, <2>4 DEF TypeOK, Crash, End, Steps
  <2>6. Booked'
    BY <1>14, <1>0, <2>1 DEF Booked, Crash, End
  <2>7. QED
    BY <2>5, <2>6
<1>15. CASE UNCHANGED vars
  BY <1>15 DEF vars, TypeOK, Booked
<1>16. QED
  BY <1>1, <1>2, <1>3, <1>4, <1>5, <1>6, <1>7, <1>8, <1>9, <1>10, <1>11, <1>12,
     <1>13, <1>14, <1>15 DEF Next

LEMMA AlwaysTyped == Spec => [](TypeOK /\ Booked)
  BY InitTyped, StepTyped, PTL DEF Spec

\* Every variable keeps its type, for any worksheet, caps and crashes.
THEOREM TypeCorrect == Spec => []TypeOK
  BY AlwaysTyped, PTL

\* No sequence of crashes, aborts and resumes calls the provider more often
\* than was consented to (ledger.py, reserve_call).
THEOREM CallsCapped == Spec => []CallsAreCapped
<1>1. TypeOK /\ Booked => CallsAreCapped
  BY GateAssumption DEF TypeOK, Booked, CallsAreCapped
<1>2. QED
  BY AlwaysTyped, <1>1, PTL

-----------------------------------------------------------------------------
(* What is spent, under every fault.                                       *)

\* Money was left when the call in flight was reserved, and the disk remembers.
Funded == pc \in InFlight => state.cost < MaxCost

LEMMA FundedStep == TypeOK /\ Booked /\ Funded /\ [Next]_vars => Funded'
<1> SUFFICES ASSUME TypeOK, Booked, Funded, [Next]_vars PROVE Funded'
  OBVIOUS
<1> USE DEF ledger, decided, output, batch, spending, history
<1>0. /\ MaxCost \in Nat /\ state.cost \in Nat /\ cost \in Nat
      /\ state \in [calls : 0..MaxCalls, cost : Nat, whole : BOOLEAN]
  BY GateAssumption DEF TypeOK
<1>1. ASSUME NEW i \in Items, Reserve(i) PROVE Funded'
  BY <1>0, <1>1 DEF Reserve, UpNext, Exhausted, End, Booked, Funded, InFlight
<1>2. CASE Reserved
  BY <1>0, <1>2 DEF Reserved, Booked, Funded, InFlight
<1>3. ASSUME NEW pass \in BOOLEAN, NEW price \in 0..Dearest, Call(pass, price)
      PROVE  Funded'
  BY <1>3 DEF Call, Funded, InFlight
<1>4. CASE Record
  BY <1>4 DEF Record, Funded, InFlight
<1>5. pc' \notin InFlight => Funded'
  BY DEF Funded
<1>6. CASE Start \/ \E i \in Items : Replay(i) \/ ScoreBlank(i)
  BY <1>5, <1>6 DEF Start, Replay, ScoreBlank, Scored, End, InFlight
<1>7. CASE Recorded \/ Decide \/ Append \/ Judge \/ Emit \/ Publish \/ Crash
  BY <1>5, <1>7 DEF Recorded, Scored, Decide, Append, Judge, Emit, Publish, Crash,
     End, InFlight
<1>8. CASE UNCHANGED vars
  BY <1>8 DEF vars, Funded, InFlight
<1>9. QED
  BY <1>1, <1>2, <1>3, <1>4, <1>6, <1>7, <1>8 DEF Next

\* What is on record stays within the cap and one call, and what is missing from
\* it is the answer in flight and one for each crash.
InHand == IF pc \in {"answered", "recording"} THEN answer.cost ELSE 0
Accounted ==
  /\ state.cost < MaxCost + Dearest
  /\ paid <= state.cost + InHand + Dearest * crashes

LEMMA AccountedStep ==
  TypeOK /\ Booked /\ Funded /\ Accounted /\ [Next]_vars => Accounted'
<1> SUFFICES ASSUME TypeOK, Booked, Funded, Accounted, [Next]_vars PROVE Accounted'
  OBVIOUS
<1> USE DEF ledger, decided, output, batch, spending, history
<1> DEFINE lost == Dearest * crashes
<1>0. /\ MaxCost \in Nat /\ Dearest \in Nat /\ state.cost \in Nat /\ cost \in Nat
      /\ answer.cost \in 0..Dearest /\ paid \in Nat /\ crashes \in Nat
  BY GateAssumption DEF TypeOK
<1>a. lost \in Nat /\ (crashes' = crashes => lost' = lost)
  BY <1>0
<1>b. /\ state.cost < MaxCost + Dearest
      /\ paid <= state.cost + InHand + lost /\ InHand \in 0..Dearest
  BY <1>0 DEF Accounted, InHand
<1> HIDE DEF lost
<1>1. ASSUME NEW pass \in BOOLEAN, NEW price \in 0..Dearest, Call(pass, price)
      PROVE  Accounted'
  <2>1. /\ state' = state /\ paid' = paid + price /\ lost' = lost
        /\ InHand = 0 /\ InHand' = price
    BY <1>1, <1>a DEF Call, InHand
  <2>2. QED
    BY <1>0, <1>a, <1>b, <2>1 DEF Accounted, lost
<1>2. CASE Record
  <2>1. state' = state /\ paid' = paid /\ lost' = lost /\ InHand' = InHand
    BY <1>2, <1>a DEF Record, InHand
  <2>2. QED
    BY <1>0, <1>a, <1>b, <2>1 DEF Accounted, lost
<1>3. CASE Recorded
  <2>1. /\ state'.cost = state.cost + answer.cost /\ paid' = paid /\ lost' = lost
        /\ InHand = answer.cost /\ InHand' = 0 /\ state.cost < MaxCost
    BY <1>0, <1>3, <1>a DEF Recorded, Scored, End, InHand, Booked, Funded, InFlight
  <2>2. QED
    BY <1>0, <1>a, <1>b, <2>1 DEF Accounted, lost
<1>4. CASE Crash
  <2>1. /\ state'.cost = state.cost /\ paid' = paid /\ crashes' = crashes + 1
        /\ InHand' = 0
    BY <1>0, <1>4 DEF Crash, CrashedState, End, InHand, TypeOK
  <2>2. lost' = lost + Dearest
    <3>1. Dearest * (crashes + 1) = Dearest * crashes + Dearest
      BY <1>0
    <3>2. QED
      BY <2>1, <3>1 DEF lost
  <2>3. QED
    BY <1>0, <1>a, <1>b, <2>1, <2>2 DEF Accounted, lost
<1>5. CASE Reserved
  <2>1. state'.cost = state.cost /\ paid' = paid /\ lost' = lost /\ InHand' = InHand
    BY <1>5, <1>a DEF Reserved, InHand, Booked
  <2>2. QED
    BY <1>0, <1>a, <1>b, <2>1 DEF Accounted, lost
<1>6. CASE \/ Start \/ \E i \in Items : Replay(i) \/ ScoreBlank(i) \/ Reserve(i)
           \/ Decide \/ Append \/ Judge \/ Emit \/ Publish
  <2>1. state' = state /\ paid' = paid /\ lost' = lost /\ InHand' = 0 /\ InHand = 0
    BY <1>6, <1>a DEF Start, Replay, ScoreBlank, Reserve, UpNext, Scored, End, Decide,
       Append, Judge, Emit, Publish, InHand
  <2>2. QED
    BY <1>0, <1>a, <1>b, <2>1 DEF Accounted, lost
<1>7. CASE UNCHANGED vars
  <2>1. state' = state /\ paid' = paid /\ lost' = lost /\ InHand' = InHand
    BY <1>7, <1>a DEF vars, InHand
  <2>2. QED
    BY <1>0, <1>a, <1>b, <2>1 DEF Accounted, lost
<1>8. QED
  BY <1>1, <1>2, <1>3, <1>4, <1>5, <1>6, <1>7 DEF Next

\* What all processes together spend exceeds the consented sum by less than one
\* call and one more for each crash, for any caps and under every fault
\* (ledger.py, record, _load_resume_state).
THEOREM SpendCapped == Spec => []SpendIsCapped
<1>1. Init => Funded /\ Accounted
  BY GateAssumption DEF Init, Funded, Accounted, InHand, InFlight
<1>2. TypeOK /\ Booked /\ Funded /\ Accounted => SpendIsCapped
  <2> SUFFICES ASSUME TypeOK, Booked, Funded, Accounted PROVE SpendIsCapped
    OBVIOUS
  <2> DEFINE lost == Dearest * crashes
  <2>1. /\ MaxCost \in Nat /\ Dearest \in Nat /\ state.cost \in Nat /\ paid \in Nat
        /\ answer.cost \in 0..Dearest /\ crashes \in Nat /\ lost \in Nat
    BY GateAssumption DEF TypeOK
  <2>2. Dearest * (1 + crashes) = Dearest + lost
    BY <2>1
  <2>3. paid <= state.cost + InHand + lost
    BY DEF Accounted
  <2> HIDE DEF lost
  <2>4. state.cost + InHand < MaxCost + Dearest
    BY <2>1 DEF Accounted, Funded, InHand, InFlight
  <2>5. QED
    BY <2>1, <2>2, <2>3, <2>4 DEF SpendIsCapped, InHand
<1>3. QED
  BY <1>1, <1>2, AlwaysTyped, FundedStep, AccountedStep, PTL DEF Spec

-----------------------------------------------------------------------------
(* The output of the stage.                                                *)

\* What the worksheet accepts is what the decisions accept.
LEMMA WorksheetAccepts ==
  ASSUME \A i \in Items : worksheet[i] = Decision(i, scores[i])
  PROVE  {i \in Items : worksheet[i] = "accept"} = Accepted
<1>1. \A i \in Items : worksheet[i] = "accept" <=> Passes(i, scores[i])
  BY DEF Decision
<1>2. QED
  BY <1>1, Zenon DEF Accepted

Publication == Emitted /\ PublishedIsAccepted

LEMMA StepEmitted ==
  Publication /\ [Next]_vars => Publication'
<1> SUFFICES ASSUME Publication, [Next]_vars PROVE Emitted' /\ PublishedIsAccepted'
  BY DEF Publication
<1> USE DEF ledger, decided, output, batch, spending, history
<1>0. Emitted /\ PublishedIsAccepted
  BY DEF Publication
<1>a. ASSUME scores' = scores PROVE Accepted' = Accepted
  BY <1>a DEF Accepted, Passes
<1>b. ASSUME worksheet' = worksheet, emitted' = emitted, done' = done
      PROVE  PublishedIsAccepted'
  BY <1>b, <1>0 DEF PublishedIsAccepted
<1>1. ASSUME \/ Start \/ \E i \in Items : Replay(i) \/ ScoreBlank(i) \/ Reserve(i)
             \/ Reserved \/ \E pass \in BOOLEAN, price \in 0..Dearest : Call(pass, price)
             \/ Record \/ Recorded
      PROVE  Emitted' /\ PublishedIsAccepted'
  <2>1. /\ worksheet' = worksheet /\ emitted' = emitted /\ done' = done
        /\ ~ done
        /\ pc' \notin {"append", "judge", "emitting", "emitted"}
    BY <1>1, <1>0 DEF Emitted, Start, Replay, ScoreBlank, Reserve, Reserved, Call,
       Record, Recorded, Scored, UpNext, End
  <2>2. QED
    BY <2>1, <1>b DEF Emitted
<1>2. CASE Decide
  <2>1. \A i \in Items : worksheet'[i] = Decision(i, scores[i])
    BY <1>2 DEF Decide
  <2>2. /\ scores' = scores /\ pc' = "append" /\ ~ done' /\ done' = done
    BY <1>2, <1>0 DEF Decide, Emitted
  <2>3. \A i \in Items : worksheet'[i] = Decision(i, scores'[i])
    BY <2>1, <2>2
  <2>4. QED
    BY <2>2, <2>3 DEF Emitted, PublishedIsAccepted, Decision, Passes
<1>3. CASE Append \/ Judge \/ Emit
  <2>1. /\ scores' = scores /\ worksheet' = worksheet /\ done' = done /\ ~ done
        /\ \A i \in Items : worksheet[i] = Decision(i, scores[i])
    BY <1>3, <1>0 DEF Append, Judge, Emit, Emitted
  <2>2. Accepted' = Accepted
    BY <2>1, <1>a
  <2>3. pc' \in {"emitting", "emitted"} => Enough(Accepted)
    BY <1>3, <1>0 DEF Append, Judge, Emit, Emitted, End
  <2>4. pc' = "emitted" => emitted' = Accepted
    BY <1>3, <1>0 DEF Append, Judge, Emit, Emitted, End, Output
  <2>5. Enough(Accepted)' <=> Enough(Accepted)
    BY <2>2 DEF Enough
  <2>6. \A i \in Items : worksheet'[i] = Decision(i, scores'[i])
    BY <2>1
  <2>7. Emitted'
    BY <2>1, <2>2, <2>3, <2>4, <2>5, <2>6 DEF Emitted, Decision, Passes
  <2>8. PublishedIsAccepted'
    BY <2>1 DEF PublishedIsAccepted
  <2>9. QED
    BY <2>7, <2>8
<1>4. CASE Publish
  <2>1. /\ emitted = Accepted /\ Enough(Accepted)
        /\ \A i \in Items : worksheet[i] = Decision(i, scores[i])
    BY <1>4, <1>0 DEF Publish, Emitted
  <2>2. {i \in Items : worksheet[i] = "accept"} = Accepted
    BY <2>1, WorksheetAccepts
  <2>3. pc' = "down" /\ worksheet' = worksheet /\ emitted' = emitted
    BY <1>4 DEF Publish, End
  <2>4. QED
    BY <2>1, <2>2, <2>3 DEF Emitted, PublishedIsAccepted, Enough
<1>5. CASE Crash
  <2>1. pc' = "down" /\ ~ done /\ done' = done
    BY <1>5, <1>0 DEF Crash, Emitted, End
  <2>2. QED
    BY <2>1 DEF Emitted, PublishedIsAccepted
<1>6. CASE UNCHANGED vars
  <2>1. /\ worksheet' = worksheet /\ emitted' = emitted /\ done' = done
        /\ scores' = scores /\ pc' = pc
    BY <1>6 DEF vars
  <2>2. Accepted' = Accepted
    BY <2>1, <1>a
  <2>3. Enough(Accepted)' <=> Enough(Accepted)
    BY <2>2 DEF Enough
  <2>4. QED
    BY <2>1, <2>2, <2>3, <1>0, <1>b DEF Emitted, Decision, Passes
<1>7. QED
  BY <1>1, <1>2, <1>3, <1>4, <1>5, <1>6 DEF Next

\* When the stage is published its output is what the worksheet accepts, whole
\* and with rows of both splits, whatever any crash cut
\* (verification_auto.py, run_autonomous_gate).
THEOREM PublicationIsAccepted == Spec => []PublishedIsAccepted
<1>1. Init => Publication
  BY DEF Init, Publication, Emitted, PublishedIsAccepted
<1>2. Publication => PublishedIsAccepted
  BY DEF Publication
<1>3. QED
  BY <1>1, <1>2, StepEmitted, PTL DEF Spec

-----------------------------------------------------------------------------
(* Rows keep their scores when scorer_ledger.jsonl is appended as a whole. *)

Whole == "partial" \notin Faults

LEMMA InitAligned == Init => Ledgers /\ Scoring /\ Sticking
<1> SUFFICES ASSUME Init PROVE Ledgers /\ Scoring /\ Sticking
  OBVIOUS
<1>1. \A i \in Items : gate[i] = None /\ cases[i - 1] = None
  BY ScoreProper DEF Init, NoScores
<1>2. pc = "down" /\ ~ ragged /\ \A i \in Items : worksheet[i] = "pending"
  BY DEF Init
<1>3. QED
  BY <1>1, <1>2 DEF Ledgers, Scoring, Sticking, InFlight

\* A process in its batch has a whole batch, and the row in flight its own
\* position.
LEMMA OwnPosition ==
  ASSUME TypeOK, Ledgers, Scoring, NEW i \in Items, i \in todo,
         pc \in InFlight \cup {"score"}
  PROVE  missing = Items /\ gate[i] = None /\ Index(i) = i - 1
<1>1. missing = {j \in Items : gate[j] = None}
  BY DEF Scoring
<1>2. i \in missing
  BY DEF TypeOK
<1>3. \A j \in Items : gate[j] = None
  BY <1>1, <1>2 DEF Ledgers
<1>4. missing = Items
  BY <1>1, <1>3
<1>5. QED
  BY <1>3, <1>4, IndexType

Aligned == TypeOK /\ Booked /\ Ledgers /\ Scoring /\ Sticking

\* A step that leaves the disk alone leaves what it determines.
LEMMA FixedStable ==
  ASSUME gate' = gate, cases' = cases
  PROVE  \A i : Fixed(i)' = Fixed(i)
  BY DEF Fixed, Zero, None

\* Nor can it disturb what is recorded, answered or decided.
LEMMA DiskStable ==
  ASSUME Aligned, gate' = gate, cases' = cases, ragged' = ragged,
         worksheet' = worksheet
  PROVE  Ledgers' /\ Sticking'
<1>1. Ledgers'
  BY DEF Aligned, Ledgers, None
<1>2. Sticking'
  BY FixedStable DEF Aligned, Sticking, Decision, Passes
<1>3. QED
  BY <1>1, <1>2

LEMMA ScoresAligned ==
  ASSUME Aligned, Whole,
         \/ Start
         \/ \E i \in Items : Replay(i) \/ ScoreBlank(i) \/ Reserve(i)
         \/ Reserved
  PROVE  Ledgers' /\ Scoring' /\ Sticking'
<1> USE DEF ledger, decided, output, batch, spending, history
<1>0. TypeOK /\ Ledgers /\ Scoring /\ Sticking
  BY DEF Aligned
<1>1. gate' = gate /\ cases' = cases /\ ragged' = ragged /\ worksheet' = worksheet
  BY DEF Start, Replay, ScoreBlank, Reserve, Reserved, UpNext
<1>2. Ledgers' /\ Sticking'
  BY <1>1, DiskStable
<1>3. \A i : Fixed(i)' = Fixed(i)
  BY <1>1, FixedStable
<1>4. CASE Start
  <2>1. CASE pc' = "down"
    BY <1>2, <2>1 DEF Scoring, InFlight
  <2>2. CASE pc' # "down"
    <3>1. /\ pc' = "score" /\ scores' = gate
          /\ missing' = {i \in Items : gate[i] = None} /\ todo' = missing'
      BY <1>4, <2>2 DEF Start, End
    <3>2. \A i \in Items : IF i \in todo' THEN scores'[i] = None
                           ELSE Fixed(i) # None /\ scores'[i] = Fixed(i)
      BY <3>1 DEF Fixed
    <3>3. QED
      BY <3>1, <3>2, <1>1, <1>2, <1>3 DEF Scoring, InFlight, None
  <2>3. QED
    BY <2>1, <2>2
<1>5. ASSUME NEW i \in Items, Replay(i) \/ ScoreBlank(i) PROVE Scoring'
  <2>1. pc = "score" /\ i \in todo /\ pc' = "score"
    BY <1>5 DEF Replay, ScoreBlank, Scored, UpNext
  <2>2. missing = Items /\ gate[i] = None /\ Index(i) = i - 1
    BY <1>0, <2>1, OwnPosition
  <2>3. PICK s : /\ s = Fixed(i) /\ s # None
                 /\ scores' = [scores EXCEPT ![i] = s]
    <3>1. CASE Replay(i)
      BY <3>1, <2>2 DEF Replay, Scored, RecordedCase, Fixed
    <3>2. CASE ScoreBlank(i)
      BY <3>2, <2>2, ScoreProper DEF ScoreBlank, Scored, RecordedCase, Fixed
    <3>3. QED
      BY <1>5, <3>1, <3>2
  <2>4. todo' = todo \ {i} /\ missing' = missing
    BY <1>5 DEF Replay, ScoreBlank, Scored
  <2>5. \A j \in Items : IF j \in todo' THEN scores'[j] = None
                         ELSE Fixed(j) # None /\ scores'[j] = Fixed(j)
    BY <1>0, <2>1, <2>3, <2>4 DEF Scoring, TypeOK
  <2>6. missing' = {j \in Items : gate[j] = None}
    BY <1>0, <2>1, <2>4 DEF Scoring
  <2>7. QED
    BY <2>1, <2>5, <2>6, <1>1, <1>3 DEF Scoring, InFlight, None
<1>6. ASSUME NEW i \in Items, Reserve(i) PROVE Scoring'
  <2>1. CASE pc' = "down"
    BY <2>1 DEF Scoring, InFlight
  <2>2. CASE pc' # "down"
    <3>1. /\ pc = "score" /\ i \in todo /\ i \notin Blank
          /\ RecordedCase(Index(i)) = None
          /\ pc' = "reserving" /\ row' = i
          /\ scores' = scores /\ todo' = todo /\ missing' = missing
      BY <1>6, <2>2 DEF Reserve, UpNext, End
    <3>2. cases[i - 1] = None
      BY <1>0, <3>1, OwnPosition DEF RecordedCase
    <3>3. QED
      BY <3>1, <3>2, <1>0, <1>1, <1>3 DEF Scoring, InFlight, None
  <2>3. QED
    BY <2>1, <2>2
<1>7. CASE Reserved
  <2>1. /\ pc = "reserving" /\ pc' = "calling" /\ row' = row
        /\ scores' = scores /\ todo' = todo /\ missing' = missing
    BY <1>7 DEF Reserved
  <2>2. QED
    BY <2>1, <1>0, <1>1, <1>2, <1>3 DEF Scoring, InFlight, None
<1>8. QED
  BY <1>2, <1>4, <1>5, <1>6, <1>7

LEMMA CallsAligned ==
  ASSUME Aligned, Whole,
         \/ \E pass \in BOOLEAN, price \in 0..Dearest : Call(pass, price)
         \/ Record \/ Recorded
  PROVE  Ledgers' /\ Scoring' /\ Sticking'
<1> USE DEF ledger, decided, output, batch, spending, history
<1>0. TypeOK /\ Ledgers /\ Scoring /\ Sticking
  BY DEF Aligned
<1>a. /\ pc \in InFlight /\ row \in todo /\ row \in Items /\ row \notin Blank
      /\ gate' = gate /\ ragged' = ragged /\ worksheet' = worksheet
  BY <1>0 DEF Call, Record, Recorded, Scoring, InFlight, TypeOK
<1>b. missing = Items /\ gate[row] = None /\ Index(row) = row - 1
  BY <1>0, <1>a, OwnPosition
<1>1. ASSUME NEW pass \in BOOLEAN, NEW price \in 0..Dearest, Call(pass, price)
      PROVE  Ledgers' /\ Scoring' /\ Sticking'
  <2>1. /\ pc = "calling" /\ pc' = "answered" /\ row' = row /\ cases' = cases
        /\ scores' = scores /\ todo' = todo /\ missing' = missing
        /\ answer'.score.of = row
    BY <1>1 DEF Call
  <2>2. Ledgers' /\ Sticking'
    BY <1>a, <2>1, DiskStable
  <2>3. cases[row - 1] = None
    BY <1>0, <2>1 DEF Scoring, InFlight
  <2>4. \A i : Fixed(i)' = Fixed(i)
    BY <1>a, <2>1, FixedStable
  <2>5. Scoring'
    BY <1>0, <1>a, <2>1, <2>3, <2>4 DEF Scoring, InFlight, None
  <2>6. QED
    BY <2>2, <2>5
<1>2. CASE Record
  <2>1. /\ pc = "answered" /\ pc' = "recording" /\ row' = row
        /\ scores' = scores /\ todo' = todo /\ missing' = missing
        /\ answer' = answer
        /\ cases' = [cases EXCEPT ![row - 1] = answer.score]
    BY <1>2, <1>b DEF Record, Attempted
  <2>2. answer.score \in Score /\ answer.score # None /\ answer.score.of = row
        /\ cases[row - 1] = None
    BY <1>0, <2>1, ScoreProper DEF TypeOK, Scoring, InFlight
  <2>3. /\ cases'[row - 1] = answer.score
        /\ \A i \in Items : i # row => cases'[i - 1] = cases[i - 1]
    <3>1. cases \in [Positions -> Score \cup {None}]
      BY <1>0 DEF TypeOK
    <3>2. \A i \in Items : i - 1 \in Positions /\ (i # row => i - 1 # row - 1)
      BY <1>a, ScoreProper
    <3>3. QED
      BY <2>1, <3>1, <3>2, <1>a
  <2>4. Ledgers'
    BY <1>0, <1>a, <2>2, <2>3 DEF Ledgers, None
  <2>5. \A i \in Items : i # row => Fixed(i)' = Fixed(i)
    BY <1>a, <2>3 DEF Fixed, Zero, None
  <2>6. Fixed(row) = None
    BY <1>a, <1>b, <2>2 DEF Fixed
  <2>7. Sticking'
    BY <1>0, <1>a, <2>5, <2>6 DEF Sticking, Decision, Passes, None
  <2>8. missing' = {i \in Items : gate'[i] = None}
    BY <1>0, <1>a, <2>1 DEF Scoring
  <2>9. \A i \in Items : IF i \in todo THEN scores[i] = None
                         ELSE Fixed(i) # None /\ scores[i] = Fixed(i)
    BY <1>0, <1>a, <2>1 DEF Scoring
  <2>10. Scoring'
    BY <1>a, <2>1, <2>2, <2>3, <2>5, <2>8, <2>9 DEF Scoring, InFlight, None
  <2>11. QED
    BY <2>4, <2>7, <2>10
<1>3. CASE Recorded
  <2>1. pc = "recording" /\ cases' = cases
    BY <1>3 DEF Recorded
  <2>2. Ledgers' /\ Sticking'
    BY <1>a, <2>1, DiskStable
  <2>3. CASE pc' = "down"
    BY <2>3, <2>2 DEF Scoring, InFlight
  <2>4. CASE pc' # "down"
    <3>1. /\ pc' = "score" /\ scores' = [scores EXCEPT ![row] = answer.score]
          /\ todo' = todo \ {row} /\ missing' = missing
      BY <1>3, <2>4 DEF Recorded, Scored, End
    <3>2. answer.score = Fixed(row) /\ answer.score # None
      BY <1>0, <1>b, <2>1, ScoreProper DEF Scoring, Fixed, TypeOK
    <3>3. \A i \in Items : IF i \in todo' THEN scores'[i] = None
                           ELSE Fixed(i) # None /\ scores'[i] = Fixed(i)
      BY <1>0, <1>a, <2>1, <3>1, <3>2 DEF Scoring, TypeOK
    <3>4. \A i : Fixed(i)' = Fixed(i)
      BY <1>a, <2>1, FixedStable
    <3>5. missing' = {i \in Items : gate'[i] = None}
      BY <1>0, <1>a, <3>1 DEF Scoring
    <3>6. QED
      BY <2>2, <3>1, <3>3, <3>4, <3>5 DEF Scoring, InFlight, None
  <2>5. QED
    BY <2>3, <2>4
<1>4. QED
  BY <1>1, <1>2, <1>3

\* The append puts into the gate's ledger what the cost ledger determined.
LEMMA AppendKeeps ==
  ASSUME Aligned, Append
  PROVE  \A i \in Items : gate'[i] = Fixed(i) /\ Fixed(i)' = Fixed(i)
<1> USE DEF ledger, decided, output, batch, spending, history
<1>1. /\ cases' = cases /\ gate' = Appended(missing) /\ ~ ragged
      /\ missing = {i \in Items : gate[i] = None} /\ todo = {}
      /\ pc = "append"
  BY DEF Aligned, Append, Fresh, Ledgers, Scoring, InFlight
<1>2. \A i \in Items : Fixed(i) # None /\ scores[i] = Fixed(i)
  BY <1>1 DEF Aligned, Scoring
<1>3. \A i \in Items : gate'[i] = IF i \in missing THEN scores[i] ELSE gate[i]
  BY <1>1 DEF Appended
<1>4. \A i \in Items : i \notin missing => gate[i] # None
  BY <1>1
<1>5. \A i \in Items : gate'[i] = Fixed(i)
  BY <1>2, <1>3, <1>4 DEF Fixed
<1>6. QED
  BY <1>1, <1>2, <1>5 DEF Fixed, None, Zero

LEMMA DecisionsAligned ==
  ASSUME Aligned, Whole, Decide \/ Append
  PROVE  Ledgers' /\ Scoring' /\ Sticking'
<1> USE DEF ledger, decided, output, batch, spending, history
<1>0. TypeOK /\ Ledgers /\ Scoring /\ Sticking
  BY DEF Aligned
<1>1. /\ cases' = cases /\ scores' = scores /\ todo' = todo
      /\ missing' = missing /\ pc \in {"score", "append"} /\ todo = {}
  BY <1>0 DEF Decide, Append, Scoring, InFlight
<1>2. \A i \in Items : Fixed(i) # None /\ scores[i] = Fixed(i)
  BY <1>0, <1>1 DEF Scoring
<1>3. CASE Decide
  <2>1. /\ gate' = gate /\ ragged' = ragged /\ pc' = "append"
        /\ \A i \in Items : worksheet'[i] = Decision(i, scores[i])
    BY <1>3 DEF Decide
  <2>2. Ledgers'
    BY <1>0, <1>1, <2>1 DEF Ledgers, None
  <2>3. \A i : Fixed(i)' = Fixed(i)
    BY <1>1, <2>1, FixedStable
  <2>4. Sticking'
    BY <1>2, <2>1, <2>3 DEF Sticking, Decision, Passes, None
  <2>5. missing' = {i \in Items : gate'[i] = None}
    BY <1>0, <1>1, <2>1 DEF Scoring
  <2>6. Scoring'
    BY <1>1, <1>2, <2>1, <2>3, <2>5 DEF Scoring, InFlight, None
  <2>7. QED
    BY <2>2, <2>4, <2>6
<1>4. CASE Append
  <2>1. /\ pc = "append" /\ pc' = "judge" /\ worksheet' = worksheet /\ ~ ragged'
    BY <1>0, <1>4 DEF Append, Fresh, Ledgers
  <2>2. \A i \in Items : gate'[i] = Fixed(i) /\ Fixed(i)' = Fixed(i)
    BY <1>4, AppendKeeps
  <2>3. \A i \in Items : Fixed(i).of = i
    BY <1>0, <1>2, ScoreProper DEF Fixed, Ledgers
  <2>4. Ledgers'
    BY <1>0, <1>1, <1>2, <2>1, <2>2, <2>3 DEF Ledgers, None
  <2>5. Sticking'
    BY <1>0, <2>1, <2>2 DEF Sticking, Decision, Passes, None
  <2>6. Scoring'
    BY <1>1, <1>2, <2>1, <2>2 DEF Scoring, InFlight, None
  <2>7. QED
    BY <2>4, <2>5, <2>6
<1>5. QED
  BY <1>3, <1>4

LEMMA OutputAligned ==
  ASSUME Aligned, Whole, Judge \/ Emit \/ Publish \/ Crash \/ UNCHANGED vars
  PROVE  Ledgers' /\ Scoring' /\ Sticking'
<1> USE DEF ledger, decided, output, batch, spending, history
<1>0. TypeOK /\ Booked /\ Ledgers /\ Scoring /\ Sticking
  BY DEF Aligned
<1>1. gate' = gate /\ cases' = cases /\ ragged' = ragged /\ worksheet' = worksheet
  BY DEF Judge, Emit, Publish, Crash, CrashedDecided, Whole, vars
<1>2. Ledgers' /\ Sticking'
  BY <1>1, DiskStable
<1>3. \A i : Fixed(i)' = Fixed(i)
  BY <1>1, FixedStable
<1>4. CASE Judge \/ Emit \/ Publish
  <2>1. /\ scores' = scores /\ todo' = todo /\ pc \in {"judge", "emitting", "emitted"}
        /\ pc' \in {"down", "emitting", "emitted"}
    BY <1>4 DEF Judge, Emit, Publish, End
  <2>2. Scoring'
    BY <1>0, <1>1, <1>3, <2>1 DEF Scoring, InFlight, None
  <2>3. QED
    BY <1>2, <2>2
<1>5. CASE Crash
  <2>1. pc' = "down"
    BY <1>5 DEF Crash, End
  <2>2. Scoring'
    BY <2>1 DEF Scoring, InFlight
  <2>3. QED
    BY <1>2, <2>2
<1>6. CASE UNCHANGED vars
  <2>1. /\ scores' = scores /\ todo' = todo /\ pc' = pc
        /\ missing' = missing /\ row' = row /\ answer' = answer
    BY <1>6 DEF vars
  <2>2. Scoring'
    BY <1>0, <1>1, <1>3, <2>1 DEF Scoring, InFlight, None
  <2>3. QED
    BY <1>2, <2>2
<1>7. QED
  BY <1>4, <1>5, <1>6

LEMMA StepAligned == Whole /\ Aligned /\ [Next]_vars => Aligned'
<1> SUFFICES ASSUME Whole, Aligned, [Next]_vars PROVE Aligned'
  OBVIOUS
<1>1. TypeOK' /\ Booked'
  BY StepTyped DEF Aligned
<1>2. Ledgers' /\ Scoring' /\ Sticking'
  BY ScoresAligned, CallsAligned, DecisionsAligned, OutputAligned DEF Next
<1>3. QED
  BY <1>1, <1>2 DEF Aligned

LEMMA AlwaysAligned == Whole => (Spec => []Aligned)
<1>1. Init => Aligned
  BY InitTyped, InitAligned DEF Aligned
<1>2. ASSUME Whole PROVE Spec => []Aligned
  <2>1. Aligned /\ [Next]_vars => Aligned'
    BY <1>2, StepAligned
  <2>2. QED
    BY <1>1, <2>1, PTL DEF Spec
<1>3. QED
  BY <1>2

\* When scorer_ledger.jsonl is appended as a whole, every row is decided on its
\* own score, for any worksheet (verification_auto.py, _score_missing_rows).
THEOREM ScoresAreOwn == Whole => (Spec => []ScoreIsOwn)
<1>1. Aligned => ScoreIsOwn
  <2> SUFFICES ASSUME Aligned, pc # "down", NEW i \in Items, scores[i] # None
               PROVE  scores[i].of = i
    BY DEF ScoreIsOwn
  <2>1. scores[i] = Fixed(i)
    BY DEF Aligned, Scoring
  <2>2. QED
    BY <2>1, ScoreProper DEF Aligned, Fixed, Ledgers
<1>2. QED
  BY <1>1, AlwaysAligned, PTL

\* Nor is the provider called for a row whose score any process has put on disk
\* (frontier.py, frontier_scorer).
THEOREM ScoredAreNotAsked == Whole => (Spec => OnlyUnscoredAreAsked)
<1>1. ASSUME Aligned, [Next]_vars PROVE [made' # made => Fixed(row) = None]_vars
  <2> SUFFICES ASSUME made' # made PROVE Fixed(row) = None
    OBVIOUS
  <2>1. PICK pass \in BOOLEAN, price \in 0..Dearest : Call(pass, price)
    BY <1>1 DEF Next, vars, history, Start, Replay, ScoreBlank, Reserve, Reserved,
       Record, Recorded, Decide, Append, Judge, Emit, Publish, Crash
  <2>2. TypeOK /\ Ledgers /\ Scoring /\ pc = "calling"
    BY <1>1, <2>1 DEF Aligned, Call
  <2>3. row \in Items /\ row \in todo /\ row \notin Blank /\ cases[row - 1] = None
    BY <2>2 DEF Scoring, InFlight, TypeOK
  <2>4. gate[row] = None
    BY <2>2, <2>3, OwnPosition DEF InFlight
  <2>5. QED
    BY <2>3, <2>4 DEF Fixed
<1>2. QED
  BY <1>1, AlwaysAligned, PTL DEF Spec, OnlyUnscoredAreAsked

\* Nor is a decision ever reversed by a later process: what it rests on is on
\* disk before the worksheet is.
THEOREM DecisionsAreFinal == Whole => (Spec => DecisionsStick)
<1> DEFINE Stick == \A i \in Items : worksheet[i] # "pending" => worksheet'[i] = worksheet[i]
<1>1. ASSUME Aligned, [Next]_vars PROVE [Stick]_vars
  <2>1. CASE Decide
    <3>1. \A i \in Items : scores[i] = Fixed(i) /\ worksheet'[i] = Decision(i, scores[i])
      BY <1>1, <2>1 DEF Decide, Aligned, Scoring
    <3>2. QED
      BY <1>1, <3>1 DEF Aligned, Sticking
  <2>2. CASE ~ Decide
    <3>1. worksheet' = worksheet
      BY <1>1, <2>2 DEF Next, vars, output, Start, Replay, ScoreBlank, Reserve,
         Reserved, Call, Record, Recorded, Append, Judge, Emit, Publish, Crash
    <3>2. QED
      BY <3>1
  <2>3. QED
    BY <2>1, <2>2
<1>2. ASSUME Whole PROVE Spec => [][Stick]_vars
  BY <1>1, <1>2, AlwaysAligned, PTL DEF Spec
<1>3. QED
  BY <1>2 DEF DecisionsStick
-----------------------------------------------------------------------------
(* The gate implements the abstract Acceptance.                            *)

\* A verdict is none exactly where the disk determines no score.
LEMMA VerdictIs ==
  ASSUME NEW s \in Score \cup {None}
  PROVE  /\ Verdict(s) = "none" <=> s = None
         /\ s # None => Verdict(s) \in {"pass", "fail"}
         /\ Verdict(s) = "pass" <=> s # None /\ s.pass
<1>1. s # None => s.pass \in BOOLEAN
  BY ScoreProper
<1>2. QED
  BY <1>1 DEF Verdict

LEMMA FixedType == TypeOK => \A i \in Items : Fixed(i) \in Score \cup {None}
  BY ScoreProper DEF TypeOK, Fixed

\* The decision of a row is that of its verdict.
LEMMA DecisionOfVerdict ==
  ASSUME NEW i \in Items, NEW s \in Score, Verdicts[i] = Verdict(s)
  PROVE  A!Decided(i) = Decision(i, s)
<1>1. Verdict(s) = "pass" <=> s.pass
  BY VerdictIs, ScoreProper
<1>2. QED
  BY <1>1 DEF A!Decided, Decision, Passes

LEMMA VerdictsStay ==
  ASSUME \A i \in Items : Fixed(i)' = Fixed(i)
  PROVE  Verdicts' = Verdicts
<1>1. \A i \in Items : Verdict(Fixed(i))' = Verdict(Fixed(i))
  BY DEF Verdict, None
<1>2. QED
  BY <1>1 DEF Verdicts

\* Before the marker is there nothing is published, whatever was emitted.
LEMMA NotPublished ==
  /\ ~ done => Published = <<>>
  /\ (~ done)' => Published' = <<>>
  BY DEF Published

\* The steps that prepare calls, replay recorded ones and write files that only a
\* later step relies on change nothing of what is promised.
LEMMA Prepares ==
  ASSUME Aligned, Emitted, [Next]_vars,
         \/ Start
         \/ \E i \in Items : Replay(i) \/ ScoreBlank(i) \/ Reserve(i)
         \/ Reserved \/ Append \/ Judge \/ Emit \/ UNCHANGED vars
  PROVE  UNCHANGED A!vars
<1> USE DEF ledger, decided, output, batch, spending, history
<1>0. TypeOK /\ Booked
  BY DEF Aligned
<1>1. \A i \in Items : Fixed(i)' = Fixed(i)
  <2>1. CASE Append
    BY <2>1, AppendKeeps
  <2>2. CASE ~ Append
    <3>1. gate' = gate /\ cases' = cases
      BY <2>2 DEF Start, Replay, ScoreBlank, Reserve, Reserved, Judge, Emit, vars
    <3>2. QED
      BY <3>1, FixedStable
  <2>3. QED
    BY <2>1, <2>2
<1>2. Verdicts' = Verdicts
  BY <1>1, VerdictsStay
<1>3. Asking' = Asking
  <2>1. CASE UNCHANGED vars
    BY <2>1 DEF vars, Asking
  <2>2. CASE ~ UNCHANGED vars
    <3>1. /\ pc \notin {"answered", "recording"}
          /\ pc' \notin {"answered", "recording"}
      BY <2>2 DEF Start, Replay, ScoreBlank, Reserve, Reserved, Append, Judge, Emit,
         UpNext, Scored, End
    <3>2. QED
      BY <3>1 DEF Asking
  <2>3. QED
    BY <2>1, <2>2
<1>4. made' = made /\ worksheet' = worksheet /\ done' = done
  BY DEF Start, Replay, ScoreBlank, Reserve, Reserved, Append, Judge, Emit, vars
<1>5. (state.cost)' = state.cost
  <2>1. CASE Reserved
    BY <1>0, <2>1 DEF Reserved, Booked
  <2>2. CASE ~ Reserved
    <3>1. state' = state
      BY <2>2 DEF Start, Replay, ScoreBlank, Reserve, Append, Judge, Emit, vars
    <3>2. QED
      BY <3>1
  <2>3. QED
    BY <2>1, <2>2
<1>6. Published' = Published
  <2>1. CASE Emit
    <3>1. ~ done /\ ~ done'
      BY <1>4, <2>1 DEF Emit, Emitted
    <3>2. QED
      BY <3>1, NotPublished
  <2>2. CASE ~ Emit
    <3>1. emitted' = emitted
      BY <2>2 DEF Start, Replay, ScoreBlank, Reserve, Reserved, Append, Judge, vars
    <3>2. QED
      BY <1>4, <3>1 DEF Published
  <2>3. QED
    BY <2>1, <2>2
<1>7. QED
  BY <1>2, <1>3, <1>4, <1>5, <1>6 DEF A!vars

\* A call is made of a row without a score, within the caps.
LEMMA CallAsks ==
  ASSUME Aligned, Emitted, Funded,
         NEW pass \in BOOLEAN, NEW price \in 0..Dearest, Call(pass, price)
  PROVE  A!Ask(row)
<1> USE DEF ledger, decided, output, batch, spending, history
<1>0. TypeOK /\ Booked /\ Ledgers /\ Scoring
  BY DEF Aligned
<1>1. pc = "calling" /\ pc' = "answered" /\ ~ done
      /\ row' = row /\ made' = made + 1 /\ state' = state
      /\ gate' = gate /\ cases' = cases /\ worksheet' = worksheet
      /\ emitted' = emitted /\ done' = done
  BY DEF Call, Emitted
<1>2. row \in Items /\ row \in todo /\ row \notin Blank /\ cases[row - 1] = None
  BY <1>0, <1>1 DEF Scoring, InFlight, TypeOK
<1>3. gate[row] = None
  BY <1>0, <1>1, <1>2, OwnPosition DEF InFlight
<1>4. Verdicts[row] = "none"
  BY <1>2, <1>3 DEF Verdicts, Verdict, Fixed
<1>5. made < MaxCalls /\ state.cost < MaxCost
  BY <1>0, <1>1, GateAssumption DEF Booked, TypeOK, Funded, InFlight
<1>6. Asking = {} /\ Asking' = {row}
  BY <1>1 DEF Asking
<1>7. Published = <<>> /\ Published' = Published
  BY <1>1, NotPublished
<1>8. Verdicts' = Verdicts
  BY <1>1, FixedStable, VerdictsStay
<1>9. QED
  BY <1>1, <1>4, <1>5, <1>6, <1>7, <1>8 DEF A!Ask, A!Open

\* The line of the cost ledger gives the row of the call its score.
LEMMA RecordScores ==
  ASSUME Aligned, Emitted, Record
  PROVE  \E s \in {"pass", "fail"} : A!Score(row, s)
<1> USE DEF ledger, decided, output, batch, spending, history
<1>0. TypeOK /\ Ledgers /\ Scoring
  BY DEF Aligned
<1>1. /\ pc = "answered" /\ pc' = "recording" /\ row' = row /\ made' = made
      /\ state' = state /\ gate' = gate /\ worksheet' = worksheet
      /\ emitted' = emitted /\ done' = done
      /\ cases' = [cases EXCEPT ![Index(row)] = answer.score]
  BY DEF Record, Attempted
<1>2. row \in Items /\ row \in todo /\ row \notin Blank /\ cases[row - 1] = None
  BY <1>0, <1>1 DEF Scoring, InFlight, TypeOK
<1>3. gate[row] = None /\ Index(row) = row - 1
  BY <1>0, <1>1, <1>2, OwnPosition DEF InFlight
<1>4. answer.score \in Score /\ answer.score # None
  BY <1>0, ScoreProper DEF TypeOK
<1>5. ASSUME NEW j \in Items, j = row PROVE Fixed(j)' = answer.score
  <2>1. cases'[j - 1] = answer.score /\ gate'[j] = None
    BY <1>0, <1>1, <1>2, <1>3, <1>5, ScoreProper DEF TypeOK
  <2>2. QED
    BY <1>4, <2>1 DEF Fixed, None
<1>6. ASSUME NEW j \in Items, j # row PROVE Fixed(j)' = Fixed(j)
  <2>1. j - 1 # row - 1
    BY <1>2, <1>6, ScoreProper
  <2>2. cases'[j - 1] = cases[j - 1] /\ gate'[j] = gate[j]
    BY <1>0, <1>1, <1>3, <2>1, <1>6, ScoreProper DEF TypeOK
  <2>3. QED
    BY <2>2 DEF Fixed, None, Zero
<1> DEFINE s == Verdict(answer.score)
<1>7. s \in {"pass", "fail"}
  BY <1>4, VerdictIs
<1>8. Verdicts[row] = "none"
  BY <1>2, <1>3 DEF Verdicts, Verdict, Fixed
<1>9. Verdicts' = [Verdicts EXCEPT ![row] = s]
  <2>1. \A j \in Items : Verdicts'[j] = Verdict(Fixed(j)')
    BY DEF Verdicts, Verdict, None
  <2>2. Verdicts'[row] = s
    BY <1>2, <1>5, <2>1
  <2>3. \A j \in Items : j # row => Verdicts'[j] = Verdicts[j]
    BY <1>6, <2>1 DEF Verdicts
  <2>4. Verdicts' = [j \in Items |-> Verdicts'[j]] /\ Verdicts = [j \in Items |-> Verdicts[j]]
    BY DEF Verdicts
  <2>5. QED
    BY <1>2, <2>2, <2>3, <2>4
<1>10. Asking = {row} /\ Asking' = {row}
  BY <1>1 DEF Asking
<1>11. Published' = Published
  BY <1>1 DEF Published
<1>12. A!Score(row, s)
  BY <1>1, <1>8, <1>9, <1>10, <1>11 DEF A!Score
<1>13. QED
  BY <1>7, <1>12

\* The state of the cost ledger goes on record after the score did.
LEMMA RecordedCharges ==
  ASSUME Aligned, Funded, Recorded
  PROVE  \E c \in 0..Dearest : A!Charge(c)
<1> USE DEF ledger, decided, output, batch, spending, history
<1>0. TypeOK /\ Booked /\ Scoring
  BY DEF Aligned
<1>1. /\ pc = "recording" /\ pc' \in {"down", "score"} /\ made' = made
      /\ gate' = gate /\ cases' = cases /\ worksheet' = worksheet
      /\ emitted' = emitted /\ done' = done /\ state'.cost = cost
  BY DEF Recorded, End, Scored
<1>2. answer.cost \in 0..Dearest /\ state'.cost = state.cost + answer.cost
  BY <1>0, <1>1 DEF Booked, TypeOK
<1>3. state.cost < MaxCost
  BY <1>1 DEF Funded, InFlight
<1>4. Verdicts[row] # "none"
  <2>1. row \in Items /\ cases[row - 1] = answer.score /\ answer.score # None
    BY <1>0, <1>1, ScoreProper DEF Scoring, TypeOK
  <2>2. Fixed(row) # None /\ Fixed(row) \in Score \cup {None}
    BY <1>0, <2>1, FixedType DEF Fixed
  <2>3. QED
    BY <2>1, <2>2, VerdictIs DEF Verdicts
<1>5. Asking = {row} /\ Asking' = {}
  BY <1>1 DEF Asking
<1>6. Published' = Published
  BY <1>1 DEF Published
<1>7. Verdicts' = Verdicts
  BY <1>1, FixedStable, VerdictsStay
<1>8. A!Charge(answer.cost)
  BY <1>1, <1>2, <1>3, <1>4, <1>5, <1>6, <1>7 DEF A!Charge
<1>9. QED
  BY <1>2, <1>8

\* A process decides once every verdict is there, and by the verdicts.
LEMMA DecideDecides ==
  ASSUME Aligned, Emitted, Decide
  PROVE  A!Decide
<1> USE DEF ledger, decided, output, batch, spending, history
<1>0. TypeOK /\ Scoring
  BY DEF Aligned
<1>1. /\ pc = "score" /\ pc' = "append" /\ todo = {} /\ ~ done
      /\ gate' = gate /\ cases' = cases /\ state' = state /\ made' = made
      /\ emitted' = emitted /\ done' = done
      /\ worksheet' = [i \in Items |-> Decision(i, scores[i])]
  BY DEF Decide, Emitted
<1>2. \A i \in Items : scores[i] = Fixed(i) /\ Fixed(i) \in Score
  BY <1>0, <1>1, FixedType DEF Scoring
<1>3. \A i \in Items : Verdicts[i] = Verdict(scores[i])
  BY <1>2 DEF Verdicts
<1>4. \A i \in Items : Verdicts[i] # "none"
  BY <1>2, <1>3, VerdictIs, ScoreProper
<1>5. \A i \in Items : A!Decided(i) = Decision(i, scores[i])
  BY <1>2, <1>3, DecisionOfVerdict
<1>6. worksheet' = [i \in Items |-> A!Decided(i)]
  BY <1>1, <1>5
<1>7. Asking = {} /\ Asking' = {}
  BY <1>1 DEF Asking
<1>8. Published = <<>> /\ Published' = Published
  BY <1>1, NotPublished
<1>9. Verdicts' = Verdicts
  BY <1>1, FixedStable, VerdictsStay
<1>10. QED
  BY <1>1, <1>4, <1>6, <1>7, <1>8, <1>9 DEF A!Decide, A!Open

\* The marker publishes what the worksheet accepts.
LEMMA PublishPublishes ==
  ASSUME Aligned, Emitted, Publish
  PROVE  A!Publish
<1> USE DEF ledger, decided, output, batch, spending, history
<1>1. /\ pc = "emitted" /\ pc' = "down" /\ ~ done /\ done' = TRUE
      /\ gate' = gate /\ cases' = cases /\ state' = state /\ made' = made
      /\ emitted' = emitted /\ worksheet' = worksheet
  BY DEF Publish, End, Emitted
<1>2. /\ \A i \in Items : worksheet[i] = Decision(i, scores[i])
      /\ Enough(Accepted) /\ emitted = Accepted
  BY <1>1 DEF Emitted
<1>3. {i \in Items : worksheet[i] = "accept"} = Accepted
  BY <1>2, WorksheetAccepts
<1>4. \A i \in Items : worksheet[i] # "pending"
  BY <1>2 DEF Decision
<1>5. Asking = {} /\ Asking' = {}
  BY <1>1 DEF Asking
<1>6. Published = <<>> /\ Published' = <<Accepted>>
  BY <1>1, <1>2 DEF Published
<1>7. Verdicts' = Verdicts
  BY <1>1, FixedStable, VerdictsStay
<1>8. Accepted \in {R \in SUBSET Items : Enough(R)}
  BY <1>2 DEF Accepted
<1>9. (state.cost)' = state.cost /\ UNCHANGED <<Verdicts, Asking, made, worksheet>>
  BY <1>1, <1>5, <1>7
<1>10. QED
  BY <1>3, <1>4, <1>6, <1>8, <1>9 DEF A!Publish, A!Open

\* Whatever a crash leaves half-written, it takes the call in flight and nothing
\* that was promised.
LEMMA CrashLoses ==
  ASSUME Aligned, Whole, Emitted, Crash
  PROVE  A!Lose
<1> USE DEF ledger, decided, output, batch, spending, history
<1>1. /\ pc # "down" /\ pc' = "down" /\ ~ done /\ done' = done /\ cases' = cases
      /\ gate' = gate /\ made' = made /\ worksheet' = worksheet
      /\ state' \in CrashedState
  BY DEF Crash, End, CrashedDecided, Whole, Emitted
<1>2. (state.cost)' = state.cost
  <2>1. state' = state \/ state' = [state EXCEPT !.whole = FALSE]
    BY <1>1 DEF CrashedState
  <2>2. QED
    BY <2>1 DEF Aligned, TypeOK
<1>3. Asking' = {}
  BY <1>1 DEF Asking
<1>4. Published = <<>> /\ Published' = <<>>
  BY <1>1, NotPublished
<1>5. Verdicts' = Verdicts
  BY <1>1, FixedStable, VerdictsStay
<1>6. QED
  BY <1>1, <1>2, <1>3, <1>4, <1>5 DEF A!Lose

LEMMA AcceptanceStep ==
  Whole /\ Aligned /\ Publication /\ Funded /\ [Next]_vars => [A!Next]_(A!vars)
<1> SUFFICES ASSUME Whole, Aligned, Emitted, Funded, [Next]_vars
             PROVE  A!Next \/ UNCHANGED A!vars
  BY DEF Publication
<1>1. CASE \/ Start
           \/ \E i \in Items : Replay(i) \/ ScoreBlank(i) \/ Reserve(i)
           \/ Reserved \/ Append \/ Judge \/ Emit \/ UNCHANGED vars
  BY <1>1, Prepares
<1>2. row \in Items
  BY DEF Aligned, TypeOK
<1>3. ASSUME NEW pass \in BOOLEAN, NEW price \in 0..Dearest, Call(pass, price)
      PROVE  A!Next
  BY <1>2, <1>3, CallAsks, Zenon DEF A!Next
<1>4. CASE Record
  BY <1>2, <1>4, RecordScores, Zenon DEF A!Next
<1>5. CASE Recorded
  BY <1>5, RecordedCharges, Zenon DEF A!Next
<1>6. CASE Decide
  BY <1>6, DecideDecides, Zenon DEF A!Next
<1>7. CASE Publish
  BY <1>7, PublishPublishes, Zenon DEF A!Next
<1>8. CASE Crash
  BY <1>8, CrashLoses, Zenon DEF A!Next
<1>9. QED
  BY <1>1, <1>3, <1>4, <1>5, <1>6, <1>7, <1>8 DEF Next

LEMMA AcceptanceInit == Init => A!Init
<1> SUFFICES ASSUME Init PROVE A!Init
  OBVIOUS
<1>1. \A i \in Items : gate[i] = None /\ cases[i - 1] = None
  BY ScoreProper DEF Init, NoScores
<1>2. \A i \in Items : Verdict(Fixed(i)) = IF i \in Blank THEN "fail" ELSE "none"
  BY <1>1, ScoreProper DEF Fixed, Verdict, Zero
<1>3. Verdicts = [i \in Items |-> IF i \in Blank THEN "fail" ELSE "none"]
  BY <1>2 DEF Verdicts
<1>4. Asking = {} /\ Published = <<>> /\ made = 0 /\ state.cost = 0
      /\ worksheet = [i \in Items |-> "pending"]
  BY DEF Init, Asking, Published
<1>5. QED
  BY <1>3, <1>4 DEF A!Init

\* When scorer_ledger.jsonl is appended as a whole, the gate keeps its promise for
\* any worksheet, caps, crashes and resumes: a row is scored once and asked for
\* only while it has no score, within the caps, its decision follows from that
\* score, and the output that is published, once, is what was accepted
\* (verification_auto.py, run_autonomous_gate).
THEOREM GateImplementsAcceptance == Whole => (Spec => ImplementsAcceptance)
<1>1. Init => Publication /\ Funded
  BY DEF Init, Publication, Emitted, PublishedIsAccepted, Funded, InFlight
<1>2. Aligned => TypeOK /\ Booked
  BY DEF Aligned
<1>3. ASSUME Whole PROVE Spec => ImplementsAcceptance
  <2>1. Aligned /\ Publication /\ Funded /\ [Next]_vars => [A!Next]_(A!vars)
    BY <1>3, AcceptanceStep
  <2>2. Spec => []Aligned
    BY <1>3, AlwaysAligned
  <2>3. QED
    BY <1>1, <1>2, <2>1, <2>2, StepEmitted, FundedStep, AcceptanceInit, PTL
    DEF Spec, ImplementsAcceptance, A!Spec
<1>4. QED
  BY <1>3
=============================================================================
