----------------------------- MODULE ScorerGate -----------------------------
(***************************************************************************)
(* The autonomous verification gate of an auto-RAG run                     *)
(* (auto_rag/verification_auto.py) on the frontier lane                    *)
(* (scoring/policy/frontier.py, ledger.py): every drafted row is scored by *)
(* a paid provider under a hard cap, decided, and the accepted rows are    *)
(* emitted for the stages that follow.                                     *)
(*                                                                         *)
(* Two ledgers survive a crash.  The cost ledger keeps what was spent      *)
(* (ledger_state.json, rewritten in place) and the score of every call     *)
(* (ledger.jsonl), keyed by the position of the row in the batch that was  *)
(* scored.  The gate's own scorer_ledger.jsonl keeps the decided rows,     *)
(* keyed by item.  One process runs at a time; each write(2) is atomic.    *)
(***************************************************************************)
EXTENDS Naturals, FiniteSets

CONSTANTS N,            \* rows of the worksheet, in file order
          Blank,        \* rows with an empty reference answer
          Ungrounded,   \* rows whose span is not in their context
          Tuning,       \* rows of the tuning split; the others are final
          MinAccepted,  \* the least number min_accept_rate lets pass
          MaxCalls,     \* the consented max_calls
          MaxCost,      \* the consented max_usd, in units of cost
          Dearest,      \* the highest cost of one call
          MaxCrashes,   \* bound: crashes
          Faults        \* {"partial"}: a crash may cut the append to
                        \* scorer_ledger.jsonl, which is flushed in blocks

Items == 1..N
Positions == 0..(N - 1)

ASSUME GateAssumption ==
  /\ N \in Nat \ {0} /\ Blank \subseteq Items /\ Ungrounded \subseteq Items
  /\ Tuning \subseteq Items /\ MinAccepted \in Nat
  /\ MaxCalls \in Nat \ {0} /\ MaxCost \in Nat \ {0}
  /\ Dearest \in Nat /\ MaxCrashes \in Nat /\ Faults \subseteq {"partial"}

VARIABLES
  state,      \* ledger_state.json; not whole while it is being rewritten
  cases,      \* ledger.jsonl: the score recorded at each position
  gate,       \* scorer_ledger.jsonl: the score of each decided row
  ragged,     \* its last line is cut
  worksheet,  \* the decision column of verify_sample.csv
  emitted,    \* the rows of accepted/goldset.jsonl
  done,       \* the stage marker result.json is published
  pc,         \* where the process is; "down" when there is none
  status,     \* how the last process ended
  calls,      \* CostLedger.calls
  cost,       \* CostLedger.cost_usd
  scores,     \* cached, then fresh scores of the rows
  missing,    \* rows without a cached score: the batch
  todo,       \* rows of the batch not scored yet
  row,        \* the row in flight
  answer,     \* its score and its cost
  made,       \* history: provider calls of all processes
  paid,       \* history: cost of all answers, recorded or not
  crashes     \* history: crashes so far, bounded

ledger == <<state, cases>>
decided == <<gate, ragged>>
output == <<worksheet, emitted, done>>
batch == <<scores, missing, todo>>
spending == <<calls, cost>>
history == <<made, paid, crashes>>
vars == <<ledger, decided, output, pc, status, batch, spending, row, answer,
          history>>

\* A score remembers the row it was given to; None is no score.
Score == [of : Items, pass : BOOLEAN]
None == [of |-> 0, pass |-> FALSE]
Zero(i) == [of |-> i, pass |-> FALSE]
NoScores == [i \in Items |-> None]

Steps == {"down", "score", "reserving", "calling", "answered", "recording",
          "append", "judge", "emitting", "emitted"}

Init ==
  /\ state = [calls |-> 0, cost |-> 0, whole |-> TRUE]
  /\ cases = [p \in Positions |-> None]
  /\ gate = NoScores /\ ragged = FALSE
  /\ worksheet = [i \in Items |-> "pending"] /\ emitted = {} /\ done = FALSE
  /\ pc = "down" /\ status = "none" /\ calls = 0 /\ cost = 0
  /\ scores = NoScores /\ missing = {} /\ todo = {} /\ row = 1
  /\ answer = [score |-> Zero(1), cost |-> 0]
  /\ made = 0 /\ paid = 0 /\ crashes = 0

End(s) == pc' = "down" /\ status' = s

-----------------------------------------------------------------------------
(* A process opens both ledgers.                                           *)

\* The stage runs until its marker is published.  A state file that was being
\* rewritten does not parse, and CostLedger.open raises.
Start ==
  /\ pc = "down" /\ ~ done
  /\ IF state.whole
     THEN /\ pc' = "score" /\ status' = "none"
          /\ calls' = state.calls /\ cost' = state.cost
          /\ scores' = gate
          /\ missing' = {i \in Items : gate[i] = None}
          /\ todo' = missing'
     ELSE End("unreadable") /\ UNCHANGED <<batch, spending>>
  /\ UNCHANGED <<ledger, decided, output, row, answer, history>>

-----------------------------------------------------------------------------
(* frontier_scorer scores the batch one row at a time, in order.           *)

UpNext(i) == pc = "score" /\ i \in todo /\ \A j \in todo : i <= j

\* enumerate(records): the position of a row in the batch.
Index(i) == Cardinality({j \in missing : j < i})

Scored(i, s) ==
  /\ pc' = "score"
  /\ scores' = [scores EXCEPT ![i] = s]
  /\ todo' = todo \ {i}
  /\ UNCHANGED missing

\* What the cost ledger recorded at a position; the mutant forgets it.
ForgottenCase(p) == None
RecordedCase(p) == cases[p]

\* A recorded case is replayed.
Replay(i) ==
  /\ UpNext(i) /\ RecordedCase(Index(i)) # None
  /\ Scored(i, RecordedCase(Index(i)))
  /\ UNCHANGED <<ledger, decided, output, status, spending, row, answer, history>>

\* An empty answer scores zero without a call.
ScoreBlank(i) ==
  /\ UpNext(i) /\ RecordedCase(Index(i)) = None /\ i \in Blank
  /\ Scored(i, Zero(i))
  /\ UNCHANGED <<ledger, decided, output, status, spending, row, answer, history>>

\* _raise_if_exhausted; the mutants are off by one and forget the money.
ExhaustedLate == calls > MaxCalls \/ cost >= MaxCost
ExhaustedByCalls == calls >= MaxCalls
Exhausted == calls >= MaxCalls \/ cost >= MaxCost

\* reserve_call counts the call before it is made.
Reserve(i) ==
  /\ UpNext(i) /\ RecordedCase(Index(i)) = None /\ i \notin Blank
  /\ IF Exhausted
     THEN End("budget") /\ UNCHANGED <<calls, row>>
     ELSE /\ pc' = "reserving" /\ calls' = calls + 1 /\ row' = i
          /\ UNCHANGED status
  /\ UNCHANGED <<ledger, decided, output, batch, cost, answer, history>>

\* What is reserved of a call before it is made; the mutant writes the state
\* before it counts the call.
CountedLater(n) == state.calls
Counted(n) == n

\* _persist_state of the reservation.
Reserved ==
  /\ pc = "reserving"
  /\ state' = [calls |-> Counted(calls), cost |-> cost, whole |-> TRUE]
  /\ pc' = "calling"
  /\ UNCHANGED <<cases, decided, output, status, batch, spending, row, answer,
                 history>>

\* The provider answers.  A failed call scores zero and costs nothing.
Call(pass, price) ==
  /\ pc = "calling"
  /\ answer' = [score |-> [of |-> row, pass |-> pass], cost |-> price]
  /\ made' = made + 1 /\ paid' = paid + price
  /\ pc' = "answered"
  /\ UNCHANGED <<ledger, decided, output, status, batch, spending, row, crashes>>

\* What is recorded of a call; the mutant records no failing score.
PassingOnly(s) == IF s.pass THEN s ELSE None
Attempted(s) == s

\* record: the line of the case, ...
Record ==
  /\ pc = "answered"
  /\ cost' = cost + answer.cost
  /\ cases' = [cases EXCEPT ![Index(row)] = Attempted(answer.score)]
  /\ pc' = "recording"
  /\ UNCHANGED <<state, decided, output, status, batch, calls, row, answer,
                 history>>

\* ... then the state, and the abort if the call went over the cap.
Recorded ==
  /\ pc = "recording"
  /\ state' = [calls |-> calls, cost |-> cost, whole |-> TRUE]
  /\ IF cost > MaxCost THEN End("budget") /\ UNCHANGED batch
                       ELSE Scored(row, answer.score) /\ UNCHANGED status
  /\ UNCHANGED <<cases, decided, output, spending, row, answer, history>>

-----------------------------------------------------------------------------
(* The rows are decided, recorded and emitted.                             *)

\* _apply_score: a row passes on its structure and on its score.
Passes(i, s) == i \notin Ungrounded /\ s.pass
Decision(i, s) == IF Passes(i, s) THEN "accept" ELSE "reject"
Accepted == {i \in Items : Passes(i, scores[i])}

\* _decide_rows, and the worksheet replaced atomically.
Decide ==
  /\ pc = "score" /\ todo = {}
  /\ worksheet' = [i \in Items |-> Decision(i, scores[i])]
  /\ pc' = "append"
  /\ UNCHANGED <<ledger, decided, emitted, done, status, batch, spending, row,
                 answer, history>>

\* The rows whose decisions are appended; the mutant keeps accepted ones only.
FreshAccepted == missing \cap Accepted
Fresh == missing

\* scorer_ledger.jsonl after the rows of R were appended, in order: a cut last
\* line swallows the first of them.
Appended(R) ==
  [i \in Items |->
     IF i \in R /\ ~ (ragged /\ \A j \in R : i <= j) THEN scores[i] ELSE gate[i]]

\* _append_ledger: a decision of every row of the batch.
Append ==
  /\ pc = "append"
  /\ gate' = Appended(Fresh)
  /\ ragged' = (ragged /\ Fresh = {})
  /\ pc' = "judge"
  /\ UNCHANGED <<ledger, output, status, batch, spending, row, answer, history>>

\* _check_accept_rate and _require_eval_splits.
Enough(R) == /\ Cardinality(R) >= MinAccepted
             /\ R \cap Tuning # {} /\ R \ Tuning # {}

Judge ==
  /\ pc = "judge"
  /\ IF Enough(Accepted) THEN pc' = "emitting" /\ UNCHANGED status
                         ELSE End("rejected")
  /\ UNCHANGED <<ledger, decided, output, batch, spending, row, answer, history>>

\* emit_accepted_ledger rewrites accepted/goldset.jsonl; the mutant keeps a
\* file it finds.
KeptOutput(R) == IF emitted = {} THEN R ELSE emitted
Output(R) == R

Emit ==
  /\ pc = "emitting"
  /\ emitted' = Output(Accepted)
  /\ pc' = "emitted"
  /\ UNCHANGED <<ledger, decided, worksheet, done, status, batch, spending, row,
                 answer, history>>

\* The journal publishes the marker of the stage.
Publish ==
  /\ pc = "emitted"
  /\ done' = TRUE
  /\ End("done")
  /\ UNCHANGED <<ledger, decided, worksheet, emitted, batch, spending, row,
                 answer, history>>

-----------------------------------------------------------------------------
\* The files as a crash may leave them: the state file truncated, the append
\* to scorer_ledger.jsonl cut after some rows, on a line or within one, the
\* emitted rows cut.
CrashedState ==
  {state} \cup IF pc \in {"reserving", "recording"}
               THEN {[state EXCEPT !.whole = FALSE]} ELSE {}
CutShort(i) == {j \in Fresh : j < i}
CrashedDecided ==
  {decided} \cup
    IF "partial" \in Faults /\ pc = "append"
    THEN {<<Appended(CutShort(i)), midline \/ (ragged /\ CutShort(i) = {})>> :
            i \in Items, midline \in BOOLEAN} ELSE {}
CrashedEmitted ==
  {emitted} \cup
    IF pc = "emitting" THEN {{j \in Accepted : j < i} : i \in Items} ELSE {}

\* What was paid stays paid, whether or not its cost is on disk.
Crash ==
  /\ pc # "down" /\ crashes < MaxCrashes
  /\ crashes' = crashes + 1
  /\ End("crashed")
  /\ state' \in CrashedState
  /\ emitted' \in CrashedEmitted
  /\ \E d \in CrashedDecided : gate' = d[1] /\ ragged' = d[2]
  /\ UNCHANGED <<cases, worksheet, done, batch, spending, row, answer, made, paid>>

Next ==
  \/ Start
  \/ \E i \in Items : Replay(i) \/ ScoreBlank(i) \/ Reserve(i)
  \/ Reserved
  \/ \E pass \in BOOLEAN, price \in 0..Dearest : Call(pass, price)
  \/ Record \/ Recorded \/ Decide \/ Append \/ Judge \/ Emit \/ Publish
  \/ Crash

Spec == Init /\ [][Next]_vars

-----------------------------------------------------------------------------
TypeOK ==
  /\ state \in [calls : 0..MaxCalls, cost : Nat, whole : BOOLEAN]
  /\ cases \in [Positions -> Score \cup {None}]
  /\ gate \in [Items -> Score \cup {None}] /\ ragged \in BOOLEAN
  /\ worksheet \in [Items -> {"pending", "accept", "reject"}]
  /\ emitted \subseteq Items /\ done \in BOOLEAN /\ pc \in Steps
  /\ status \in {"none", "unreadable", "budget", "rejected", "done", "crashed"}
  /\ calls \in 0..MaxCalls /\ cost \in Nat
  /\ scores \in [Items -> Score \cup {None}]
  /\ missing \subseteq Items /\ todo \subseteq missing /\ row \in Items
  /\ answer \in [score : Score, cost : 0..Dearest]
  /\ made \in Nat /\ paid \in Nat /\ crashes \in Nat

\* Whatever crashes, aborts and resumes happen, the provider is called no more
\* often than was consented to: a call is on disk before it is made.
CallsAreCapped == made <= MaxCalls

\* What is spent exceeds the consented sum by less than one call, and by at most
\* one more for each crash: a process that dies with an answer it has not put into
\* ledger_state.json hides its cost from every later one.
SpendIsCapped == paid < MaxCost + Dearest * (1 + crashes)

\* The same of the money itself, as judging.md has it: no crash makes a resume
\* exceed the cap by more than the call that reaches it.  The code does not keep
\* this (ScorerGateSpend.cfg).
SpendNeverExceeds == paid < MaxCost + Dearest

\* A row is decided on the score that was given to that row, never on one that
\* belongs to another row.
ScoreIsOwn == pc # "down" => \A i \in Items : scores[i] # None => scores[i].of = i

\* The score a row will be decided on, by this process and every later one,
\* once the disk determines it.
Fixed(i) == IF gate[i] # None THEN gate[i]
            ELSE IF cases[i - 1] # None THEN cases[i - 1]
            ELSE IF i \in Blank THEN Zero(i) ELSE None

\* The provider is called for no row whose score a crash has left on disk, in
\* whichever ledger.
OnlyUnscoredAreAsked == [][made' # made => Fixed(row) = None]_vars

Verdict(s) == IF s = None THEN "none" ELSE IF s.pass THEN "pass" ELSE "fail"

\* The gate seen from outside: verdicts, the row the provider answers, and the
\* output once its marker is there.
Verdicts == [i \in Items |-> Verdict(Fixed(i))]
Asking == IF pc \in {"answered", "recording"} THEN {row} ELSE {}
Published == IF done THEN <<emitted>> ELSE <<>>

A == INSTANCE Acceptance WITH
       Rows <- Items, Acceptable <- {R \in SUBSET Items : Enough(R)},
       score <- Verdicts, asking <- Asking, calls <- made, spent <- state.cost,
       decision <- worksheet, output <- Published

\* Two ledgers, positions, crashes and resumes together keep the promise of the
\* gate: each row is scored once within the caps and decided by that score, and
\* what is published, once, is what was accepted.
ImplementsAcceptance == A!Spec

\* A decision, once in the worksheet, is never reversed by a later process: what
\* it was based on survives every crash.
DecisionsStick ==
  [][\A i \in Items : worksheet[i] # "pending" => worksheet'[i] = worksheet[i]]_vars

\* When the stage is published its output is what the worksheet accepts, whole,
\* with rows of both splits, whatever an earlier process left half-written.
PublishedIsAccepted ==
  done => /\ emitted = {i \in Items : worksheet[i] = "accept"}
          /\ Cardinality(emitted) >= MinAccepted
          /\ emitted \cap Tuning # {} /\ emitted \ Tuning # {}
=============================================================================
