----------------------------- MODULE Acceptance -----------------------------
(***************************************************************************)
(* What the autonomous verification gate promises of a worksheet, with no  *)
(* process, ledger file or batch position in sight: a row is scored once,  *)
(* and asked for again only while it has no score, calls and the money on  *)
(* record stay within the consent, every row is decided by its own score,  *)
(* and what is published, once, is what was accepted.                      *)
(* ScorerGate is shown to implement this specification.                    *)
(***************************************************************************)
EXTENDS Naturals

CONSTANTS Rows,         \* rows of the worksheet
          Blank,        \* rows without an answer to score
          Ungrounded,   \* rows that their structure rules out
          Acceptable,   \* the sets of rows that may be published
          MaxCalls,     \* the calls consented to
          MaxCost,      \* the money consented to
          Dearest       \* the highest cost of one call

VARIABLES score,     \* of each row: "none", "pass" or "fail"
          asking,    \* the row the provider answers: one at most
          calls,     \* calls made
          spent,     \* what is on record of their cost
          decision,  \* of each row: "pending", "accept" or "reject"
          output     \* the published rows; <<>> until they are

vars == <<score, asking, calls, spent, decision, output>>

Open == output = <<>>

Init ==
  /\ score = [i \in Rows |-> IF i \in Blank THEN "fail" ELSE "none"]
  /\ asking = {} /\ calls = 0 /\ spent = 0
  /\ decision = [i \in Rows |-> "pending"] /\ output = <<>>

Ask(i) ==
  /\ Open /\ asking = {} /\ score[i] = "none"
  /\ calls < MaxCalls /\ spent < MaxCost
  /\ asking' = {i} /\ calls' = calls + 1
  /\ UNCHANGED <<score, spent, decision, output>>

Score(i, s) ==
  /\ i \in asking /\ score[i] = "none"
  /\ score' = [score EXCEPT ![i] = s]
  /\ UNCHANGED <<asking, calls, spent, decision, output>>

\* The cost of a call goes on record after the score.
Charge(cost) ==
  /\ asking # {} /\ \A i \in asking : score[i] # "none"
  /\ spent < MaxCost
  /\ spent' = spent + cost /\ asking' = {}
  /\ UNCHANGED <<score, calls, decision, output>>

\* The process that asked dies: the call is not charged, the score may be there.
Lose ==
  /\ asking' = {}
  /\ UNCHANGED <<score, calls, spent, decision, output>>

Decided(i) == IF i \notin Ungrounded /\ score[i] = "pass" THEN "accept" ELSE "reject"

Decide ==
  /\ Open /\ asking = {} /\ \A i \in Rows : score[i] # "none"
  /\ decision' = [i \in Rows |-> Decided(i)]
  /\ UNCHANGED <<score, asking, calls, spent, output>>

Publish ==
  LET accepted == {i \in Rows : decision[i] = "accept"} IN
  /\ Open /\ \A i \in Rows : decision[i] # "pending"
  /\ accepted \in Acceptable
  /\ output' = <<accepted>>
  /\ UNCHANGED <<score, asking, calls, spent, decision>>

Next ==
  \/ \E i \in Rows : Ask(i) \/ \E s \in {"pass", "fail"} : Score(i, s)
  \/ \E cost \in 0..Dearest : Charge(cost)
  \/ Lose \/ Decide \/ Publish

Spec == Init /\ [][Next]_vars
=============================================================================
