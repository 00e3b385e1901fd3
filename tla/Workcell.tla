------------------------------ MODULE Workcell ------------------------------
(***************************************************************************)
(* What the robotics side-effect boundary promises to the devices under    *)
(* it, with no gate, lock or caller in sight: a device changes only by one *)
(* admissible proposal at a time, at the revision and in a state that the  *)
(* proposal names, and a non-idempotent proposal reaches the adapter at    *)
(* most once, whether or not the write behind it took effect.              *)
(* RobotGate is shown to implement this specification.                     *)
(***************************************************************************)
EXTENDS Naturals

CONSTANTS Devices,        \* device identifiers
          States,         \* what a device snapshot holds, besides its revision
          InitialState,   \* the state every device is discovered in
          Proposals,      \* proposal digests
          Target,         \* the device a proposal writes to
          ExpectedRev,    \* proposal.expected_state_revision
          RequiredState,  \* the states that meet the rule's preconditions
          Effect,         \* what the driver's write does to the state
          NonIdempotent,  \* proposals declared non_idempotent
          Admissible      \* proposals without a policy or contract flaw

VARIABLES dev,            \* revision and state of each device
          attempts        \* how often each proposal reached the adapter

vars == <<dev, attempts>>

Init ==
  /\ dev = [d \in Devices |-> [rev |-> 0, state |-> InitialState]]
  /\ attempts = [p \in Proposals |-> 0]

\* The adapter is invoked for p; nothing has moved yet.
Attempt(p) ==
  /\ p \in Admissible
  /\ p \in NonIdempotent => attempts[p] = 0
  /\ attempts' = [attempts EXCEPT ![p] = @ + 1]
  /\ UNCHANGED dev

\* The write behind an attempt takes effect.
TakeEffect(p) ==
  LET d == Target[p] IN
  /\ attempts[p] > 0
  /\ dev[d].rev = ExpectedRev[p]
  /\ dev[d].state \in RequiredState[p]
  /\ dev' = [dev EXCEPT ![d] = [rev   |-> dev[d].rev + 1,
                                state |-> Effect[p][dev[d].state]]]
  /\ UNCHANGED attempts

Next == \E p \in Proposals : Attempt(p) \/ TakeEffect(p)

Spec == Init /\ [][Next]_vars
=============================================================================
