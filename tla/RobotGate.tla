------------------------------ MODULE RobotGate ------------------------------
(***************************************************************************)
(* The robotics side-effect boundary: ActionExecutor.process and reconcile *)
(* (robotics/action_executor.py) over DeviceEmulator                       *)
(* (robotics/device_emulator.py), the pure decision of                     *)
(* robotics/action_gate.py and the driver of robotics/fake_driver.py.      *)
(*                                                                         *)
(* A call of process is a sequence of atomic steps of its caller: reserve, *)
(* observe, decide, begin the invocation, drive the device, record the     *)
(* outcome, release.  Only reserve and release hold the emulator's Lock;   *)
(* every other interleaving of two callers is possible.                    *)
(***************************************************************************)
EXTENDS Naturals, Sequences

CONSTANTS Callers,        \* threads that call the one executor
          Devices, States, InitialState, Proposals, Target, ExpectedRev,
          RequiredState, Effect, NonIdempotent,
          Operations,     \* (device, operation) pairs
          Operation,      \* the one a proposal invokes
          Depends,        \* the rule's dependencies
          NeedsApproval,  \* proposals whose risk class requires approval
          Approvals,      \* approvals that callers bring
          Flaws,          \* static reasons that refuse the proposal
          MaxDisturbances \* bound: events from outside in one behaviour

\* The reasons of decide_action in the order in which it looks for them.
CheckOrder == <<
  "policy_digest_invalid", "proposal_digest_invalid",
  "non_idempotent_retry_forbidden",
  "unresolved_outcome_requires_reconciliation", "operation_not_allowed",
  "device_unreachable", "device_identity_mismatch", "risk_class_mismatch",
  "idempotency_mismatch", "tainted_evidence", "emergency_stop_active",
  "device_lock_conflict", "state_revision_stale", "driver_contract_invalid",
  "deployment_argument_invalid", "deployment_limit_exceeded",
  "precondition_contract_invalid", "precondition_failed", "approval_required",
  "approval_invalid">>

\* approval_invalid stands for the three ways an approval fails its checks:
\* its digest, the proposal it is bound to, its risk class.
ApprovalKinds == {"none", "valid", "invalid"}

StaticReasons == {
  "policy_digest_invalid", "proposal_digest_invalid", "operation_not_allowed",
  "device_identity_mismatch", "risk_class_mismatch", "idempotency_mismatch",
  "tainted_evidence", "driver_contract_invalid",
  "deployment_argument_invalid", "deployment_limit_exceeded",
  "precondition_contract_invalid"}

Escalating == {
  "non_idempotent_retry_forbidden",
  "unresolved_outcome_requires_reconciliation", "device_unreachable",
  "device_lock_conflict", "state_revision_stale", "approval_required",
  "approval_invalid"}

FaultModes == {"unreachable_read", "write_failed",
               "outcome_unknown_before_apply", "outcome_unknown_after_apply"}

ASSUME ProposalAssumption ==
  /\ InitialState \in States
  /\ Target \in [Proposals -> Devices]
  /\ Operation \in [Proposals -> Operations]
  /\ Depends \in [Proposals -> SUBSET Devices]
  /\ ExpectedRev \in [Proposals -> Nat]
  /\ RequiredState \in [Proposals -> SUBSET States]
  /\ Effect \in [Proposals -> [States -> States]]
  /\ Flaws \in [Proposals -> SUBSET StaticReasons]
  /\ NonIdempotent \subseteq Proposals
  /\ NeedsApproval \subseteq Proposals
  /\ "none" \in Approvals /\ Approvals \subseteq ApprovalKinds
  /\ MaxDisturbances \in Nat
  /\ Devices # {} /\ Proposals # {}

VARIABLES
  dev,            \* _drivers: the snapshot each driver would answer with
  readFaults,     \* _faults[(device, None)]
  writeFaults,    \* _faults[(device, operation)]
  stops,          \* _emergency_stops
  locks,          \* _external_locks
  reservations,   \* _reservations
  unresolved,     \* _unresolved_devices
  attempted,      \* _attempted_non_idempotent
  pc,             \* where each caller is
  prop,           \* the proposal each caller last brought
  granted,        \* the operator approval it came with
  unavailable,    \* what reserve() yielded to the caller
  snap,           \* what _fresh_inputs read for the caller
  outcome,        \* verdict or receipt status of the caller's last call
  subject,        \* the device a caller reconciles
  attempts,       \* history: entries of _invocations, counted by proposal
  doubt,          \* history: devices no read has observed since an
                  \* outcome_unknown write
  disturbances    \* history: stops, locks and faults set from outside so far

workcell == <<dev, readFaults, writeFaults>>
operator == <<stops, locks>>
executor == <<unresolved, attempted>>
call     == <<prop, granted, unavailable, snap, outcome, subject>>
vars == <<dev, readFaults, writeFaults, stops, locks, reservations,
          unresolved, attempted, pc, prop, granted, unavailable, snap,
          outcome, subject, attempts, doubt, disturbances>>

Snapshot == [rev : Nat, state : States]
NoSnapshot == [rev |-> 0, state |-> "unreachable"]
Steps == {"idle", "reserved", "observed", "approved", "driving", "record",
          "release", "clearing"}
Outcomes == {"none", "deny", "escalate", "succeeded", "failed",
             "outcome_unknown", "read"}

\* action_gate.required_devices: the target and the rule's dependencies.
Required(p) == {Target[p]} \cup Depends[p]

NoCall == CHOOSE p \in Proposals : TRUE
NoSubject == CHOOSE d \in Devices : TRUE

Init ==
  /\ dev = [d \in Devices |-> [rev |-> 0, state |-> InitialState]]
  /\ readFaults = [d \in Devices |-> <<>>]
  /\ writeFaults = [o \in Operations |-> <<>>]
  /\ stops = {} /\ locks = {} /\ reservations = {}
  /\ unresolved = {} /\ attempted = {}
  /\ pc = [c \in Callers |-> "idle"]
  /\ prop = [c \in Callers |-> NoCall]
  /\ granted = [c \in Callers |-> "none"]
  /\ unavailable = [c \in Callers |-> {}]
  /\ snap = [c \in Callers |-> NoSnapshot]
  /\ outcome = [c \in Callers |-> "none"]
  /\ subject = [c \in Callers |-> NoSubject]
  /\ attempts = [p \in Proposals |-> 0]
  /\ doubt = {}
  /\ disturbances = 0

-----------------------------------------------------------------------------
(* ActionExecutor.process, one step of its caller at a time.               *)

\* emulator.reserve: under the Lock, all requested devices or none of them.
Reserve(c, p, a) ==
  LET taken == Required(p) \cap (locks \cup reservations) IN
  /\ pc[c] = "idle"
  /\ pc' = [pc EXCEPT ![c] = "reserved"]
  /\ prop' = [prop EXCEPT ![c] = p]
  /\ granted' = [granted EXCEPT ![c] = a]
  /\ unavailable' = [unavailable EXCEPT ![c] = taken]
  /\ reservations' = IF taken = {} THEN reservations \cup Required(p)
                                   ELSE reservations
  /\ UNCHANGED <<workcell, operator, executor, snap, outcome, subject,
                 attempts, doubt, disturbances>>

\* snapshot(): an unreachable_read at the head of the queue is consumed.
Unreachable(d) ==
  /\ readFaults[d] # <<>>
  /\ Head(readFaults[d]) = "unreachable_read"

\* _fresh_inputs: no reservation is needed to read.
Observe(c) ==
  LET d == Target[prop[c]] IN
  /\ pc[c] = "reserved"
  /\ pc' = [pc EXCEPT ![c] = "observed"]
  /\ \/ /\ Unreachable(d)
        /\ readFaults' = [readFaults EXCEPT ![d] = Tail(@)]
        /\ snap' = [snap EXCEPT ![c] = NoSnapshot]
     \/ /\ ~ Unreachable(d)
        /\ snap' = [snap EXCEPT ![c] = dev[d]]
        /\ UNCHANGED readFaults
  /\ UNCHANGED <<dev, writeFaults, operator, reservations, executor, prop,
                 granted, unavailable, outcome, subject, attempts, doubt,
                 disturbances>>

\* Single checks of the decision, each preceded by a mutant of it.
IgnoreFlaws(p, reason) == FALSE
StaticFlaw(p, reason) == reason \in Flaws[p]

IgnoreState(c) == FALSE
PreconditionFails(c) == snap[c].state \notin RequiredState[prop[c]]

IgnoreLocks(c) == FALSE
LockConflict(c) == unavailable[c] # {}

\* Whether decide_action would return this reason, were it the first.
Refuses(c, reason) ==
  LET p == prop[c] IN
  \/ StaticFlaw(p, reason)
  \/ /\ reason = "non_idempotent_retry_forbidden"
     /\ p \in attempted
  \/ /\ reason = "unresolved_outcome_requires_reconciliation"
     /\ Target[p] \in unresolved
  \/ /\ reason = "device_unreachable"
     /\ snap[c] = NoSnapshot
  \/ /\ reason = "emergency_stop_active"
     /\ Required(p) \cap stops # {}
  \/ /\ reason = "device_lock_conflict"
     /\ LockConflict(c)
  \/ /\ reason = "state_revision_stale"
     /\ snap[c].rev # ExpectedRev[p]
  \/ /\ reason = "precondition_failed"
     /\ PreconditionFails(c)
  \/ /\ reason = "approval_required"
     /\ p \in NeedsApproval /\ granted[c] = "none"
  \/ /\ reason = "approval_invalid"
     /\ granted[c] = "invalid"

Approved(c) == \A i \in DOMAIN CheckOrder : ~ Refuses(c, CheckOrder[i])

FirstReason(c) ==
  CheckOrder[CHOOSE i \in DOMAIN CheckOrder :
               /\ Refuses(c, CheckOrder[i])
               /\ \A j \in 1..(i - 1) : ~ Refuses(c, CheckOrder[j])]

\* decide_action, and the not_invoked receipt of a refused proposal.
Decide(c) ==
  /\ pc[c] = "observed"
  /\ \/ /\ Approved(c)
        /\ pc' = [pc EXCEPT ![c] = "approved"]
        /\ UNCHANGED outcome
     \/ /\ ~ Approved(c)
        /\ pc' = [pc EXCEPT ![c] = "release"]
        /\ outcome' = [outcome EXCEPT ![c] =
                         IF FirstReason(c) \in Escalating THEN "escalate"
                                                          ELSE "deny"]
  /\ UNCHANGED <<workcell, operator, reservations, executor, prop, granted,
                 unavailable, snap, subject, attempts, doubt, disturbances>>

\* invoke() up to its append: the stop of the target is looked at again, and
\* raises before anything counts as an invocation.
BeginInvoke(c) ==
  LET p == prop[c] IN
  /\ pc[c] = "approved"
  /\ \/ /\ Target[p] \in stops
        /\ pc' = [pc EXCEPT ![c] = "record"]
        /\ outcome' = [outcome EXCEPT ![c] = "failed"]
        /\ UNCHANGED attempts
     \/ /\ Target[p] \notin stops
        /\ pc' = [pc EXCEPT ![c] = "driving"]
        /\ attempts' = [attempts EXCEPT ![p] = @ + 1]
        /\ UNCHANGED outcome
  /\ UNCHANGED <<workcell, operator, reservations, executor, prop, granted,
                 unavailable, snap, subject, doubt, disturbances>>

\* driver.write past its checks: the effect, and one revision further.
Write(p) ==
  LET d == Target[p] IN
     dev' = [dev EXCEPT ![d] = [rev   |-> dev[d].rev + 1,
                                state |-> Effect[p][dev[d].state]]]

\* invoke() after its append: the queued fault, whatever its mode, is consumed;
\* driver.write raises on a stale revision, which process() turns into "failed".
Drive(c) ==
  LET p     == prop[c]
      d     == Target[p]
      o     == Operation[p]
      fault == IF writeFaults[o] = <<>> THEN "none" ELSE Head(writeFaults[o])
      lost  == fault \in {"write_failed", "outcome_unknown_before_apply"}
      stale == dev[d].rev # ExpectedRev[p]
  IN
  /\ pc[c] = "driving"
  /\ pc' = [pc EXCEPT ![c] = "record"]
  /\ writeFaults' = IF fault = "none" THEN writeFaults
                    ELSE [writeFaults EXCEPT ![o] = Tail(@)]
  /\ IF ~ lost /\ ~ stale THEN Write(p) ELSE UNCHANGED dev
  /\ outcome' = [outcome EXCEPT ![c] =
       CASE fault = "write_failed" -> "failed"
         [] fault = "outcome_unknown_before_apply" -> "outcome_unknown"
         [] ~ lost /\ stale -> "failed"
         [] ~ stale /\ fault = "outcome_unknown_after_apply" -> "outcome_unknown"
         [] OTHER -> "succeeded"]
  /\ doubt' = IF outcome'[c] = "outcome_unknown" THEN doubt \cup {d} ELSE doubt
  /\ UNCHANGED <<readFaults, operator, reservations, executor, prop, granted,
                 unavailable, snap, subject, attempts, disturbances>>

\* A non-idempotent proposal is remembered whatever became of its attempt.
RememberedIfSucceeded(c) ==
  IF prop[c] \in NonIdempotent /\ outcome[c] = "succeeded" THEN {prop[c]} ELSE {}
RememberedAlways(c) == {prop[c]}
Remembered(c) == IF prop[c] \in NonIdempotent THEN {prop[c]} ELSE {}

\* An unknown outcome marks the device, for idempotent proposals too.
MarkedIfNonIdempotent(c) ==
  IF outcome[c] = "outcome_unknown" /\ prop[c] \in NonIdempotent
  THEN {Target[prop[c]]} ELSE {}
Marked(c) == IF outcome[c] = "outcome_unknown" THEN {Target[prop[c]]} ELSE {}

\* process() after invoke.
Record(c) ==
  /\ pc[c] = "record"
  /\ pc' = [pc EXCEPT ![c] = "release"]
  /\ attempted' = attempted \cup Remembered(c)
  /\ unresolved' = unresolved \cup Marked(c)
  /\ UNCHANGED <<workcell, operator, reservations, prop, granted, unavailable,
                 snap, outcome, subject, attempts, doubt, disturbances>>

\* What the finally of reserve() gives back: nothing when nothing was taken.
FreedAlways(c) == Required(prop[c])
Freed(c) == IF unavailable[c] = {} THEN Required(prop[c]) ELSE {}

\* The finally of reserve(), and the return of process().
Release(c) ==
  /\ pc[c] = "release"
  /\ pc' = [pc EXCEPT ![c] = "idle"]
  /\ reservations' = reservations \ Freed(c)
  /\ prop' = [prop EXCEPT ![c] = NoCall]
  /\ granted' = [granted EXCEPT ![c] = "none"]
  /\ unavailable' = [unavailable EXCEPT ![c] = {}]
  /\ snap' = [snap EXCEPT ![c] = NoSnapshot]
  /\ outcome' = [outcome EXCEPT ![c] = "none"]
  /\ UNCHANGED <<workcell, operator, executor, subject, attempts, doubt,
                 disturbances>>

-----------------------------------------------------------------------------
(* ActionExecutor.reconcile takes no reservation.                          *)

\* The read of reconcile; a read that fails raises and changes no mark.
ReconcileRead(c, d) ==
  /\ pc[c] = "idle"
  /\ \/ /\ Unreachable(d)
        /\ readFaults' = [readFaults EXCEPT ![d] = Tail(@)]
        /\ UNCHANGED <<pc, subject, doubt>>
     \/ /\ ~ Unreachable(d)
        /\ pc' = [pc EXCEPT ![c] = "clearing"]
        /\ subject' = [subject EXCEPT ![c] = d]
        /\ doubt' = doubt \ {d}
        /\ UNCHANGED readFaults
  /\ UNCHANGED <<dev, writeFaults, operator, reservations, executor, prop,
                 granted, unavailable, snap, outcome, attempts, disturbances>>

ReconcileClear(c) ==
  /\ pc[c] = "clearing"
  /\ pc' = [pc EXCEPT ![c] = "idle"]
  /\ unresolved' = unresolved \ {subject[c]}
  /\ subject' = [subject EXCEPT ![c] = NoSubject]
  /\ UNCHANGED <<workcell, operator, reservations, attempted, prop, granted,
                 unavailable, snap, outcome, attempts, doubt, disturbances>>

-----------------------------------------------------------------------------
(* What happens to the workcell from outside the executor.                 *)

Disturb ==
  /\ disturbances < MaxDisturbances
  /\ disturbances' = disturbances + 1
  /\ UNCHANGED <<dev, reservations, executor, pc, call, attempts, doubt>>

SetEmergencyStop(d) ==
  /\ Disturb
  /\ stops' \in {stops \cup {d}, stops \ {d}}
  /\ UNCHANGED <<readFaults, writeFaults, locks>>

SetExternalLock(d) ==
  /\ Disturb
  /\ locks' \in {locks \cup {d}, locks \ {d}}
  /\ UNCHANGED <<readFaults, writeFaults, stops>>

\* inject_fault without an operation: a fault of the device's discovery.
InjectReadFault(d, mode) ==
  /\ Disturb
  /\ readFaults' = [readFaults EXCEPT ![d] = Append(@, mode)]
  /\ UNCHANGED <<writeFaults, operator>>

InjectFault(o, mode) ==
  /\ Disturb
  /\ writeFaults' = [writeFaults EXCEPT ![o] = Append(@, mode)]
  /\ UNCHANGED <<readFaults, operator>>

\* read() consumes an unreachable_read of the operation, and nothing else.
ReadOperation(o) ==
  /\ writeFaults[o] # <<>> /\ Head(writeFaults[o]) = "unreachable_read"
  /\ writeFaults' = [writeFaults EXCEPT ![o] = Tail(@)]
  /\ UNCHANGED <<dev, readFaults, operator, reservations, executor, pc, call,
                 attempts, doubt, disturbances>>

-----------------------------------------------------------------------------
Process(c) ==
  \/ \E p \in Proposals, a \in Approvals : Reserve(c, p, a)
  \/ Observe(c) \/ Decide(c) \/ BeginInvoke(c) \/ Drive(c) \/ Record(c)
  \/ Release(c)

Reconcile(c) == (\E d \in Devices : ReconcileRead(c, d)) \/ ReconcileClear(c)

Environment ==
  \/ \E d \in Devices :
       \/ SetEmergencyStop(d) \/ SetExternalLock(d)
       \/ \E mode \in FaultModes : InjectReadFault(d, mode)
  \/ \E o \in Operations :
       \/ \E mode \in FaultModes : InjectFault(o, mode)
       \/ ReadOperation(o)

Next == (\E c \in Callers : Process(c) \/ Reconcile(c)) \/ Environment

Spec == Init /\ [][Next]_vars

-----------------------------------------------------------------------------
Holding(c) == pc[c] \notin {"idle", "clearing"} /\ unavailable[c] = {}

TypeOK ==
  /\ dev \in [Devices -> Snapshot]
  /\ readFaults \in [Devices -> Seq(FaultModes)]
  /\ writeFaults \in [Operations -> Seq(FaultModes)]
  /\ stops \subseteq Devices
  /\ locks \subseteq Devices
  /\ reservations \subseteq Devices
  /\ unresolved \subseteq Devices
  /\ attempted \subseteq NonIdempotent
  /\ pc \in [Callers -> Steps]
  /\ prop \in [Callers -> Proposals]
  /\ granted \in [Callers -> Approvals]
  /\ unavailable \in [Callers -> SUBSET Devices]
  /\ snap \in [Callers -> Snapshot \cup {NoSnapshot}]
  /\ outcome \in [Callers -> Outcomes]
  /\ subject \in [Callers -> Devices]
  /\ attempts \in [Proposals -> Nat]
  /\ doubt \subseteq Devices
  /\ disturbances \in 0..MaxDisturbances

\* What is reserved is exactly what the calls in progress hold, and no device
\* is held by two of them: the all-or-nothing update of reserve() and the
\* difference_update of its finally neither leak nor free another's device.
ReservationsExact ==
  /\ \A d \in Devices :
       d \in reservations <=>
         \E c \in Callers : Holding(c) /\ d \in Required(prop[c])
  /\ \A c, k \in Callers :
       Holding(c) /\ Holding(k) /\ c # k =>
         Required(prop[c]) \cap Required(prop[k]) = {}

\* Between the decision and the write nothing moves: the device the driver is
\* about to write is still the one _fresh_inputs read, at the revision the
\* proposal expects, so the driver's own staleness check never has to fire.
FreshAtWrite ==
  \A c \in Callers :
    pc[c] \in {"approved", "driving"} =>
      /\ snap[c] = dev[Target[prop[c]]]
      /\ snap[c].rev = ExpectedRev[prop[c]]

\* A non-idempotent proposal reaches the adapter at most once, whoever brings
\* it and whatever became of the first attempt: _attempted_non_idempotent is
\* only updated after invoke() returned, while the reservation still holds.
AtMostOneAttempt == \A p \in NonIdempotent : attempts[p] <= 1

\* No write starts on a device while the outcome of an earlier write to it is
\* unknown and no reconciling read has looked at the device since.
DoubtBlocksTarget ==
  \A c \in Callers : pc[c] = "driving" => Target[prop[c]] \notin doubt

\* The abstract workcell: proposals with a static flaw are never admitted.
W == INSTANCE Workcell WITH Admissible <- {p \in Proposals : Flaws[p] = {}}

\* The gate implements the abstract workcell.
ImplementsWorkcell == W!Spec
=============================================================================
