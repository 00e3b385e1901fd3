--------------------------- MODULE RobotGateProofs ---------------------------
(***************************************************************************)
(* Proofs about RobotGate for any number of callers, devices and proposals *)
(* and any policy: type correctness, the reservation discipline, at most   *)
(* one attempt of a non-idempotent proposal, and the implementation of the *)
(* abstract Workcell.                                                      *)
(***************************************************************************)
EXTENDS RobotGate, TLAPS

LEMMA DefaultsExist == NoCall \in Proposals /\ NoSubject \in Devices
  BY ProposalAssumption DEF NoCall, NoSubject

LEMMA RequiredType ==
  ASSUME NEW p \in Proposals
  PROVE  /\ Target[p] \in Devices
         /\ Required(p) \subseteq Devices
         /\ Target[p] \in Required(p)
  BY ProposalAssumption DEF Required

LEMMA TailOfFaults ==
  ASSUME NEW q \in Seq(FaultModes), q # <<>>
  PROVE  Tail(q) \in Seq(FaultModes)
  OBVIOUS

LEMMA ExceptType ==
  ASSUME NEW D, NEW S, NEW f \in [D -> S], NEW d \in D, NEW x \in S
  PROVE  [f EXCEPT ![d] = x] \in [D -> S]
  OBVIOUS

\* A queue of faults that loses its head is still one.
LEMMA QueueAfterRead ==
  ASSUME TypeOK, NEW d \in Devices, Unreachable(d)
  PROVE  [readFaults EXCEPT ![d] = Tail(@)] \in [Devices -> Seq(FaultModes)]
<1>1. readFaults \in [Devices -> Seq(FaultModes)]
  BY DEF TypeOK
<1>2. readFaults[d] \in Seq(FaultModes) /\ readFaults[d] # <<>>
  BY <1>1 DEF Unreachable
<1>3. Tail(readFaults[d]) \in Seq(FaultModes)
  BY <1>2, TailOfFaults
<1>4. QED
  BY <1>1, <1>3, ExceptType

\* Every variable keeps its type: in particular only non-idempotent proposals
\* are ever remembered as attempted.
THEOREM TypeCorrect == Spec => []TypeOK
<1>1. Init => TypeOK
  BY DefaultsExist, ProposalAssumption
     DEF Init, TypeOK, Snapshot, Steps, Outcomes
<1>2. TypeOK /\ [Next]_vars => TypeOK'
  <2> SUFFICES ASSUME TypeOK, [Next]_vars PROVE TypeOK'
    OBVIOUS
  <2> USE DEF TypeOK
  <2>1. ASSUME NEW c \in Callers, NEW p \in Proposals, NEW a \in Approvals,
               Reserve(c, p, a)
        PROVE  TypeOK'
    BY <2>1, RequiredType
       DEF Reserve, workcell, operator, executor, Steps
  <2>2. ASSUME NEW c \in Callers, Observe(c) PROVE TypeOK'
    <3>1. Target[prop[c]] \in Devices
      BY RequiredType
    <3>2. snap' \in [Callers -> Snapshot \cup {NoSnapshot}]
      BY <2>2, <3>1 DEF Observe
    <3>3. readFaults' \in [Devices -> Seq(FaultModes)]
      <4>1. CASE Unreachable(Target[prop[c]])
        <5>1. readFaults' = [readFaults EXCEPT
                               ![Target[prop[c]]] = Tail(@)]
          BY <2>2, <4>1 DEF Observe
        <5>2. QED
          BY <5>1, <4>1, <3>1, QueueAfterRead
      <4>2. CASE ~ Unreachable(Target[prop[c]])
        BY <2>2, <4>2 DEF Observe
      <4>3. QED
        BY <4>1, <4>2
    <3>4. QED
      BY <2>2, <3>2, <3>3 DEF Observe, operator, executor, Steps
  <2>3. ASSUME NEW c \in Callers, Decide(c) PROVE TypeOK'
    BY <2>3 DEF Decide, workcell, operator, executor, Steps, Outcomes
  <2>4. ASSUME NEW c \in Callers, BeginInvoke(c) PROVE TypeOK'
    <3>1. attempts' \in [Proposals -> Nat]
      <4>1. CASE UNCHANGED attempts
        BY <4>1
      <4>2. CASE attempts' = [attempts EXCEPT ![prop[c]] = @ + 1]
        <5>1. prop[c] \in Proposals /\ attempts \in [Proposals -> Nat]
          OBVIOUS
        <5>2. attempts[prop[c]] + 1 \in Nat
          BY <5>1
        <5>3. QED
          BY <5>1, <5>2, <4>2, ExceptType
      <4>3. QED
        BY <2>4, <4>1, <4>2 DEF BeginInvoke
    <3>2. pc' \in [Callers -> Steps] /\ outcome' \in [Callers -> Outcomes]
      BY <2>4 DEF BeginInvoke, Steps, Outcomes
    <3>3. QED
      BY <2>4, <3>1, <3>2 DEF BeginInvoke, workcell, operator, executor
  <2>5. ASSUME NEW c \in Callers, Drive(c) PROVE TypeOK'
    <3>1. Target[prop[c]] \in Devices /\ prop[c] \in Proposals
      BY RequiredType
    <3>2. dev' \in [Devices -> Snapshot]
      <4>1. CASE UNCHANGED dev
        BY <4>1
      <4>2. CASE Write(prop[c])
        <5> DEFINE d == Target[prop[c]]
        <5>1. dev[d].rev \in Nat /\ dev[d].state \in States
          BY <3>1 DEF Snapshot
        <5>2. Effect[prop[c]][dev[d].state] \in States
          BY <5>1, <3>1, ProposalAssumption
        <5>3. [rev |-> dev[d].rev + 1, state |-> Effect[prop[c]][dev[d].state]]
                \in Snapshot
          BY <5>1, <5>2 DEF Snapshot
        <5>4. QED
          BY <4>2, <5>3, <3>1 DEF Write
      <4>3. QED
        BY <2>5, <4>1, <4>2 DEF Drive
    <3>3. writeFaults' \in [Operations -> Seq(FaultModes)]
      BY <2>5, <3>1, TailOfFaults, ProposalAssumption DEF Drive
    <3>4. outcome' \in [Callers -> Outcomes]
      BY <2>5 DEF Drive, Outcomes
    <3>5. doubt' \subseteq Devices
      BY <2>5, <3>1 DEF Drive
    <3>6. QED
      BY <2>5, <3>2, <3>3, <3>4, <3>5 DEF Drive, operator, executor, Steps
  <2>6. ASSUME NEW c \in Callers, Record(c) PROVE TypeOK'
    <3>1. Target[prop[c]] \in Devices
      BY RequiredType
    <3>2. Remembered(c) \subseteq NonIdempotent /\ Marked(c) \subseteq Devices
      BY <3>1 DEF Remembered, Marked
    <3>3. QED
      BY <2>6, <3>2 DEF Record, workcell, operator, Steps
  <2>7. ASSUME NEW c \in Callers, Release(c) PROVE TypeOK'
    BY <2>7, DefaultsExist, ProposalAssumption
       DEF Release, workcell, operator, executor, Steps, Outcomes
  <2>8. ASSUME NEW c \in Callers, NEW d \in Devices, ReconcileRead(c, d)
        PROVE  TypeOK'
    <3>1. readFaults' \in [Devices -> Seq(FaultModes)]
      <4>1. CASE Unreachable(d)
        <5>1. readFaults' = [readFaults EXCEPT ![d] = Tail(@)]
          BY <2>8, <4>1 DEF ReconcileRead
        <5>2. QED
          BY <5>1, <4>1, QueueAfterRead
      <4>2. CASE ~ Unreachable(d)
        BY <2>8, <4>2 DEF ReconcileRead
      <4>3. QED
        BY <4>1, <4>2
    <3>2. QED
      BY <2>8, <3>1 DEF ReconcileRead, operator, executor, Steps
  <2>9. ASSUME NEW c \in Callers, ReconcileClear(c) PROVE TypeOK'
    BY <2>9, DefaultsExist DEF ReconcileClear, workcell, operator, Steps
  <2>10. ASSUME NEW d \in Devices, SetEmergencyStop(d) PROVE TypeOK'
    BY <2>10, ProposalAssumption DEF SetEmergencyStop, Disturb, executor, call
  <2>11. ASSUME NEW d \in Devices, SetExternalLock(d) PROVE TypeOK'
    BY <2>11, ProposalAssumption DEF SetExternalLock, Disturb, executor, call
  <2>12. ASSUME NEW d \in Devices, NEW mode \in FaultModes,
                InjectReadFault(d, mode)
         PROVE  TypeOK'
    <3>1. Append(readFaults[d], mode) \in Seq(FaultModes)
      OBVIOUS
    <3>2. readFaults' \in [Devices -> Seq(FaultModes)]
      BY <2>12, <3>1, ExceptType DEF InjectReadFault
    <3>3. QED
      BY <2>12, <3>2, ProposalAssumption
         DEF InjectReadFault, Disturb, executor, call, operator
  <2>13. ASSUME NEW o \in Operations, NEW mode \in FaultModes,
                InjectFault(o, mode)
         PROVE  TypeOK'
    <3>1. Append(writeFaults[o], mode) \in Seq(FaultModes)
      OBVIOUS
    <3>2. writeFaults' \in [Operations -> Seq(FaultModes)]
      BY <2>13, <3>1, ExceptType DEF InjectFault
    <3>3. QED
      BY <2>13, <3>2, ProposalAssumption
         DEF InjectFault, Disturb, executor, call, operator
  <2>14. ASSUME NEW o \in Operations, ReadOperation(o) PROVE TypeOK'
    <3>1. Tail(writeFaults[o]) \in Seq(FaultModes)
      BY <2>14 DEF ReadOperation
    <3>2. writeFaults' \in [Operations -> Seq(FaultModes)]
      BY <2>14, <3>1, ExceptType DEF ReadOperation
    <3>3. QED
      BY <2>14, <3>2 DEF ReadOperation, executor, call, operator
  <2>15. CASE UNCHANGED vars
    BY <2>15 DEF vars
  <2>16. QED
    BY <2>1, <2>2, <2>3, <2>4, <2>5, <2>6, <2>7, <2>8, <2>9, <2>10, <2>11,
       <2>12, <2>13, <2>14, <2>15 DEF Next, Process, Reconcile, Environment
<1>3. QED
  BY <1>1, <1>2, PTL DEF Spec

-----------------------------------------------------------------------------
(* The reservation discipline.                                             *)

\* A caller past an approval was refused no device.
Cleared ==
  \A c \in Callers :
    pc[c] \in {"approved", "driving", "record"} => unavailable[c] = {}

Discipline == ReservationsExact /\ Cleared

\* An approval means that no check failed.
LEMMA ApprovedMeans ==
  ASSUME NEW c \in Callers, prop[c] \in Proposals, Approved(c)
  PROVE  /\ unavailable[c] = {}
         /\ Target[prop[c]] \notin unresolved
         /\ snap[c] # NoSnapshot
         /\ snap[c].rev = ExpectedRev[prop[c]]
         /\ snap[c].state \in RequiredState[prop[c]]
         /\ prop[c] \notin attempted
         /\ Flaws[prop[c]] = {}
<1>1. \A i \in 1..19 : ~ Refuses(c, CheckOrder[i])
  BY DEF Approved, CheckOrder
<1>2. /\ CheckOrder[3] = "non_idempotent_retry_forbidden"
      /\ CheckOrder[4] = "unresolved_outcome_requires_reconciliation"
      /\ CheckOrder[6] = "device_unreachable"
      /\ CheckOrder[12] = "device_lock_conflict"
      /\ CheckOrder[13] = "state_revision_stale"
      /\ CheckOrder[18] = "precondition_failed"
  BY DEF CheckOrder
<1>3. /\ ~ Refuses(c, CheckOrder[3]) /\ ~ Refuses(c, CheckOrder[4])
      /\ ~ Refuses(c, CheckOrder[6])
  BY <1>1
<1>4. /\ ~ Refuses(c, CheckOrder[12]) /\ ~ Refuses(c, CheckOrder[13])
      /\ ~ Refuses(c, CheckOrder[18])
  BY <1>1
<1>5. \A r \in StaticReasons : \E i \in 1..19 : CheckOrder[i] = r
  BY DEF StaticReasons, CheckOrder
<1>6. \A r \in StaticReasons : r \notin Flaws[prop[c]]
  BY <1>1, <1>5 DEF Refuses, StaticFlaw
<1>7. Flaws[prop[c]] = {}
  BY <1>6, ProposalAssumption
<1>8. QED
  BY <1>2, <1>3, <1>4, <1>7 DEF Refuses, LockConflict, PreconditionFails

LEMMA DisciplineInductive ==
  TypeOK /\ Discipline /\ [Next]_vars => Discipline'
<1> SUFFICES ASSUME TypeOK, Discipline, [Next]_vars PROVE Discipline'
  OBVIOUS
<1> USE DEF Discipline, ReservationsExact, Cleared, Holding
<1>0. /\ pc \in [Callers -> Steps] /\ prop \in [Callers -> Proposals]
      /\ unavailable \in [Callers -> SUBSET Devices]
      /\ reservations \subseteq Devices
  BY DEF TypeOK
<1>1. ASSUME NEW c \in Callers, NEW p \in Proposals, NEW a \in Approvals,
             Reserve(c, p, a)
      PROVE  Discipline'
  <2>1. \A k \in Callers : k # c =>
          pc'[k] = pc[k] /\ prop'[k] = prop[k] /\ unavailable'[k] = unavailable[k]
    BY <1>0, <1>1 DEF Reserve
  <2>2. /\ pc[c] = "idle" /\ pc'[c] = "reserved" /\ prop'[c] = p
        /\ unavailable'[c] = Required(p) \cap (locks \cup reservations)
        /\ reservations' = IF unavailable'[c] = {}
                           THEN reservations \cup Required(p) ELSE reservations
    BY <1>0, <1>1 DEF Reserve
  <2>3. Required(p) \subseteq Devices
    BY RequiredType
  <2>4. QED
    BY <1>0, <2>1, <2>2, <2>3
<1>2. ASSUME NEW c \in Callers,
             Observe(c) \/ Decide(c) \/ BeginInvoke(c) \/ Drive(c) \/ Record(c)
      PROVE  Discipline'
  <2>1. UNCHANGED <<reservations, prop, unavailable>>
    BY <1>2 DEF Observe, Decide, BeginInvoke, Drive, Record
  <2>2. \A k \in Callers : k # c => pc'[k] = pc[k]
    BY <1>0, <1>2 DEF Observe, Decide, BeginInvoke, Drive, Record
  <2>3. /\ pc[c] \notin {"idle", "clearing"} /\ pc'[c] \notin {"idle", "clearing"}
        /\ pc'[c] \in {"approved", "driving", "record"} => unavailable[c] = {}
    <3>1. CASE Decide(c)
      BY <1>0, <3>1, ApprovedMeans DEF Decide
    <3>2. CASE ~ Decide(c)
      BY <1>0, <1>2, <3>2 DEF Observe, BeginInvoke, Drive, Record
    <3>3. QED
      BY <3>1, <3>2
  <2>4. QED
    BY <1>0, <2>1, <2>2, <2>3
<1>3. ASSUME NEW c \in Callers, Release(c) PROVE Discipline'
  <2>1. \A k \in Callers : k # c =>
          pc'[k] = pc[k] /\ prop'[k] = prop[k] /\ unavailable'[k] = unavailable[k]
    BY <1>0, <1>3 DEF Release
  <2>2. /\ pc[c] = "release" /\ pc'[c] = "idle"
        /\ reservations' = IF unavailable[c] = {}
                           THEN reservations \ Required(prop[c])
                           ELSE reservations
    BY <1>0, <1>3 DEF Release, Freed
  <2>3. QED
    BY <1>0, <2>1, <2>2
<1>4. ASSUME NEW c \in Callers,
             (\E d \in Devices : ReconcileRead(c, d)) \/ ReconcileClear(c)
      PROVE  Discipline'
  <2>1. UNCHANGED <<reservations, prop, unavailable>>
    BY <1>4 DEF ReconcileRead, ReconcileClear
  <2>2. \A k \in Callers : k # c => pc'[k] = pc[k]
    BY <1>0, <1>4 DEF ReconcileRead, ReconcileClear
  <2>3. pc[c] \in {"idle", "clearing"} /\ pc'[c] \in {"idle", "clearing"}
    BY <1>0, <1>4 DEF ReconcileRead, ReconcileClear
  <2>4. QED
    BY <1>0, <2>1, <2>2, <2>3
<1>5. CASE Environment \/ UNCHANGED vars
  <2>1. UNCHANGED <<reservations, prop, unavailable, pc>>
    BY <1>5 DEF Environment, SetEmergencyStop, SetExternalLock, InjectFault,
                InjectReadFault, ReadOperation, Disturb, call, vars
  <2>2. QED
    BY <2>1
<1>6. ASSUME NEW c \in Callers, Process(c) PROVE Discipline'
  <2>1. CASE \E p \in Proposals, a \in Approvals : Reserve(c, p, a)
    BY <1>1, <2>1
  <2>2. QED
    BY <1>2, <1>3, <1>6, <2>1 DEF Process
<1>7. ASSUME NEW c \in Callers, Reconcile(c) PROVE Discipline'
  BY <1>4, <1>7 DEF Reconcile
<1>8. QED
  <2>1. (\E c \in Callers : Process(c) \/ Reconcile(c))
        \/ Environment \/ UNCHANGED vars
    BY DEF Next
  <2>2. QED
    BY <1>5, <1>6, <1>7, <2>1

\* Reservations are exactly what the calls in progress hold, and never overlap.
THEOREM ReservationDiscipline == Spec => []ReservationsExact
<1>1. Init => Discipline
  BY DEF Init, Discipline, ReservationsExact, Cleared, Holding
<1>2. Discipline => ReservationsExact
  BY DEF Discipline
<1>3. QED
  BY <1>1, <1>2, TypeCorrect, DisciplineInductive, PTL DEF Spec

-----------------------------------------------------------------------------
(* What was read stays true until the write.                               *)

\* A holder that has read its device has read it as it still is.
FreshRead ==
  \A c \in Callers :
    pc[c] = "observed" /\ unavailable[c] = {} /\ snap[c] # NoSnapshot =>
      snap[c] = dev[Target[prop[c]]]

\* What an approved call may rely on until its write.
Decided ==
  \A c \in Callers :
    pc[c] \in {"approved", "driving"} =>
      /\ snap[c] = dev[Target[prop[c]]]
      /\ snap[c].rev = ExpectedRev[prop[c]]
      /\ snap[c].state \in RequiredState[prop[c]]
      /\ Flaws[prop[c]] = {}

LEMMA DecideMoves ==
  ASSUME NEW c \in Callers, pc \in [Callers -> Steps], Decide(c)
  PROVE  pc'[c] = "release" \/ (pc'[c] = "approved" /\ Approved(c))
<1>1. CASE Approved(c)
  BY <1>1 DEF Decide
<1>2. CASE ~ Approved(c)
  BY <1>2 DEF Decide
<1>3. QED
  BY <1>1, <1>2

LEMMA DriveMovesTargetOnly ==
  ASSUME TypeOK, NEW c \in Callers, Drive(c),
         NEW d \in Devices, d # Target[prop[c]]
  PROVE  dev'[d] = dev[d]
<1>1. CASE UNCHANGED dev
  BY <1>1
<1>2. CASE Write(prop[c])
  BY <1>2 DEF Write, TypeOK
<1>3. QED
  BY <1>1, <1>2 DEF Drive

\* Two holders write to different devices.
LEMMA HoldersApart ==
  ASSUME TypeOK, ReservationsExact,
         NEW c \in Callers, NEW k \in Callers, c # k, Holding(c), Holding(k)
  PROVE  Target[prop[c]] # Target[prop[k]]
<1>1. prop[c] \in Proposals /\ prop[k] \in Proposals
  BY DEF TypeOK
<1>2. Required(prop[c]) \cap Required(prop[k]) = {}
  BY DEF ReservationsExact
<1>3. QED
  BY <1>1, <1>2, RequiredType

LEMMA FreshInductive ==
  TypeOK /\ Discipline /\ FreshRead /\ Decided /\ [Next]_vars
    => FreshRead' /\ Decided'
<1> SUFFICES ASSUME TypeOK, Discipline, FreshRead, Decided, [Next]_vars
             PROVE  FreshRead' /\ Decided'
  OBVIOUS
<1>0. /\ pc \in [Callers -> Steps] /\ prop \in [Callers -> Proposals]
      /\ unavailable \in [Callers -> SUBSET Devices]
      /\ snap \in [Callers -> Snapshot \cup {NoSnapshot}]
      /\ ReservationsExact
  BY DEF TypeOK, Discipline
<1>1. ASSUME NEW c \in Callers, NEW p \in Proposals, NEW a \in Approvals,
             Reserve(c, p, a)
      PROVE  FreshRead' /\ Decided'
  <2>1. \A k \in Callers : k # c =>
          /\ pc'[k] = pc[k] /\ prop'[k] = prop[k]
          /\ unavailable'[k] = unavailable[k]
    BY <1>0, <1>1 DEF Reserve
  <2>2. pc'[c] = "reserved" /\ UNCHANGED <<snap, dev>>
    BY <1>0, <1>1 DEF Reserve, workcell
  <2>3. QED
    BY <2>1, <2>2 DEF FreshRead, Decided
<1>2. ASSUME NEW c \in Callers, Observe(c) PROVE FreshRead' /\ Decided'
  <2>1. \A k \in Callers : k # c => pc'[k] = pc[k] /\ snap'[k] = snap[k]
    BY <1>0, <1>2 DEF Observe
  <2>2. /\ pc'[c] = "observed" /\ UNCHANGED <<dev, prop, unavailable>>
        /\ snap'[c] = NoSnapshot \/ snap'[c] = dev[Target[prop[c]]]
    BY <1>0, <1>2 DEF Observe
  <2>3. QED
    BY <2>1, <2>2 DEF FreshRead, Decided
<1>3. ASSUME NEW c \in Callers, Decide(c) PROVE FreshRead' /\ Decided'
  <2>1. \A k \in Callers : k # c => pc'[k] = pc[k]
    BY <1>0, <1>3 DEF Decide
  <2>2. UNCHANGED <<dev, prop, unavailable, snap>> /\ pc[c] = "observed"
    BY <1>3 DEF Decide, workcell
  <2>3. pc'[c] = "release" \/ (pc'[c] = "approved" /\ Approved(c))
    BY <1>0, <1>3, DecideMoves
  <2>4. FreshRead'
    BY <2>1, <2>2, <2>3 DEF FreshRead
  <2>5. Decided'
    BY <1>0, <2>1, <2>2, <2>3, ApprovedMeans DEF FreshRead, Decided
  <2>6. QED
    BY <2>4, <2>5
<1>4. ASSUME NEW c \in Callers, BeginInvoke(c) PROVE FreshRead' /\ Decided'
  <2>1. \A k \in Callers : k # c => pc'[k] = pc[k]
    BY <1>0, <1>4 DEF BeginInvoke
  <2>2. UNCHANGED <<dev, prop, unavailable, snap>> /\ pc[c] = "approved"
        /\ pc'[c] \in {"record", "driving"}
    BY <1>0, <1>4 DEF BeginInvoke, workcell
  <2>3. QED
    BY <2>1, <2>2 DEF FreshRead, Decided
<1>5. ASSUME NEW c \in Callers, Drive(c) PROVE FreshRead' /\ Decided'
  <2>1. \A k \in Callers : k # c => pc'[k] = pc[k]
    BY <1>0, <1>5 DEF Drive
  <2>2. UNCHANGED <<prop, unavailable, snap>> /\ pc[c] = "driving"
        /\ pc'[c] = "record"
    BY <1>0, <1>5 DEF Drive
  <2>3. Holding(c)
    BY <2>2 DEF Discipline, Cleared, Holding
  <2>4. ASSUME NEW k \in Callers, k # c, Holding(k)
        PROVE  dev'[Target[prop[k]]] = dev[Target[prop[k]]]
    <3>1. Target[prop[k]] # Target[prop[c]]
      BY <1>0, <2>3, <2>4, HoldersApart
    <3>2. Target[prop[k]] \in Devices
      BY <1>0, RequiredType
    <3>3. QED
      BY <1>5, <3>1, <3>2, DriveMovesTargetOnly
  <2>5. FreshRead'
    BY <2>1, <2>2, <2>4 DEF FreshRead, Holding
  <2>6. Decided'
    BY <2>1, <2>2, <2>4 DEF Decided, Holding, Discipline, Cleared
  <2>7. QED
    BY <2>5, <2>6
<1>6. ASSUME NEW c \in Callers, Record(c) \/ Release(c) \/ ReconcileClear(c)
             \/ \E d \in Devices : ReconcileRead(c, d)
      PROVE  FreshRead' /\ Decided'
  <2>1. \A k \in Callers : k # c =>
          /\ pc'[k] = pc[k] /\ prop'[k] = prop[k]
          /\ unavailable'[k] = unavailable[k] /\ snap'[k] = snap[k]
    BY <1>0, <1>6 DEF Record, Release, ReconcileRead, ReconcileClear
  <2>2. UNCHANGED dev /\ pc'[c] \in {"release", "idle", "clearing"}
    BY <1>0, <1>6 DEF Record, Release, ReconcileRead, ReconcileClear, workcell
  <2>3. QED
    BY <2>1, <2>2 DEF FreshRead, Decided
<1>7. CASE Environment \/ UNCHANGED vars
  <2>1. UNCHANGED <<prop, unavailable, pc, snap, dev>>
    BY <1>7 DEF Environment, SetEmergencyStop, SetExternalLock, InjectFault,
                InjectReadFault, ReadOperation, Disturb, call, vars
  <2>2. QED
    BY <2>1 DEF FreshRead, Decided
<1>8. ASSUME NEW c \in Callers, Process(c) PROVE FreshRead' /\ Decided'
  <2>1. CASE \E p \in Proposals, a \in Approvals : Reserve(c, p, a)
    BY <1>1, <2>1
  <2>2. QED
    BY <1>2, <1>3, <1>4, <1>5, <1>6, <1>8, <2>1 DEF Process
<1>9. ASSUME NEW c \in Callers, Reconcile(c) PROVE FreshRead' /\ Decided'
  BY <1>6, <1>9 DEF Reconcile
<1>10. QED
  <2>1. (\E c \in Callers : Process(c) \/ Reconcile(c))
        \/ Environment \/ UNCHANGED vars
    BY DEF Next
  <2>2. QED
    BY <1>7, <1>8, <1>9, <2>1

\* Nothing moves between the decision and the write.
THEOREM WriteIsFresh == Spec => []FreshAtWrite
<1>1. Init => Discipline /\ FreshRead /\ Decided
  BY DEF Init, Discipline, ReservationsExact, Cleared, Holding, FreshRead,
         Decided
<1>2. Decided => FreshAtWrite
  BY DEF Decided, FreshAtWrite
<1>3. QED
  BY <1>1, <1>2, TypeCorrect, DisciplineInductive, FreshInductive, PTL DEF Spec

-----------------------------------------------------------------------------
(* At most one attempt of a non-idempotent proposal.                       *)

\* While the attempt of a non-idempotent proposal is not yet remembered, the
\* call that made it is still in progress, and holds the device.
Once ==
  \A p \in NonIdempotent :
    /\ attempts[p] <= 1
    /\ attempts[p] > 0 =>
         \/ p \in attempted
         \/ \E c \in Callers : pc[c] \in {"driving", "record"} /\ prop[c] = p

\* An approved non-idempotent proposal has not been attempted.
Unspent ==
  \A c \in Callers :
    pc[c] = "approved" /\ prop[c] \in NonIdempotent => prop[c] \notin attempted

\* A call that drives a device has been counted.
Counted == \A c \in Callers : pc[c] = "driving" => attempts[prop[c]] > 0

LEMMA ApprovedIsFirst ==
  ASSUME TypeOK, Discipline, Once, Unspent,
         NEW c \in Callers, pc[c] = "approved", prop[c] \in NonIdempotent
  PROVE  attempts[prop[c]] = 0
<1>0. /\ prop[c] \in Proposals /\ attempts[prop[c]] \in Nat
      /\ prop[c] \notin attempted
  BY DEF TypeOK, Unspent
<1>1. SUFFICES ASSUME attempts[prop[c]] > 0 PROVE FALSE
  BY <1>0
<1>2. PICK k \in Callers : pc[k] \in {"driving", "record"} /\ prop[k] = prop[c]
  BY <1>0, <1>1 DEF Once
<1>3. k # c /\ Holding(c) /\ Holding(k)
  BY <1>2 DEF Discipline, Cleared, Holding
<1>4. QED
  BY <1>2, <1>3, HoldersApart DEF Discipline

LEMMA OnceInductive ==
  TypeOK /\ Discipline /\ Once /\ Unspent /\ Counted /\ [Next]_vars
    => Once' /\ Unspent' /\ Counted'
<1> SUFFICES ASSUME TypeOK, Discipline, Once, Unspent, Counted, [Next]_vars
             PROVE  Once' /\ Unspent' /\ Counted'
  OBVIOUS
<1>0. /\ pc \in [Callers -> Steps] /\ prop \in [Callers -> Proposals]
      /\ attempts \in [Proposals -> Nat] /\ NonIdempotent \subseteq Proposals
      /\ ReservationsExact
  BY ProposalAssumption DEF TypeOK, Discipline
<1>1. ASSUME NEW c \in Callers, UNCHANGED <<attempts, attempted>>,
             pc[c] \notin {"driving", "record"},
             pc'[c] \notin {"approved", "driving", "record"},
             \A k \in Callers : k # c => pc'[k] = pc[k] /\ prop'[k] = prop[k]
      PROVE  Once' /\ Unspent' /\ Counted'
  BY <1>0, <1>1 DEF Once, Unspent, Counted
<1>2. ASSUME NEW c \in Callers, NEW p \in Proposals, NEW a \in Approvals,
             Reserve(c, p, a)
      PROVE  Once' /\ Unspent' /\ Counted'
  <2>1. /\ pc[c] = "idle" /\ pc'[c] = "reserved"
        /\ UNCHANGED <<attempts, attempted>>
        /\ \A k \in Callers : k # c => pc'[k] = pc[k] /\ prop'[k] = prop[k]
    BY <1>0, <1>2 DEF Reserve, executor
  <2>2. QED
    BY <2>1, <1>1
<1>3. ASSUME NEW c \in Callers,
             Observe(c) \/ Release(c) \/ ReconcileClear(c)
             \/ \E d \in Devices : ReconcileRead(c, d)
      PROVE  Once' /\ Unspent' /\ Counted'
  <2>1. UNCHANGED <<attempts, attempted>>
    BY <1>3 DEF Observe, Release, ReconcileClear, ReconcileRead, executor
  <2>2. \A k \in Callers : k # c => pc'[k] = pc[k] /\ prop'[k] = prop[k]
    BY <1>0, <1>3 DEF Observe, Release, ReconcileClear, ReconcileRead
  <2>3. /\ pc[c] \notin {"driving", "record"}
        /\ pc'[c] \notin {"approved", "driving", "record"}
    BY <1>0, <1>3 DEF Observe, Release, ReconcileClear, ReconcileRead
  <2>4. QED
    BY <2>1, <2>2, <2>3, <1>1
<1>4. ASSUME NEW c \in Callers, Decide(c) PROVE Once' /\ Unspent' /\ Counted'
  <2>1. /\ UNCHANGED <<attempts, attempted, prop>> /\ pc[c] = "observed"
        /\ \A k \in Callers : k # c => pc'[k] = pc[k]
    BY <1>0, <1>4 DEF Decide, executor
  <2>2. pc'[c] = "release" \/ (pc'[c] = "approved" /\ Approved(c))
    BY <1>0, <1>4, DecideMoves
  <2>3. pc'[c] = "approved" => prop[c] \notin attempted
    BY <1>0, <2>2, ApprovedMeans
  <2>4. QED
    BY <1>0, <2>1, <2>2, <2>3 DEF Once, Unspent, Counted
<1>5. ASSUME NEW c \in Callers, BeginInvoke(c)
      PROVE  Once' /\ Unspent' /\ Counted'
  <2>1. /\ UNCHANGED <<attempted, prop>> /\ pc[c] = "approved"
        /\ pc'[c] \in {"driving", "record"}
        /\ \A k \in Callers : k # c => pc'[k] = pc[k]
    BY <1>0, <1>5 DEF BeginInvoke, executor
  <2>2. prop[c] \in Proposals
    BY <1>0
  <2>3. CASE UNCHANGED attempts /\ pc'[c] = "record"
    BY <1>0, <2>1, <2>3 DEF Once, Unspent, Counted
  <2>4. CASE /\ attempts' = [attempts EXCEPT ![prop[c]] = @ + 1]
             /\ pc'[c] = "driving"
    <3>1. /\ attempts'[prop[c]] = attempts[prop[c]] + 1
          /\ \A p \in Proposals : p # prop[c] => attempts'[p] = attempts[p]
      BY <1>0, <2>2, <2>4
    <3>2. prop[c] \in NonIdempotent => attempts'[prop[c]] = 1
      BY <3>1, <2>1, ApprovedIsFirst
    <3>3. Once'
      BY <1>0, <2>1, <2>2, <2>4, <3>1, <3>2 DEF Once
    <3>4. Unspent' /\ Counted'
      BY <1>0, <2>1, <2>2, <3>1 DEF Unspent, Counted
    <3>5. QED
      BY <3>3, <3>4
  <2>5. QED
    BY <1>0, <1>5, <2>3, <2>4 DEF BeginInvoke
<1>6. ASSUME NEW c \in Callers, Drive(c) PROVE Once' /\ Unspent' /\ Counted'
  <2>1. /\ UNCHANGED <<attempts, attempted, prop>> /\ pc[c] = "driving"
        /\ pc'[c] = "record"
        /\ \A k \in Callers : k # c => pc'[k] = pc[k]
    BY <1>0, <1>6 DEF Drive, executor
  <2>2. QED
    BY <1>0, <2>1 DEF Once, Unspent, Counted
<1>7. ASSUME NEW c \in Callers, Record(c) PROVE Once' /\ Unspent' /\ Counted'
  <2>1. /\ UNCHANGED <<attempts, prop>> /\ pc[c] = "record"
        /\ pc'[c] = "release" /\ attempted' = attempted \cup Remembered(c)
        /\ \A k \in Callers : k # c => pc'[k] = pc[k]
    BY <1>0, <1>7 DEF Record
  <2>2. prop[c] \in NonIdempotent => prop[c] \in attempted'
    BY <2>1 DEF Remembered
  <2>3. Once' /\ Counted'
    BY <1>0, <2>1, <2>2 DEF Once, Counted
  <2>4. ASSUME NEW k \in Callers, pc'[k] = "approved", prop[k] \in NonIdempotent
        PROVE  prop[k] \notin attempted'
    <3>1. k # c /\ pc[k] = "approved"
      BY <2>1, <2>4
    <3>2. Holding(k) /\ Holding(c)
      BY <2>1, <3>1 DEF Discipline, Cleared, Holding
    <3>3. prop[k] # prop[c]
      BY <1>0, <3>1, <3>2, HoldersApart
    <3>4. QED
      BY <2>1, <2>4, <3>1, <3>3 DEF Remembered, Unspent
  <2>5. QED
    BY <2>1, <2>3, <2>4 DEF Unspent
<1>8. CASE Environment \/ UNCHANGED vars
  <2>1. UNCHANGED <<prop, pc, attempts, attempted>>
    BY <1>8 DEF Environment, SetEmergencyStop, SetExternalLock, InjectFault,
                InjectReadFault, ReadOperation, Disturb, call, executor, vars
  <2>2. QED
    BY <2>1 DEF Once, Unspent, Counted
<1>9. ASSUME NEW c \in Callers, Process(c) PROVE Once' /\ Unspent' /\ Counted'
  <2>1. CASE \E p \in Proposals, a \in Approvals : Reserve(c, p, a)
    BY <1>2, <2>1
  <2>2. QED
    BY <1>3, <1>4, <1>5, <1>6, <1>7, <1>9, <2>1 DEF Process
<1>10. ASSUME NEW c \in Callers, Reconcile(c)
       PROVE  Once' /\ Unspent' /\ Counted'
  BY <1>3, <1>10 DEF Reconcile
<1>11. QED
  <2>1. (\E c \in Callers : Process(c) \/ Reconcile(c))
        \/ Environment \/ UNCHANGED vars
    BY DEF Next
  <2>2. QED
    BY <1>8, <1>9, <1>10, <2>1

\* A non-idempotent proposal is invoked at most once, by any number of callers.
THEOREM AttemptedOnce == Spec => []AtMostOneAttempt
<1>1. Init => Discipline /\ Once /\ Unspent /\ Counted
  BY ProposalAssumption DEF Init, Discipline, ReservationsExact, Cleared,
     Holding, Once, Unspent, Counted
<1>2. Once => AtMostOneAttempt
  BY DEF Once, AtMostOneAttempt
<1>3. QED
  BY <1>1, <1>2, TypeCorrect, DisciplineInductive, OnceInductive, PTL DEF Spec

-----------------------------------------------------------------------------
(* The gate implements the abstract workcell.                              *)

LEMMA StepRefines ==
  TypeOK /\ Discipline /\ Decided /\ Once /\ Unspent /\ Counted /\ [Next]_vars
    => [W!Next]_(W!vars)
<1> SUFFICES ASSUME TypeOK, Discipline, Decided, Once, Unspent, Counted,
                    [Next]_vars
             PROVE  W!Next \/ UNCHANGED <<dev, attempts>>
  BY DEF W!vars
<1>0. /\ prop \in [Callers -> Proposals]
      /\ attempts \in [Proposals -> Nat]
      /\ dev \in [Devices -> Snapshot]
  BY DEF TypeOK
<1>1. ASSUME NEW c \in Callers, BeginInvoke(c)
      PROVE  W!Next \/ UNCHANGED <<dev, attempts>>
  <2>1. CASE UNCHANGED attempts
    BY <1>1, <2>1 DEF BeginInvoke, workcell
  <2>2. CASE attempts' = [attempts EXCEPT ![prop[c]] = @ + 1]
    <3>1. prop[c] \in Proposals /\ pc[c] = "approved" /\ UNCHANGED dev
      BY <1>0, <1>1 DEF BeginInvoke, workcell
    <3>2. Flaws[prop[c]] = {}
      BY <3>1 DEF Decided
    <3>3. prop[c] \in NonIdempotent => attempts[prop[c]] = 0
      BY <3>1, ApprovedIsFirst
    <3>4. W!Attempt(prop[c])
      BY <2>2, <3>1, <3>2, <3>3 DEF W!Attempt
    <3>5. QED
      BY <3>1, <3>4 DEF W!Next
  <2>3. QED
    BY <1>1, <2>1, <2>2 DEF BeginInvoke
<1>2. ASSUME NEW c \in Callers, Drive(c)
      PROVE  W!Next \/ UNCHANGED <<dev, attempts>>
  <2>1. prop[c] \in Proposals /\ pc[c] = "driving" /\ UNCHANGED attempts
    BY <1>0, <1>2 DEF Drive
  <2>2. CASE UNCHANGED dev
    BY <2>1, <2>2
  <2>3. CASE Write(prop[c])
    <3>1. /\ snap[c] = dev[Target[prop[c]]]
          /\ snap[c].rev = ExpectedRev[prop[c]]
          /\ snap[c].state \in RequiredState[prop[c]]
      BY <2>1 DEF Decided
    <3>2. attempts[prop[c]] > 0
      BY <2>1 DEF Counted
    <3>3. W!TakeEffect(prop[c])
      BY <2>1, <2>3, <3>1, <3>2 DEF W!TakeEffect, Write
    <3>4. QED
      BY <2>1, <3>3 DEF W!Next
  <2>4. QED
    BY <1>2, <2>2, <2>3 DEF Drive
<1>3. ASSUME NEW c \in Callers,
             \/ \E p \in Proposals, a \in Approvals : Reserve(c, p, a)
             \/ Observe(c) \/ Decide(c) \/ Record(c) \/ Release(c)
             \/ \E d \in Devices : ReconcileRead(c, d)
             \/ ReconcileClear(c)
      PROVE  UNCHANGED <<dev, attempts>>
  BY <1>3 DEF Reserve, Observe, Decide, Record, Release, ReconcileRead,
              ReconcileClear, workcell
<1>4. CASE Environment \/ UNCHANGED vars
  BY <1>4 DEF Environment, SetEmergencyStop, SetExternalLock, InjectFault,
              InjectReadFault, ReadOperation, Disturb, operator, vars
<1>5. ASSUME NEW c \in Callers, Process(c) \/ Reconcile(c)
      PROVE  W!Next \/ UNCHANGED <<dev, attempts>>
  <2>1. CASE \E p \in Proposals, a \in Approvals : Reserve(c, p, a)
    BY <1>3, <2>1
  <2>2. CASE BeginInvoke(c) \/ Drive(c)
    BY <1>1, <1>2, <2>2
  <2>3. CASE \/ Observe(c) \/ Decide(c) \/ Record(c) \/ Release(c)
             \/ Reconcile(c)
    BY <1>3, <2>3 DEF Reconcile
  <2>4. QED
    BY <1>5, <2>1, <2>2, <2>3 DEF Process
<1>6. QED
  BY <1>4, <1>5 DEF Next

\* Devices change only by admissible proposals, at the revision and in a state
\* they require, and a non-idempotent proposal reaches the adapter once.
THEOREM GateImplementsWorkcell == Spec => ImplementsWorkcell
<1>1. Init => /\ Discipline /\ FreshRead /\ Decided /\ Once /\ Unspent
              /\ Counted
  BY ProposalAssumption DEF Init, Discipline, ReservationsExact, Cleared,
     Holding, FreshRead, Decided, Once, Unspent, Counted
<1>2. Init => W!Init
  BY DEF Init, W!Init
<1>3. QED
  BY <1>1, <1>2, TypeCorrect, DisciplineInductive, FreshInductive,
     OnceInductive, StepRefines, PTL DEF Spec, ImplementsWorkcell, W!Spec

-----------------------------------------------------------------------------
(* A single caller: the unresolved marks are as good as the doubt itself.  *)

\* A device in doubt is marked, or about to be; a reconciling call has just
\* read its device; an approved call has a target that is not in doubt.
DoubtIsMarked ==
  /\ \A d \in doubt :
       \/ d \in unresolved
       \/ \E c \in Callers : /\ pc[c] = "record"
                             /\ outcome[c] = "outcome_unknown"
                             /\ Target[prop[c]] = d
  /\ \A c \in Callers : pc[c] = "clearing" => subject[c] \notin doubt
  /\ \A c \in Callers :
       pc[c] \in {"approved", "driving"} => Target[prop[c]] \notin doubt

LEMMA DoubtInductive ==
  ASSUME \A c, k \in Callers : c = k
  PROVE  TypeOK /\ DoubtIsMarked /\ [Next]_vars => DoubtIsMarked'
<1> SUFFICES ASSUME TypeOK, DoubtIsMarked, [Next]_vars PROVE DoubtIsMarked'
  OBVIOUS
<1> USE DEF DoubtIsMarked
<1>0. /\ pc \in [Callers -> Steps] /\ prop \in [Callers -> Proposals]
      /\ outcome \in [Callers -> Outcomes] /\ subject \in [Callers -> Devices]
  BY DEF TypeOK
<1>1. ASSUME NEW c \in Callers,
             \/ \E p \in Proposals, a \in Approvals : Reserve(c, p, a)
             \/ Observe(c) \/ Release(c)
      PROVE  DoubtIsMarked'
  <2>1. /\ pc[c] \in {"idle", "reserved", "release"}
        /\ pc'[c] \in {"idle", "reserved", "observed"}
        /\ UNCHANGED <<doubt, unresolved>>
    BY <1>0, <1>1 DEF Reserve, Observe, Release, executor
  <2>2. QED
    BY <2>1
<1>2. ASSUME NEW c \in Callers, Decide(c) PROVE DoubtIsMarked'
  <2>1. /\ pc[c] = "observed" /\ UNCHANGED <<doubt, unresolved, prop>>
    BY <1>0, <1>2 DEF Decide, executor
  <2>2. pc'[c] = "release" \/ (pc'[c] = "approved" /\ Approved(c))
    BY <1>0, <1>2, DecideMoves
  <2>3. pc'[c] = "approved" => Target[prop[c]] \notin unresolved
    BY <1>0, <2>2, ApprovedMeans
  <2>4. QED
    BY <2>1, <2>2, <2>3
<1>3. ASSUME NEW c \in Callers, BeginInvoke(c) PROVE DoubtIsMarked'
  <2>1. /\ pc[c] = "approved" /\ UNCHANGED <<doubt, unresolved, prop>>
        /\ pc'[c] \in {"record", "driving"}
    BY <1>0, <1>3 DEF BeginInvoke, executor
  <2>2. QED
    BY <2>1
<1>4. ASSUME NEW c \in Callers, Drive(c) PROVE DoubtIsMarked'
  <2>1. /\ pc[c] = "driving" /\ UNCHANGED <<unresolved, prop>>
        /\ pc'[c] = "record"
        /\ doubt' = IF outcome'[c] = "outcome_unknown"
                    THEN doubt \cup {Target[prop[c]]} ELSE doubt
    BY <1>0, <1>4 DEF Drive, executor
  <2>2. QED
    BY <2>1
<1>5. ASSUME NEW c \in Callers, Record(c) PROVE DoubtIsMarked'
  <2>1. /\ pc[c] = "record" /\ pc'[c] = "release" /\ UNCHANGED doubt
        /\ unresolved' = unresolved \cup Marked(c)
    BY <1>0, <1>5 DEF Record
  <2>2. QED
    BY <2>1 DEF Marked
<1>6. ASSUME NEW c \in Callers, NEW d \in Devices, ReconcileRead(c, d)
      PROVE  DoubtIsMarked'
  <2>1. CASE UNCHANGED <<pc, subject, doubt>>
    BY <1>6, <2>1 DEF ReconcileRead, executor
  <2>2. CASE /\ pc' = [pc EXCEPT ![c] = "clearing"]
             /\ subject' = [subject EXCEPT ![c] = d]
             /\ doubt' = doubt \ {d}
    <3>1. /\ pc'[c] = "clearing" /\ subject'[c] = d /\ UNCHANGED unresolved
          /\ pc[c] = "idle"
      BY <1>0, <1>6, <2>2 DEF ReconcileRead, executor
    <3>2. QED
      BY <2>2, <3>1
  <2>3. QED
    BY <1>6, <2>1, <2>2 DEF ReconcileRead
<1>7. ASSUME NEW c \in Callers, ReconcileClear(c) PROVE DoubtIsMarked'
  <2>1. /\ pc[c] = "clearing" /\ pc'[c] = "idle" /\ UNCHANGED doubt
        /\ unresolved' = unresolved \ {subject[c]}
    BY <1>0, <1>7 DEF ReconcileClear
  <2>2. QED
    BY <2>1
<1>8. CASE Environment \/ UNCHANGED vars
  <2>1. UNCHANGED <<prop, pc, outcome, subject, doubt, unresolved>>
    BY <1>8 DEF Environment, SetEmergencyStop, SetExternalLock, InjectFault,
                InjectReadFault, ReadOperation, Disturb, call, executor, vars
  <2>2. QED
    BY <2>1
<1>9. ASSUME NEW c \in Callers, Process(c) \/ Reconcile(c)
      PROVE  DoubtIsMarked'
  <2>1. CASE \/ \E p \in Proposals, a \in Approvals : Reserve(c, p, a)
             \/ Observe(c) \/ Release(c)
    BY <1>1, <2>1
  <2>2. CASE Decide(c) \/ BeginInvoke(c) \/ Drive(c) \/ Record(c)
    BY <1>2, <1>3, <1>4, <1>5, <2>2
  <2>3. CASE Reconcile(c)
    BY <1>6, <1>7, <2>3 DEF Reconcile
  <2>4. QED
    BY <1>9, <2>1, <2>2, <2>3 DEF Process
<1>10. QED
  BY <1>8, <1>9 DEF Next

\* With one caller, no write starts on a device whose last outcome is unknown
\* and unread.
THEOREM SerialDoubt ==
  ASSUME \A c, k \in Callers : c = k
  PROVE  Spec => []DoubtBlocksTarget
<1>1. Init => DoubtIsMarked
  BY DEF Init, DoubtIsMarked
<1>2. DoubtIsMarked => DoubtBlocksTarget
  BY DEF DoubtIsMarked, DoubtBlocksTarget
<1>3. TypeOK /\ DoubtIsMarked /\ [Next]_vars => DoubtIsMarked'
  BY DoubtInductive
<1>4. QED
  BY <1>1, <1>2, <1>3, TypeCorrect, PTL DEF Spec
=============================================================================
