----------------------------- MODULE MCRobotGate -----------------------------
(***************************************************************************)
(* A two-device workcell for RobotGate: a non-idempotent move of the axis  *)
(* that depends on the gripper, two writes of the gripper for its first    *)
(* revision (grip moves it, the non-idempotent pulse leaves its state) and *)
(* a press for the second one that requires the gripper to have moved.     *)
(***************************************************************************)
EXTENDS RobotGate, TLC

CONSTANTS axis, gripper, move, grip, pulse, press

MCCallers == Permutations(Callers)
MCDevices == {axis, gripper}
MCProposals == {move, grip, pulse, press}
MCStates == {"rest", "moved"}

MCTarget == [p \in MCProposals |-> IF p = move THEN axis ELSE gripper]
MCOperation == [p \in MCProposals |-> p]
MCDepends == [p \in MCProposals |-> IF p = move THEN {gripper} ELSE {}]
MCExpectedRev == [p \in MCProposals |-> IF p = press THEN 1 ELSE 0]
MCRequiredState == [p \in MCProposals |-> IF p = press THEN {"moved"}
                                          ELSE MCStates]
MCEffect == [p \in MCProposals |->
              [s \in MCStates |-> IF p = pulse THEN s ELSE "moved"]]
MCNonIdempotent == {move, pulse}
MCNeedsApproval == {move}
MCNoFlaws == [p \in MCProposals |-> {}]
MCTaintedPulse == [p \in MCProposals |-> IF p = pulse THEN {"tainted_evidence"}
                                         ELSE {}]
=============================================================================
