SPECIFICATION Spec
CONSTANTS
  axis = axis
  gripper = gripper
  move = move
  grip = grip
  pulse = pulse
  press = press
  Callers = {c1, c2}
  Devices <- MCDevices
  States <- MCStates
  InitialState = "rest"
  Proposals <- MCProposals
  Target <- MCTarget
  Operations <- MCProposals
  Operation <- MCOperation
  Depends <- MCDepends
  ExpectedRev <- MCExpectedRev
  RequiredState <- MCRequiredState
  Effect <- MCEffect
  NonIdempotent <- MCNonIdempotent
  NeedsApproval <- MCNeedsApproval
  Flaws <- MCNoFlaws
  Approvals = {"none", "valid"}
  MaxDisturbances = 1
SYMMETRY MCCallers
INVARIANT DoubtBlocksTarget
