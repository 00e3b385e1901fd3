---------------------------- MODULE MCDurableRun ----------------------------
(* Constants for model-checking DurableRun.                                *)
EXTENDS DurableRun

CONSTANTS c1, c2
MCConfigs == {c1, c2}
MCTear == {"tear"}
MCFinalize == {"finalize"}
=============================================================================
