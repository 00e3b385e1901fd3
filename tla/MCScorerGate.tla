---------------------------- MODULE MCScorerGate ----------------------------
(* Constants for model-checking ScorerGate: four rows, the second without an *)
(* answer, the last without a span.                                          *)
EXTENDS ScorerGate

MCBlank == {2}
MCUngrounded == {4}
MCTuning == {1}
MCNoFaults == {}
MCPartial == {"partial"}
=============================================================================
