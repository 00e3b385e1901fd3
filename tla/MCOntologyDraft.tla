--------------------------- MODULE MCOntologyDraft ---------------------------
(* Constants for model-checking OntologyDraft.                             *)
EXTENDS OntologyDraft

CONSTANTS w1, w2
MCWorkers == {w1, w2}
MCEnds == {3, 4}
=============================================================================
