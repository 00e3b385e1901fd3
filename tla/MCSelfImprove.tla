--------------------------- MODULE MCSelfImprove ---------------------------
(* Constants for model-checking SelfImprove: a loop of two rounds, and an   *)
(* adapter trained by hand or the entry of a campaign beside it.            *)
EXTENDS SelfImprove

CONSTANTS loop, entry, hand

MCNone == {}
MCLoop == {loop}
MCEntry == {entry}
MCHand == {hand}
=============================================================================
