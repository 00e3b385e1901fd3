--------------------------- MODULE MCStoreRefresh ---------------------------
(* Constants for model-checking StoreRefresh: a document that is deleted,    *)
(* written again with the text of the other, and annotated; another that is  *)
(* edited to the text of the first, deleted and written again.               *)
EXTENDS StoreRefresh

CONSTANTS a, b, x, y, r1

MCDocs == {a, b}
MCTexts == {x, y}
MCText == [d \in MCDocs |->
             [v \in 0..3 |-> IF d = a THEN CASE v = 0 -> x [] v = 1 -> None [] OTHER -> y
                             ELSE CASE v = 0 -> y [] v = 2 -> None [] OTHER -> x]]
MCOne == {r1}
MCNone == {}
MCLate == {"late"}
MCMixed == {"mixed"}
=============================================================================
