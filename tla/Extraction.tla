----------------------------- MODULE Extraction -----------------------------
(***************************************************************************)
(* What drafting under a frontier budget promises of a corpus, with no     *)
(* thread, queue, journal or cost log in sight.  A process works off all   *)
(* windows before it drafts: each is answered and kept, by it or by an     *)
(* earlier process, or given up.  A kept window is not asked for again, no *)
(* window by two threads at once, and once the budget has stopped one call *)
(* none is made and nothing is written as complete.                        *)
(* OntologyDraft is shown to implement this specification.                 *)
(***************************************************************************)
EXTENDS Naturals

CONSTANTS Windows,   \* windows of the corpus
          MaxCalls,  \* the calls of one process
          MaxCost,   \* the money of one process
          Dearest    \* the highest cost of one call

VARIABLES phase,   \* "down", "extract", "draft" or "write"
          kept,    \* windows whose answer survives the process
          asking,  \* windows that a thread has in hand
          left,    \* windows that the process has not worked off
          calls,   \* calls it has made
          cost,    \* what it was charged
          halted   \* the budget has stopped it

vars == <<phase, kept, asking, left, calls, cost, halted>>

Init ==
  /\ phase = "down" /\ kept = {} /\ asking = {} /\ left = Windows
  /\ calls = 0 /\ cost = 0 /\ halted = FALSE

\* A fresh process drops what was kept, a resumed one goes on from it.
Start(windows) ==
  /\ phase = "down"
  /\ phase' = "extract" /\ kept' = windows
  /\ UNCHANGED <<asking, left, calls, cost, halted>>

Reuse(w) ==
  /\ phase = "extract" /\ w \in left \cap kept
  /\ left' = left \ {w}
  /\ UNCHANGED <<phase, kept, asking, calls, cost, halted>>

Ask(w) ==
  /\ phase = "extract" /\ w \in left \ (kept \cup asking)
  /\ asking' = asking \cup {w}
  /\ UNCHANGED <<phase, kept, left, calls, cost, halted>>

Keep(w) ==
  /\ phase = "extract" /\ w \in asking
  /\ kept' = kept \cup {w}
  /\ asking' = asking \ {w} /\ left' = left \ {w}
  /\ UNCHANGED <<phase, calls, cost, halted>>

\* The next call for a window in hand, or for a draft.
Call ==
  /\ \/ phase = "extract" /\ asking # {}
     \/ phase = "draft"
  /\ ~ halted /\ calls < MaxCalls /\ cost < MaxCost
  /\ calls' = calls + 1
  /\ UNCHANGED <<phase, kept, asking, left, cost, halted>>

\* A call was refused, failed or was charged: a window may be given up, and past
\* the cap everything stops.
Settle(price, given) ==
  /\ phase \in {"extract", "draft"}
  /\ cost' = cost + price
  /\ halted' \in {halted, TRUE} /\ (cost' > MaxCost => halted')
  /\ asking' = asking \ given /\ left' = left \ given
  /\ UNCHANGED <<phase, kept, calls>>

Draft ==
  /\ phase = "extract" /\ left = {} /\ ~ halted
  /\ phase' = "draft"
  /\ UNCHANGED <<kept, asking, left, calls, cost, halted>>

Complete ==
  /\ phase = "draft" /\ ~ halted /\ cost <= MaxCost
  /\ phase' = "write"
  /\ UNCHANGED <<kept, asking, left, calls, cost, halted>>

\* A process ends, or is killed: what was kept is all that remains.
Stop ==
  /\ phase # "down"
  /\ phase' = "down" /\ asking' = {} /\ left' = Windows
  /\ calls' = 0 /\ cost' = 0 /\ halted' = FALSE
  /\ UNCHANGED kept

Next ==
  \/ \E windows \in {{}, kept} : Start(windows)
  \/ \E w \in Windows : Reuse(w) \/ Ask(w) \/ Keep(w)
  \/ Call
  \/ \E price \in 0..Dearest :
       Settle(price, {}) \/ \E w \in asking : Settle(price, {w})
  \/ Draft \/ Complete \/ Stop

Spec == Init /\ [][Next]_vars
=============================================================================
